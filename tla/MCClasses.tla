------------------------------ MODULE MCClasses ------------------------------
(***************************************************************************)
(* The device classes of virtual devices, their descriptors, the wire       *)
(* format and the containers, side by side: the first state says which one  *)
(* runs, and the others stay as they were constructed.                      *)
(***************************************************************************)
EXTENDS MscBulkOnly, NetworkControl, NetworkData, UvcStreaming, UacStreaming, SerialPort,
        UsbIpWire, Containers, Enumeration

VARIABLE class

classesVars == <<class, mscVars, netVars, dataVars, uvcVars, uacVars, acmVars, wireVars,
                 containerVars, enumVars>>

\* RNDIS transfers: one packet; two; one too short to hold a frame before a
\* good one; a message that is no packet; one that runs past the transfer.
Packet24(length, data) == [packet |-> TRUE, length |-> length, offset |-> 24, data |-> data]
NetTransfers ==
    { [size |-> 38, messages |-> <<Packet24(38, 14)>>, frames |-> <<1>>],
      [size |-> 84, messages |-> <<Packet24(40, 16), Packet24(44, 20)>>, frames |-> <<1, 2>>],
      [size |-> 72, messages |-> <<Packet24(32, 8), Packet24(40, 16)>>, frames |-> <<2>>],
      [size |-> 80, messages |-> <<[Packet24(40, 16) EXCEPT !.packet = FALSE], Packet24(40, 16)>>,
       frames |-> <<>>],
      [size |-> 60, messages |-> <<Packet24(40, 16), Packet24(44, 20)>>, frames |-> <<1>>] }

\* Isochronous URBs of the camera: three packets of unequal room, and one
Urbs == {<<4, 1, 3>>, <<3>>}

\* URBs a client may send: isochronous both ways, control both ways, and two
\* that are refused (by libusb, and for their size).
WireUrb(in, ep0, len, packets) == [in |-> in, ep0 |-> ep0, len |-> len, packets |-> packets]
ClientUrbs ==
    { WireUrb(TRUE, FALSE, 3, <<2, 1>>), WireUrb(FALSE, FALSE, 3, <<1, 2>>),
      WireUrb(TRUE, TRUE, 2, <<>>), WireUrb(FALSE, TRUE, 2, <<>>),
      WireUrb(TRUE, FALSE, 1, <<1, 1>>), WireUrb(FALSE, FALSE, 4, <<>>) }
\* Two exported devices, by their numbers of interfaces
ExportedDevices == <<2, 0>>

ClassesInit ==
    /\ class \in {"storage", "net_control", "net_data", "video", "audio", "serial", "wire",
                  "container", "descriptors"}
    /\ MscInit /\ NetInit /\ DataInit /\ UvcInit /\ UacInit /\ AcmInit /\ WireInit
    /\ ContainerInit /\ EnumInit
    /\ class = "storage" \/ (read_only = FALSE /\ io = "staging")
    /\ class = "net_control" \/ net_kind = "rndis"
    /\ class = "net_data" \/ (data_kind = "rndis" /\ net_backend = TRUE)
    /\ class = "audio" \/ (uac_kind = "mic" /\ sample_rate = 3)
    /\ class = "wire" \/ wop = "generic"
    /\ class = "container" \/ container = "ring"

ClassesNext ==
    \/ /\ class = "storage" /\ MscNext
       /\ UNCHANGED <<class, netVars, dataVars, uvcVars, uacVars, acmVars, wireVars, containerVars, enumVars>>
    \/ /\ class = "net_control" /\ NetNext
       /\ UNCHANGED <<class, mscVars, dataVars, uvcVars, uacVars, acmVars, wireVars, containerVars, enumVars>>
    \/ /\ class = "net_data" /\ DataNext
       /\ UNCHANGED <<class, mscVars, netVars, uvcVars, uacVars, acmVars, wireVars, containerVars, enumVars>>
    \/ /\ class = "video" /\ UvcNext
       /\ UNCHANGED <<class, mscVars, netVars, dataVars, uacVars, acmVars, wireVars, containerVars, enumVars>>
    \/ /\ class = "audio" /\ UacNext
       /\ UNCHANGED <<class, mscVars, netVars, dataVars, uvcVars, acmVars, wireVars, containerVars, enumVars>>
    \/ /\ class = "serial" /\ AcmNext
       /\ UNCHANGED <<class, mscVars, netVars, dataVars, uvcVars, uacVars, wireVars, containerVars, enumVars>>
    \/ /\ class = "wire" /\ WireNext
       /\ UNCHANGED <<class, mscVars, netVars, dataVars, uvcVars, uacVars, acmVars, containerVars, enumVars>>
    \/ /\ class = "container" /\ ContainerNext
       /\ UNCHANGED <<class, mscVars, netVars, dataVars, uvcVars, uacVars, acmVars, wireVars, enumVars>>
    \/ /\ class = "descriptors" /\ EnumNext
       /\ UNCHANGED <<class, mscVars, netVars, dataVars, uvcVars, uacVars, acmVars, wireVars, containerVars>>

ClassesSpec == ClassesInit /\ [][ClassesNext]_classesVars

------------------------------------------------------------------------------
(* Properties.  Each gathers what the modules say of one class of device.    *)

ClassesTypeOK ==
    /\ MscTypeOK /\ NetTypeOK /\ DataTypeOK /\ UvcTypeOK /\ UacTypeOK /\ AcmTypeOK
    /\ WireTypeOK /\ EnumTypeOK

\* Mass storage: the image is what the host wrote and a read returns it, every
\* command ends in its status, and neither the staging buffer nor the splice
\* pipe is used for a second transfer before the sender is done with the first.
StorageCorrect ==
    /\ DiskIsWhatHostWrote /\ ReadReturnsDisk /\ StatusForEveryCommand
    /\ StagingOutlivesSender /\ PipeHasOneUser

\* Network adapters and the serial port: a queued response is announced and is
\* of this session, frames and bytes reach the device once and in order, an OUT
\* transfer is answered or waits, no packet is sent that ends in a zero-length
\* one, and the port's lines are what the host set.
NetworkCorrect ==
    /\ ResponseAnnounced /\ NoStaleResponse /\ FramesReachDevice /\ OutAnsweredOrWaiting
    /\ NoZeroLengthPacket /\ PortAgrees /\ OutDataOnce

\* Camera, microphone and speaker: frames arrive whole and no faster than
\* agreed, the samples sent keep the rate exactly, the source is heard without
\* a gap, and the recorded file can be played.
StreamingCorrect == FramesWhole /\ FramePaced /\ RateExact /\ SourceContinuous /\ WavPlayable

\* USB/IP has no lengths of its own: both sides read exactly what the other
\* wrote, the data that the device filled in reaches the host where it belongs,
\* and the transfer handles have one owner.
WireInSync == InSync /\ HostGetsDeviceData /\ HandlesOwned
==============================================================================
