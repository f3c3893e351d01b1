----------------------------- MODULE Enumeration -----------------------------
(***************************************************************************)
(* The descriptors of a virtual device.  A program puts functions together *)
(* (camera, microphone, speaker, serial port, network cards, HID), each    *)
(* with its interfaces, at whatever interface numbers are free; the host   *)
(* reads the descriptors and finds its way by lengths and references.      *)
(*                                                                         *)
(* A descriptor is [type, bLength, size, info]: size is what append_to     *)
(* appends, the sum of its fields; bLength is what it says of itself, one  *)
(* byte; info is what refers to other descriptors.                         *)
(***************************************************************************)
EXTENDS Integers, Sequences, FiniteSets, SequencesExt, TLC

CONSTANTS
    DeviceFunctions,       \* the kinds of function a device may be made of
    Channels,         \* audio channels
    RateCount,        \* number of sample rates a source or sink offers
    VideoFormats,     \* among "uncompressed", "mjpeg", "frame_based", "h264"
    ReportSize,       \* bytes of the HID report descriptor
    TextLengths,      \* characters of a string
    MaxFunctions      \* bound: functions of a device

ASSUME EnumerationAssumption ==
    /\ {Channels, RateCount, ReportSize, MaxFunctions} \subseteq Nat
    /\ RateCount <= 82 /\ TextLengths \subseteq 0..126    \* see the README: bLength is a byte
    /\ VideoFormats \subseteq {"uncompressed", "mjpeg", "frame_based", "h264"}

VARIABLES
    interfaces,    \* of the device: [number, kind, alts, iad, string, peer]
    texts,         \* the string pool: length of the text by index
    device_texts,  \* string indexes of the device handler, <<>> while there is none
    next_number,   \* the interface number the program uses next
    nfunctions,
    learned,       \* host: wTotalLength, from the first 9 bytes
    config,        \* host: the configuration it has read
    answer         \* host: the other descriptor it has read last

enumVars == <<interfaces, texts, device_texts, next_number, nfunctions, learned, config, answer>>

Total(ns) == FoldSeq(+, 0, ns)
None == [none |-> TRUE]
Desc(type, bLength, fields, info) ==
    [type |-> type, bLength |-> bLength % 256, size |-> Total(fields), info |-> info]
Bytes(descs) == FoldSeq(LAMBDA d, n : n + d.size, 0, descs)

------------------------------------------------------------------------------
(* Standard descriptors.                                                     *)

ConfigHeader(total, count) ==
    Desc("config", 9, <<1, 1, 2, 1, 1, 1, 1, 1>>, [total |-> total % 65536, count |-> count % 256])
InterfaceAssociation(first, iad) ==
    Desc("iad", 8, <<1, 1, 1, 1, 1, 1, 1, 1>>, [first |-> first, count |-> iad.count, string |-> iad.string])
InterfaceDesc(intf, alt, eps) ==
    Desc("interface", 9, <<1, 1, 1, 1, 1, 1, 1, 1, 1>>,
         [number |-> intf.number, alt |-> alt, endpoints |-> Len(eps), string |-> intf.string])
EndpointDesc(ep) == Desc("endpoint", 7, <<1, 1, 1, 1, 2, 1>>, [address |-> ep.address])
VcInterruptEndpoint == Desc("cs_endpoint", 5, <<1, 1, 1, 2>>, None)
AsEpGeneral == Desc("cs_endpoint", 7, <<1, 1, 1, 1, 1, 2>>, None)

DeviceDesc == Desc("device", 18, <<1, 1, 2, 1, 1, 1, 1, 2, 2, 2, 1, 1, 1, 1>>, None)
DeviceQualifier == Desc("qualifier", 10, [i \in 1..10 |-> 1], None)
Bos == <<Desc("bos", 5, <<1, 1, 2, 1>>, [total |-> 12]), Desc("capability", 7, <<1, 1, 1, 4>>, None)>>
\* String index 0: the language; else bLength, type and two bytes for a character.
StringDesc(i) == IF i = 0 THEN Desc("string", 4, <<1, 1, 2>>, None)
                 ELSE Desc("string", 2 * (texts[i] + 1), <<1, 1, 2 * texts[i]>>, None)
\* Microsoft OS 1.0: the signature string and the Compatible ID, whose dwLength
\* is the constant 40.
MsOsString == Desc("string", 18, <<1, 1, 14, 1, 1>>, None)
MsOsCompatId == <<Desc("ms_os", 40, <<4, 2, 2, 1, 7>>, None), Desc("ms_os", 24, <<1, 1, 8, 8, 6>>, None)>>

------------------------------------------------------------------------------
(* Class-specific descriptors of an interface.                               *)

\* A header's wTotalLength is filled in once the rest is there.
Backfilled(descs) == [descs EXCEPT ![1].info.total = Bytes(descs) % 65536]
Cs(bLength, fields, info) == Desc("cs_interface", bLength, fields, info)

VcHeader(peer) == Cs(13, <<1, 1, 1, 2, 2, 4, 1, 1>>, [total |-> 0, peer |-> peer])
VcCameraTerminal(id) == Cs(18, <<1, 1, 1, 1, 2, 1, 1, 2, 2, 2, 1, 3>>, [id |-> id])
VcProcessingUnit(id, source) == Cs(13, <<1, 1, 1, 1, 1, 2, 1, 3, 1, 1>>, [id |-> id, source |-> source])
VcOutputTerminal(id, source) ==
    Cs(9, <<1, 1, 1, 1, 2, 1, 1, 1>>, [id |-> id, source |-> source, usb |-> TRUE])

\* Mutant: the header names interface 1, as in a device that is a camera only.
VideoControlAlone(intf) ==
    Backfilled(<<VcHeader(1), VcCameraTerminal(1), VcProcessingUnit(2, 1), VcOutputTerminal(3, 2)>>)

VideoControl(intf) ==
    Backfilled(<<VcHeader(intf.peer), VcCameraTerminal(1), VcProcessingUnit(2, 1), VcOutputTerminal(3, 2)>>)

\* A format is an array of its own length that carries that length; so is a
\* frame: 26 bytes, 44 for H.264, and three intervals.
FormatDesc(format) ==
    LET length == CASE format = "uncompressed" -> 27 [] format = "mjpeg" -> 11
                    [] format = "frame_based" -> 28 [] format = "h264" -> 52
    IN  Cs(length, <<length>>, None)
FrameDesc(format) ==
    LET base == IF format = "h264" THEN 44 ELSE 26
    IN  Cs(base + 12, <<base, 4, 4, 4>>, None)
ColorMatching(format) ==
    IF format \in {"uncompressed", "mjpeg"} THEN <<Cs(6, <<1, 1, 1, 1, 1, 1>>, None)>> ELSE <<>>

\* The endpoint of alternate setting 1, else of 0, else 0x81
StreamEndpoint(intf) ==
    IF Len(intf.alts) > 1 /\ intf.alts[2] # <<>> THEN intf.alts[2][1].address
    ELSE IF Len(intf.alts) > 0 /\ intf.alts[1] # <<>> THEN intf.alts[1][1].address ELSE 129

VsInputHeader(address) == Cs(14, <<1, 1, 1, 1, 2, 1, 1, 1, 1, 1, 1, 1, 1>>,
                             [total |-> 0, address |-> address, link |-> 3])
VideoStreaming(intf, format) == Backfilled(
    <<VsInputHeader(StreamEndpoint(intf)), FormatDesc(format), FrameDesc(format)>> \o ColorMatching(format))

AcHeader(peer) == Cs(9, <<1, 1, 1, 2, 2, 1, 1>>, [total |-> 0, peer |-> peer])
AcInputTerminal(id, usb) == Cs(12, <<1, 1, 1, 1, 2, 1, 1, 2, 1, 1>>, [id |-> id, usb |-> usb])
AcFeatureUnit(id, source) ==
    Cs(7 + Channels + 1, <<1, 1, 1, 1, 1, 1, Channels + 1, 1>>, [id |-> id, source |-> source])
AcOutputTerminal(id, source, usb) ==
    Cs(9, <<1, 1, 1, 1, 2, 1, 1, 1>>, [id |-> id, source |-> source, usb |-> usb])

\* A speaker's data come from USB through the input terminal, a microphone's
\* leave by the output terminal.
AudioControl(intf) == Backfilled(
    <<AcHeader(intf.peer), AcInputTerminal(1, intf.kind = "speaker_control"), AcFeatureUnit(2, 1),
      AcOutputTerminal(3, 2, intf.kind = "mic_control")>>)

AsGeneral(link) == Cs(7, <<1, 1, 1, 1, 1, 2>>, [link |-> link])
AsFormatTypeI == Cs(8 + 3 * RateCount, <<1, 1, 1, 1, 1, 1, 1, 1, 3 * RateCount>>, None)
MicStreaming == <<AsGeneral(3), AsFormatTypeI>>
SpeakerStreaming == <<AsGeneral(1), AsFormatTypeI>>

CdcHeader == Cs(5, <<1, 1, 1, 2>>, None)
CallManagement(intf) == Cs(5, <<1, 1, 1, 1, 1>>, [peer |-> intf.peer])
AcmFunctional == Cs(4, <<1, 1, 1, 1>>, None)
UnionFunctional(intf) == Cs(5, <<1, 1, 1, 1, 1>>, [own |-> intf.number, peer |-> intf.peer])
EthernetFunctional(mac) == Cs(13, <<1, 1, 1, 1, 4, 2, 2, 1>>, [string |-> mac])

\* get_class_specific_descriptor of ACM and RNDIS, and of ECM
AcmDescriptors(intf) == <<CdcHeader, CallManagement(intf), AcmFunctional, UnionFunctional(intf)>>
EcmDescriptors(intf) == <<CdcHeader, UnionFunctional(intf), EthernetFunctional(intf.mac)>>
HidDescriptors == <<Desc("hid", 9, [i \in 1..9 |-> 1], [report |-> ReportSize % 65536])>>

\* Without a handler, and for the data interfaces, there are none.
ClassDescriptors(intf) ==
    CASE intf.kind = "video_control"  -> VideoControl(intf)
      [] intf.kind = "video_stream"   -> VideoStreaming(intf, intf.format)
      [] intf.kind \in {"mic_control", "speaker_control"} -> AudioControl(intf)
      [] intf.kind = "mic_stream"     -> MicStreaming
      [] intf.kind = "speaker_stream" -> SpeakerStreaming
      [] intf.kind = "acm"            -> AcmDescriptors(intf)
      [] intf.kind = "ecm"            -> EcmDescriptors(intf)
      [] intf.kind = "hid"            -> HidDescriptors
      [] OTHER                        -> <<>>

------------------------------------------------------------------------------
(* get_configuration_descriptor.                                             *)

\* Endpoints, with the class-specific ones of video control and audio streams
EndpointDescs(intf, ep) ==
    <<EndpointDesc(ep)>>
    \o (IF intf.kind = "video_control" /\ ep.type = "interrupt" THEN <<VcInterruptEndpoint>> ELSE <<>>)
    \o (IF intf.kind \in {"mic_stream", "speaker_stream"} /\ ep.type = "iso" THEN <<AsEpGeneral>> ELSE <<>>)

\* Class-specific descriptors come with alternate setting 0; those of audio
\* streams with every one.
AltDescs(intf, alt) ==
    LET eps == IF intf.alts = <<>> THEN <<>> ELSE intf.alts[alt + 1]
        all == intf.kind \in {"mic_stream", "speaker_stream"}
    IN  <<InterfaceDesc(intf, alt, eps)>>
        \o (IF alt = 0 \/ all THEN ClassDescriptors(intf) ELSE <<>>)
        \o FlattenSeq([i \in DOMAIN eps |-> EndpointDescs(intf, eps[i])])

InterfaceDescs(intf) ==
    (IF intf.iad.count > 0 THEN <<InterfaceAssociation(intf.number, intf.iad)>> ELSE <<>>)
    \o FlattenSeq([a \in 1..(IF intf.alts = <<>> THEN 1 ELSE Len(intf.alts)) |-> AltDescs(intf, a - 1)])

GetConfigurationDescriptor ==
    LET descs == <<ConfigHeader(0, Len(interfaces))>>
                 \o FlattenSeq([i \in DOMAIN interfaces |-> InterfaceDescs(interfaces[i])])
    IN  Backfilled(descs)

------------------------------------------------------------------------------
(* Putting a device together.                                                *)

\* StringPool::new_string: the lowest free index
NewString(pool, length) ==
    LET i == CHOOSE n \in 1..255 : n \notin DOMAIN pool /\ \A k \in 1..n - 1 : k \in DOMAIN pool
    IN  [index |-> i, pool |-> [j \in DOMAIN pool \cup {i} |-> IF j = i THEN length ELSE pool[j]]]

NoIad == [count |-> 0, string |-> 0]
Endpoint(number, type) == [address |-> 128 + number, type |-> type]

\* The two interfaces of a function, at numbers n and n + 1.  The video stream
\* shares the string of its control interface; the IAD of a CDC function has no
\* string.
TwoInterfaces(f, n, s1, mac, s2, format) ==
    LET control == [number |-> n, peer |-> n + 1, string |-> s1, format |-> format, mac |-> mac,
                    iad |-> [count |-> 2, string |-> IF f \in {"acm", "ecm"} THEN 0 ELSE s1],
                    alts |-> <<<<Endpoint(n, "interrupt")>>>>]
        data == [number |-> n + 1, peer |-> n, string |-> s2, format |-> format, mac |-> 0, iad |-> NoIad,
                 alts |-> <<<<>>, <<Endpoint(n + 1, "iso")>>>>]
    IN  CASE f = "camera" -> <<("kind" :> "video_control") @@ control,
                               ("kind" :> "video_stream") @@ [data EXCEPT !.string = s1]>>
          [] f = "microphone" -> <<("kind" :> "mic_control") @@ control, ("kind" :> "mic_stream") @@ data>>
          [] f = "speaker" -> <<("kind" :> "speaker_control") @@ control, ("kind" :> "speaker_stream") @@ data>>
          [] OTHER -> <<("kind" :> f) @@ control,
                        ("kind" :> "data") @@ [data EXCEPT !.alts = <<<<Endpoint(n + 1, "bulk")>>>>]>>

\* A HID interface, or one without a handler and endpoints
OneInterface(f, n, s) ==
    [kind |-> f, number |-> n, peer |-> 0, format |-> "none", mac |-> 0, iad |-> NoIad,
     string |-> IF f = "hid" THEN s ELSE 0,
     alts |-> IF f = "hid" THEN <<<<Endpoint(n, "interrupt")>>>> ELSE <<>>]

\* VirtualDeviceHandler's constructor takes three strings, once.
DeviceStrings(pool, length) ==
    LET c == NewString(pool, length)  m == NewString(c.pool, length)  p == NewString(m.pool, length)
    IN  IF device_texts # <<>> THEN [indexes |-> device_texts, pool |-> pool]
        ELSE [indexes |-> <<c.index, m.index, p.index>>, pool |-> p.pool]

\* UvcDeviceHelper::setup, UacDeviceHelper::setup_*, make_interface and
\* with_handler: handlers take a string each (ECM one more, for its address),
\* then the device handler, unless an earlier function brought it.
AddFunction(f, gap, length, format) ==
    /\ learned = 0 /\ config = <<>> /\ nfunctions < MaxFunctions
    /\ f # "camera" => format = "uncompressed"
    /\ LET n == next_number + gap
           two == f \in {"camera", "microphone", "speaker", "acm", "ecm"}
           s1 == NewString(texts, length)
           mac == IF f = "ecm" THEN NewString(s1.pool, length) ELSE s1
           s2 == IF two THEN NewString(mac.pool, length) ELSE s1
           dev == DeviceStrings(IF f = "bare" THEN texts ELSE s2.pool, length)
       IN  /\ interfaces' = interfaces \o (IF two THEN TwoInterfaces(f, n, s1.index, mac.index, s2.index, format)
                                           ELSE <<OneInterface(f, n, s1.index)>>)
           /\ next_number' = n + (IF two THEN 2 ELSE 1)
           /\ texts' = dev.pool /\ device_texts' = dev.indexes
    /\ nfunctions' = nfunctions + 1 /\ UNCHANGED <<learned, config, answer>>

------------------------------------------------------------------------------
(* The host enumerates.  request_get_descriptor cuts to the length asked.    *)

\* 9 bytes of the configuration, for its wTotalLength
ReadConfigHeader ==
    /\ interfaces # <<>> /\ learned = 0
    /\ learned' = GetConfigurationDescriptor[1].info.total
    /\ UNCHANGED <<interfaces, texts, device_texts, next_number, nfunctions, config, answer>>

\* Prefix of the descriptors that fits in the length asked for
Cut(descs, length) ==
    SelectInSeq([i \in 1..Len(descs) + 1 |-> Bytes(SubSeq(descs, 1, i - 1))], LAMBDA n : n > length)

ReadConfiguration ==
    /\ learned # 0 /\ config = <<>>
    /\ LET descs == GetConfigurationDescriptor
           cut == Cut(descs, learned)
       IN  config' = IF cut = 0 THEN descs ELSE SubSeq(descs, 1, cut - 2)
    /\ UNCHANGED <<interfaces, texts, device_texts, next_number, nfunctions, learned, answer>>

\* Device, qualifier, BOS, OS string and compatible identifier, any string; the
\* other-speed configuration is the configuration under another type.
ReadOther(type, i) ==
    /\ config # <<>>
    /\ answer' = CASE type = "device" -> <<DeviceDesc>> [] type = "qualifier" -> <<DeviceQualifier>>
                   [] type = "bos" -> Bos [] type = "ms_os" -> MsOsCompatId
                   [] type = "ms_os_string" -> <<MsOsString>>
                   [] type = "string" -> <<StringDesc(i)>>
                   [] type = "other_speed" -> [GetConfigurationDescriptor EXCEPT ![1].type = "other_speed"]
    /\ UNCHANGED <<interfaces, texts, device_texts, next_number, nfunctions, learned, config>>

------------------------------------------------------------------------------
EnumInit ==
    /\ interfaces = <<>> /\ texts = <<>> /\ device_texts = <<>> /\ next_number = 0 /\ nfunctions = 0
    /\ learned = 0 /\ config = <<>> /\ answer = <<>>

EnumNext ==
    \/ \E f \in DeviceFunctions, gap \in 0..1, length \in TextLengths, format \in VideoFormats :
           AddFunction(f, gap, length, format)
    \/ ReadConfigHeader \/ ReadConfiguration
    \/ \E i \in DOMAIN texts \cup {0} : ReadOther("string", i)
    \/ \E type \in {"device", "qualifier", "bos", "ms_os", "ms_os_string", "other_speed"} : ReadOther(type, 0)

EnumSpec == EnumInit /\ [][EnumNext]_enumVars

------------------------------------------------------------------------------
(* Properties.                                                               *)

EnumTypeOK ==
    /\ nfunctions \in 0..MaxFunctions /\ learned \in Nat
    /\ DOMAIN texts \subseteq 1..255 /\ Len(device_texts) \in {0, 3}

\* The descriptors from an interface descriptor to the next (IAD or interface)
Section(i) ==
    LET ends == {j \in i + 1..Len(config) : config[j].type \in {"interface", "iad"}}
    IN  {j \in i + 1..Len(config) : \A e \in ends : j < e}
Has(i, f) == f \in DOMAIN config[i].info
InterfaceDescriptors == {i \in DOMAIN config : config[i].type = "interface"}
Numbers == {config[i].info.number : i \in InterfaceDescriptors}
\* The numbers of the function an interface belongs to, by its IAD
Group(n) == UNION {LET a == config[i].info IN IF n \in a.first..a.first + a.count - 1
                                              THEN a.first..a.first + a.count - 1 ELSE {}
                   : i \in {j \in DOMAIN config : config[j].type = "iad"}}
\* The terminals and units that the function of interface n declares
Entities(n) == UNION {{config[j] : j \in {k \in Section(i) : Has(k, "id")}}
                      : i \in {k \in InterfaceDescriptors : config[k].info.number \in Group(n)}}

\* The host reads the whole configuration and never loses step: it arrives
\* complete, each descriptor is as long as it says, the totals are the sums,
\* and an interface has the endpoints it announces.
LengthsAddUp ==
    /\ \A i \in DOMAIN config : config[i].bLength = config[i].size
    /\ config # <<>> => /\ Bytes(config) = config[1].info.total
                        /\ config = GetConfigurationDescriptor
    /\ \A i \in InterfaceDescriptors :
          /\ Cardinality({j \in Section(i) : config[j].type = "endpoint"}) = config[i].info.endpoints
          /\ \A h \in {j \in Section(i) : Has(j, "total")} :
                config[h].info.total =
                    Total([j \in 1..Len(config) |-> IF j \in Section(i) /\ config[j].type = "cs_interface"
                                                    THEN config[j].size ELSE 0])
    /\ answer # <<>> =>
          /\ \A i \in DOMAIN answer : answer[i].type # "ms_os" => answer[i].bLength = answer[i].size
          /\ answer[1].type = "bos" => Bytes(answer) = answer[1].info.total
          /\ answer[1].type = "ms_os" => Bytes(answer) = answer[1].bLength

\* What descriptors refer to exists, wherever in a composite device a function
\* sits: interface numbers belong to the same function, terminals and units are
\* connected to ones it declares, a stream to the terminal on the USB side, an
\* endpoint and a string to one of the device.
ReferencesResolve ==
    /\ config # <<>> => Cardinality(Numbers) = config[1].info.count
    /\ \A i \in DOMAIN config : config[i].type = "iad" =>
          /\ config[i].info.first..config[i].info.first + config[i].info.count - 1 \subseteq Numbers
          /\ config[i + 1].type = "interface" /\ config[i + 1].info.number = config[i].info.first
    /\ \A i \in DOMAIN config : Has(i, "string") => config[i].info.string \in DOMAIN texts \cup {0}
    /\ \A i \in InterfaceDescriptors : LET n == config[i].info.number IN \A j \in Section(i) :
          /\ Has(j, "peer") => config[j].info.peer \in Group(n) \ {n}
          /\ Has(j, "own") => config[j].info.own = n
          /\ Has(j, "source") => \E e \in Entities(n) : e.info.id = config[j].info.source
          /\ Has(j, "link") => \E e \in Entities(n) : e.info.id = config[j].info.link
                                                      /\ "usb" \in DOMAIN e.info /\ e.info.usb
          /\ (Has(j, "address") /\ config[j].type = "cs_interface") =>
                \E k \in DOMAIN config : config[k].type = "endpoint"
                                         /\ config[k].info.address = config[j].info.address

DescriptorsConsistent == LengthsAddUp /\ ReferencesResolve
==============================================================================
