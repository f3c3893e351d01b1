------------------------------ MODULE UsbIpWire ------------------------------
(***************************************************************************)
(* The USB/IP conversation as a stream of fields.  USB/IP has no message   *)
(* lengths: each side computes from the fields it has read how many follow,*)
(* so one message written longer or shorter than it is read shifts all the *)
(* later ones.  Writers (to_bytes, to_socket and the transfer operators)   *)
(* and readers (from_socket) are therefore modelled separately.  A cell of *)
(* a stream is a field [f, n, v]: name, width in bytes, value; payload is  *)
(* one cell per byte.  The client's half is the kernel's vhci, as the      *)
(* comments of protocol.cpp and the client code of protocol.cpp use it.    *)
(***************************************************************************)
EXTENDS Integers, Sequences, FiniteSets, SequencesExt

CONSTANTS
    WireUrbs,        \* URBs of the client: [in, ep0, len, packets], packets being the
                     \* lengths of the iso packets and <<>> for other transfers
    WireDevices,     \* interface counts of the devices the server lists
    MaxBuffer,       \* USBIPDCPP_MAX_TRANSFER_BUFFER_SIZE
    MaxIsoPackets,   \* USBIPDCPP_MAX_ISO_PACKETS
    NonIso,          \* 0xFFFFFFFF, "not isochronous" in number_of_packets
    MaxWireCmds      \* bound: commands in a session

ASSUME UsbIpWireAssumption ==
    /\ {MaxBuffer, MaxIsoPackets, NonIso, MaxWireCmds} \subseteq Nat
    /\ NonIso > MaxIsoPackets
    /\ WireUrbs \subseteq [in : BOOLEAN, ep0 : BOOLEAN, len : Nat, packets : Seq(Nat)]
    /\ \A urb \in WireUrbs : Len(urb.packets) < NonIso
    /\ WireDevices \in Seq(0..255)      \* bNumInterfaces is a byte

VARIABLES
    wop,             \* "generic" or "libusb": the transfer operator of the device
    wphase,          \* "op", "listed", "refused", "urb" or "closed"
    to_server, to_client,
    asked,           \* client: the URBs and unlinks sent, by seqnum
    waiting,         \* server: the seqnums whose transfer the handler holds
    heap,            \* server: the seqnums whose transfer handle is allocated
    filled,          \* history: bytes per packet the device delivered, by seqnum
    got         \* client: what it got for each seqnum answered

wireVars == <<wop, wphase, to_server, to_client, asked, waiting, heap, filled, got>>

Cell(f, n, v) == [f |-> f, n |-> n, v |-> v]
Is(cell, f, n) == cell.f = f /\ cell.n = n
\* A reader that expects the fields fs, of the widths ns, finds them.
Finds(stream, fs, ns) ==
    Len(stream) >= Len(fs) /\ \A i \in DOMAIN fs : Is(stream[i], fs[i], ns[i])
Drop(stream, n) == SubSeq(stream, n + 1, Len(stream))
\* The sum of the first n elements
SumTo(s, n) ==
    LET sum[i \in 0..n] == IF i = 0 THEN 0 ELSE sum[i - 1] + s[i]
    IN  sum[n]

WireInit ==
    /\ wop \in {"generic", "libusb"} /\ wphase = "op"
    /\ to_server = <<>> /\ to_client = <<>> /\ asked = <<>>
    /\ waiting = {} /\ heap = {} /\ filled = <<>> /\ got = <<>>

------------------------------------------------------------------------------
(* OP_REQ_DEVLIST and OP_REQ_IMPORT.                                         *)

Versioned(v, op) == <<Cell("version", 2, v), Cell("op", 2, op), Cell("status", 4, 0)>>
BusId == Cell("busid", 32, 0)

\* The client asks once; version 0 is accepted as well, any other is not.
ClientOp(v, op) ==
    /\ wphase = "op" /\ asked = <<>> /\ to_server = <<>>
    /\ to_server' = Versioned(v, op) \o (IF op = "import" THEN <<BusId>> ELSE <<>>)
    /\ UNCHANGED <<wop, wphase, to_client, asked, waiting, heap, filled, got>>

\* UsbDevice::to_bytes: 312 bytes, the last of them the interface count.
DeviceBytes(count) == <<Cell("path", 256, 0), BusId, Cell("numbers", 12, 0),
                        Cell("ids", 6, 0), Cell("class", 5, 0), Cell("interfaces", 1, count)>>
InterfaceBytes(count) == [i \in 1..count |-> Cell("interface", 4, 0)]

\* Mutant: the interfaces are sent with an imported device, too.
RepImportInterfaces(ok) == Versioned(273, "import") \o
    IF ok THEN DeviceBytes(WireDevices[1]) \o InterfaceBytes(WireDevices[1]) ELSE <<>>

\* OpRepImport: the device follows a status of 0 only, without its interfaces.
OpRepImport(ok) == Versioned(273, "import") \o
    IF ok THEN DeviceBytes(WireDevices[1]) ELSE <<>>

OpRepDevlist == Versioned(273, "devlist") \o <<Cell("count", 4, Len(WireDevices))>> \o
    FlattenSeq([d \in DOMAIN WireDevices |->
                   DeviceBytes(WireDevices[d]) \o InterfaceBytes(WireDevices[d])])

\* get_op_from_socket, and the answer parse_op writes.
ServerOp(ok) ==
    /\ wphase = "op" /\ to_server # <<>> /\ (ok => WireDevices # <<>>)
    /\ LET op == to_server[2].v
           known == to_server[1].v \in {0, 273} /\ op \in {"devlist", "import"}
           size == 3 + (IF op = "import" THEN 1 ELSE 0)
       IN  /\ wphase' = CASE ~known -> "closed"
                          [] known /\ op = "devlist" -> "listed"
                          [] known /\ op = "import" -> IF ok THEN "urb" ELSE "refused"
           /\ to_server' = IF known THEN Drop(to_server, size) ELSE <<>>
           /\ to_client' = CASE ~known -> <<>>
                             [] known /\ op = "devlist" -> OpRepDevlist
                             [] known /\ op = "import" -> OpRepImport(ok)
    /\ UNCHANGED <<wop, asked, waiting, heap, filled, got>>

\* What the client reads: UsbDevice::from_socket, then as many interfaces as
\* OpRepDevlist::from_socket was told of, or none after OP_REP_IMPORT.
ReadsDevice(stream, interfaces) ==
    LET fs == <<"path", "busid", "numbers", "ids", "class", "interfaces">>
        ns == <<256, 32, 12, 6, 5, 1>>
        k == IF interfaces /\ Finds(stream, fs, ns) THEN stream[6].v ELSE 0
    IN  [ok |-> /\ Finds(stream, fs, ns)
                /\ Len(stream) >= 6 + k /\ \A i \in 7..6 + k : Is(stream[i], "interface", 4),
         rest |-> Drop(stream, 6 + k)]

\* count devices, one after the other
ReadsDevices(stream, count) ==
    LET read[n \in 0..count] ==
            IF n = 0 THEN [ok |-> TRUE, rest |-> stream]
            ELSE LET d == ReadsDevice(read[n - 1].rest, TRUE)
                 IN  [ok |-> read[n - 1].ok /\ d.ok, rest |-> d.rest]
    IN  read[count]

ReadsOpReply ==
    LET body == Drop(to_client, 3)
        list == ReadsDevices(Tail(body), Head(body).v)
    IN  CASE wphase = "listed" -> [ok |-> Is(Head(body), "count", 4) /\ list.ok, rest |-> list.rest]
          [] wphase = "urb" -> ReadsDevice(body, FALSE)
          [] wphase = "refused" -> [ok |-> TRUE, rest |-> body]

AtOpReply == to_client # <<>> /\ Is(Head(to_client), "version", 2)

ClientReadsOp ==
    /\ AtOpReply /\ ReadsOpReply.ok
    /\ to_client' = ReadsOpReply.rest
    /\ UNCHANGED <<wop, wphase, to_server, asked, waiting, heap, filled, got>>

------------------------------------------------------------------------------
(* CMD_SUBMIT and CMD_UNLINK.                                                *)

Iso(urb) == urb.packets # <<>>
WirePackets(urb) == IF Iso(urb) THEN Len(urb.packets) ELSE NonIso
\* UsbIpIsoPacketDescriptor: offset, length, actual_length, status in 16 bytes.
IsoDesc(offset, length, actual) ==
    Cell("iso", 16, [offset |-> offset, length |-> length, actual |-> actual])
Payload(bytes) == [i \in DOMAIN bytes |-> Cell("data", 1, bytes[i])]

\* UsbIpCmdSubmit::to_socket: 48 bytes, the data of an OUT transfer, the
\* descriptors of its packets.
CmdSubmit(s, urb) ==
    <<Cell("command", 4, "submit"), Cell("seqnum", 4, s), Cell("devid", 4, 0),
      Cell("direction", 4, urb.in), Cell("ep", 4, IF urb.ep0 THEN 0 ELSE 1),
      Cell("transfer_flags", 4, 0), Cell("transfer_buffer_length", 4, urb.len),
      Cell("start_frame", 4, 0), Cell("number_of_packets", 4, WirePackets(urb)),
      Cell("interval", 4, 0), Cell("setup", 8, 0)>>
    \o (IF urb.in THEN <<>> ELSE Payload([i \in 1..urb.len |-> <<s, i>>]))
    \o [i \in DOMAIN urb.packets |-> IsoDesc(SumTo(urb.packets, i - 1), urb.packets[i],
                                             IF urb.in THEN 0 ELSE urb.packets[i])]

ClientReady == wphase = "urb" /\ Len(asked) < MaxWireCmds /\ ~ AtOpReply

\* vhci sends packets that fit in the buffer; LibusbTransferOperator makes sure.
ClientSubmits(urb) ==
    /\ ClientReady /\ (wop = "libusb" \/ SumTo(urb.packets, Len(urb.packets)) <= urb.len)
    /\ to_server' = to_server \o CmdSubmit(Len(asked) + 1, urb)
    /\ asked' = Append(asked, urb) /\ filled' = Append(filled, <<>>)
    /\ got' = Append(got, <<>>)
    /\ UNCHANGED <<wop, wphase, to_client, waiting, heap>>

\* UsbIpCmdUnlink::to_bytes.
CmdUnlink(n, s) ==
    <<Cell("command", 4, "unlink"), Cell("seqnum", 4, n), Cell("devid", 4, 0),
      Cell("direction", 4, 0), Cell("ep", 4, 0), Cell("unlink_seqnum", 4, s), Cell("padding", 24, 0)>>

ClientUnlinks(s) ==
    /\ ClientReady /\ s \in DOMAIN asked /\ got[s] = <<>> /\ "in" \in DOMAIN asked[s]
    /\ to_server' = to_server \o CmdUnlink(Len(asked) + 1, s)
    /\ asked' = Append(asked, [unlink |-> s]) /\ filled' = Append(filled, <<>>)
    /\ got' = Append(got, <<>>)
    /\ UNCHANGED <<wop, wphase, to_client, waiting, heap>>

SubmitFields == <<"command", "seqnum", "devid", "direction", "ep", "transfer_flags",
                  "transfer_buffer_length", "start_frame", "number_of_packets", "interval", "setup">>
SubmitWidths == <<4, 4, 4, 4, 4, 4, 4, 4, 4, 4, 8>>
UnlinkFields == <<"command", "seqnum", "devid", "direction", "ep", "unlink_seqnum", "padding">>
UnlinkWidths == <<4, 4, 4, 4, 4, 4, 24>>

\* The checks of UsbIpCmdSubmit::from_socket on the fixed fields.
TooLarge(length, np) == length > MaxBuffer \/ (np # NonIso /\ np > MaxIsoPackets)

\* The data and the descriptors that recv_transfer_data goes on to read.
OutLength(in, length) == IF in THEN 0 ELSE length
NumIso(np) == IF np \in {0, NonIso} THEN 0 ELSE np
ReadsSubmit(stream) ==
    LET length == stream[7].v
        data == OutLength(stream[4].v, length)
        np == NumIso(stream[9].v)
    IN  [ok |-> /\ Len(stream) >= 11 + data + np
                /\ \A i \in 12..11 + data : Is(stream[i], "data", 1)
                /\ \A i \in 12 + data..11 + data + np : Is(stream[i], "iso", 16),
         descs |-> [i \in 1..np |-> stream[11 + data + i].v],
         rest |-> Drop(stream, 11 + data + np)]

\* LibusbTransferOperator refuses descriptors that would leave the buffer.
DescsFit(descs, length) ==
    LET lengths == [i \in DOMAIN descs |-> descs[i].length]
    IN  /\ \A i \in DOMAIN descs : descs[i].actual <= descs[i].length
        /\ SumTo(lengths, Len(lengths)) <= length

\* The session ends: whatever handles are left go with it.
Closes == /\ wphase' = "closed" /\ to_server' = <<>> /\ to_client' = <<>>
          /\ waiting' = {} /\ UNCHANGED <<wop, asked, filled, got>>

\* Mutant: the handle of the refused command is forgotten.
RefuseLeaks(s) == Closes /\ heap' = {s}

\* An exception of from_socket: TransferHandle's destructor frees the handle
\* the command has got; the handler's own are freed by its disconnection.
Refuse(s) == Closes /\ heap' = {}

AtSubmit == to_server # <<>> /\ Finds(to_server, SubmitFields, SubmitWidths)
                             /\ to_server[1].v = "submit"

\* get_cmd_from_socket: CMD_SUBMIT read whole, and given to the handler.
ServerReadsSubmit ==
    /\ wphase = "urb" /\ AtSubmit /\ ~ TooLarge(to_server[7].v, to_server[9].v)
    /\ LET s == to_server[2].v
           cmd == ReadsSubmit(to_server)
       IN  /\ cmd.ok /\ (wop = "libusb" => DescsFit(cmd.descs, to_server[7].v))
           /\ to_server' = cmd.rest
           /\ waiting' = waiting \cup {s} /\ heap' = heap \cup {s}
    /\ UNCHANGED <<wop, wphase, to_client, asked, filled, got>>

\* The refusals: limits, no memory, descriptors that do not fit.
ServerRefuses ==
    /\ wphase = "urb" /\ AtSubmit
    /\ \/ TooLarge(to_server[7].v, to_server[9].v)
       \/ ReadsSubmit(to_server).ok /\ wop = "libusb"
          /\ ~ DescsFit(ReadsSubmit(to_server).descs, to_server[7].v)
    /\ Refuse(to_server[2].v)

AllocFails == wphase = "urb" /\ AtSubmit /\ Refuse(to_server[2].v)

\* UsbIpRetUnlink::to_bytes
RetUnlinked(n, status) ==
    <<Cell("command", 4, "unlink"), Cell("seqnum", 4, n), Cell("devid", 4, 0), Cell("direction", 4, 0),
      Cell("ep", 4, 0), Cell("status", 4, status), Cell("padding", 24, 0)>>

\* A handler that still holds the URB gives it up.
ServerReadsUnlink ==
    /\ wphase = "urb" /\ to_server # <<>>
    /\ Finds(to_server, UnlinkFields, UnlinkWidths) /\ to_server[1].v = "unlink"
    /\ LET s == to_server[6].v
       IN  /\ waiting' = waiting \ {s} /\ heap' = heap \ {s}
           /\ to_client' = to_client \o RetUnlinked(to_server[2].v, IF s \in waiting THEN -104 ELSE 0)
    /\ to_server' = Drop(to_server, Len(UnlinkFields))
    /\ UNCHANGED <<wop, wphase, asked, filled, got>>

------------------------------------------------------------------------------
(* RET_SUBMIT.                                                               *)

\* The buffer the device has filled: packet i at its offset, actual[i] bytes
\* of it new.
DeviceBuffer(s, actual) ==
    LET urb == asked[s]
        slots == IF Iso(urb) THEN urb.packets ELSE <<urb.len>>
    IN  FlattenSeq([i \in DOMAIN slots |->
                       [k \in 1..slots[i] |-> IF k <= actual[i] THEN <<s, i, k>> ELSE <<s, 0, 0>>]])

\* Mutant: the offset of a packet advances by what it holds, not by its slot.
SlotOffsetPacked(lengths, actual, i) == SumTo(actual, i - 1)

\* Where send_transfer_data finds packet i: its descriptor's offset, which
\* LibusbTransferOperator recomputes from the lengths.
SlotOffset(lengths, actual, i) == SumTo(lengths, i - 1)

\* send_transfer_data: the data, packet after packet, then the descriptors.
SendTransferData(s, length, actual) ==
    LET urb == asked[s]
        buffer == DeviceBuffer(s, actual)
        packet(i) == LET o == SlotOffset(urb.packets, actual, i) IN SubSeq(buffer, o + 1, o + actual[i])
    IN  IF ~ Iso(urb) THEN Payload(SubSeq(buffer, 1, length))
        ELSE (IF length > 0 THEN Payload(FlattenSeq([i \in DOMAIN urb.packets |-> packet(i)]))
                            ELSE <<>>)
             \o [i \in DOMAIN urb.packets |->
                    IsoDesc(SlotOffset(urb.packets, actual, i), urb.packets[i], actual[i])]

\* The condition of UsbIpRetSubmit::to_socket for sending the transfer.
HasTransferStage(length, np) == length > 0 \/ np > 0

\* UsbIpRetSubmit::to_socket: 48 bytes, then the data of an IN transfer only.
RetSubmit(s, status, length, np, transfer, actual) ==
    <<Cell("command", 4, "submit"), Cell("seqnum", 4, s), Cell("devid", 4, 0),
      Cell("direction", 4, 0), Cell("ep", 4, 0), Cell("status", 4, status),
      Cell("actual_length", 4, length), Cell("start_frame", 4, 0),
      Cell("number_of_packets", 4, np), Cell("error_count", 4, 0), Cell("padding", 8, 0)>>
    \o IF transfer /\ HasTransferStage(length, np)
       THEN SendTransferData(s, IF asked[s].in THEN length ELSE 0, actual) ELSE <<>>

Answers(s, status, length, np, transfer, actual) ==
    /\ to_client' = to_client \o RetSubmit(s, status, length, np, transfer, actual)
    /\ filled' = [filled EXCEPT ![s] = actual]
    /\ waiting' = waiting \ {s} /\ heap' = heap \ {s}
    /\ UNCHANGED <<wop, wphase, to_server, asked, got>>

\* The transfer is done; actual says how much each packet holds.  Only IN and
\* isochronous answers carry the transfer (create_ret_submit); the others are
\* create_ret_submit_with_status_and_no_data.
ServerAnswers(s, actual) ==
    /\ wphase = "urb" /\ s \in waiting
    /\ LET urb == asked[s]
       IN  /\ \A i \in DOMAIN actual : actual[i] <= IF Iso(urb) THEN urb.packets[i] ELSE urb.len
           /\ Answers(s, 0, SumTo(actual, Len(actual)), Len(urb.packets), urb.in \/ Iso(urb), actual)

\* create_ret_submit_epipe_without_data: header only, no packets.
ServerStalls(s) ==
    /\ wphase = "urb" /\ s \in waiting /\ Answers(s, -32, 0, 0, FALSE, <<>>)

RetFields == <<"command", "seqnum", "devid", "direction", "ep", "status", "actual_length",
               "start_frame", "number_of_packets", "error_count", "padding">>
RetWidths == <<4, 4, 4, 4, 4, 4, 4, 4, 4, 4, 8>>
RetUnlinkFields == <<"command", "seqnum", "devid", "direction", "ep", "status", "padding">>

\* vhci: the data of an IN URB it knows by its seqnum, then the descriptors.
ReadsRetSubmit(stream) ==
    LET s == stream[2].v
        data == IF asked[s].in THEN stream[7].v ELSE 0
        np == stream[9].v
    IN  [ok |-> /\ Len(stream) >= 11 + data + np
                /\ \A i \in 12..11 + data : Is(stream[i], "data", 1)
                /\ \A i \in 12 + data..11 + data + np : Is(stream[i], "iso", 16),
         data |-> [i \in 1..data |-> stream[11 + i].v],
         descs |-> [i \in 1..np |-> stream[11 + data + i].v],
         rest |-> Drop(stream, 11 + data + np)]

\* usbip_pad_iso: the packed bytes are moved to the packets' own places.
IsoSlots(ret) ==
    IF ret.descs = <<>> THEN <<ret.data>>
    ELSE IF ret.data = <<>> THEN [i \in DOMAIN ret.descs |-> <<>>]
    ELSE LET lengths == [i \in DOMAIN ret.descs |-> ret.descs[i].actual]
         IN  [i \in DOMAIN ret.descs |->
                 SubSeq(ret.data, SumTo(lengths, i - 1) + 1, SumTo(lengths, i))]

AtRetSubmit == to_client # <<>> /\ Finds(to_client, RetFields, RetWidths)
               /\ to_client[1].v = "submit" /\ ReadsRetSubmit(to_client).ok
AtRetUnlink == to_client # <<>> /\ Finds(to_client, RetUnlinkFields, UnlinkWidths)
               /\ to_client[1].v = "unlink"

ClientReadsSubmit ==
    /\ AtRetSubmit
    /\ LET ret == ReadsRetSubmit(to_client)
       IN  /\ to_client' = ret.rest
           /\ got' = [got EXCEPT ![to_client[2].v] = IsoSlots(ret)]
    /\ UNCHANGED <<wop, wphase, to_server, asked, waiting, heap, filled>>

ClientReadsUnlink ==
    /\ AtRetUnlink
    /\ to_client' = Drop(to_client, Len(RetUnlinkFields))
    /\ got' = [got EXCEPT ![to_client[2].v] = <<to_client[6].v>>]
    /\ UNCHANGED <<wop, wphase, to_server, asked, waiting, heap, filled>>

\* How much a transfer's packets may hold when it is done
Fills(urb) == [IF Iso(urb) THEN DOMAIN urb.packets ELSE {1} -> 0..urb.len]

WireNext ==
    \/ \E v \in {0, 1, 273}, op \in {"devlist", "import", "other"} : ClientOp(v, op)
    \/ \E ok \in BOOLEAN : ServerOp(ok)
    \/ ClientReadsOp
    \/ \E urb \in WireUrbs : ClientSubmits(urb)
    \/ \E s \in 1..MaxWireCmds : ClientUnlinks(s)
    \/ ServerReadsSubmit \/ ServerRefuses \/ AllocFails \/ ServerReadsUnlink
    \/ \E s \in waiting : \E actual \in Fills(asked[s]) : ServerAnswers(s, actual)
    \/ \E s \in waiting : ServerStalls(s)
    \/ ClientReadsSubmit \/ ClientReadsUnlink

WireSpec == WireInit /\ [][WireNext]_wireVars

------------------------------------------------------------------------------

\* The streams hold fields; the server holds only URBs of this client.
WireTypeOK ==
    /\ wphase \in {"op", "listed", "refused", "urb", "closed"}
    /\ \A i \in DOMAIN to_server : DOMAIN to_server[i] = {"f", "n", "v"}
    /\ \A i \in DOMAIN to_client : DOMAIN to_client[i] = {"f", "n", "v"}
    /\ waiting \subseteq DOMAIN asked /\ Len(got) = Len(asked)

\* Neither reader ever meets a field it does not expect: what is next in a
\* stream is a message of the layout the reader derives from its first fields,
\* so the two sides of the connection never lose step, whatever was refused
\* as short, stalled, isochronous, empty or cancelled before.
InSync ==
    /\ (to_server # <<>> /\ wphase = "urb") =>
         \/ AtSubmit /\ (TooLarge(to_server[7].v, to_server[9].v) \/ ReadsSubmit(to_server).ok)
         \/ Finds(to_server, UnlinkFields, UnlinkWidths) /\ to_server[1].v = "unlink"
    /\ to_client # <<>> =>
         \/ AtOpReply /\ ReadsOpReply.ok
         \/ AtRetSubmit \/ AtRetUnlink

\* What the client finds in each packet of an IN URB is what the device put
\* there, also when packets are short and the bytes travel without the gaps.
HostGetsDeviceData ==
    \A s \in DOMAIN asked :
        (got[s] # <<>> /\ "in" \in DOMAIN asked[s] /\ asked[s].in /\ filled[s] # <<>>) =>
            got[s] = [i \in DOMAIN filled[s] |-> [k \in 1..filled[s][i] |-> <<s, i, k>>]]

\* Every allocated transfer handle is held by the handler: none is leaked by a
\* refused command, an unlink or an answer, none is used after it was freed.
HandlesOwned == heap = waiting
==============================================================================
