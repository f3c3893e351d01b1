----------------------------- MODULE NetworkData -----------------------------
(***************************************************************************)
(* The data interfaces of RNDIS and ECM: Ethernet frames from the host     *)
(* reach the network back end, or a subclass that may take them later.     *)
(* The session's receiver runs the handlers; the thread of the subclass    *)
(* that takes frames runs beside it.                                       *)
(***************************************************************************)
EXTENDS Naturals, Sequences, FiniteSets, SequencesExt

CONSTANTS
    OutTransfers,   \* bulk OUT transfers of the host: [size, messages, frames], in RNDIS
                    \* framing, and which messages carry a frame that can be trusted
    MaxNetOuts,     \* bound: bulk OUT transfers in a connection
    MaxDataConns    \* bound: connections

ASSUME NetworkDataAssumption == {MaxNetOuts, MaxDataConns} \subseteq Nat

VARIABLES
    data_kind, net_backend, \* "rndis" or "ecm"; is there a NetworkBackend
    data_up,
    out_channel,     \* OUT transfers that wait to be taken
    delivered,       \* history: of each OUT transfer, the frames the device was given
    acked,           \* history: OUT transfers answered
    outs,            \* history: OUT transfers of this connection
    ndconn

dataVars == <<data_kind, net_backend, data_up, out_channel, delivered, acked, outs, ndconn>>

DataInit ==
    /\ data_kind \in {"rndis", "ecm"} /\ net_backend \in BOOLEAN /\ data_up = FALSE
    /\ out_channel = <<>> /\ delivered = <<>> /\ acked = {} /\ outs = <<>> /\ ndconn = 0

DataConnect ==
    /\ ~data_up /\ ndconn < MaxDataConns
    /\ data_up' = TRUE /\ ndconn' = ndconn + 1
    /\ outs' = <<>> /\ acked' = {} /\ delivered' = <<>>
    /\ UNCHANGED <<data_kind, net_backend, out_channel>>

\* Mutant: requests of the old client stay in the OUT channel.
DisconnectKeepsOut ==
    /\ data_up /\ data_up' = FALSE
    /\ UNCHANGED <<data_kind, net_backend, out_channel, delivered, acked, outs, ndconn>>

\* on_disconnection: the channels are cleared.
DataDisconnect ==
    /\ data_up /\ data_up' = FALSE /\ out_channel' = <<>>
    /\ UNCHANGED <<data_kind, net_backend, delivered, acked, outs, ndconn>>

------------------------------------------------------------------------------
(* Frames from the host.                                                     *)

HostHeader == 24  \* RNDIS_HOST_HEADER_LEN
EthHeader == 14

\* Where message i of a transfer begins
Position(t, i) == FoldFunctionOnSet(LAMBDA m, acc : m.length + acc, 0, t.messages, 1..i - 1)

MessageOk(t, i) ==
    /\ Position(t, i) + HostHeader <= t.size
    /\ t.messages[i].length >= HostHeader /\ Position(t, i) + t.messages[i].length <= t.size
    /\ t.messages[i].packet
    /\ Position(t, i) + t.messages[i].offset + t.messages[i].data <= t.size

\* Mutant: the messages after a bad one are looked at.
UnwrapAll(t) == SelectSeq([i \in DOMAIN t.messages |-> i],
                          LAMBDA i : MessageOk(t, i) /\ t.messages[i].data >= EthHeader)

\* unwrap_rndis_packets: message by message up to the first that is not well
\* formed; a frame shorter than its header is left out.
UnwrapRndisPackets(t) ==
    SelectSeq([i \in DOMAIN t.messages |-> i],
              LAMBDA i : (\A j \in 1..i : MessageOk(t, j)) /\ t.messages[i].data >= EthHeader)

\* The frames an OUT transfer carries; ECM has one, the transfer itself.
Frames(t) == IF data_kind = "rndis" THEN UnwrapRndisPackets(t) ELSE <<1>>

\* A transfer of the host, of which the frames fs reach the device at once
OutTransfer(t, fs) ==
    /\ data_up /\ Len(outs) < MaxNetOuts
    /\ outs' = Append(outs, t) /\ delivered' = Append(delivered, fs)

\* Bulk OUT with a back end: every frame goes to it, the URB is answered.
OutToBackend(t) ==
    /\ net_backend /\ OutTransfer(t, Frames(t))
    /\ acked' = acked \cup {Len(outs) + 1}
    /\ UNCHANGED <<out_channel, data_kind, net_backend, data_up, ndconn>>

\* Without one the subclass is asked for each frame; it takes k of them.  If
\* it refuses one, or there is none, the transfer waits in the OUT channel.
OutToSubclass(t, k) ==
    LET fs == Frames(t)
    IN  /\ ~net_backend /\ k \in 0..Len(fs) /\ OutTransfer(t, SubSeq(fs, 1, k))
        /\ IF fs # <<>> /\ k = Len(fs)
           THEN acked' = acked \cup {Len(outs) + 1} /\ UNCHANGED out_channel
           ELSE out_channel' = Append(out_channel, Len(outs) + 1) /\ UNCHANGED acked
        /\ UNCHANGED <<data_kind, net_backend, data_up, ndconn>>

\* take_frame, try_take_frame: the raw transfer, and its answer.
TakeFrame ==
    /\ out_channel # <<>>
    /\ LET n == Head(out_channel)
       IN  /\ out_channel' = Tail(out_channel) /\ acked' = acked \cup {n}
           /\ delivered' = [delivered EXCEPT ![n] = @ \o Frames(outs[n])]
    /\ UNCHANGED <<outs, data_kind, net_backend, data_up, ndconn>>

------------------------------------------------------------------------------
(* Frames to the host.                                                       *)

DeviceHeader == 44
MaxPacket == 64

\* Mutant: no padding.
WrapUnpadded(size) == DeviceHeader + size

\* wrap_rndis_packet: the length of the message; one byte more when a
\* zero-length packet would have to follow.
WrapRndisPacket(size) ==
    DeviceHeader + size + IF (DeviceHeader + size) % MaxPacket = 0 THEN 1 ELSE 0

------------------------------------------------------------------------------

DataNext ==
    \/ DataConnect \/ DataDisconnect \/ TakeFrame
    \/ \E t \in OutTransfers : OutToBackend(t) \/ \E k \in 0..2 : OutToSubclass(t, k)

DataSpec == DataInit /\ [][DataNext]_dataVars

------------------------------------------------------------------------------
(* Properties.                                                               *)

DataTypeOK ==
    /\ ToSet(out_channel) \subseteq DOMAIN outs /\ acked \subseteq DOMAIN outs
    /\ DOMAIN delivered = DOMAIN outs /\ \A n \in DOMAIN delivered : delivered[n] \in Seq(Nat \ {0})

\* The frames the host sent in an answered transfer reach the device, all of
\* them, in order and nothing else: what stands behind a broken message is not
\* taken for a frame.  A subclass that refuses a frame sees those before it a
\* second time, in the raw transfer it takes later.
FramesReachDevice ==
    \A n \in acked :
        LET sent == IF data_kind = "rndis" THEN outs[n].frames ELSE <<1>>
        IN  \E k \in 0..Len(sent) : delivered[n] = SubSeq(sent, 1, k) \o sent

\* Every OUT transfer is answered, or waits to be taken: none is lost, none
\* answered and taken again.
OutAnsweredOrWaiting ==
    data_up => /\ acked \cup ToSet(out_channel) = DOMAIN outs
              /\ acked \cap ToSet(out_channel) = {}

\* RNDIS allows no zero-length packet, so no message may end on a packet
\* boundary; the padding is never inside the declared length.
NoZeroLengthPacket ==
    \A size \in EthHeader..1514 :
        /\ WrapRndisPacket(size) % MaxPacket # 0
        /\ WrapRndisPacket(size) \in DeviceHeader + size .. DeviceHeader + size + 1
==============================================================================
