--------------------------- MODULE NetworkControl ----------------------------
(***************************************************************************)
(* The communication interfaces of RNDIS and ECM: encapsulated commands,   *)
(* their responses, the notifications that announce them, and the packet   *)
(* filter.                                                                 *)
(*                                                                         *)
(* The session's receiver runs the handlers.  The notification channel is  *)
(* that of InEndpointChannel, here no more than a count.                   *)
(***************************************************************************)
EXTENDS Naturals, Sequences

CONSTANTS
    ResponseLimit,  \* RNDIS_RESPONSE_QUEUE_LIMIT
    NoteLimit,      \* set_max_pending_messages of the notification channel
    MaxNetReqs,     \* bound: commands in a connection
    MaxNetConns     \* bound: connections

ASSUME NetworkAssumption ==
    /\ {ResponseLimit, NoteLimit} \subseteq Nat \ {0}
    /\ {MaxNetReqs, MaxNetConns} \subseteq Nat

VARIABLES
    net_kind,        \* "rndis" or "ecm"
    net_up,
    rndis_state, packet_filter,
    response_queue,  \* responses: [req, epoch]
    notifications,   \* the notification channel: how many are buffered
    noticed,         \* notifications the host has seen and not acted upon
    lost_note,       \* history: a notification was dropped at the limit
    epoch,           \* history: counts what makes earlier responses void
    nnreq, nnconn

netVars == <<net_kind, net_up, rndis_state, packet_filter, response_queue, notifications,
             noticed, lost_note, epoch, nnreq, nnconn>>

NetInit ==
    /\ net_kind \in {"rndis", "ecm"} /\ net_up = FALSE
    /\ rndis_state = "Uninitialized" /\ packet_filter = 0 /\ response_queue = <<>>
    /\ notifications = 0 /\ noticed = 0 /\ lost_note = FALSE /\ epoch = 0
    /\ nnreq = 0 /\ nnconn = 0

------------------------------------------------------------------------------
(* Connections.                                                              *)

\* reset_device_state; ECM keeps the packet filter of the client before.
ResetDeviceState ==
    /\ rndis_state' = "Uninitialized" /\ response_queue' = <<>>
    /\ packet_filter' = IF net_kind = "rndis" THEN 0 ELSE packet_filter

\* on_new_connection of both interfaces
NetConnect ==
    /\ ~net_up /\ nnconn < MaxNetConns
    /\ net_up' = TRUE /\ nnconn' = nnconn + 1
    /\ nnreq' = 0 /\ lost_note' = FALSE
    /\ ResetDeviceState
    /\ UNCHANGED <<net_kind, notifications, noticed, epoch>>

\* on_disconnection: the channel cleared, the RNDIS state reset.
NetDisconnect ==
    /\ net_up /\ net_up' = FALSE
    /\ notifications' = 0 /\ noticed' = 0 /\ epoch' = epoch + 1
    /\ ResetDeviceState
    /\ UNCHANGED <<net_kind, lost_note, nnreq, nnconn>>

------------------------------------------------------------------------------
(* RNDIS commands.                                                           *)

\* enqueue_response, once for each new response: the oldest is dropped at the
\* limit; each pushes a notification, of which the oldest is dropped too.
EnqueueResponse(q, new) ==
    LET all == q \o new
        drop == IF Len(all) > ResponseLimit THEN Len(all) - ResponseLimit ELSE 0
    IN  /\ response_queue' = SubSeq(all, drop + 1, Len(all))
        /\ notifications' = IF notifications + Len(new) > NoteLimit THEN NoteLimit
                            ELSE notifications + Len(new)
        /\ lost_note' = (lost_note \/ notifications + Len(new) > NoteLimit)

NewResponse == [req |-> nnreq + 1, epoch |-> epoch]

Encapsulated == net_kind = "rndis" /\ net_up /\ nnreq < MaxNetReqs /\ nnreq' = nnreq + 1

\* INITIALIZE: the completion, and an indication that the link is up.
RndisInitialize ==
    /\ Encapsulated
    /\ rndis_state' = "Initialized"
    /\ EnqueueResponse(response_queue, <<NewResponse, NewResponse>>)
    /\ UNCHANGED <<packet_filter, noticed, epoch, net_kind, net_up, nnconn>>

\* Mutant: responses that were not fetched survive.
HaltKeepsResponses ==
    /\ Encapsulated
    /\ rndis_state' = "Uninitialized" /\ packet_filter' = 0
    /\ epoch' = epoch + 1
    /\ UNCHANGED <<response_queue, notifications, noticed, lost_note, net_kind, net_up, nnconn>>

\* HALT: reset_device_state, no response.
RndisHalt ==
    /\ Encapsulated
    /\ ResetDeviceState
    /\ epoch' = epoch + 1
    /\ UNCHANGED <<notifications, noticed, lost_note, net_kind, net_up, nnconn>>

\* QUERY of a known or unknown OID, KEEPALIVE, SET of the multicast list or of
\* an OID that is not supported, or of the filter without its data.
RndisQuery ==
    /\ Encapsulated
    /\ EnqueueResponse(response_queue, <<NewResponse>>)
    /\ UNCHANGED <<rndis_state, packet_filter, noticed, epoch, net_kind, net_up, nnconn>>

\* SET of OID_GEN_CURRENT_PACKET_FILTER, in whatever state.
RndisSetFilter(f) ==
    /\ Encapsulated
    /\ packet_filter' = f
    /\ rndis_state' = IF f # 0 THEN "DataInitialized" ELSE "Initialized"
    /\ EnqueueResponse(response_queue, <<NewResponse>>)
    /\ UNCHANGED <<noticed, epoch, net_kind, net_up, nnconn>>

\* RESET: the responses not yet fetched are dropped, the state stays.
RndisReset ==
    /\ Encapsulated
    /\ epoch' = epoch + 1
    /\ EnqueueResponse(<<>>, <<[NewResponse EXCEPT !.epoch = epoch + 1]>>)
    /\ UNCHANGED <<rndis_state, packet_filter, noticed, net_kind, net_up, nnconn>>

\* A message that is too short, has an impossible length or an unknown type.
RndisBadMessage ==
    /\ Encapsulated
    /\ UNCHANGED <<rndis_state, packet_filter, response_queue, notifications, noticed, lost_note,
                   epoch, net_kind, net_up, nnconn>>

\* The interrupt IN request of the host gets a notification.
HostNotified ==
    /\ net_up /\ notifications > 0
    /\ notifications' = notifications - 1 /\ noticed' = IF net_kind = "rndis" THEN noticed + 1 ELSE 0
    /\ UNCHANGED <<rndis_state, packet_filter, response_queue, lost_note, epoch, nnreq,
                   net_kind, net_up, nnconn>>

\* GET_ENCAPSULATED_RESPONSE: the oldest response, or EPIPE.
GetResponse ==
    /\ net_kind = "rndis" /\ net_up /\ noticed > 0
    /\ response_queue' = IF response_queue = <<>> THEN <<>> ELSE Tail(response_queue)
    /\ noticed' = noticed - 1
    /\ UNCHANGED <<rndis_state, packet_filter, notifications, lost_note, epoch, nnreq,
                   net_kind, net_up, nnconn>>

------------------------------------------------------------------------------
(* ECM control.                                                              *)

\* SET_ETHERNET_PACKET_FILTER; with data it is EPIPE, as are all others.
EcmSetFilter(f) ==
    /\ net_kind = "ecm" /\ net_up /\ nnreq < MaxNetReqs /\ nnreq' = nnreq + 1
    /\ packet_filter' = f
    /\ UNCHANGED <<rndis_state, response_queue, notifications, noticed, lost_note, epoch,
                   net_kind, net_up, nnconn>>

\* send_network_connection and send_speed_change
EcmNotify ==
    /\ net_kind = "ecm" /\ net_up /\ nnreq < MaxNetReqs /\ nnreq' = nnreq + 1
    /\ notifications' = IF notifications < NoteLimit THEN notifications + 1 ELSE NoteLimit
    /\ UNCHANGED <<rndis_state, packet_filter, response_queue, noticed, lost_note, epoch,
                   net_kind, net_up, nnconn>>

------------------------------------------------------------------------------

NetNext ==
    \/ NetConnect \/ NetDisconnect
    \/ RndisInitialize \/ RndisHalt \/ RndisQuery \/ RndisReset \/ RndisBadMessage
    \/ \E f \in 0..1 : RndisSetFilter(f) \/ EcmSetFilter(f)
    \/ HostNotified \/ GetResponse \/ EcmNotify

NetSpec == NetInit /\ [][NetNext]_netVars

------------------------------------------------------------------------------
(* Properties.                                                               *)

NetTypeOK ==
    /\ rndis_state \in {"Uninitialized", "Initialized", "DataInitialized"}
    /\ packet_filter \in 0..1 /\ Len(response_queue) <= ResponseLimit
    /\ notifications \in 0..NoteLimit /\ noticed \in Nat

\* Every response that waits has a notification that the host has still to
\* see or to act upon (unless one was lost at the limit), so that no response
\* waits for the next command.
ResponseAnnounced ==
    ~lost_note => Len(response_queue) <= notifications + noticed

\* reset_device_state and RESET: a response from before HALT, RESET or the
\* end of a connection is never fetched after it.
NoStaleResponse ==
    \A k \in DOMAIN response_queue : response_queue[k].epoch = epoch
==============================================================================
