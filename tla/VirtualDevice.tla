---------------------------- MODULE VirtualDevice ----------------------------
(***************************************************************************)
(* VirtualDeviceHandler with its interface handlers: opening and closing a *)
(* connection, dispatch of URBs by endpoint and current alternate setting, *)
(* control requests, unlinking.                                            *)
(*                                                                         *)
(* The session's receiver thread calls the handler; the answers that are   *)
(* not given at once come from device threads (through the channels of an  *)
(* interface) and from the transfer scheduler's thread.                    *)
(***************************************************************************)
EXTENDS Naturals, Sequences, FiniteSets, SequencesExt

CONSTANTS
    Interfaces,  \* UsbDevice::interfaces, in order: [alts: endpoints of each alternate
                 \* setting, handler: is there one, unlinks: does it override
                 \* handle_unlink_seqnum, hid: is it a HID handler]
    NoEndpoint,  \* an address no endpoint has
    MaxUrb,      \* bound: URBs in a connection
    MaxOpens     \* bound: connections

ASSUME VirtualDeviceAssumption ==
    /\ Interfaces \in Seq([alts : Seq(SUBSET (Nat \ {0})), handler : BOOLEAN, unlinks : BOOLEAN,
                           hid : BOOLEAN])
    /\ Interfaces # <<>> /\ \A i \in DOMAIN Interfaces : Interfaces[i].alts # <<>>
    /\ MaxUrb \in Nat /\ MaxOpens \in Nat

VARIABLES
    vdpc, vdat,      \* the receiver: "down", "opening", "up", "closing"; at which interface
    vd_responder, if_responder, \* the responder pointers of device and interface handlers are set
    vd_scheduler,    \* the scheduler's thread runs
    current_altsetting,
    vd_pending,      \* URBs that wait for their answer: number -> interface or Scheduler
    vd_answers,      \* history: answers of this connection
    vd_control,      \* history: control URBs, and what they were
    vd_unlinks,      \* history: URBs the client unlinked
    nurb, nopen

vdVars == <<vdpc, vdat, vd_responder, if_responder, vd_scheduler, current_altsetting, vd_pending,
            vd_answers, vd_control, vd_unlinks, nurb, nopen>>

If == DOMAIN Interfaces
Scheduler == 0
Answer(kind, n, st) == [kind |-> kind, n |-> n, status |-> st]

VdInit ==
    /\ vdpc = "down" /\ vdat = 0 /\ vd_responder = FALSE /\ if_responder = {}
    /\ vd_scheduler = FALSE /\ current_altsetting = [i \in If |-> 1]
    /\ vd_pending = <<>> /\ vd_answers = <<>> /\ vd_control = <<>> /\ vd_unlinks = {}
    /\ nurb = 0 /\ nopen = 0

\* UsbDevice::find_ep: the interface whose current alternate setting has the
\* endpoint
Found(e) == {i \in If : e \in Interfaces[i].alts[current_altsetting[i]]}

Without(ns) == [n \in DOMAIN vd_pending \ ns |-> vd_pending[n]]
At(place) == {n \in DOMAIN vd_pending : vd_pending[n] = place}

------------------------------------------------------------------------------
(* Opening and closing.                                                      *)

\* on_new_connection: the responder is registered, the scheduler started.
VdOpen ==
    /\ vdpc = "down" /\ nopen < MaxOpens
    /\ vdpc' = "opening" /\ vdat' = 1 /\ nopen' = nopen + 1
    /\ vd_responder' = TRUE /\ vd_scheduler' = TRUE
    /\ nurb' = 0 /\ vd_answers' = <<>> /\ vd_control' = <<>> /\ vd_unlinks' = {}
    /\ UNCHANGED <<if_responder, current_altsetting, vd_pending>>

\* The next interface's on_new_connection succeeds ...
VdOpenInterface ==
    /\ vdpc = "opening"
    /\ if_responder' = if_responder \cup ({vdat} \cap {i \in If : Interfaces[i].handler})
    /\ IF vdat = Len(Interfaces) THEN vdpc' = "up" /\ vdat' = 0
       ELSE vdpc' = "opening" /\ vdat' = vdat + 1
    /\ UNCHANGED <<vd_responder, vd_scheduler, current_altsetting, vd_pending, vd_answers,
                   vd_control, vd_unlinks, nurb, nopen>>

\* Mutant: the interfaces opened before are left open.
OpenFailsHalfOpen ==
    /\ vdpc = "opening" /\ Interfaces[vdat].handler
    /\ vdpc' = "down" /\ vdat' = 0
    /\ vd_scheduler' = FALSE /\ vd_responder' = FALSE
    /\ UNCHANGED <<if_responder, current_altsetting, vd_pending, vd_answers, vd_control,
                   vd_unlinks, nurb, nopen>>

\* ... or fails, having undone its own part: the interfaces before it are told
\* that the connection is over, the scheduler stopped, the responder removed.
VdOpenFails ==
    /\ vdpc = "opening" /\ Interfaces[vdat].handler
    /\ vdpc' = "down" /\ vdat' = 0
    /\ if_responder' = {} /\ vd_pending' = <<>>
    /\ vd_scheduler' = FALSE /\ vd_responder' = FALSE
    /\ UNCHANGED <<current_altsetting, vd_answers, vd_control, vd_unlinks, nurb, nopen>>

\* on_disconnection: the scheduler first, ...
VdClose ==
    /\ vdpc = "up"
    /\ vdpc' = "closing" /\ vdat' = 1
    /\ vd_scheduler' = FALSE /\ vd_pending' = Without(At(Scheduler))
    /\ UNCHANGED <<vd_responder, if_responder, current_altsetting, vd_answers, vd_control,
                   vd_unlinks, nurb, nopen>>

\* ... then each interface, which drops what waits in its channels, ...
VdCloseInterface ==
    /\ vdpc = "closing" /\ vdat \in If
    /\ if_responder' = if_responder \ {vdat} /\ vd_pending' = Without(At(vdat))
    /\ vdat' = vdat + 1
    /\ UNCHANGED <<vdpc, vd_responder, vd_scheduler, current_altsetting, vd_answers, vd_control,
                   vd_unlinks, nurb, nopen>>

\* ... and AbstDeviceHandler::on_disconnection.
VdClosed ==
    /\ vdpc = "closing" /\ vdat \notin If
    /\ vdpc' = "down" /\ vdat' = 0 /\ vd_responder' = FALSE
    /\ UNCHANGED <<if_responder, vd_scheduler, current_altsetting, vd_pending, vd_answers,
                   vd_control, vd_unlinks, nurb, nopen>>

------------------------------------------------------------------------------
(* URBs.                                                                     *)

\* A CMD_SUBMIT that the session hands to receive_urb.
Comes == vdpc = "up" /\ nurb < MaxUrb /\ nurb' = nurb + 1

Replies(st) == vd_answers' = Append(vd_answers, Answer("RET_SUBMIT", nurb + 1, st))

\* dispatch_urb to a bulk, interrupt or isochronous endpoint: the handler
\* answers at once, keeps the request in a channel, or gives it to the
\* scheduler; without a handler EPIPE.  (The session drops a URB for an
\* endpoint the current alternate settings do not have.)
Transfer(e, how) ==
    /\ Comes
    /\ \E i \in Found(e) :
          \/ /\ Interfaces[i].handler /\ how = "answer"
             /\ \E st \in {"OK", "EPIPE"} : Replies(st)
             /\ UNCHANGED vd_pending
          \/ /\ Interfaces[i].handler /\ how # "answer"
             /\ vd_pending' = [n \in DOMAIN vd_pending \cup {nurb + 1} |->
                                  IF n = nurb + 1 THEN (IF how = "keep" THEN i ELSE Scheduler)
                                  ELSE vd_pending[n]]
             /\ UNCHANGED vd_answers
          \/ /\ ~Interfaces[i].handler /\ how = "answer"
             /\ Replies("EPIPE")
             /\ UNCHANGED vd_pending
    /\ UNCHANGED <<vdpc, vdat, vd_responder, if_responder, vd_scheduler, current_altsetting,
                   vd_control, vd_unlinks, nopen>>

\* A device thread or the scheduler answers a URB that waits.
Complete(n) ==
    /\ n \in DOMAIN vd_pending
    /\ IF vd_pending[n] = Scheduler THEN vd_scheduler ELSE vd_pending[n] \in if_responder
    /\ vd_pending' = Without({n})
    /\ vd_answers' = Append(vd_answers, Answer("RET_SUBMIT", n, "OK"))
    /\ UNCHANGED <<vdpc, vdat, vd_responder, if_responder, vd_scheduler, current_altsetting,
                   vd_control, vd_unlinks, nurb, nopen>>

------------------------------------------------------------------------------
(* Control requests.                                                         *)

Recipients == {"device", "interface", "endpoint", "other"}

\* Standard requests by recipient and direction; those not listed get EPIPE.
OutRequests(to) == CASE to = "device" -> {"ClearFeature", "SetAddress", "SetConfiguration",
                                          "SetDescriptor", "SetFeature"}
                     [] to = "interface" -> {"ClearFeature", "SetFeature", "SetInterface"}
                     [] to = "endpoint" -> {"ClearFeature", "SetFeature"}
                     [] to = "other" -> {}
InRequests(to) == CASE to = "device" -> {"GetConfiguration", "GetDescriptor", "GetStatus"}
                    [] to = "interface" -> {"GetInterface", "GetStatus", "GetDescriptor"}
                    [] to = "endpoint" -> {"GetStatus", "SynchFrame"}
                    [] to = "other" -> {}

\* request_set_interface: an alternate setting that exists; a HID handler
\* accepts any.
SetInterfaceStatus(i, alt) ==
    IF Interfaces[i].hid \/ alt \in DOMAIN Interfaces[i].alts THEN "OK" ELSE "EPIPE"

\* Mutant: whatever the handler accepts becomes the current setting.
SetInterfaceUnchecked(i, alt) ==
    IF SetInterfaceStatus(i, alt) = "OK"
    THEN current_altsetting' = [current_altsetting EXCEPT ![i] = alt]
    ELSE UNCHANGED current_altsetting

SetInterface(i, alt) ==
    IF SetInterfaceStatus(i, alt) = "OK" /\ alt \in DOMAIN Interfaces[i].alts
    THEN current_altsetting' = [current_altsetting EXCEPT ![i] = alt]
    ELSE UNCHANGED current_altsetting

\* The handler a request to interface or endpoint x goes to; {} when the
\* device has no such interface or endpoint.
HandlerFor(to, x) ==
    {i \in (IF to = "interface" THEN {x} \cap If ELSE Found(x)) : Interfaces[i].handler}

\* What a request that a handler or the device understands is answered.
RequestStatus(to, req, i, alt) ==
    CASE req \notin OutRequests(to) \cup InRequests(to) -> {"EPIPE"}
      [] req = "SetInterface" -> {SetInterfaceStatus(i, alt)}
      [] req = "SynchFrame" -> {"EPIPE"}
      [] req \in {"SetConfiguration", "GetDescriptor"} -> {"OK", "EPIPE"}
      [] OTHER -> {"OK"}

\* An endpoint the current alternate settings do not have; find_ep always
\* finds endpoint 0, which belongs to no interface.
UnknownEndpoint(to, x) == to = "endpoint" /\ x # 0 /\ Found(x) = {}

\* Mutant: an interface without a handler is not answered.
ControlUnanswered(to, x) == to # "device" /\ HandlerFor(to, x) = {}

\* handle_control_urb has no branch for a standard request to an endpoint
\* that find_ep does not find.
NotAnswered(to, x) == UnknownEndpoint(to, x)

\* It stops the session (by ec) when interface or endpoint has no handler.
EndsSession(to, x) ==
    /\ to \in {"interface", "endpoint"} /\ HandlerFor(to, x) = {}
    /\ IF to = "interface" THEN x \in If ELSE ~UnknownEndpoint(to, x)

StandardControl(to, req, x, alt) ==
    /\ Comes
    /\ vd_control' = [n \in DOMAIN vd_control \cup {nurb + 1} |->
                         IF n = nurb + 1 THEN [to |-> to, known |-> ~UnknownEndpoint(to, x)]
                         ELSE vd_control[n]]
    /\ \/ /\ to = "device"
          /\ \E st \in RequestStatus(to, req, 0, alt) : Replies(st)
          /\ UNCHANGED <<vdpc, vdat, vd_scheduler, vd_pending, current_altsetting>>
       \/ \E i \in HandlerFor(to, x) :
          /\ to # "device"
          /\ \E st \in RequestStatus(to, req, i, alt) : Replies(st)
          /\ IF to = "interface" /\ req = "SetInterface" THEN SetInterface(i, alt)
             ELSE UNCHANGED current_altsetting
          /\ UNCHANGED <<vdpc, vdat, vd_scheduler, vd_pending>>
       \/ /\ to \in {"interface", "endpoint"} /\ HandlerFor(to, x) = {}
          /\ IF NotAnswered(to, x) THEN UNCHANGED vd_answers ELSE Replies("EPIPE")
          /\ IF EndsSession(to, x)
             THEN /\ vdpc' = "closing" /\ vdat' = 1
                  /\ vd_scheduler' = FALSE /\ vd_pending' = Without(At(Scheduler))
             ELSE UNCHANGED <<vdpc, vdat, vd_scheduler, vd_pending>>
          /\ UNCHANGED current_altsetting
       \/ /\ to = "other"
          /\ Replies("EPIPE")
          /\ UNCHANGED <<vdpc, vdat, vd_scheduler, vd_pending, current_altsetting>>
    /\ UNCHANGED <<vd_responder, if_responder, vd_unlinks, nopen>>

\* Class and vendor requests: the handler answers as it likes; everything
\* else, an unknown endpoint included, EPIPE, and without a handler the
\* session ends.
NonStandardControl(to, x) ==
    /\ Comes
    /\ vd_control' = [n \in DOMAIN vd_control \cup {nurb + 1} |->
                         IF n = nurb + 1 THEN [to |-> to, known |-> TRUE] ELSE vd_control[n]]
    /\ \/ /\ to = "device" \/ HandlerFor(to, x) # {}
          /\ to # "other"
          /\ \E st \in {"OK", "EPIPE"} : Replies(st)
          /\ UNCHANGED <<vdpc, vdat, vd_scheduler, vd_pending>>
       \/ /\ to \in {"interface", "endpoint"} /\ HandlerFor(to, x) = {}
          /\ Replies("EPIPE")
          /\ IF EndsSession(to, x) \/ to = "endpoint"
             THEN /\ vdpc' = "closing" /\ vdat' = 1
                  /\ vd_scheduler' = FALSE /\ vd_pending' = Without(At(Scheduler))
             ELSE UNCHANGED <<vdpc, vdat, vd_scheduler, vd_pending>>
       \/ /\ to = "other"
          /\ Replies("EPIPE")
          /\ UNCHANGED <<vdpc, vdat, vd_scheduler, vd_pending>>
    /\ UNCHANGED <<vd_responder, if_responder, current_altsetting, vd_unlinks, nopen>>

------------------------------------------------------------------------------
(* Unlinking.                                                                *)

\* Those that override handle_unlink_seqnum; no answer depends on their order.
Unlinkers == SetToSeq({i \in If : Interfaces[i].handler /\ Interfaces[i].unlinks})

\* Mutant: an interface leaves the request in its channel.
UnlinkKeeps(n) ==
    /\ vdpc = "up" /\ n \in 1..nurb \ vd_unlinks
    /\ vd_unlinks' = vd_unlinks \cup {n}
    /\ vd_answers' = vd_answers \o
           [k \in 1..Len(Unlinkers) |->
               Answer("RET_UNLINK", n, IF n \in At(Unlinkers[k]) THEN "ECONNRESET" ELSE "OK")]
    /\ UNCHANGED <<vdpc, vdat, vd_responder, if_responder, vd_scheduler, current_altsetting,
                   vd_pending, vd_control, nurb, nopen>>

\* handle_unlink_seqnum: the scheduler's answer is the only one; otherwise
\* each interface is asked, and each that overrides it answers, ECONNRESET
\* when its channels had the URB.
HandleUnlinkSeqnum(n) ==
    /\ vdpc = "up" /\ n \in 1..nurb \ vd_unlinks
    /\ vd_unlinks' = vd_unlinks \cup {n}
    /\ \/ /\ n \in At(Scheduler)
          /\ vd_pending' = Without({n})
          /\ vd_answers' = Append(vd_answers, Answer("RET_UNLINK", n, "ECONNRESET"))
       \/ /\ n \notin At(Scheduler)
          /\ vd_pending' = Without({n} \cap UNION {At(i) : i \in ToSet(Unlinkers)})
          /\ vd_answers' = vd_answers \o
                 [k \in 1..Len(Unlinkers) |->
                     Answer("RET_UNLINK", n, IF n \in At(Unlinkers[k]) THEN "ECONNRESET" ELSE "OK")]
    /\ UNCHANGED <<vdpc, vdat, vd_responder, if_responder, vd_scheduler, current_altsetting,
                   vd_control, nurb, nopen>>

------------------------------------------------------------------------------

Endpoints == UNION {UNION {Interfaces[i].alts[a] : a \in DOMAIN Interfaces[i].alts} : i \in If}
Targets(to) == CASE to = "interface" -> If \cup {Len(Interfaces) + 1}
                 [] to = "endpoint" -> Endpoints \cup {0, NoEndpoint}
                 [] OTHER -> {0}

VdNext ==
    \/ VdOpen \/ VdOpenInterface \/ VdOpenFails \/ VdClose \/ VdCloseInterface \/ VdClosed
    \/ \E e \in Endpoints, how \in {"answer", "keep", "schedule"} : Transfer(e, how)
    \/ \E n \in 1..MaxUrb : Complete(n) \/ HandleUnlinkSeqnum(n)
    \/ \E to \in Recipients : \E x \in Targets(to) :
          \/ NonStandardControl(to, x)
          \/ \E req \in OutRequests(to) \cup InRequests(to) \cup {"unknown"}, alt \in 1..3 :
                StandardControl(to, req, x, IF req = "SetInterface" THEN alt ELSE 1)

VdSpec == VdInit /\ [][VdNext]_vdVars

------------------------------------------------------------------------------
(* Properties.                                                               *)

VdTypeOK ==
    /\ vdpc \in {"down", "opening", "up", "closing"} /\ vdat \in 0..Len(Interfaces) + 1
    /\ vd_responder \in BOOLEAN /\ if_responder \subseteq If /\ vd_scheduler \in BOOLEAN
    /\ DOMAIN vd_pending \subseteq 1..nurb /\ DOMAIN vd_control \subseteq 1..nurb
    /\ ToSet(vd_answers) \subseteq [kind : {"RET_SUBMIT", "RET_UNLINK"}, n : 1..nurb,
                                    status : {"OK", "EPIPE", "ECONNRESET"}]
    /\ vd_unlinks \subseteq 1..nurb
    /\ \A i \in If : current_altsetting[i] \in DOMAIN Interfaces[i].alts

Answered(n) == {k \in DOMAIN vd_answers : vd_answers[k].kind = "RET_SUBMIT" /\ vd_answers[k].n = n}
Unlinked(n) == {k \in DOMAIN vd_answers : vd_answers[k].kind = "RET_UNLINK" /\ vd_answers[k].n = n}

\* handle_control_urb: every control URB gets exactly one RET_SUBMIT, on every
\* path through recipient, direction, request and missing handler, except the
\* one path that has none; other URBs get at most one.
ControlAnsweredOnce ==
    /\ \A n \in DOMAIN vd_control : Cardinality(Answered(n)) = IF vd_control[n].known THEN 1 ELSE 0
    /\ \A n \in 1..nurb : Cardinality(Answered(n)) <= 1

\* on_new_connection and on_disconnection: whoever may still answer (the
\* scheduler's thread, a device thread behind an interface) has a responder,
\* and the device's is the last to go; after a connection that could not be
\* opened, too, nothing is left running.
AnswererHasResponder ==
    /\ vd_scheduler \/ if_responder # {} => vd_responder
    /\ \A n \in DOMAIN vd_pending :
          IF vd_pending[n] = Scheduler THEN vd_scheduler ELSE vd_pending[n] \in if_responder
    /\ vdpc = "down" => ~vd_scheduler /\ if_responder = {}

\* DeviceHandler.h, states 1 and 3 of handle_unlink_seqnum: ECONNRESET is
\* final, and a URB that was answered is never reported as cancelled.
UnlinkIsTrue ==
    \A n \in vd_unlinks :
        (\E k \in Unlinked(n) : vd_answers[k].status = "ECONNRESET") =>
            Answered(n) = {} /\ n \notin DOMAIN vd_pending
==============================================================================
