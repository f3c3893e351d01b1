--------------------------- MODULE LibusbTransfers ---------------------------
(***************************************************************************)
(* LibusbDeviceHandler: URBs forwarded to a physical device.  Two threads: *)
(* the session's receiver (receive_urb, handle_unlink_seqnum,              *)
(* on_disconnection, on_new_connection) and the libusb event thread        *)
(* (transfer_callback).  They share transfers_ under transfers_mutex_, the *)
(* atomic pending_count_, client_disconnection and device_removed.         *)
(*                                                                         *)
(* Payloads, endpoints and isochronous packets are left out: a URB is its  *)
(* sequence number, a response its kind, number and status.                *)
(***************************************************************************)
EXTENDS Naturals, Sequences, FiniteSets

CONSTANTS
    Urb,            \* sequence numbers of CMD_SUBMITs
    Args,           \* libusb_callback_args objects, from the pool or the heap
    NoArgs,         \* no object: a number that is not in transfers_
    MaxSubmits,     \* bound: CMD_SUBMITs in all, numbers re-used or not
    MaxUnlinks,     \* bound: CMD_UNLINKs for the same number in a connection
    MaxConnections, \* bound: times the device is imported
    DisconnectOnAnyError,
    Hotplug         \* whether the host reports that the device was pulled out

ASSUME LibusbTransfersAssumption ==
    /\ NoArgs \notin Args
    /\ MaxSubmits \in Nat /\ MaxUnlinks \in Nat /\ MaxConnections \in Nat
    /\ DisconnectOnAnyError \in BOOLEAN /\ Hotplug \in BOOLEAN

\* libusb_transfer_status (ERROR stands for STALL, TIMED_OUT and OVERFLOW
\* too, which trxstat2error does not tell apart)
TrxStatus == {"COMPLETED", "ERROR", "CANCELLED", "NO_DEVICE"}
Trxstat2Error(st) ==
    CASE st = "COMPLETED" -> "OK"
      [] st = "CANCELLED" -> "ECONNRESET"
      [] st = "ERROR" -> "EPIPE"
      [] st = "NO_DEVICE" -> "ESHUTDOWN"

VARIABLES
    transfers,            \* transfers_: from sequence numbers to callback arguments
    seqnum, unlinking,    \* fields of a libusb_callback_args; unlinking is 0 or the
                          \* number of the CMD_UNLINK
    live,                 \* the callback arguments in use
    pending_count,
    client_disconnection,
    device_removed,
    trx,                  \* the transfer of the arguments, in libusb: "none", "flying",
                          \* "cancelling", or its final status
    rx, rxcb,             \* receiver thread and the arguments it submits
    ev, evcb, evst,       \* event thread, the arguments whose callback runs, their status
    stop,                 \* the session was told to stop (hotplug), or its client left
    pulled,               \* the device is gone from the bus
    nsub, nunl,           \* history: commands received, per number ...
    ncmd, nconn,          \* ... CMD_SUBMITs in all, connections
    out                   \* history: responses of this connection, as enqueued

vars == <<transfers, seqnum, unlinking, live, pending_count, client_disconnection,
          device_removed, trx, rx, rxcb, ev, evcb, evst, stop, pulled, nsub, nunl,
          ncmd, nconn, out>>

Init ==
    /\ transfers = [u \in Urb |-> NoArgs] /\ live = {}
    /\ seqnum = [a \in Args |-> 0] /\ unlinking = [a \in Args |-> 0]
    /\ pending_count = 0 /\ client_disconnection = FALSE /\ device_removed = FALSE
    /\ trx = [a \in Args |-> "none"] /\ pulled = FALSE
    /\ rx = "closed" /\ rxcb = NoArgs
    /\ ev = "idle" /\ evcb = NoArgs /\ evst = "COMPLETED"
    /\ stop = FALSE
    /\ ncmd = 0 /\ nsub = [u \in Urb |-> 0] /\ nunl = [u \in Urb |-> 0] /\ nconn = 0
    /\ out = <<>>

RetSubmit(u, st) == [kind |-> "RET_SUBMIT", urb |-> u, nr |-> 0, status |-> st]
RetUnlink(u, n, st) == [kind |-> "RET_UNLINK", urb |-> u, nr |-> n, status |-> st]

Tracked == {u \in Urb : transfers[u] # NoArgs}
Erase(u) == transfers' = [transfers EXCEPT ![u] = NoArgs]

\* libusb_cancel_transfer: what has ended already is left alone (NOT_FOUND)
Cancelled(a) == IF trx[a] = "flying" THEN "cancelling" ELSE trx[a]

------------------------------------------------------------------------------
(* The receiver thread.                                                      *)

event == <<ev, evcb, evst>>
track == <<transfers, seqnum, unlinking, live, pending_count>>
flags == <<client_disconnection, device_removed>>

\* on_new_connection; a device that is gone cannot be opened.  device_removed
\* is not reset (the handler of a removed device is not imported again).
OnNewConnection ==
    /\ rx = "closed" /\ nconn < MaxConnections /\ ~pulled /\ ~device_removed
    /\ nconn' = nconn + 1
    /\ client_disconnection' = FALSE
    /\ rx' = "loop" /\ stop' = FALSE
    /\ nsub' = [u \in Urb |-> 0] /\ nunl' = [u \in Urb |-> 0] /\ out' = <<>>
    /\ UNCHANGED <<track, device_removed, trx, rxcb, event, pulled, ncmd>>

\* A CMD_SUBMIT arrives.
Submitted(u) ==
    /\ rx = "loop" /\ ncmd < MaxSubmits
    /\ ncmd' = ncmd + 1 /\ nsub' = [nsub EXCEPT ![u] = @ + 1]

\* receive_urb, while the device is there: answered on the spot (a request
\* that tweak_special_requests carried out, a bad length, no interface), ...
AnswerDirectly(u) ==
    /\ Submitted(u) /\ ~device_removed
    /\ \E st \in {"OK", "EPIPE"} : out' = Append(out, RetSubmit(u, st))
    /\ UNCHANGED <<track, flags, trx, rx, rxcb, event, stop, pulled, nunl, nconn>>

\* ... refused because the number is in flight, ...
RejectDuplicate(u) ==
    /\ Submitted(u) /\ ~device_removed /\ u \in Tracked
    /\ out' = Append(out, RetSubmit(u, "EPIPE"))
    /\ UNCHANGED <<track, flags, trx, rx, rxcb, event, stop, pulled, nunl, nconn>>

\* Mutant: the number in flight is not looked up.
TrackUnchecked(u) ==
    /\ Submitted(u) /\ ~device_removed
    /\ \E a \in Args \ live :
          /\ live' = live \cup {a}
          /\ seqnum' = [seqnum EXCEPT ![a] = u] /\ unlinking' = [unlinking EXCEPT ![a] = 0]
          /\ transfers' = [transfers EXCEPT ![u] = a]
          /\ rxcb' = a
    /\ pending_count' = pending_count + 1
    /\ rx' = "submit"
    /\ UNCHANGED <<flags, trx, event, stop, pulled, nunl, nconn, out>>

\* ... or given arguments and entered in the map, under transfers_mutex_, ...
Track(u) ==
    /\ Submitted(u) /\ ~device_removed /\ u \notin Tracked
    /\ \E a \in Args \ live :
          /\ live' = live \cup {a}
          /\ seqnum' = [seqnum EXCEPT ![a] = u] /\ unlinking' = [unlinking EXCEPT ![a] = 0]
          /\ transfers' = [transfers EXCEPT ![u] = a]
          /\ rxcb' = a
    /\ pending_count' = pending_count + 1
    /\ rx' = "submit"
    /\ UNCHANGED <<flags, trx, event, stop, pulled, nunl, nconn, out>>

\* ... and submitted.  The callback may run before this thread goes on.
LibusbSubmit ==
    /\ rx = "submit" /\ ~pulled
    /\ trx' = [trx EXCEPT ![rxcb] = "flying"]
    /\ rx' = "loop"
    /\ UNCHANGED <<track, flags, rxcb, event, stop, pulled, nsub, ncmd, nunl, nconn, out>>

\* Mutant: a submit error marks the device and does not end the connection.
SubmitFailsStays ==
    LET fatal == DisconnectOnAnyError \/ pulled
    IN  /\ rx = "submit"
        /\ Erase(seqnum[rxcb])
        /\ live' = live \ {rxcb}
        /\ pending_count' = pending_count - 1
        /\ out' = Append(out, RetSubmit(seqnum[rxcb], "EPIPE"))
        /\ device_removed' = (device_removed \/ fatal)
        /\ rx' = "loop"
        /\ UNCHANGED <<seqnum, unlinking, client_disconnection, trx, rxcb, event,
                       stop, pulled, nsub, ncmd, nunl, nconn>>

\* libusb_submit_transfer fails: the entry is taken back, EPIPE, and under
\* should_disconnect_on_submit_error the device counts as removed and the
\* session ends.
LibusbSubmitFails ==
    LET fatal == DisconnectOnAnyError \/ pulled
    IN  /\ rx = "submit"
        /\ Erase(seqnum[rxcb])
        /\ live' = live \ {rxcb}
        /\ pending_count' = pending_count - 1
        /\ out' = Append(out, RetSubmit(seqnum[rxcb], "EPIPE"))
        /\ device_removed' = (device_removed \/ fatal)
        /\ rx' = IF fatal THEN "ending" ELSE "loop"
        /\ UNCHANGED <<seqnum, unlinking, client_disconnection, trx, rxcb, event,
                       stop, pulled, nsub, ncmd, nunl, nconn>>

\* receive_urb with device_removed set: NO_DEVICE, no response, session ends.
UrbAfterRemoval(u) ==
    /\ Submitted(u) /\ device_removed
    /\ rx' = "ending"
    /\ UNCHANGED <<track, flags, trx, rxcb, event, stop, pulled, nunl, nconn, out>>

\* A CMD_UNLINK arrives, for a URB that was submitted.
Unlinked(u) ==
    /\ rx = "loop" /\ nsub[u] > 0 /\ nunl[u] < MaxUnlinks
    /\ nunl' = [nunl EXCEPT ![u] = @ + 1]

\* Mutant: an unlink that finds no transfer is not answered.
UnlinkIgnoresLate(u) ==
    /\ Unlinked(u) /\ ~device_removed
    /\ IF u \in Tracked
       THEN /\ unlinking' = [unlinking EXCEPT ![transfers[u]] = nunl[u] + 1]
            /\ trx' = [trx EXCEPT ![transfers[u]] = Cancelled(transfers[u])]
       ELSE UNCHANGED <<unlinking, trx>>
    /\ UNCHANGED <<transfers, seqnum, live, pending_count, flags, rx, rxcb, event, stop,
                   pulled, nsub, ncmd, nconn, out>>

\* handle_unlink_seqnum, under transfers_mutex_ (shared): a tracked transfer
\* is marked and cancelled, its callback answers; any other was answered.
HandleUnlink(u) ==
    /\ Unlinked(u) /\ ~device_removed
    /\ IF u \in Tracked
       THEN /\ unlinking' = [unlinking EXCEPT ![transfers[u]] = nunl[u] + 1]
            /\ trx' = [trx EXCEPT ![transfers[u]] = Cancelled(transfers[u])]
            /\ UNCHANGED out
       ELSE /\ out' = Append(out, RetUnlink(u, nunl[u] + 1, "OK"))
            /\ UNCHANGED <<unlinking, trx>>
    /\ UNCHANGED <<transfers, seqnum, live, pending_count, flags, rx, rxcb, event, stop,
                   pulled, nsub, ncmd, nconn>>

\* With device_removed set the unlink is dropped without an answer.
UnlinkAfterRemoval(u) ==
    /\ Unlinked(u) /\ device_removed
    /\ UNCHANGED <<track, flags, trx, rx, rxcb, event, stop, pulled, nsub, ncmd, nconn, out>>

\* The client leaves, or immediately_stop was called: receiver's loop ends.
ReceiverEnds ==
    /\ rx = "loop"
    /\ rx' = "ending"
    /\ UNCHANGED <<track, flags, trx, rxcb, event, stop, pulled, nsub, ncmd, nunl, nconn, out>>

\* on_disconnection: the flag ...
Disconnect ==
    /\ rx = "ending"
    /\ client_disconnection' = TRUE
    /\ rx' = "cancel"
    /\ UNCHANGED <<track, device_removed, trx, rxcb, event, stop, pulled, nsub, ncmd, nunl,
                   nconn, out>>

\* Mutant: only transfers that the client asked to unlink are cancelled.
CancelUnlinked ==
    /\ rx = "cancel"
    /\ trx' = [a \in Args |-> IF \E u \in Tracked : transfers[u] = a /\ unlinking[a] # 0
                              THEN Cancelled(a) ELSE trx[a]]
    /\ rx' = "wait"
    /\ UNCHANGED <<track, flags, rxcb, event, stop, pulled, nsub, ncmd, nunl, nconn, out>>

\* ... every tracked transfer is cancelled, under transfers_mutex_ (shared) ...
CancelAll ==
    /\ rx = "cancel"
    /\ trx' = [a \in Args |-> IF \E u \in Tracked : transfers[u] = a
                              THEN Cancelled(a) ELSE trx[a]]
    /\ rx' = "wait"
    /\ UNCHANGED <<track, flags, rxcb, event, stop, pulled, nsub, ncmd, nunl, nconn, out>>

\* Mutant: the wait ends when the map is empty.
WaitForMap ==
    /\ rx = "wait" /\ Tracked = {}
    /\ rx' = "closed" /\ live' = {}
    /\ UNCHANGED <<transfers, seqnum, unlinking, pending_count, flags, trx, rxcb, event,
                   stop, pulled, nsub, ncmd, nunl, nconn, out>>

\* ... and once pending_count_ is zero (the 10 s limit only logs) the pool is
\* reset, the device closed and the responder cleared.
AllDone ==
    /\ rx = "wait" /\ pending_count = 0
    /\ rx' = "closed" /\ live' = {}
    /\ UNCHANGED <<transfers, seqnum, unlinking, pending_count, flags, trx, rxcb, event,
                   stop, pulled, nsub, ncmd, nunl, nconn, out>>

Receiver == Disconnect \/ CancelAll \/ AllDone \/ LibusbSubmit \/ LibusbSubmitFails

------------------------------------------------------------------------------
(* libusb and the bus.                                                       *)

\* A transfer ends; one that was cancelled may still have completed first.
TransferEnds(a) ==
    /\ trx[a] \in {"flying", "cancelling"}
    /\ \E st \in TrxStatus :
          /\ st = "CANCELLED" => trx[a] = "cancelling"
          /\ st = "NO_DEVICE" <=> pulled
          /\ trx' = [trx EXCEPT ![a] = st]
    /\ UNCHANGED <<track, flags, rx, rxcb, event, stop, pulled, nsub, ncmd, nunl, nconn, out>>

PullOut ==
    /\ ~pulled
    /\ pulled' = TRUE
    /\ UNCHANGED <<track, flags, trx, rx, rxcb, event, stop, nsub, ncmd, nunl, nconn, out>>

\* handle_device_left, on the event thread: on_device_removed, session stopped
DeviceLeft ==
    /\ Hotplug /\ pulled /\ ev = "idle" /\ rx # "closed" /\ ~stop
    /\ device_removed' = TRUE /\ stop' = TRUE
    /\ UNCHANGED <<track, client_disconnection, trx, rx, rxcb, event, pulled, nsub, ncmd, nunl,
                   nconn, out>>

------------------------------------------------------------------------------
(* transfer_callback, on the event thread.                                   *)

receiver == <<rx, rxcb, stop, pulled, nsub, ncmd, nunl, nconn>>

\* client_disconnection is read without a lock, and decides.
CallbackStart(a) ==
    /\ ev = "idle" /\ trx[a] \in TrxStatus
    /\ evcb' = a /\ evst' = trx[a]
    /\ trx' = [trx EXCEPT ![a] = "none"]
    /\ ev' = IF client_disconnection THEN "drop" ELSE "status"
    /\ UNCHANGED <<receiver, track, flags, out>>

\* ERROR without SHORT_NOT_OK counts as COMPLETED; NO_DEVICE marks the device.
CallbackStatus ==
    /\ ev = "status"
    /\ evst' \in IF evst = "ERROR" THEN {"ERROR", "COMPLETED"} ELSE {evst}
    /\ device_removed' = (device_removed \/ evst = "NO_DEVICE")
    /\ ev' = "answer"
    /\ UNCHANGED <<receiver, track, client_disconnection, evcb, trx, out>>

\* The one response of a callback: RET_UNLINK if the URB was unlinked
CallbackResponse ==
    IF unlinking[evcb] # 0
    THEN RetUnlink(seqnum[evcb], unlinking[evcb], Trxstat2Error(evst))
    ELSE RetSubmit(seqnum[evcb], Trxstat2Error(evst))

\* Mutant: the entry leaves the map before the response is enqueued.
AnswerUnlocked ==
    /\ ev = "answer"
    /\ IF transfers[seqnum[evcb]] = evcb
       THEN Erase(seqnum[evcb]) /\ UNCHANGED <<ev, out>>
       ELSE out' = Append(out, CallbackResponse) /\ ev' = "free" /\ UNCHANGED transfers
    /\ UNCHANGED <<receiver, flags, evcb, evst, trx, seqnum, unlinking, live, pending_count>>

\* Mutant: a transfer that was unlinked is answered with RET_SUBMIT as well.
AnswerBoth ==
    /\ ev = "answer"
    /\ Erase(seqnum[evcb])
    /\ out' = out \o <<CallbackResponse, RetSubmit(seqnum[evcb], Trxstat2Error(evst))>>
    /\ ev' = "free"
    /\ UNCHANGED <<receiver, flags, evcb, evst, trx, seqnum, unlinking, live, pending_count>>

\* Under transfers_mutex_: read unlinking, erase the entry, enqueue the one
\* response.  (The sender is woken afterwards; SessionTransfer.)
CallbackAnswer ==
    /\ ev = "answer"
    /\ Erase(seqnum[evcb])
    /\ out' = Append(out, CallbackResponse)
    /\ ev' = "free"
    /\ UNCHANGED <<receiver, flags, evcb, evst, trx, seqnum, unlinking, live, pending_count>>

\* The client is gone: no response.
CallbackDrop ==
    /\ ev = "drop"
    /\ Erase(seqnum[evcb])
    /\ ev' = "free"
    /\ UNCHANGED <<receiver, flags, evcb, evst, trx, seqnum, unlinking, live, pending_count,
                   out>>

\* callback_args_pool_.free(&callback_arg)
CallbackFree ==
    /\ ev = "free"
    /\ live' = live \ {evcb}
    /\ ev' = "count"
    /\ UNCHANGED <<receiver, flags, evcb, evst, trx, transfers, seqnum, unlinking,
                   pending_count, out>>

\* decrement_pending_and_notify, under transfer_complete_mutex_: the last
\* access to the handler
CallbackCount ==
    /\ ev = "count"
    /\ pending_count' = pending_count - 1
    /\ ev' = "idle"
    /\ UNCHANGED <<receiver, flags, evcb, evst, trx, transfers, seqnum, unlinking, live, out>>

EventThread ==
    \/ \E a \in Args : CallbackStart(a)
    \/ CallbackStatus \/ CallbackAnswer \/ CallbackDrop \/ CallbackFree \/ CallbackCount

------------------------------------------------------------------------------

Next ==
    \/ OnNewConnection \/ ReceiverEnds \/ Receiver
    \/ \E u \in Urb :
          \/ AnswerDirectly(u) \/ RejectDuplicate(u) \/ Track(u) \/ UrbAfterRemoval(u)
          \/ HandleUnlink(u) \/ UnlinkAfterRemoval(u)
    \/ \E a \in Args : TransferEnds(a)
    \/ PullOut \/ DeviceLeft
    \/ EventThread

(***************************************************************************)
(* Fairness: both threads run; a session that was told to stop leaves its  *)
(* loop; libusb ends a transfer that is cancelled or whose device is gone, *)
(* and reports that a device left when it supports hotplug.  A transfer    *)
(* that is neither need never end.                                         *)
(***************************************************************************)
Fairness ==
    /\ WF_vars(Receiver) /\ WF_vars(EventThread)
    /\ WF_vars(stop /\ ReceiverEnds) /\ SF_vars(DeviceLeft)
    /\ \A a \in Args : WF_vars((trx[a] = "cancelling" \/ pulled) /\ TransferEnds(a))

Spec == Init /\ [][Next]_vars /\ Fairness

------------------------------------------------------------------------------
(* Properties.                                                               *)

Status == {"OK", "ECONNRESET", "EPIPE", "ESHUTDOWN"}
Response == [kind : {"RET_SUBMIT", "RET_UNLINK"}, urb : Urb, nr : 0..MaxUnlinks, status : Status]

TypeOK ==
    /\ transfers \in [Urb -> Args \cup {NoArgs}] /\ live \subseteq Args
    /\ seqnum \in [Args -> Urb \cup {0}] /\ unlinking \in [Args -> 0..MaxUnlinks]
    /\ pending_count \in Nat
    /\ client_disconnection \in BOOLEAN /\ device_removed \in BOOLEAN
    /\ trx \in [Args -> {"none", "flying", "cancelling"} \cup TrxStatus]
    /\ rx \in {"closed", "loop", "submit", "ending", "cancel", "wait"}
    /\ rxcb \in Args \cup {NoArgs} /\ (rx = "submit" => rxcb \in live)
    /\ ev \in {"idle", "status", "answer", "drop", "free", "count"}
    /\ evcb \in Args \cup {NoArgs} /\ (ev \notin {"idle", "count"} => evcb \in live)
    /\ evst \in TrxStatus /\ stop \in BOOLEAN /\ pulled \in BOOLEAN
    /\ nsub \in [Urb -> 0..MaxSubmits] /\ nunl \in [Urb -> 0..MaxUnlinks]
    /\ ncmd \in 0..MaxSubmits /\ nconn \in 0..MaxConnections
    /\ out \in Seq(Response)

Answers(kind, u) == {i \in 1..Len(out) : out[i].kind = kind /\ out[i].urb = u}

\* No CMD_SUBMIT is answered twice: there are never more RET_SUBMITs, and
\* RET_UNLINKs that say the URB was cancelled, than CMD_SUBMITs.
AnsweredOnce ==
    \A u \in Urb :
        Cardinality(Answers("RET_SUBMIT", u)) +
        Cardinality({i \in Answers("RET_UNLINK", u) : out[i].status = "ECONNRESET"}) <= nsub[u]

\* DeviceHandler.h: "RET_SUBMIT must be sent before RET_UNLINK".  For a number
\* that is used once, nothing is sent about the URB after its RET_UNLINK, and
\* a cancelled URB has no RET_SUBMIT at all.
SubmitBeforeUnlink ==
    \A u \in Urb : nsub[u] = 1 =>
        \A i \in Answers("RET_UNLINK", u) :
            /\ \A j \in Answers("RET_SUBMIT", u) : j < i
            /\ out[i].status = "ECONNRESET" => Answers("RET_SUBMIT", u) = {}

\* on_disconnection returns only when libusb is done with the handler: no
\* transfer is outstanding, no callback is running that would touch the
\* handler, the pool or the responder, and the map and pool are empty.
QuietWhenClosed ==
    rx = "closed" =>
        /\ Tracked = {} /\ ev = "idle"
        /\ \A a \in Args : trx[a] = "none"

\* What handle_unlink_seqnum and on_disconnection dereference under the lock
\* is alive and belongs to the number they looked up, and libusb holds no
\* transfer whose arguments went back to the pool.
TrackedIsAlive ==
    /\ \A u \in Tracked : transfers[u] \in live /\ seqnum[transfers[u]] = u
    /\ \A a \in Args : trx[a] # "none" => a \in live /\ transfers[seqnum[a]] = a

\* on_disconnection terminates, whatever the device does with transfers that
\* were not cancelled.
DisconnectionCompletes == client_disconnection ~> rx = "closed"

\* Every CMD_UNLINK gets its RET_UNLINK (unless the connection ends first or
\* the device was removed).
UnlinkAnswered ==
    \A u \in Urb :
        (rx = "loop" /\ nunl[u] = 1 /\ ~device_removed) ~>
            (Answers("RET_UNLINK", u) # {} \/ rx \in {"ending", "closed"} \/ device_removed)

\* LibusbDeviceHandler.cpp, handle_unlink_seqnum: a removed device need not
\* answer, "the connection is about to be closed".
RemovalEndsConnection == (rx = "loop" /\ device_removed) ~> (rx # "loop")
==============================================================================
