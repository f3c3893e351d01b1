--------------------------- MODULE DeviceRegistry ---------------------------
(***************************************************************************)
(* Who owns a device: the two device lists of Server (available_devices,   *)
(* using_devices, under devices_mutex), the Sessions that import and       *)
(* release devices, and the libusb back end that adds and removes them     *)
(* when they are plugged in, pulled out, bound or unbound.                 *)
(*                                                                         *)
(* A critical section of devices_mutex is one step.  What the code does in *)
(* two sections is two steps: handle_device_left looks at the available    *)
(* list, lets go of the mutex, and only then looks at the used one.        *)
(* Notifications to ServerObserver are sent after the mutex is released,   *)
(* so they are steps of their own.                                         *)
(*                                                                         *)
(* A device object (UsbDevice and its handler) is <<busid, n>>: the n-th   *)
(* one made for that busid.                                                *)
(***************************************************************************)
EXTENDS Naturals, Sequences

CONSTANTS
    Busid,         \* names of USB ports
    Session,       \* client connections, each with one import request
    EventThread,   \* the libusb event thread, which runs hotplug callbacks
    Users,         \* other threads that call bind/unbind/try_remove_dead_device
    None,
    AutoBind,      \* LibusbServerConfig::auto_bind_hotplug
    DisconnectOnAnyError, \* submit_error_policy; else DisconnectOnDeviceGone
    MaxMade,       \* bound: device objects made for a busid
    MaxPlugs,      \* bound: times a device is plugged into a busid
    MaxCalls       \* bound: calls made by the Users

Object == Busid \X (1..MaxMade)
Backend == Users \cup {EventThread}
Event == {"arrived", "left"} \X Busid \X (1..MaxPlugs)  \* a hotplug callback to come

ASSUME DeviceRegistryAssumption ==
    /\ None \notin Object \cup Session \cup Busid
    /\ EventThread \notin Users
    /\ AutoBind \in BOOLEAN /\ DisconnectOnAnyError \in BOOLEAN
    /\ MaxMade \in Nat /\ MaxPlugs \in Nat /\ MaxCalls \in Nat

VARIABLES
    available,      \* available_devices (its order is never used)
    using,          \* using_devices: busid -> device object
    removed,        \* objects whose handler answers is_device_removed()
    claimed,        \* objects whose handler holds the claimed interfaces
    responder,      \* AbstDeviceHandler::responder of each object
    pc, want, dev,  \* per session: where it is, the busid asked for, current_import_device
    stop,           \* per session: should_immediately_stop
    bpc, bbus, bgen, bobj, \* per back-end thread: where, busid, plug, object to report
    running,        \* Server::running
    stopper,        \* LibusbServer::stop
    made,           \* objects made so far, per busid
    plugs, present, gone, events, \* the bus: plugs so far, plugged in now,
                    \* objects whose device was pulled out, callbacks to deliver
    calls,
    nGone,          \* history: released(DeviceRemoved) sent, per object
    nAttached, nReleased  \* history: attached / released sent, per session

lists == <<available, using>>
handlers == <<removed, claimed, responder>>
sessions == <<pc, want, dev, stop>>
backends == <<bpc, bbus, bgen, bobj>>
bus == <<plugs, present, gone, events>>
history == <<nGone, nAttached, nReleased>>
vars == <<available, using, removed, claimed, responder, pc, want, dev, stop,
          bpc, bbus, bgen, bobj, running, stopper, made, plugs, present, gone,
          events, calls, nGone, nAttached, nReleased>>

SessionPC == {"new", "op", "try", "connect", "open", "open_failed", "attach",
              "reply", "transfer", "disconnect", "release", "report",
              "report_gone", "reply_fail", "closed"}
BackendPC == {"idle", "add", "report_added", "detach", "sweep", "unbind",
              "report_gone"}

\* From try_moving_device_to_using to release_device, a session's device is in use.
Holding == {"connect", "open", "open_failed", "attach", "reply", "transfer",
            "disconnect", "release"}

Known(b) == using[b] # None \/ \E o \in available : o[1] = b

Init ==
    /\ available = {} /\ using = [b \in Busid |-> None]
    /\ removed = {} /\ claimed = {} /\ responder = [o \in Object |-> None]
    /\ pc = [s \in Session |-> "new"]
    /\ want = [s \in Session |-> None]
    /\ dev = [s \in Session |-> None] /\ stop = [s \in Session |-> FALSE]
    /\ bpc = [t \in Backend |-> "idle"] /\ bbus = [t \in Backend |-> None]
    /\ bgen = [t \in Backend |-> 0] /\ bobj = [t \in Backend |-> None]
    /\ running = TRUE /\ stopper = "idle"
    /\ made = [b \in Busid |-> 0] /\ plugs = [b \in Busid |-> 0]
    /\ present = [b \in Busid |-> FALSE] /\ gone = {} /\ events = <<>>
    /\ calls = 0
    /\ nGone = [o \in Object |-> 0]
    /\ nAttached = [s \in Session |-> 0] /\ nReleased = [s \in Session |-> 0]

------------------------------------------------------------------------------
(* The bus, as libusb reports it.                                            *)

PlugIn(b) ==
    /\ ~present[b] /\ plugs[b] < MaxPlugs
    /\ present' = [present EXCEPT ![b] = TRUE]
    /\ plugs' = [plugs EXCEPT ![b] = @ + 1]
    /\ events' = Append(events, <<"arrived", b, plugs[b] + 1>>)
    /\ UNCHANGED <<lists, handlers, sessions, backends, running, stopper, made,
                   gone, calls, history>>

PullOut(b) ==
    /\ present[b]
    /\ present' = [present EXCEPT ![b] = FALSE]
    /\ gone' = gone \cup {o \in Object : o[1] = b /\ o[2] <= made[b]}
    /\ events' = Append(events, <<"left", b, plugs[b]>>)
    /\ UNCHANGED <<lists, handlers, sessions, backends, running, stopper, made,
                   plugs, calls, history>>

------------------------------------------------------------------------------
(* The back end: hotplug callbacks and the bind/unbind interface.            *)

backendUnchanged == <<sessions, running, stopper, plugs, present>>

\* hotplug_callback -> handle_device_arrived: the check under a shared lock.
\* The device is bound later, under another one.
DeviceArrived ==
    /\ bpc[EventThread] = "idle" /\ stopper = "idle"
    /\ events # <<>> /\ Head(events)[1] = "arrived"
    /\ events' = Tail(events)
    /\ IF Known(Head(events)[2]) \/ ~AutoBind
       THEN UNCHANGED <<bpc, bbus, bgen>>
       ELSE /\ bpc' = [bpc EXCEPT ![EventThread] = "add"]
            /\ bbus' = [bbus EXCEPT ![EventThread] = Head(events)[2]]
            /\ bgen' = [bgen EXCEPT ![EventThread] = Head(events)[3]]
    /\ UNCHANGED <<lists, handlers, backendUnchanged, bobj, made, gone, calls, history>>

\* hotplug_callback -> handle_device_left
DeviceLeft ==
    /\ bpc[EventThread] = "idle" /\ stopper = "idle"
    /\ events # <<>> /\ Head(events)[1] = "left"
    /\ events' = Tail(events)
    /\ bpc' = [bpc EXCEPT ![EventThread] = "detach"]
    /\ bbus' = [bbus EXCEPT ![EventThread] = Head(events)[2]]
    /\ UNCHANGED <<lists, handlers, backendUnchanged, bgen, bobj, made, gone,
                   calls, history>>

\* A user calls bind_host_device (op = "add"), unbind_host_device ("unbind"),
\* or try_remove_dead_device / notify_device_removed ("detach").
UserCall(t, op, b) ==
    /\ t \in Users /\ bpc[t] = "idle" /\ calls < MaxCalls
    /\ op = "add" => present[b]
    /\ calls' = calls + 1
    /\ bpc' = [bpc EXCEPT ![t] = op]
    /\ bbus' = [bbus EXCEPT ![t] = b]
    /\ bgen' = [bgen EXCEPT ![t] = plugs[b]]
    /\ UNCHANGED <<lists, handlers, backendUnchanged, bobj, made, gone, events, history>>

\* Mutant: the duplicate check looks at the available list only.
AddIgnoresUsing(t) ==
    LET b == bbus[t]
        o == <<b, made[b] + 1>>
    IN  /\ bpc[t] = "add"
        /\ IF \E x \in available : x[1] = b
           THEN bpc' = [bpc EXCEPT ![t] = "idle"] /\ UNCHANGED <<available, made, gone, bobj>>
           ELSE /\ made[b] < MaxMade
                /\ made' = [made EXCEPT ![b] = @ + 1]
                /\ available' = available \cup {o}
                /\ gone' = IF present[b] /\ bgen[t] = plugs[b] THEN gone ELSE gone \cup {o}
                /\ bobj' = [bobj EXCEPT ![t] = o]
                /\ bpc' = [bpc EXCEPT ![t] = "report_added"]
        /\ UNCHANGED <<using, handlers, backendUnchanged, bbus, bgen, events, calls, history>>

\* bind_host_device -> Server::add_device: check and insertion under one lock.
\* (A descriptor that cannot be read or a filter ends the call without effect.)
AddDevice(t) ==
    LET b == bbus[t]
        o == <<b, made[b] + 1>>
    IN  /\ bpc[t] = "add"
        /\ IF Known(b)
           THEN bpc' = [bpc EXCEPT ![t] = "idle"] /\ UNCHANGED <<available, made, gone, bobj>>
           ELSE /\ made[b] < MaxMade
                /\ made' = [made EXCEPT ![b] = @ + 1]
                /\ available' = available \cup {o}
                /\ gone' = IF present[b] /\ bgen[t] = plugs[b] THEN gone ELSE gone \cup {o}
                /\ bobj' = [bobj EXCEPT ![t] = o]
                /\ bpc' = [bpc EXCEPT ![t] = "report_added"]
        /\ UNCHANGED <<using, handlers, backendUnchanged, bbus, bgen, events, calls, history>>

NotifyAdded(t) ==
    /\ bpc[t] = "report_added"
    /\ bpc' = [bpc EXCEPT ![t] = "idle"]
    /\ bobj' = [bobj EXCEPT ![t] = None]
    /\ UNCHANGED <<lists, handlers, backendUnchanged, bbus, bgen, made, gone,
                   events, calls, history>>

\* Server::detach_available_device(busid), then the back end's own clean-up
\* of a handler no other thread can reach any more (close, unref).
DetachAvailable(t, next) ==
    /\ IF \E o \in available : o[1] = bbus[t]
       THEN \E o \in available :
               /\ o[1] = bbus[t]
               /\ available' = available \ {o}
               /\ claimed' = claimed \ {o}
               /\ bobj' = [bobj EXCEPT ![t] = o]
               /\ bpc' = [bpc EXCEPT ![t] = "report_gone"]
       ELSE bpc' = [bpc EXCEPT ![t] = next] /\ UNCHANGED <<available, claimed, bobj>>
    /\ UNCHANGED <<using, removed, responder, backendUnchanged, bbus, bgen, made,
                   gone, events, calls, history>>

\* First half of handle_device_left, try_remove_dead_device, notify_device_removed
Detach(t) == bpc[t] = "detach" /\ DetachAvailable(t, "sweep")

\* unbind_host_device: a device that is not available is left alone.
Unbind(t) == bpc[t] = "unbind" /\ DetachAvailable(t, "idle")

\* Mutant: the removal is reported also when there was nothing to detach.
SweepReports(t) ==
    LET o == using[bbus[t]]
    IN  /\ bpc[t] = "sweep"
        /\ IF o = None
           THEN UNCHANGED <<removed, stop, nGone>>
           ELSE /\ removed' = removed \cup {o}
                /\ stop' = IF responder[o] = None THEN stop
                           ELSE [stop EXCEPT ![responder[o]] = TRUE]
                /\ nGone' = [nGone EXCEPT ![o] = @ + 1]
        /\ bpc' = [bpc EXCEPT ![t] = "idle"]
        /\ UNCHANGED <<lists, claimed, responder, pc, want, dev, bbus, bgen, bobj,
                       running, stopper, made, bus, calls, nAttached, nReleased>>

\* Mutant: the session is not told.
SweepSilently(t) ==
    /\ bpc[t] = "sweep"
    /\ removed' = IF using[bbus[t]] = None THEN removed ELSE removed \cup {using[bbus[t]]}
    /\ bpc' = [bpc EXCEPT ![t] = "idle"]
    /\ UNCHANGED <<lists, claimed, responder, sessions, bbus, bgen, bobj, running,
                   stopper, made, bus, calls, history>>

\* Second half: on_device_removed and trigger_session_stop for a device in use,
\* under devices_mutex (and session_mutex_).  The device stays in the list.
SweepUsing(t) ==
    LET o == using[bbus[t]]
    IN  /\ bpc[t] = "sweep"
        /\ IF o = None
           THEN UNCHANGED <<removed, stop>>
           ELSE /\ removed' = removed \cup {o}
                /\ stop' = IF responder[o] = None THEN stop
                           ELSE [stop EXCEPT ![responder[o]] = TRUE]
        /\ bpc' = [bpc EXCEPT ![t] = "idle"]
        /\ UNCHANGED <<lists, claimed, responder, pc, want, dev, bbus, bgen, bobj,
                       running, stopper, made, bus, calls, history>>

\* notify_device_gone: on_device_released(DeviceRemoved)
NotifyGone(t) ==
    /\ bpc[t] = "report_gone"
    /\ nGone' = [nGone EXCEPT ![bobj[t]] = @ + 1]
    /\ bpc' = [bpc EXCEPT ![t] = "idle"]
    /\ bobj' = [bobj EXCEPT ![t] = None]
    /\ UNCHANGED <<lists, handlers, backendUnchanged, bbus, bgen, made, gone,
                   events, calls, nAttached, nReleased>>

------------------------------------------------------------------------------
(* Sessions: Session::parse_op, one request per connection.                  *)

sessionUnchanged == <<backends, running, stopper, made, bus, calls>>

Goto(s, l) == pc' = [pc EXCEPT ![s] = l]

\* accept_loop starts the session's thread.
Accept(s) ==
    /\ pc[s] = "new" /\ running
    /\ Goto(s, "op")
    /\ UNCHANGED <<lists, handlers, want, dev, stop, sessionUnchanged, history>>

\* The connection ends before a device is held: no request arrives, it was
\* OpReqDevlist, or a failed import has been answered.
Leave(s) ==
    /\ pc[s] \in {"op", "reply_fail"}
    /\ Goto(s, "closed")
    /\ UNCHANGED <<lists, handlers, want, dev, stop, sessionUnchanged, history>>

\* OpReqImport: is_device_using under a shared lock; a device in use is NA.
Import(s, b) ==
    /\ pc[s] = "op"
    /\ want' = [want EXCEPT ![s] = b]
    /\ Goto(s, IF using[b] # None THEN "reply_fail" ELSE "try")
    /\ UNCHANGED <<lists, handlers, dev, stop, sessionUnchanged, history>>

\* Mutant: the device is handed out without being taken off the list.
MoveKeepsAvailable(s) ==
    LET b == want[s]
    IN  /\ pc[s] = "try"
        /\ IF \E o \in available : o[1] = b
           THEN \E o \in available :
                   /\ o[1] = b
                   /\ available' = available
                   /\ using' = [using EXCEPT ![b] = o]
                   /\ dev' = [dev EXCEPT ![s] = o]
                   /\ Goto(s, "connect")
           ELSE Goto(s, "reply_fail") /\ UNCHANGED <<lists, dev>>
        /\ UNCHANGED <<handlers, want, stop, sessionUnchanged, history>>

\* Mutant: the result of the search is used without asking whether it found one.
MoveUnchecked(s) ==
    LET b == want[s]
        found == {o \in available : o[1] = b}
    IN  /\ pc[s] = "try"
        /\ using' = [using EXCEPT ![b] = IF found = {} THEN None ELSE CHOOSE o \in found : TRUE]
        /\ dev' = [dev EXCEPT ![s] = using'[b]]
        /\ available' = available \ found
        /\ Goto(s, "connect")
        /\ UNCHANGED <<handlers, want, stop, sessionUnchanged, history>>

\* try_moving_device_to_using, under another lock than the check before it
TryMovingDeviceToUsing(s) ==
    LET b == want[s]
    IN  /\ pc[s] = "try"
        /\ IF \E o \in available : o[1] = b
           THEN \E o \in available :
                   /\ o[1] = b
                   /\ available' = available \ {o}
                   /\ using' = [using EXCEPT ![b] = o]
                   /\ dev' = [dev EXCEPT ![s] = o]
                   /\ Goto(s, "connect")
           ELSE Goto(s, "reply_fail") /\ UNCHANGED <<lists, dev>>
        /\ UNCHANGED <<handlers, want, stop, sessionUnchanged, history>>

\* on_new_connection, base class: register_responder
RegisterResponder(s) ==
    /\ pc[s] = "connect"
    /\ responder' = [responder EXCEPT ![dev[s]] = s]
    /\ Goto(s, "open")
    /\ UNCHANGED <<lists, removed, claimed, want, dev, stop, sessionUnchanged, history>>

\* open_and_claim_device succeeds; a device that was pulled out cannot be opened.
OpenDevice(s) ==
    /\ pc[s] = "open" /\ dev[s] \notin gone
    /\ claimed' = claimed \cup {dev[s]}
    /\ Goto(s, "attach")
    /\ UNCHANGED <<lists, removed, responder, want, dev, stop, sessionUnchanged, history>>

\* Mutant: the failed attempt leaves its responder registered.
OpenFailsKeepsResponder(s) ==
    /\ pc[s] = "open"
    /\ Goto(s, "open_failed")
    /\ UNCHANGED <<lists, handlers, want, dev, stop, sessionUnchanged, history>>

\* ... or fails, for this or any other reason, and is rolled back.
OpenFails(s) ==
    /\ pc[s] = "open"
    /\ responder' = [responder EXCEPT ![dev[s]] = None]
    /\ Goto(s, "open_failed")
    /\ UNCHANGED <<lists, removed, claimed, want, dev, stop, sessionUnchanged, history>>

\* notify_device_attached; cmd_transferring is set
NotifyAttached(s) ==
    /\ pc[s] = "attach"
    /\ nAttached' = [nAttached EXCEPT ![s] = @ + 1]
    /\ Goto(s, "reply")
    /\ UNCHANGED <<lists, handlers, want, dev, stop, sessionUnchanged, nGone,
                   nReleased>>

\* OpRepImport is written and the sender thread started: transfer_loop runs.
ReplySent(s) ==
    /\ pc[s] = "reply"
    /\ Goto(s, "transfer")
    /\ UNCHANGED <<lists, handlers, want, dev, stop, sessionUnchanged, history>>

\* The write fails, or the sender thread cannot be created.
ReplyFails(s) ==
    /\ pc[s] = "reply"
    /\ Goto(s, "disconnect")
    /\ UNCHANGED <<lists, handlers, want, dev, stop, sessionUnchanged, history>>

\* transfer_callback sees LIBUSB_TRANSFER_NO_DEVICE; the session goes on.
TransferSeesNoDevice(s) ==
    /\ pc[s] = "transfer" /\ dev[s] \in gone
    /\ removed' = removed \cup {dev[s]}
    /\ UNCHANGED <<lists, claimed, responder, sessions, sessionUnchanged, history>>

\* receive_urb finds device_removed set: the session ends.
UrbAfterRemoval(s) ==
    /\ pc[s] = "transfer" /\ dev[s] \in removed
    /\ Goto(s, "disconnect")
    /\ UNCHANGED <<lists, handlers, want, dev, stop, sessionUnchanged, history>>

\* libusb_submit_transfer fails: with NO_DEVICE, or for any reason under
\* DisconnectOnAnyError, the device counts as removed and the session ends.
SubmitFails(s) ==
    /\ pc[s] = "transfer"
    /\ DisconnectOnAnyError \/ dev[s] \in gone
    /\ removed' = removed \cup {dev[s]}
    /\ Goto(s, "disconnect")
    /\ UNCHANGED <<lists, claimed, responder, want, dev, stop, sessionUnchanged, history>>

\* The client disconnects, or immediately_stop was called.
TransferEnds(s) ==
    /\ pc[s] = "transfer"
    /\ Goto(s, "disconnect")
    /\ UNCHANGED <<lists, handlers, want, dev, stop, sessionUnchanged, history>>

\* on_disconnection: interfaces released, device closed, responder cleared.
OnDisconnection(s) ==
    /\ pc[s] = "disconnect"
    /\ claimed' = claimed \ {dev[s]}
    /\ responder' = [responder EXCEPT ![dev[s]] = None]
    /\ Goto(s, "release")
    /\ UNCHANGED <<lists, removed, want, dev, stop, sessionUnchanged, history>>

\* Mutant: every device goes back to the available list.
ReleaseAlways(s) ==
    LET b == want[s]
        o == using[b]
    IN  /\ pc[s] \in {"open_failed", "release"}
        /\ using' = [using EXCEPT ![b] = None]
        /\ available' = available \cup {o}
        /\ Goto(s, "report")
        /\ UNCHANGED <<handlers, want, dev, stop, sessionUnchanged, history>>

\* Mutant: the entry in the used list is forgotten.
ReleaseKeepsUsing(s) ==
    LET b == want[s]
        o == using[b]
    IN  /\ pc[s] \in {"open_failed", "release"}
        /\ available' = IF o \in removed THEN available ELSE available \cup {o}
        /\ Goto(s, IF o \in removed THEN "report_gone" ELSE "report")
        /\ UNCHANGED <<using, handlers, want, dev, stop, sessionUnchanged, history>>

\* Mutant: a removed device is dropped without a notification.
ReleaseDropsSilently(s) ==
    LET b == want[s]
        o == using[b]
    IN  /\ pc[s] \in {"open_failed", "release"}
        /\ using' = [using EXCEPT ![b] = None]
        /\ IF o \in removed
           THEN Goto(s, "closed") /\ UNCHANGED available
           ELSE Goto(s, "report") /\ available' = available \cup {o}
        /\ UNCHANGED <<handlers, want, dev, stop, sessionUnchanged, history>>

\* Server::release_device: back to the available list, or dropped when the
\* device was removed; a busid that is not in use is only logged.
ReleaseDevice(s) ==
    LET b == want[s]
        o == using[b]
    IN  /\ pc[s] \in {"open_failed", "release"}
        /\ IF o = None
           THEN Goto(s, "closed") /\ UNCHANGED lists
           ELSE /\ using' = [using EXCEPT ![b] = None]
                /\ IF o \in removed
                   THEN Goto(s, "report_gone") /\ UNCHANGED available
                   ELSE Goto(s, "report") /\ available' = available \cup {o}
        /\ UNCHANGED <<handlers, want, dev, stop, sessionUnchanged, history>>

\* notify_device_released(ClientDisconnected, ServerStopped or DeviceRemoved)
NotifyReleased(s) ==
    /\ pc[s] \in {"report", "report_gone"}
    /\ nReleased' = [nReleased EXCEPT ![s] = @ + 1]
    /\ nGone' = IF pc[s] = "report" THEN nGone ELSE [nGone EXCEPT ![dev[s]] = @ + 1]
    /\ Goto(s, "closed")
    /\ UNCHANGED <<lists, handlers, want, dev, stop, sessionUnchanged, nAttached>>

------------------------------------------------------------------------------
(* LibusbServer::stop                                                        *)

\* stop_hotplug_monitor and Server::stop up to the sessions: running is
\* cleared, every session is told to stop.
StopBegin ==
    /\ stopper = "idle"
    /\ stopper' = "stopping"
    /\ running' = FALSE
    /\ stop' = [s \in Session |-> pc[s] # "new"]
    /\ UNCHANGED <<lists, handlers, pc, want, dev, backends, made, bus, calls, history>>

\* The wait for all sessions to be gone is over: both lists are cleared.
StopClear ==
    /\ stopper = "stopping"
    /\ \A s \in Session : pc[s] \in {"new", "closed"}
    /\ available' = {}
    /\ using' = [b \in Busid |-> None]
    /\ claimed' = {}
    /\ stopper' = "cleared"
    /\ UNCHANGED <<removed, responder, sessions, backends, running, made, bus, calls, history>>

\* The event thread is joined: a callback it is in runs to its end.
StopJoin ==
    /\ stopper = "cleared" /\ bpc[EventThread] = "idle"
    /\ stopper' = "stopped"
    /\ UNCHANGED <<lists, handlers, sessions, backends, running, made, bus, calls, history>>

------------------------------------------------------------------------------

BackendStep(t) ==
    AddDevice(t) \/ NotifyAdded(t) \/ Detach(t) \/ Unbind(t) \/ SweepUsing(t) \/ NotifyGone(t)

\* What a session does by itself, once it is told to or its peer acts.
SessionStep(s) ==
    \/ Leave(s) \/ TryMovingDeviceToUsing(s) \/ RegisterResponder(s)
    \/ OpenDevice(s) \/ OpenFails(s) \/ NotifyAttached(s)
    \/ ReplySent(s) \/ ReplyFails(s)
    \/ OnDisconnection(s) \/ ReleaseDevice(s) \/ NotifyReleased(s)

Next ==
    \/ \E b \in Busid : PlugIn(b) \/ PullOut(b)
    \/ DeviceArrived \/ DeviceLeft
    \/ \E t \in Users, op \in {"add", "unbind", "detach"}, b \in Busid : UserCall(t, op, b)
    \/ \E t \in Backend : BackendStep(t)
    \/ \E s \in Session :
           \/ Accept(s) \/ (\E b \in Busid : Import(s, b)) \/ SessionStep(s)
           \/ TransferSeesNoDevice(s) \/ UrbAfterRemoval(s)
           \/ SubmitFails(s) \/ TransferEnds(s)
    \/ StopBegin \/ StopClear \/ StopJoin

(***************************************************************************)
(* Fairness: threads run; libusb delivers the callbacks it has queued; a   *)
(* session that was told to stop leaves transfer_loop (SessionTransfer's   *)
(* StopEndsSession).  Nothing is assumed of clients or of plugging.        *)
(***************************************************************************)
Fairness ==
    /\ WF_vars(DeviceArrived) /\ WF_vars(DeviceLeft)
    /\ \A t \in Backend : WF_vars(BackendStep(t))
    /\ \A s \in Session : WF_vars(SessionStep(s)) /\ WF_vars(stop[s] /\ TransferEnds(s))

Spec == Init /\ [][Next]_vars /\ Fairness

------------------------------------------------------------------------------
(* Refinement: the lists and the sessions implement DeviceOwnership.         *)

HeldBy == [s \in Session |-> IF pc[s] \in Holding THEN dev[s] ELSE None]
KnownObjects == {o \in Object : o[2] <= made[o[1]]}
ServedSessions == {s \in Session : pc[s] \in {"report", "report_gone", "reply_fail", "closed"}
                                  /\ dev[s] # None}
BusidOfObject(o) == o[1]

Ownership == INSTANCE DeviceOwnership
    WITH Client <- Session, BusidOf <- BusidOfObject, offered <- available,
         held <- HeldBy, known <- KnownObjects, served <- ServedSessions

\* Server keeps DeviceOwnership's promise: every step of every thread is one
\* of its steps, or changes nothing it speaks of.
ImplementsOwnership == Ownership!Spec

------------------------------------------------------------------------------
(* Properties.                                                               *)

ListsOK ==
    /\ available \subseteq Object /\ using \in [Busid -> Object \cup {None}]
    /\ made \in [Busid -> 0..MaxMade]

HandlersOK ==
    /\ removed \subseteq Object /\ claimed \subseteq Object /\ gone \subseteq Object
    /\ responder \in [Object -> Session \cup {None}]

SessionsOK ==
    /\ pc \in [Session -> SessionPC] /\ want \in [Session -> Busid \cup {None}]
    /\ dev \in [Session -> Object \cup {None}] /\ stop \in [Session -> BOOLEAN]
    /\ \A s \in Session : pc[s] \notin {"new", "op", "closed"} => want[s] \in Busid
    /\ \A s \in Session : pc[s] \in Holding \cup {"report", "report_gone"} => dev[s] \in Object

BackendsOK ==
    /\ bpc \in [Backend -> BackendPC] /\ bbus \in [Backend -> Busid \cup {None}]
    /\ bgen \in [Backend -> 0..MaxPlugs] /\ bobj \in [Backend -> Object \cup {None}]
    /\ \A t \in Backend : bpc[t] # "idle" => bbus[t] \in Busid
    /\ \A t \in Backend : bpc[t] \in {"report_added", "report_gone"} <=> bobj[t] \in Object

BusOK ==
    /\ running \in BOOLEAN /\ stopper \in {"idle", "stopping", "cleared", "stopped"}
    /\ plugs \in [Busid -> 0..MaxPlugs] /\ present \in [Busid -> BOOLEAN]
    /\ events \in Seq(Event)
    /\ calls \in 0..MaxCalls

HistoryOK ==
    /\ nGone \in [Object -> Nat]
    /\ nAttached \in [Session -> Nat] /\ nReleased \in [Session -> Nat]

TypeOK == ListsOK /\ HandlersOK /\ SessionsOK /\ BackendsOK /\ BusOK /\ HistoryOK

\* A busid names at most one device, in one list only (add_device: a second
\* entry would make import and removal by busid ambiguous).
SingleListing ==
    /\ \A o1, o2 \in available : o1[1] = o2[1] => o1 = o2
    /\ \A o \in available : using[o[1]] = None

\* A session that holds a device is the only one to hold it, and holds the
\* one that is listed as used under the busid it asked for; so what
\* release_device finds by name is the session's own device.
HolderListed ==
    \A s \in Session :
        pc[s] \in Holding =>
            /\ using[want[s]] = dev[s] /\ dev[s][1] = want[s]
            /\ \A r \in Session \ {s} : pc[r] \in Holding => dev[r] # dev[s]

\* No device is left behind in the used list: some session will release it
\* (otherwise every later import is told that the device is in use).
UsedIsHeld ==
    \A b \in Busid : using[b] # None => \E s \in Session : pc[s] \in Holding /\ dev[s] = using[b]

\* DeviceHandler.h, register_responder: a responder left behind would be a
\* pointer to a destroyed Session that trigger_session_stop follows.  It
\* only ever points to the session that is connected to the device.
NoDanglingResponder ==
    \A o \in Object : responder[o] # None =>
        /\ dev[responder[o]] = o
        /\ pc[responder[o]] \in {"open", "attach", "reply", "transfer", "disconnect"}

\* A device offered for import is closed, and was not found to be removed
\* (release_device drops such a device instead of offering it again).
AvailableIsIdle == available \cap (claimed \cup removed) = {}

\* The two lists and the sessions agree whoever moves a device: what
\* try_moving_device_to_using, release_device, add_device and the sweeps of
\* the event thread do in separate critical sections never leaves a busid
\* twice, a device without its holder, a holder without its device, or an
\* open or dead device on offer.
ListsAgree == SingleListing /\ HolderListed /\ UsedIsHeld /\ AvailableIsIdle

\* Every device that left the lists is reported removed once, by the thread
\* that took it out, however many threads try.
RemovalReportedOnce ==
    stopper \in {"idle", "stopping"} =>
        \A o \in Object :
            LET pending == {t \in Backend : bpc[t] = "report_gone" /\ bobj[t] = o}
                           \cup {s \in Session : pc[s] = "report_gone" /\ dev[s] = o}
                listed == o \in available \/ using[o[1]] = o
            IN  o[2] <= made[o[1]] =>
                    \/ listed /\ nGone[o] = 0 /\ pending = {}
                    \/ ~listed /\ nGone[o] = 0 /\ \E t \in pending : pending = {t}
                    \/ ~listed /\ nGone[o] = 1 /\ pending = {}

\* ServerObserver: an attached device is reported released exactly once, by
\* the time its session is over.
AttachReleasePaired ==
    \A s \in Session :
        /\ nAttached[s] <= 1 /\ nReleased[s] <= 1
        /\ pc[s] = "closed" => nAttached[s] <= nReleased[s]

\* Observers can keep count of devices from what they are told (Server.h,
\* ServerObserver): departures once each, attachments paired with releases,
\* although each notification is sent after the lock was given up.
ObserversInformed == RemovalReportedOnce /\ AttachReleasePaired

\* Pulling out a device that is in use ends the session that holds it, even
\* if its client never sends another request.
UnplugEndsSession ==
    \A s \in Session :
        (pc[s] = "transfer" /\ dev[s] \in gone) ~> pc[s] # "transfer"

\* README, "Device Removal Semantics": "zombies never arise in the first
\* place" - once every callback has been processed, no device that was
\* pulled out is on offer.
HotplugQuiet == events = <<>> /\ bpc[EventThread] = "idle" /\ stopper = "idle"
NoZombie == HotplugQuiet => available \cap gone = {}
==============================================================================
