--------------------------- MODULE ServerLifecycle ---------------------------
(***************************************************************************)
(* Server::start, Server::stop, the accept_loop coroutine and the lifetime *)
(* of Session objects.                                                     *)
(*                                                                         *)
(* A Session lives as long as somebody holds a shared_ptr to it: the       *)
(* coroutine's frame, the session's own detached thread, or the snapshot   *)
(* that stop() takes.  sessions holds weak pointers only.  When the last   *)
(* holder lets go, ~Session runs and reports to active_sessions.           *)
(*                                                                         *)
(* The coroutine runs on the network thread until it suspends in           *)
(* async_accept; after io_context.stop() the thread does not resume it any *)
(* more, and stop() runs it itself, once, with restart() and poll().       *)
(***************************************************************************)
EXTENDS Naturals

CONSTANTS
    MaxSessions,      \* bound: sessions created in all
    MaxStarts,        \* bound: successful calls of start
    CallbackMayThrow  \* whether the user's after_thread_create_callback may throw

ASSUME ServerLifecycleAssumption ==
    /\ MaxSessions \in Nat /\ MaxStarts \in Nat
    /\ CallbackMayThrow \in BOOLEAN

Id == 1..MaxSessions

VARIABLES
    running,          \* atomic flag
    io_stopped,       \* the io_context was stopped
    acceptor,         \* "closed" or "open"
    net,              \* the network thread: "none", "run", "exited"
    co,               \* the coroutine's place; "none" when there is none
    cur,              \* the session in the coroutine's frame, 0 for none
    accept,           \* the outstanding async_accept: "none", "pending", or how it ended
    next_session_id,
    held,             \* holders of each session
    life,             \* "unborn", "alive", "destroyed"
    active_sessions,
    sessions,         \* ids in the table
    thread,           \* each session's own thread
    should_immediately_stop,
    stopper,          \* the thread that calls start and stop
    conns,            \* stop's snapshot
    starts,
    started, ended    \* history: notifications per session

vars == <<running, io_stopped, acceptor, net, co, cur, accept, next_session_id,
          held, life, active_sessions, sessions, thread, should_immediately_stop,
          stopper, conns, starts, started, ended>>

CoPC == {"none", "top", "precheck", "register", "await", "accepted", "emplace", "notify",
         "run", "undo", "undo_notify", "return"}

Init ==
    /\ running = FALSE /\ io_stopped = FALSE /\ acceptor = "closed"
    /\ net = "none" /\ co = "none" /\ cur = 0 /\ accept = "none"
    /\ next_session_id = 1
    /\ held = [i \in Id |-> {}] /\ life = [i \in Id |-> "unborn"]
    /\ active_sessions = 0 /\ sessions = {}
    /\ thread = [i \in Id |-> "none"]
    /\ should_immediately_stop = [i \in Id |-> FALSE]
    /\ stopper = "idle" /\ conns = {} /\ starts = 0
    /\ started = [i \in Id |-> 0] /\ ended = [i \in Id |-> 0]

sessionState == <<held, life, active_sessions, sessions, thread,
                  should_immediately_stop, started, ended>>

------------------------------------------------------------------------------
(* start(): the caller's thread; stop() has joined every other one.          *)

\* open, bind and listen succeed, the network thread is created and spawns
\* the coroutine.  A call while running does nothing.
Start ==
    /\ stopper = "idle" /\ ~running /\ starts < MaxStarts
    /\ running' = TRUE /\ acceptor' = "open" /\ io_stopped' = FALSE
    /\ net' = "run" /\ co' = "top" /\ starts' = starts + 1
    /\ UNCHANGED <<cur, accept, next_session_id, stopper, conns, sessionState>>

\* Any of them fails: everything is undone and the error returned.
StartFails ==
    /\ stopper = "idle" /\ ~running
    /\ acceptor' = "closed"
    /\ io_stopped' \in {io_stopped, FALSE}
    /\ UNCHANGED <<running, net, co, cur, accept, next_session_id, stopper, conns,
                   starts, sessionState>>

------------------------------------------------------------------------------
(* accept_loop()                                                             *)

coUnchanged == <<running, io_stopped, next_session_id, stopper, conns, starts>>

\* Between two suspensions the coroutine runs on, io_context stopped or not;
\* stop() runs what is ready from its poll().
CoRuns == (net = "run" \/ stopper = "poll") /\ co \notin {"none", "await"}
CoResumes == co = "await" /\ accept # "pending" /\ ((net = "run" /\ ~io_stopped) \/ stopper = "poll")

\* The frame lets go of its session.
DropFrame == held' = IF cur = 0 THEN held ELSE [held EXCEPT ![cur] = @ \ {"frame"}]

Create ==
    /\ CoRuns /\ co = "top" /\ running
    /\ next_session_id <= MaxSessions
    /\ cur' = next_session_id
    /\ next_session_id' = next_session_id + 1
    /\ held' = [held EXCEPT ![next_session_id] = {"frame"}]
    /\ life' = [life EXCEPT ![next_session_id] = "alive"]
    /\ active_sessions' = active_sessions + 1
    /\ co' = "precheck"
    /\ UNCHANGED <<running, io_stopped, acceptor, net, accept, sessions, thread,
                   should_immediately_stop, stopper, conns, starts, started, ended>>

\* The checks of running at the top, before and after the accept.
SeeStopped ==
    /\ CoRuns /\ co \in {"top", "precheck", "accepted"} /\ ~running
    /\ co' = "return"
    /\ UNCHANGED <<coUnchanged, acceptor, net, cur, accept, sessionState>>

\* The check before the accept is registered, which is a step of its own: the
\* registration happens inside co_await, where no lock can be held.
Precheck ==
    /\ CoRuns /\ co = "precheck" /\ running
    /\ co' = "register"
    /\ UNCHANGED <<coUnchanged, acceptor, net, cur, accept, sessionState>>

\* co_await acceptor.async_accept
AsyncAccept ==
    /\ CoRuns /\ co = "register"
    /\ co' = "await"
    /\ accept' = IF acceptor = "open" THEN "pending" ELSE "fatal"
    /\ UNCHANGED <<coUnchanged, acceptor, net, cur, sessionState>>

\* A client connects, or the accept fails.
AcceptCompletes ==
    /\ accept = "pending"
    /\ accept' \in {"connected", "transient", "fatal"}
    /\ UNCHANGED <<coUnchanged, acceptor, net, co, cur, sessionState>>

\* A transient error drops the session and goes on; a fatal one closes the
\* acceptor (under acceptor_mutex) and ends the loop with running still set.
Resume ==
    /\ CoResumes
    /\ accept' = "none"
    /\ \/ /\ accept = "connected"
          /\ co' = "accepted" /\ UNCHANGED <<acceptor, cur, held>>
       \/ /\ accept = "transient"
          /\ co' = "top" /\ cur' = 0 /\ DropFrame /\ UNCHANGED acceptor
       \/ /\ accept = "fatal"
          /\ co' = "return" /\ acceptor' = "closed" /\ UNCHANGED <<cur, held>>
    /\ UNCHANGED <<coUnchanged, net, life, active_sessions, sessions, thread,
                   should_immediately_stop, started, ended>>

\* remote_endpoint fails, connection_filter says no or throws, or the table
\* cannot take the entry: the session is dropped.
Reject ==
    /\ CoRuns /\ \/ co = "accepted" /\ running
                 \/ co = "emplace"
    /\ co' = "top" /\ cur' = 0 /\ DropFrame
    /\ UNCHANGED <<coUnchanged, acceptor, net, accept, life, active_sessions,
                   sessions, thread, should_immediately_stop, started, ended>>

Admit ==
    /\ CoRuns /\ co = "accepted" /\ running
    /\ co' = "emplace"
    /\ UNCHANGED <<coUnchanged, acceptor, net, cur, accept, sessionState>>

Emplace ==
    /\ CoRuns /\ co = "emplace"
    /\ sessions' = sessions \cup {cur}
    /\ co' = "notify"
    /\ UNCHANGED <<coUnchanged, acceptor, net, cur, accept, held, life,
                   active_sessions, thread, should_immediately_stop, started, ended>>

NotifySessionStarted ==
    /\ CoRuns /\ co = "notify"
    /\ started' = [started EXCEPT ![cur] = @ + 1]
    /\ co' = "run"
    /\ UNCHANGED <<coUnchanged, acceptor, net, cur, accept, held, life,
                   active_sessions, sessions, thread, should_immediately_stop, ended>>

\* Session::run: the thread, holding the session, is created and detached.
Run ==
    /\ CoRuns /\ co = "run"
    /\ thread' = [thread EXCEPT ![cur] = "parse_op"]
    /\ co' = "top" /\ cur' = 0
    /\ held' = [held EXCEPT ![cur] = (@ \ {"frame"}) \cup {"thread"}]
    /\ UNCHANGED <<coUnchanged, acceptor, net, accept, life, active_sessions,
                   sessions, should_immediately_stop, started, ended>>

\* Session::run throws: no thread could be created, or one was and the
\* user's callback threw afterwards.
RunThrows ==
    /\ CoRuns /\ co = "run"
    /\ \/ UNCHANGED <<thread, held>>
       \/ /\ CallbackMayThrow
          /\ thread' = [thread EXCEPT ![cur] = "parse_op"]
          /\ held' = [held EXCEPT ![cur] = @ \cup {"thread"}]
    /\ co' = "undo"
    /\ UNCHANGED <<coUnchanged, acceptor, net, cur, accept, life, active_sessions,
                   sessions, should_immediately_stop, started, ended>>

\* Mutant: the failed session stays in the table.
UndoForgets ==
    /\ CoRuns /\ co = "undo"
    /\ co' = "top" /\ cur' = 0 /\ DropFrame
    /\ UNCHANGED <<coUnchanged, acceptor, net, accept, life, active_sessions,
                   sessions, thread, should_immediately_stop, started, ended>>

\* accept_loop's catch: remove_session(id), then the frame drops it.
Undo ==
    /\ CoRuns /\ co = "undo"
    /\ sessions' = sessions \ {cur}
    /\ IF cur \in sessions
       THEN co' = "undo_notify" /\ UNCHANGED <<cur, held>>
       ELSE co' = "top" /\ cur' = 0 /\ DropFrame
    /\ UNCHANGED <<coUnchanged, acceptor, net, accept, life, active_sessions,
                   thread, should_immediately_stop, started, ended>>

UndoNotify ==
    /\ CoRuns /\ co = "undo_notify"
    /\ ended' = [ended EXCEPT ![cur] = @ + 1]
    /\ co' = "top" /\ cur' = 0 /\ DropFrame
    /\ UNCHANGED <<coUnchanged, acceptor, net, accept, life, active_sessions,
                   sessions, thread, should_immediately_stop, started>>

\* co_return: the frame is destroyed.
Return ==
    /\ CoRuns /\ co = "return"
    /\ co' = "none" /\ cur' = 0 /\ DropFrame
    /\ UNCHANGED <<coUnchanged, acceptor, net, accept, life, active_sessions,
                   sessions, thread, should_immediately_stop, started, ended>>

\* run() returns: the io_context is stopped, or has nothing left to do.
NetworkExits ==
    /\ net = "run"
    /\ co = "none" \/ (io_stopped /\ co = "await")
    /\ net' = "exited"
    /\ UNCHANGED <<coUnchanged, acceptor, co, cur, accept, sessionState>>

Coroutine ==
    \/ Create \/ SeeStopped \/ Precheck \/ AsyncAccept \/ Resume \/ Reject \/ Admit
    \/ Emplace \/ NotifySessionStarted \/ Run \/ RunThrows \/ Undo \/ UndoNotify
    \/ Return

------------------------------------------------------------------------------
(* Session threads and destruction.                                          *)

threadUnchanged == <<running, io_stopped, acceptor, net, co, cur, accept,
                     next_session_id, stopper, conns, starts>>

\* parse_op ends: the client is done, or the session was told to stop.
ParseOpEnds(i) ==
    /\ thread[i] = "parse_op"
    /\ thread' = [thread EXCEPT ![i] = "remove"]
    /\ UNCHANGED <<threadUnchanged, held, life, active_sessions, sessions,
                   should_immediately_stop, started, ended>>

\* Mutant: the notification does not ask whether the entry was still there.
RemoveAlwaysNotifies(i) ==
    /\ thread[i] = "remove"
    /\ sessions' = sessions \ {i}
    /\ thread' = [thread EXCEPT ![i] = "notify"]
    /\ UNCHANGED <<threadUnchanged, held, life, active_sessions,
                   should_immediately_stop, started, ended>>

\* remove_session, under session_list_mutex: only the first call notifies.
RemoveSession(i) ==
    /\ thread[i] = "remove"
    /\ sessions' = sessions \ {i}
    /\ thread' = [thread EXCEPT ![i] = IF i \in sessions THEN "notify" ELSE "exit"]
    /\ UNCHANGED <<threadUnchanged, held, life, active_sessions,
                   should_immediately_stop, started, ended>>

NotifySessionEnded(i) ==
    /\ thread[i] = "notify"
    /\ ended' = [ended EXCEPT ![i] = @ + 1]
    /\ thread' = [thread EXCEPT ![i] = "exit"]
    /\ UNCHANGED <<threadUnchanged, held, life, active_sessions, sessions,
                   should_immediately_stop, started>>

\* The thread function returns and its self pointer goes.
ThreadExits(i) ==
    /\ thread[i] = "exit"
    /\ thread' = [thread EXCEPT ![i] = "done"]
    /\ held' = [held EXCEPT ![i] = @ \ {"thread"}]
    /\ UNCHANGED <<threadUnchanged, life, active_sessions, sessions,
                   should_immediately_stop, started, ended>>

\* ~Session: notify_session_destroyed, the count and the notification under
\* session_list_mutex
Destroy(i) ==
    /\ life[i] = "alive" /\ held[i] = {}
    /\ life' = [life EXCEPT ![i] = "destroyed"]
    /\ active_sessions' = active_sessions - 1
    /\ UNCHANGED <<threadUnchanged, held, sessions, thread,
                   should_immediately_stop, started, ended>>

SessionStep(i) ==
    RemoveSession(i) \/ NotifySessionEnded(i) \/ ThreadExits(i) \/ Destroy(i)

------------------------------------------------------------------------------
(* stop()                                                                    *)

stopUnchanged == <<net, cur, next_session_id, starts>>

\* running.exchange(false); a server that was not running is only joined.
StopBegin ==
    /\ stopper = "idle" /\ starts > 0
    /\ running' = FALSE
    /\ stopper' = IF running THEN "cancel" ELSE "join_only"
    /\ UNCHANGED <<stopUnchanged, io_stopped, acceptor, co, accept, conns, sessionState>>

StopJoinOnly ==
    /\ stopper = "join_only" /\ net # "run"
    /\ net' = "none" /\ stopper' = "idle"
    /\ UNCHANGED <<running, io_stopped, acceptor, co, cur, accept, next_session_id,
                   conns, starts, sessionState>>

\* acceptor.cancel(): only an accept that is already registered is aborted.
StopCancel ==
    /\ stopper = "cancel"
    /\ accept' = IF accept = "pending" THEN "fatal" ELSE accept
    /\ stopper' = "io_stop"
    /\ UNCHANGED <<stopUnchanged, running, io_stopped, acceptor, co, conns, sessionState>>

\* Mutant: the io_context is not stopped.
NoIoStop ==
    /\ stopper = "io_stop"
    /\ stopper' = "join"
    /\ UNCHANGED <<stopUnchanged, io_stopped, running, acceptor, co, accept, conns,
                   sessionState>>

StopIo ==
    /\ stopper = "io_stop"
    /\ io_stopped' = TRUE
    /\ stopper' = "join"
    /\ UNCHANGED <<stopUnchanged, running, acceptor, co, accept, conns, sessionState>>

\* Mutant: neither the network thread nor its coroutine is waited for.
NoJoin ==
    /\ stopper = "join"
    /\ stopper' = "snapshot"
    /\ UNCHANGED <<stopUnchanged, running, io_stopped, acceptor, co, accept, conns,
                   sessionState>>

StopJoin ==
    /\ stopper = "join" /\ net = "exited"
    /\ net' = "none" /\ stopper' = "close"
    /\ UNCHANGED <<running, io_stopped, acceptor, co, cur, accept, next_session_id,
                   conns, starts, sessionState>>

\* acceptor.close() aborts an outstanding accept; restart(); poll() begins.
StopClose ==
    /\ stopper = "close"
    /\ acceptor' = "closed"
    /\ accept' = IF accept = "pending" THEN "fatal" ELSE accept
    /\ io_stopped' = FALSE
    /\ stopper' = "poll"
    /\ UNCHANGED <<stopUnchanged, running, co, conns, sessionState>>

\* poll() returns when nothing is ready.
StopPolled ==
    /\ stopper = "poll" /\ ~CoRuns /\ ~CoResumes
    /\ stopper' = "snapshot"
    /\ UNCHANGED <<stopUnchanged, running, io_stopped, acceptor, co, accept, conns,
                   sessionState>>

\* The sessions in the table that are still alive are locked.
StopSnapshot ==
    /\ stopper = "snapshot"
    /\ conns' = {i \in sessions : held[i] # {}}
    /\ held' = [i \in Id |-> IF i \in conns' THEN held[i] \cup {"stop"} ELSE held[i]]
    /\ stopper' = "stop_each"
    /\ UNCHANGED <<stopUnchanged, running, io_stopped, acceptor, co, accept, life,
                   active_sessions, sessions, thread, should_immediately_stop,
                   started, ended>>

StopEach(i) ==
    /\ stopper = "stop_each" /\ i \in conns /\ ~should_immediately_stop[i]
    /\ should_immediately_stop' = [should_immediately_stop EXCEPT ![i] = TRUE]
    /\ UNCHANGED <<stopUnchanged, running, io_stopped, acceptor, co, accept, stopper,
                   conns, held, life, active_sessions, sessions, thread, started, ended>>

\* conns.clear()
StopRelease ==
    /\ stopper = "stop_each" /\ \A i \in conns : should_immediately_stop[i]
    /\ held' = [i \in Id |-> held[i] \ {"stop"}]
    /\ conns' = {}
    /\ stopper' = "wait"
    /\ UNCHANGED <<stopUnchanged, running, io_stopped, acceptor, co, accept, life,
                   active_sessions, sessions, thread, should_immediately_stop,
                   started, ended>>

\* Mutant: stop() waits for the table instead of the count.
WaitForTable ==
    /\ stopper = "wait" /\ sessions = {}
    /\ stopper' = "idle"
    /\ UNCHANGED <<stopUnchanged, running, io_stopped, acceptor, co, accept, conns,
                   sessionState>>

\* reap_cv: active_sessions is zero (the 10 s limit only logs); the table is
\* cleared and stop() returns.
StopWaited ==
    /\ stopper = "wait" /\ active_sessions = 0
    /\ sessions' = {}
    /\ stopper' = "idle"
    /\ UNCHANGED <<stopUnchanged, running, io_stopped, acceptor, co, accept, conns,
                   held, life, active_sessions, thread, should_immediately_stop,
                   started, ended>>

Stopper ==
    \/ StopJoinOnly \/ StopCancel \/ StopIo \/ StopJoin \/ StopClose \/ StopPolled
    \/ StopSnapshot \/ StopRelease \/ StopWaited \/ \E i \in Id : StopEach(i)

------------------------------------------------------------------------------

Next ==
    \/ Start \/ StartFails \/ StopBegin \/ Stopper
    \/ Coroutine \/ NetworkExits \/ AcceptCompletes
    \/ \E i \in Id : ParseOpEnds(i) \/ SessionStep(i)

(***************************************************************************)
(* Fairness: threads run, and a session that was told to stop leaves       *)
(* parse_op (SessionTransfer's StopEndsSession).  Clients may stay         *)
(* connected for ever, and need never connect.                             *)
(***************************************************************************)
Fairness ==
    /\ WF_vars(Stopper) /\ WF_vars(Coroutine) /\ WF_vars(NetworkExits)
    /\ \A i \in Id :
          WF_vars(SessionStep(i)) /\ WF_vars(should_immediately_stop[i] /\ ParseOpEnds(i))

Spec == Init /\ [][Next]_vars /\ Fairness

------------------------------------------------------------------------------
(* Properties.                                                               *)

TypeOK ==
    /\ running \in BOOLEAN /\ io_stopped \in BOOLEAN
    /\ acceptor \in {"closed", "open"} /\ net \in {"none", "run", "exited"}
    /\ co \in CoPC /\ cur \in {0} \cup Id
    /\ co \notin {"none", "top", "return"} => cur \in Id
    /\ accept \in {"none", "pending", "connected", "transient", "fatal"}
    /\ next_session_id \in 1..(MaxSessions + 1)
    /\ held \in [Id -> SUBSET {"frame", "thread", "stop"}]
    /\ life \in [Id -> {"unborn", "alive", "destroyed"}]
    /\ active_sessions \in 0..MaxSessions /\ sessions \subseteq Id
    /\ thread \in [Id -> {"none", "parse_op", "remove", "notify", "exit", "done"}]
    /\ should_immediately_stop \in [Id -> BOOLEAN]
    /\ stopper \in {"idle", "cancel", "io_stop", "join", "join_only", "close", "poll",
                    "snapshot", "stop_each", "wait"}
    /\ conns \subseteq Id /\ starts \in 0..MaxStarts
    /\ started \in [Id -> 0..1] /\ ended \in [Id -> 0..1]

\* Server.h, stop: "after the call every Session is stopped and destroyed",
\* and so are the network thread and the coroutine: the server may be
\* destroyed, or started again with nothing left of the last run.
StopLeavesNothing ==
    (stopper = "idle" /\ ~running) =>
        /\ \A i \in Id : life[i] # "alive" /\ held[i] = {}
        /\ sessions = {} /\ net # "run" /\ co = "none"

\* While stop() waits for the sessions to be destroyed, each one in the table
\* that still runs has been told to stop: none was created, or entered the table, behind
\* the back of the snapshot ("no new session is created any more").
StopReachesEverySession ==
    stopper = "wait" =>
        \A i \in sessions : thread[i] = "parse_op" => should_immediately_stop[i]

\* accept_loop: on_session_started and on_session_ended are "strictly
\* paired": a session that is destroyed was announced and was reported ended
\* equally often, and none ends before it started.
SessionEventsPaired ==
    \A i \in Id :
        /\ ended[i] <= started[i]
        /\ life[i] = "destroyed" => ended[i] = started[i]

\* A session runs that is not in the table: its after_thread_create_callback
\* threw once the thread was there, and nobody can tell it to stop.
Orphan == \E i \in Id \ sessions : thread[i] = "parse_op"

\* stop() returns, whatever the accept is doing when it is called and even if
\* no client ever disconnects, unless a session was orphaned.
StopReturnsUnlessOrphan == (stopper = "cancel") ~> (stopper = "idle" \/ Orphan)

\* Server.h, stop: it returns with every session destroyed - also when a
\* callback threw.
StopReturns == (stopper = "cancel") ~> (stopper = "idle")
==============================================================================
