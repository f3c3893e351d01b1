-------------------------- MODULE TransferScheduler --------------------------
(***************************************************************************)
(* TransferScheduler: it answers isochronous URBs at the pace of their     *)
(* data and bulk and interrupt URBs at frame boundaries, one URB of an     *)
(* endpoint at a time.                                                     *)
(*                                                                         *)
(* The session's threads call start, stop, submit, cancel; a handler calls *)
(* on_urb_done; one thread runs the io_context with the posted functions   *)
(* and the timer.  A step is a critical section of the scheduler's mutex.  *)
(* Time is counted in ticks; 0 is the clock's epoch, which the code uses   *)
(* for "not set".                                                          *)
(***************************************************************************)
EXTENDS Integers, Sequences, FiniteSets, SequencesExt

CONSTANTS
    SchedEps,    \* endpoints
    IsoEps,      \* the isochronous ones
    Frame,       \* ticks in a frame
    Delays,      \* data_duration of isochronous URBs, negative too
    MaxUrbs,     \* bound: URBs
    LastSubmit,  \* bound: no URB comes later
    EndOfTime,   \* bound: the clock goes no further unless a timer is set
    MaxStarts    \* bound: connections

ASSUME TransferSchedulerAssumption ==
    /\ IsFiniteSet(SchedEps) /\ IsoEps \subseteq SchedEps /\ "none" \notin SchedEps
    /\ Frame \in Nat \ {0} /\ Delays \subseteq Int
    /\ {MaxUrbs, LastSubmit, EndOfTime, MaxStarts} \subseteq Nat /\ LastSubmit < EndOfTime

VARIABLES
    now,            \* steady_clock
    started, joining,   \* stop() is between its critical section and the end of join()
    queue, processing, last_scheduled,  \* EndpointState; processing is 0 or a seqnum
    timer_pending, expires,  \* expires: when the asio timer goes off, NoTimer: no wait
    io_queue,       \* handlers of the io_context, oldest first
    due,            \* what on_timer, out of the lock, has still to process
    handling,       \* URBs a processor has and has not reported
    answered, cancelled_urbs, \* history
    nurbs, nstarts  \* URBs so far, connections so far

schedVars == <<now, started, joining, queue, processing, last_scheduled, timer_pending,
               expires, io_queue, due, handling, answered, cancelled_urbs, nurbs, nstarts>>

NoTimer == -1

Greater(a, b) == IF a > b THEN a ELSE b

NoUrbs == [e \in SchedEps |-> <<>>]
Nothing == [e \in SchedEps |-> 0]

SchedInit ==
    /\ now = 1 /\ started = FALSE /\ joining = FALSE
    /\ queue = NoUrbs /\ processing = Nothing /\ last_scheduled = Nothing
    /\ timer_pending = FALSE /\ expires = NoTimer /\ io_queue = <<>> /\ due = <<>> /\ handling = {}
    /\ answered = <<>> /\ cancelled_urbs = {} /\ nurbs = 0 /\ nstarts = 0

\* align_to_frame with frame_alignment_delay: always the next boundary
AlignToFrame(t) == t + (Frame - (t % Frame))

\* Mutant: the last URB is armed, queue.back() for queue.front().
ArmLast(e, q, l) ==
    IF q = <<>> THEN [queue |-> q, last |-> l]
    ELSE [queue |-> [q EXCEPT ![Len(q)].at = AlignToFrame(now)], last |-> AlignToFrame(now)]

\* arm_next, for the queue q of endpoint e whose chain stands at l: fixes the
\* time at which the head is served, and moves the chain there.
ArmNext(e, q, l) ==
    LET base == IF l = 0 THEN now ELSE l
        at == IF e \in IsoEps THEN Greater(now, base + Head(q).delay)
              ELSE AlignToFrame(Greater(now, base))
    IN  IF q = <<>> THEN [queue |-> q, last |-> l]
        ELSE [queue |-> <<[Head(q) EXCEPT !.at = at]>> \o Tail(q), last |-> at]

Armed(e, q, l) ==
    /\ queue' = [queue EXCEPT ![e] = ArmNext(e, q, l).queue]
    /\ last_scheduled' = [last_scheduled EXCEPT ![e] = ArmNext(e, q, l).last]

\* kick: nothing when the timer runs, else schedule_on_thread is posted.
Kick(q) == IF timer_pending THEN q ELSE Append(q, "schedule")

\* timer.cancel(), which timer.expires_at() does as well: the handler of a
\* wait that is not over is queued, aborted, behind the handlers io.
CancelTimer(io) == IF expires # NoTimer THEN Append(io, "aborted") ELSE io

\* schedule_next over queues q and processing p, with the handlers io queued
HeadTimes(q, p) == {Head(q[e]).at : e \in {f \in SchedEps : p[f] = 0 /\ q[f] # <<>>}}
ScheduleNext(q, p, io) ==
    LET ts == HeadTimes(q, p)
    IN  IF ts = {} THEN io_queue' = io /\ UNCHANGED <<timer_pending, expires>>
        ELSE /\ timer_pending' = TRUE /\ expires' = CHOOSE t \in ts : \A u \in ts : t <= u
             /\ io_queue' = CancelTimer(io)

------------------------------------------------------------------------------
(* start() and stop()                                                        *)

\* What the io_context had queued when it was stopped is run after restart().
Start ==
    /\ ~started /\ ~joining /\ nstarts < MaxStarts
    /\ started' = TRUE /\ nstarts' = nstarts + 1
    /\ UNCHANGED <<now, joining, queue, processing, last_scheduled, timer_pending, expires,
                   io_queue, due, handling, answered, cancelled_urbs, nurbs>>

\* stop()'s critical section.
Stop ==
    /\ started
    /\ started' = FALSE /\ joining' = TRUE
    /\ queue' = NoUrbs /\ processing' = Nothing /\ last_scheduled' = Nothing
    /\ timer_pending' = FALSE /\ expires' = NoTimer
    /\ io_queue' = CancelTimer(io_queue)
    /\ UNCHANGED <<now, due, handling, answered, cancelled_urbs, nurbs, nstarts>>

\* run() returns after the handler that is running, and join() with it.
StopJoined ==
    /\ joining /\ due = <<>>
    /\ joining' = FALSE
    /\ UNCHANGED <<now, started, queue, processing, last_scheduled, timer_pending, expires,
                   io_queue, due, handling, answered, cancelled_urbs, nurbs, nstarts>>

------------------------------------------------------------------------------
(* submit(), cancel() and on_urb_done()                                      *)

\* submit() with the data ready, or with a processor.  Dropped when stopped.
Submit(e, delay, ready) ==
    LET urb == [seq |-> nurbs + 1, delay |-> delay, ready |-> ready, at |-> 0,
                conn |-> nstarts]
    IN  /\ now <= LastSubmit /\ nurbs < MaxUrbs /\ started
        /\ nurbs' = nurbs + 1
        /\ IF queue[e] = <<>>
           THEN /\ Armed(e, <<urb>>, last_scheduled[e])
                /\ io_queue' = IF processing[e] = 0 THEN Kick(io_queue) ELSE io_queue
           ELSE /\ queue' = [queue EXCEPT ![e] = Append(@, urb)]
                /\ UNCHANGED <<last_scheduled, io_queue>>
        /\ UNCHANGED <<now, started, joining, processing, timer_pending, expires, due, handling,
                       answered, cancelled_urbs, nstarts>>

\* Control URBs and isochronous ones without packets are not scheduled.
SubmitAtOnce ==
    /\ now <= LastSubmit /\ nurbs < MaxUrbs /\ started
    /\ nurbs' = nurbs + 1
    /\ answered' = Append(answered, [ep |-> "none", seq |-> nurbs + 1, conn |-> nstarts])
    /\ UNCHANGED <<now, started, joining, queue, processing, last_scheduled, timer_pending,
                   expires, io_queue, due, handling, cancelled_urbs, nstarts>>

Position(e, seq) == {i \in 1..Len(queue[e]) : queue[e][i].seq = seq}

\* Mutant: also what has been handed to its processor is cancelled.
CancelAny(seq) ==
    \E e \in SchedEps :
        /\ Position(e, seq) # {} \/ processing[e] = seq
        /\ cancelled_urbs' = cancelled_urbs \cup {seq}
        /\ queue' = [queue EXCEPT ![e] = SelectSeq(@, LAMBDA u : u.seq # seq)]
        /\ UNCHANGED <<now, started, joining, processing, last_scheduled, timer_pending, expires,
                       io_queue, due, handling, answered, nurbs, nstarts>>

\* cancel() that finds its URB queued.  The time slot of a head is not given
\* to its successor, which is armed only when the endpoint is idle.
Cancel(seq) ==
    \E e \in SchedEps : \E i \in Position(e, seq) :
        LET q == RemoveAt(queue[e], i)
            l == IF i = 1 THEN Greater(last_scheduled[e], Head(queue[e]).at)
                 ELSE last_scheduled[e]
        IN  /\ cancelled_urbs' = cancelled_urbs \cup {seq}
            /\ IF processing[e] = 0 THEN Armed(e, q, l)
               ELSE /\ queue' = [queue EXCEPT ![e] = q]
                    /\ last_scheduled' = [last_scheduled EXCEPT ![e] = l]
            /\ UNCHANGED <<now, started, joining, processing, timer_pending, expires, io_queue,
                           due, handling, answered, nurbs, nstarts>>

\* Mutant: the next URB is let go without a kick.
DoneWithoutKick(e, seq) ==
    IF started /\ processing[e] = seq
    THEN processing' = [processing EXCEPT ![e] = 0] /\ UNCHANGED io_queue
    ELSE UNCHANGED <<processing, io_queue>>

\* on_urb_done: ignored when stopped or not about the URB being processed.
OnUrbDone(e, seq) ==
    IF started /\ processing[e] = seq
    THEN /\ processing' = [processing EXCEPT ![e] = 0]
         /\ io_queue' = IF queue[e] # <<>> THEN Kick(io_queue) ELSE io_queue
    ELSE UNCHANGED <<processing, io_queue>>

\* A handler sends its response, then reports; the two are separate calls.
HandlerSends(h) ==
    /\ h \in handling /\ ~h.sent
    /\ handling' = (handling \ {h}) \cup {[h EXCEPT !.sent = TRUE]}
    /\ answered' = Append(answered, [ep |-> h.ep, seq |-> h.seq, conn |-> h.conn])
    /\ UNCHANGED <<now, started, joining, queue, processing, last_scheduled, timer_pending,
                   expires, io_queue, due, cancelled_urbs, nurbs, nstarts>>

HandlerReports(h) ==
    /\ h \in handling /\ h.sent
    /\ handling' = handling \ {h}
    /\ OnUrbDone(h.ep, h.seq)
    /\ UNCHANGED <<now, started, joining, queue, last_scheduled, timer_pending, expires, due,
                   answered, cancelled_urbs, nurbs, nstarts>>

------------------------------------------------------------------------------
(* The scheduler's thread.                                                   *)

ThreadFree == started /\ due = <<>>
Runs(h) == ThreadFree /\ io_queue # <<>> /\ Head(io_queue) = h

ScheduleOnThread ==
    /\ Runs("schedule")
    /\ IF timer_pending THEN io_queue' = Tail(io_queue) /\ UNCHANGED <<timer_pending, expires>>
       ELSE ScheduleNext(queue, processing, Tail(io_queue))
    /\ UNCHANGED <<now, started, joining, queue, processing, last_scheduled, due, handling,
                   answered, cancelled_urbs, nurbs, nstarts>>

\* The timer's time has come: its handler is queued with success.
TimerExpires ==
    /\ expires # NoTimer /\ expires <= now
    /\ expires' = NoTimer /\ io_queue' = Append(io_queue, "timer")
    /\ UNCHANGED <<now, started, joining, queue, processing, last_scheduled, timer_pending,
                   due, handling, answered, cancelled_urbs, nurbs, nstarts>>

OnTimerAborted ==
    /\ Runs("aborted")
    /\ io_queue' = Tail(io_queue) /\ timer_pending' = FALSE
    /\ UNCHANGED <<now, started, joining, queue, processing, last_scheduled, expires, due,
                   handling, answered, cancelled_urbs, nurbs, nstarts>>

\* Mutant: a busy endpoint is served as well.
IsDueBusy(e) == queue[e] # <<>> /\ Head(queue[e]).at <= now

IsDue(e) == processing[e] = 0 /\ queue[e] # <<>> /\ Head(queue[e]).at <= now

\* on_timer, its critical section: the head of each idle endpoint whose time
\* has come is taken out and its successor armed.
OnTimer ==
    LET served == {e \in SchedEps : IsDue(e)}
        next == [e \in SchedEps |-> ArmNext(e, Tail(queue[e]), last_scheduled[e])]
        q == [e \in SchedEps |-> IF e \in served THEN next[e].queue ELSE queue[e]]
        p == [e \in SchedEps |-> IF e \in served THEN Head(queue[e]).seq ELSE processing[e]]
    IN  /\ Runs("timer")
        /\ queue' = q /\ processing' = p
        /\ last_scheduled' = [e \in SchedEps |->
                                 IF e \in served THEN next[e].last ELSE last_scheduled[e]]
        /\ \/ HeadTimes(q, p) # {} /\ ScheduleNext(q, p, Tail(io_queue))
           \/ /\ HeadTimes(q, p) = {} /\ timer_pending' = FALSE
              /\ io_queue' = Tail(io_queue) /\ UNCHANGED expires
        /\ due' = SetToSeq({[ep |-> e, urb |-> Head(queue[e])] : e \in served})
        /\ UNCHANGED <<now, started, joining, handling, answered, cancelled_urbs, nurbs, nstarts>>

\* The rest of on_timer: a processor gets its URB, a ready answer is sent ...
Process ==
    /\ due # <<>> /\ ~Head(due).urb.ready
    /\ handling' = handling \cup {[ep |-> Head(due).ep, seq |-> Head(due).urb.seq,
                                conn |-> Head(due).urb.conn, sent |-> FALSE]}
    /\ due' = Tail(due)
    /\ UNCHANGED <<now, started, joining, queue, processing, last_scheduled, timer_pending,
                   expires, io_queue, answered, cancelled_urbs, nurbs, nstarts>>

\* ... and at once reported as done.
SendReady ==
    LET d == Head(due)
    IN  /\ due # <<>> /\ d.urb.ready
        /\ answered' = Append(answered, [ep |-> d.ep, seq |-> d.urb.seq, conn |-> d.urb.conn])
        /\ due' = Tail(due)
        /\ OnUrbDone(d.ep, d.urb.seq)
        /\ UNCHANGED <<now, started, joining, queue, last_scheduled, timer_pending, expires,
                       handling, cancelled_urbs, nurbs, nstarts>>

\* Past its bound the clock goes on only to where the timer is set.
Tick ==
    /\ nstarts > 0
    /\ now < EndOfTime \/ expires > now
    /\ now' = now + 1
    /\ UNCHANGED <<started, joining, queue, processing, last_scheduled, timer_pending, expires,
                   io_queue, due, handling, answered, cancelled_urbs, nurbs, nstarts>>

------------------------------------------------------------------------------

SchedThread == ScheduleOnThread \/ OnTimerAborted \/ OnTimer \/ Process \/ SendReady

SchedNext ==
    \/ Start \/ Stop \/ StopJoined \/ SubmitAtOnce \/ TimerExpires \/ SchedThread \/ Tick
    \/ \E e \in IsoEps, d \in Delays, ready \in BOOLEAN : Submit(e, d, ready)
    \/ \E e \in SchedEps \ IsoEps, ready \in BOOLEAN : Submit(e, 0, ready)
    \/ \E seq \in 1..MaxUrbs : Cancel(seq)
    \/ \E h \in handling : HandlerSends(h) \/ HandlerReports(h)

\* Time passes, the thread runs, and handlers finish what they were given
\* (UrbProcessCallback must return quickly and report).
SchedFairness ==
    /\ WF_schedVars(Tick) /\ WF_schedVars(TimerExpires) /\ WF_schedVars(SchedThread)
    /\ WF_schedVars(StopJoined)
    /\ WF_schedVars(\E h \in handling : HandlerSends(h) \/ HandlerReports(h))

SchedSpec == SchedInit /\ [][SchedNext]_schedVars /\ SchedFairness

------------------------------------------------------------------------------
(* Properties.                                                               *)

SchedTypeOK ==
    /\ now \in Nat \ {0} /\ started \in BOOLEAN /\ joining \in BOOLEAN
    /\ \A e \in SchedEps :
          /\ \A i \in 1..Len(queue[e]) :
                /\ queue[e][i].seq \in 1..nurbs /\ queue[e][i].at \in Nat
                /\ i > 1 => queue[e][i].at = 0
          /\ processing[e] \in 0..nurbs /\ last_scheduled[e] \in Nat
    /\ timer_pending \in BOOLEAN /\ expires \in {NoTimer} \cup Nat
    /\ ToSet(io_queue) \subseteq {"schedule", "timer", "aborted"}
    /\ \A h \in handling : h.ep \in SchedEps /\ h.seq \in 1..nurbs
    /\ cancelled_urbs \subseteq 1..nurbs /\ nstarts \in 0..MaxStarts

\* kick, schedule_next, on_timer: while URBs wait on an idle endpoint, the
\* timer or a posted handler will look at them, and timer_pending, which keeps
\* kick from posting one, never stands without a timer behind it.
UrbsHaveWakeup ==
    started =>
        /\ HeadTimes(queue, processing) # {} =>
               expires # NoTimer \/ "timer" \in ToSet(io_queue) \/ "schedule" \in ToSet(io_queue)
        /\ timer_pending => expires # NoTimer \/ "timer" \in ToSet(io_queue)

\* TransferScheduler.h, "submit": the URBs of an endpoint are answered in the
\* order in which they were submitted, each once, the next not before the one
\* before it was reported.
ServedInOrder ==
    /\ \A i, j \in 1..Len(answered) :
          (i < j /\ answered[i].ep = answered[j].ep /\ answered[i].conn = answered[j].conn)
              => answered[i].seq < answered[j].seq
    /\ \A g, h \in handling : (g.ep = h.ep /\ g.conn = h.conn) => g = h

\* cancel(): a URB it reports as cancelled is never answered, whatever the
\* timer and the handlers do at the time (its RET_UNLINK said ECONNRESET).
CancelledStaysSilent ==
    \A seq \in cancelled_urbs :
        /\ \A i \in 1..Len(answered) : answered[i].seq # seq
        /\ \A i \in 1..Len(due) : due[i].urb.seq # seq
        /\ \A h \in handling : h.seq # seq

\* A URB that was accepted is answered, unless it is cancelled or the
\* connection ends.
EveryUrbServed ==
    \A seq \in 1..MaxUrbs :
        (\E e \in SchedEps : Position(e, seq) # {}) ~>
            \/ \E i \in 1..Len(answered) : answered[i].seq = seq
            \/ seq \in cancelled_urbs \/ ~started
==============================================================================
