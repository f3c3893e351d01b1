------------------------------ MODULE InChannel ------------------------------
(***************************************************************************)
(* One IN channel between device threads that write (push, push_blocking,  *)
(* write_nb, write) and the session's receiver thread (on_in_request,      *)
(* cancel_pending, on_new_connection, on_disconnection).                   *)
(*                                                                         *)
(* A step is what a thread does in one critical section of channel_mutex.  *)
(* Data are numbered in the order in which the channel accepts them, anew  *)
(* in each connection.                                                     *)
(***************************************************************************)
EXTENDS InEndpointChannel

CONSTANTS
    Capacity,   \* of the channel's buffer
    MaxPendingRequests, \* limit of requests that wait, 0 for none
    Writers,    \* device threads
    Timed,      \* those whose blocking calls have a timeout
    WriteSizes, \* sizes of a write
    Lengths,    \* lengths of host requests
    MaxPull,    \* bound: data a pull callback produces at once
    MaxData,    \* bound: data accepted in a connection
    MaxReqs,    \* bound: requests in a connection
    MaxConns    \* bound: connections

ASSUME InChannelAssumption ==
    /\ Capacity \in Nat \ {0} /\ MaxPendingRequests \in Nat
    /\ IsFiniteSet(Writers) /\ Timed \subseteq Writers
    /\ WriteSizes \subseteq Nat \ {0} /\ Lengths \subseteq Nat
    /\ MaxPull \in Nat /\ MaxData \in Nat /\ MaxReqs \in Nat /\ MaxConns \in Nat

VARIABLES
    mode,       \* which class the channel is, "message" or "stream"
    ch,         \* the channel
    wpc, left,  \* writers: where in a blocking call, and how much is still to be written
    rx,         \* the receiver: "down", "up", or inside on_disconnection
    ndata, nreq, nconn, \* data accepted and requests made in this connection; connections
    cancelled   \* history: requests cancelled in this connection

chVars == <<mode, ch, wpc, left, rx, ndata, nreq, nconn, cancelled>>

ChInit ==
    /\ mode \in {"message", "stream"}
    /\ ch = DisconnectData(NewChannel(Capacity, MaxPendingRequests))
    /\ wpc = [w \in Writers |-> "idle"] /\ left = [w \in Writers |-> 0]
    /\ rx = "down" /\ ndata = 0 /\ nreq = 0 /\ nconn = 0 /\ cancelled = {}

Waiting == {w \in Writers : wpc[w] = "wait"}

\* The bound on data: what was accepted and what blocking calls still hold.
Within(n) == ndata + SumFunction(left) + n <= MaxData

\* A run of n new data
Fresh(n) == [i \in 1..n |-> ndata + i]

\* Mutant: nobody is told that there is room.
NotifyNobody(n, pcs) == wpc' = pcs

\* n calls of space_cv.notify_one: each wakes one waiting thread, if any.
Notify(n, pcs) ==
    LET asleep == {w \in Writers : pcs[w] = "wait"}
    IN  \E woken \in SUBSET asleep :
            /\ Cardinality(woken) = Lesser(n, Cardinality(asleep))
            /\ wpc' = [w \in Writers |-> IF w \in woken THEN "notified" ELSE pcs[w]]

\* The channel becomes d, its notifications are delivered, and the thread
\* that did it goes on at pcs.
Become(d, pcs) == ch' = d /\ Notify(Wakeups(ch, d), pcs)

------------------------------------------------------------------------------
(* Device threads.                                                           *)

writerUnchanged == <<mode, rx, nreq, nconn, cancelled>>

\* push: at the limit the caller chose to drop the oldest or to be refused.
Push(w) ==
    /\ mode = "message" /\ wpc[w] = "idle" /\ Within(1)
    /\ ~ch.disconnected
    /\ Become(Drain(mode, PushLocked(mode, ch, Fresh(1))), wpc)
    /\ ndata' = ndata + 1
    /\ UNCHANGED <<left, writerUnchanged>>

\* write_nb: what does not fit is not written.
WriteNb(w, n) ==
    /\ mode = "stream" /\ wpc[w] = "idle" /\ Within(n)
    /\ ~ch.disconnected
    /\ Become(Drain(mode, PushLocked(mode, ch, Fresh(n))), wpc)
    /\ ndata' = ndata + Lesser(n, Room(ch))
    /\ UNCHANGED <<left, writerUnchanged>>

\* push_blocking or write is called.
Call(w, n) ==
    /\ wpc[w] = "idle" /\ Within(n)
    /\ mode = "message" => n = 1
    /\ wpc' = [wpc EXCEPT ![w] = "begin"] /\ left' = [left EXCEPT ![w] = n]
    /\ UNCHANGED <<ch, ndata, writerUnchanged>>

Return(w) == wpc' = [wpc EXCEPT ![w] = "idle"] /\ left' = [left EXCEPT ![w] = 0]

\* write: the bytes that fit, then phase 2 in a critical section of its own;
\* push_blocking: the message, and on under both locks.
Put(w, c) ==
    IF mode = "message"
    THEN /\ Become(Drain(mode, PushLocked(mode, c, Fresh(1))), [wpc EXCEPT ![w] = "idle"])
         /\ left' = [left EXCEPT ![w] = 0]
         /\ ndata' = ndata + 1
    ELSE LET n == Lesser(left[w], Room(c))
         IN  /\ Become(PushLocked(mode, c, Fresh(n)), [wpc EXCEPT ![w] = "flush"])
             /\ left' = [left EXCEPT ![w] = @ - n]
             /\ ndata' = ndata + n

\* The start of a blocking call, and of each further round of write: refused
\* when disconnected (push_blocking with room in the buffer too); a full byte
\* stream first tries to answer requests; then there is room, or a wait.
Begin(w) ==
    LET c == IF mode = "stream" /\ Full(ch) THEN Drain(mode, ch) ELSE ch
    IN  /\ wpc[w] = "begin"
        /\ \/ ch.disconnected /\ Return(w) /\ UNCHANGED <<ch, ndata>>
           \/ ~ch.disconnected /\ ~Full(c) /\ Put(w, c)
           \/ /\ ~ch.disconnected /\ Full(c)
              /\ Become(c, [wpc EXCEPT ![w] = "wait"])
              /\ UNCHANGED <<left, ndata>>
        /\ UNCHANGED writerUnchanged

\* wait() returns: notified, for no reason, or (wait_for) after the timeout.
Woken(w, timeout) ==
    /\ \/ ch.disconnected /\ Return(w) /\ UNCHANGED <<ch, ndata>>
       \/ ~ch.disconnected /\ ~Full(ch) /\ Put(w, ch)
       \/ ~ch.disconnected /\ Full(ch) /\ timeout /\ Return(w) /\ UNCHANGED <<ch, ndata>>
       \/ /\ ~ch.disconnected /\ Full(ch) /\ ~timeout
          /\ wpc' = [wpc EXCEPT ![w] = "wait"] /\ UNCHANGED <<ch, left, ndata>>
    /\ UNCHANGED writerUnchanged

Wake(w) == wpc[w] = "notified" /\ Woken(w, FALSE)
SpuriousWakeup(w) == wpc[w] = "wait" /\ Woken(w, FALSE)
Timeout(w) == w \in Timed /\ wpc[w] \in {"wait", "notified"} /\ Woken(w, TRUE)

\* Phase 2 of write: answer the requests that wait, then the next round.
Flush(w) ==
    /\ wpc[w] = "flush"
    /\ Become(Drain(mode, ch), [wpc EXCEPT ![w] = IF left[w] = 0 THEN "idle" ELSE "begin"])
    /\ UNCHANGED <<left, ndata, writerUnchanged>>

------------------------------------------------------------------------------
(* The receiver thread.                                                      *)

receiverUnchanged == <<mode, left>>

OnNewConnection ==
    /\ rx = "down" /\ nconn < MaxConns
    /\ ch' = [NewChannel(Capacity, MaxPendingRequests) EXCEPT !.queue = ch.queue]
    /\ rx' = "up" /\ nconn' = nconn + 1
    /\ ndata' = 0 /\ nreq' = 0 /\ cancelled' = {}
    /\ UNCHANGED <<wpc, receiverUnchanged>>

\* The pull callback, where there is one, may have data or not.
HostRequest(len, npull) ==
    /\ rx = "up" /\ nreq < MaxReqs
    /\ Within(npull)
    /\ npull > 0 => mode = "stream" /\ ch.queue = <<>> /\ ch.buffer = <<>>
    /\ LET r == [seq |-> nreq + 1, len |-> len]
       IN  Become(OnInRequest(mode, ch, r, Fresh(npull)), wpc)
    /\ ndata' = ndata + Lesser(npull, len + Capacity)
    /\ nreq' = nreq + 1
    /\ UNCHANGED <<rx, nconn, cancelled, receiverUnchanged>>

Unlink(seq) ==
    /\ rx = "up" /\ Pends(ch, seq)
    /\ ch' = CancelPending(ch, seq)
    /\ cancelled' = cancelled \cup {seq}
    /\ UNCHANGED <<wpc, rx, ndata, nreq, nconn, receiverUnchanged>>

OnDisconnection ==
    /\ rx = "up"
    /\ ch' = DisconnectData(ch)
    /\ rx' = "clear"
    /\ UNCHANGED <<wpc, ndata, nreq, nconn, cancelled, receiverUnchanged>>

ClearRequests ==
    /\ rx = "clear"
    /\ ch' = DisconnectRequests(ch)
    /\ rx' = "notify"
    /\ UNCHANGED <<wpc, ndata, nreq, nconn, cancelled, receiverUnchanged>>

\* Mutant: notify_one instead of notify_all.
NotifyOne ==
    /\ rx = "notify"
    /\ Notify(1, wpc)
    /\ rx' = "down"
    /\ UNCHANGED <<ch, ndata, nreq, nconn, cancelled, receiverUnchanged>>

NotifyWriters ==
    /\ rx = "notify"
    /\ wpc' = [w \in Writers |-> IF wpc[w] = "wait" THEN "notified" ELSE wpc[w]]
    /\ rx' = "down"
    /\ UNCHANGED <<ch, ndata, nreq, nconn, cancelled, receiverUnchanged>>

------------------------------------------------------------------------------

WriterRuns(w) == Begin(w) \/ Wake(w) \/ Flush(w)

ChNext ==
    \/ \E w \in Writers :
          \/ Push(w) \/ (\E n \in WriteSizes : WriteNb(w, n) \/ Call(w, n))
          \/ WriterRuns(w) \/ SpuriousWakeup(w) \/ Timeout(w)
    \/ OnNewConnection \/ OnDisconnection \/ ClearRequests \/ NotifyWriters
    \/ \E len \in Lengths, npull \in 0..MaxPull : HostRequest(len, npull)
    \/ \E seq \in 1..MaxReqs : Unlink(seq)

\* Threads run; a thread that was woken gets the lock.
ChFairness ==
    /\ \A w \in Writers : WF_chVars(WriterRuns(w))
    /\ WF_chVars(ClearRequests) /\ WF_chVars(NotifyWriters)

ChSpec == ChInit /\ [][ChNext]_chVars /\ ChFairness

------------------------------------------------------------------------------
(* Properties.                                                               *)

ChRequest == [seq : 1..MaxReqs, len : Lengths]
ChReply == [seq : 1..MaxReqs, notified : BOOLEAN]

ChTypeOK ==
    /\ mode \in {"message", "stream"}
    /\ ch \in [capacity : {Capacity}, limit : {MaxPendingRequests}, buffer : Seq(Nat),
               queue : Seq(ChRequest), disconnected : BOOLEAN, out : Seq(ChReply), sent : Seq(Nat)]
    /\ Len(ch.buffer) <= Capacity
    /\ MaxPendingRequests # 0 => Len(ch.queue) <= MaxPendingRequests
    /\ wpc \in [Writers -> {"idle", "begin", "wait", "notified", "flush"}]
    /\ left \in [Writers -> Nat]
    /\ \A w \in Writers : wpc[w] \in {"wait", "notified", "begin"} => left[w] > 0
    /\ rx \in {"down", "up", "clear", "notify"}
    /\ ndata \in Nat /\ nreq \in 0..MaxReqs /\ nconn \in 0..MaxConns
    /\ cancelled \subseteq 1..MaxReqs

\* InEndpointChannel.h: a byte stream arrives whole and in the order in which
\* it was written, whichever thread answers a request and however it is cut
\* into requests; messages arrive in order, the dropped ones missing.
StreamIntact ==
    rx = "up" =>
        LET all == ch.sent \o ch.buffer
        IN  IF mode = "stream" THEN all = [i \in 1..ndata |-> i]
            ELSE \A i, j \in 1..Len(all) : i < j => all[i] < all[j]

\* on_in_request: requests of an endpoint are answered in the order in which
\* they came, at once, later, or evicted - never a newer one first.
AnsweredInOrder ==
    \A i, j \in 1..Len(ch.out) : i < j => ch.out[i].seq < ch.out[j].seq

\* Every request of the connection waits, was cancelled, or was answered: one
\* that the limit pushes out is answered too, and nothing left over from an
\* earlier connection waits among them.
RequestsAccounted ==
    rx = "up" =>
        /\ {ch.queue[i].seq : i \in 1..Len(ch.queue)} =
               1..nreq \ (cancelled \cup {ch.out[i].seq : i \in 1..Len(ch.out)})
        /\ \A i, j \in 1..Len(ch.queue) : i < j => ch.queue[i].seq < ch.queue[j].seq

\* Data and a request for it do not both wait, except until the writer that
\* put the data there reaches its phase 2.
NoMissedMatch ==
    (ch.buffer # <<>> /\ ch.queue # <<>>) => \E w \in Writers : wpc[w] = "flush"

\* The host waiting for data and a writer waiting for room never wait for
\* each other: some writer has been notified or is on its way.  (One
\* notify_one per answer is enough although several writers wait.)
NoStall ==
    (ch.queue # <<>> /\ Waiting # {}) =>
        \/ ch.disconnected
        \/ \E w \in Writers : wpc[w] \in {"begin", "notified", "flush"}

\* on_disconnection: every writer blocked in the channel comes back, unless
\* the next connection is up before it runs.
DisconnectReleasesWriters ==
    \A w \in Writers : (rx = "notify") ~> (wpc[w] = "idle" \/ rx = "up")
==============================================================================
