----------------------------- MODULE PipeDevice ------------------------------
(***************************************************************************)
(* PipeDeviceHandler: a device whose endpoints are channels, with read()   *)
(* and write() for the program's own threads.  It composes one             *)
(* ByteStreamInChannel per IN endpoint and one OutEndpointChannel per OUT  *)
(* endpoint, endpoint 0 in both, made on first use and destroyed at        *)
(* disconnection.                                                          *)
(*                                                                         *)
(* A request is the number of its arrival; on the wire it carries a        *)
(* sequence number that wraps around.  The contents of data do not matter  *)
(* here (see InChannel).                                                   *)
(***************************************************************************)
EXTENDS InEndpointChannel

CONSTANTS
    FifoCapacity,  \* set_in_fifo_capacity
    PipeWriters, PipeReaders,  \* the program's threads
    InEps,         \* IN endpoints, 0 among them
    OutEps,        \* OUT endpoints in the order of the map, 0 first
    PipeSizes,     \* sizes of a write
    PipeLengths,   \* lengths of host requests
    SeqSpace,        \* sequence numbers are taken modulo this (2^32 in the code) ...
    SeqBase,       \* ... and start here
    PipeMaxReqs, PipeMaxWrites, PipeMaxConns  \* bounds

ASSUME PipeDeviceAssumption ==
    /\ SeqSpace \in Nat \ {0} /\ SeqBase \in 0..(SeqSpace - 1)
    /\ FifoCapacity \in Nat \ {0} /\ IsFiniteSet(PipeWriters)
    /\ 0 \in InEps /\ InEps \subseteq Nat /\ OutEps \in Seq(Nat) \ {<<>>} /\ OutEps[1] = 0
    /\ PipeSizes \subseteq Nat /\ PipeLengths \subseteq Nat
    /\ PipeMaxReqs \in Nat /\ PipeMaxWrites \in Nat /\ PipeMaxConns \in Nat
    /\ PipeMaxReqs < SeqSpace \div 2

\* An IN channel of the pipe: no limit of requests
PipeChannel == NewChannel(FifoCapacity, 0)

VARIABLES
    pup,            \* the receiver: "down", "up", or "clear" in on_disconnection
    in_channels,    \* IN endpoints that have a channel, and the channels
    out_channels,   \* pending requests of the OUT endpoints: [n, answer]
    pw,             \* writers: place, endpoint, what is left, connection of the channel
    pr,             \* readers: "idle", "wait", "notified"
    pconn, preq, pwrites,
    taken,          \* history: requests in the order in which read() took them
    control_ins,    \* history: the requests that are control INs
    unlinked,       \* history: requests the client unlinked
    answers         \* history: responses of this connection

pipeVars == <<pup, in_channels, out_channels, pw, pr, pconn, preq, pwrites, taken,
              control_ins, unlinked, answers>>

NoOut == [e \in ToSet(OutEps) |-> <<>>]
IdleWriter == [pc |-> "idle", ep |-> 0, left |-> 0, conn |-> 0]

PipeInit ==
    /\ pup = "down" /\ in_channels = <<>> /\ out_channels = NoOut
    /\ pw = [w \in PipeWriters |-> IdleWriter] /\ pr = [r \in PipeReaders |-> "idle"]
    /\ pconn = 0 /\ preq = 0 /\ pwrites = 0
    /\ taken = <<>> /\ control_ins = {} /\ unlinked = {} /\ answers = <<>>

RetSubmit(n, st) == [kind |-> "RET_SUBMIT", n |-> n, status |-> st]
RetUnlink(n, st) == [kind |-> "RET_UNLINK", n |-> n, status |-> st]

\* pipe_mutex is held throughout on_disconnection's critical section, in
\* which the threads inside a channel still run.
PipeMutexFree == pup # "clear"

\* get_in_channel: made on first use, bound to the session and reset
HasIn(e) == e \in DOMAIN in_channels
GetIn(e) == IF HasIn(e) THEN in_channels[e] ELSE PipeChannel
PutIn(e, c) == [f \in DOMAIN in_channels \cup {e} |->
                   IF f = e THEN [c EXCEPT !.out = <<>>, !.sent = <<>>] ELSE in_channels[f]]

\* Channel e becomes d: its answers go out, and each notify_one wakes a
\* writer that waits there.
InBecomes(e, d, ws) ==
    LET asleep == {w \in PipeWriters : ws[w].pc = "wait" /\ ws[w].ep = e}
    IN  /\ in_channels' = PutIn(e, d)
        /\ answers' = answers \o [i \in 1..Len(d.out) |-> RetSubmit(d.out[i].seq, "OK")]
        /\ \E woken \in SUBSET asleep :
              /\ Cardinality(woken) =
                     Lesser(Wakeups(PipeChannel, d), Cardinality(asleep))
              /\ pw' = [w \in PipeWriters |->
                           IF w \in woken THEN [ws[w] EXCEPT !.pc = "notified"] ELSE ws[w]]

\* out_cv.notify_all
WakeReaders == pr' = [r \in PipeReaders |-> IF pr[r] = "wait" THEN "notified" ELSE pr[r]]

------------------------------------------------------------------------------
(* The session's receiver thread.                                            *)

\* A CMD_SUBMIT arrives.
Arrives == pup = "up" /\ preq < PipeMaxReqs /\ preq' = preq + 1

OnPipeInRequest(e, len) ==
    /\ Arrives /\ e # 0
    /\ InBecomes(e, OnInRequest("stream", GetIn(e), [seq |-> preq + 1, len |-> len], <<>>), pw)
    /\ UNCHANGED <<pup, out_channels, pr, pconn, pwrites, taken, control_ins, unlinked>>

\* on_out_request (the handler sets no limit); the request is answered when
\* read() takes it.
EnqueueOut(e, answer) ==
    out_channels' = [out_channels EXCEPT ![e] = Append(@, [n |-> preq + 1, answer |-> answer])]

OnPipeOutTransfer(e) ==
    /\ Arrives /\ e # 0
    /\ EnqueueOut(e, TRUE) /\ WakeReaders
    /\ UNCHANGED <<pup, in_channels, pw, pconn, pwrites, taken, control_ins, unlinked, answers>>

ControlOut ==
    /\ Arrives
    /\ EnqueueOut(0, TRUE) /\ WakeReaders
    /\ UNCHANGED <<pup, in_channels, pw, pconn, pwrites, taken, control_ins, unlinked, answers>>

\* Mutant: the readers are not told of the request.
ControlInSilent(len) ==
    /\ Arrives
    /\ InBecomes(0, OnInRequest("stream", GetIn(0), [seq |-> preq + 1, len |-> len], <<>>), pw)
    /\ EnqueueOut(0, FALSE) /\ control_ins' = control_ins \cup {preq + 1}
    /\ UNCHANGED <<pup, pr, pconn, pwrites, taken, unlinked>>

\* A control IN waits in the IN channel for its data, and a notification that
\* is not answered shows it to read().
ControlIn(len) ==
    /\ Arrives
    /\ InBecomes(0, OnInRequest("stream", GetIn(0), [seq |-> preq + 1, len |-> len], <<>>), pw)
    /\ EnqueueOut(0, FALSE) /\ WakeReaders
    /\ control_ins' = control_ins \cup {preq + 1}
    /\ UNCHANGED <<pup, pconn, pwrites, taken, unlinked>>

InPending(n) == {e \in DOMAIN in_channels : Pends(in_channels[e], n)}
OutPending(n) == {e \in DOMAIN out_channels :
                     \E i \in 1..Len(out_channels[e]) : out_channels[e][i].n = n}

\* cancel_pending of an OUT channel
CancelOut(q, n) ==
    IF \E i \in 1..Len(q) : q[i].n = n
    THEN RemoveAt(q, CHOOSE i \in 1..Len(q) : q[i].n = n) ELSE q

\* Mutant: the OUT channels are not searched.
UnlinkInOnly(n) ==
    /\ pup = "up" /\ n \in 1..preq \ unlinked
    /\ unlinked' = unlinked \cup {n}
    /\ answers' = Append(answers, RetUnlink(n, IF InPending(n) = {} THEN "OK" ELSE "ECONNRESET"))
    /\ in_channels' = [e \in DOMAIN in_channels |-> CancelPending(in_channels[e], n)]
    /\ UNCHANGED <<pup, out_channels, pw, pr, pconn, preq, pwrites, taken, control_ins>>

\* on_pipe_unlink: the IN channels are searched first, the OUT channels only
\* when none of them had it.  Also the notification of a control IN is found
\* there, which the IN channel may have answered.  (RET_UNLINK is submitted
\* after pipe_mutex is released; nothing about n can be submitted in between.)
OnPipeUnlink(n) ==
    /\ pup = "up" /\ n \in 1..preq \ unlinked
    /\ unlinked' = unlinked \cup {n}
    /\ \/ /\ InPending(n) # {}
          /\ in_channels' = [e \in DOMAIN in_channels |-> CancelPending(in_channels[e], n)]
          /\ answers' = Append(answers, RetUnlink(n, "ECONNRESET"))
          /\ UNCHANGED out_channels
       \/ /\ InPending(n) = {} /\ OutPending(n) # {}
          /\ out_channels' = [e \in DOMAIN out_channels |-> CancelOut(out_channels[e], n)]
          /\ answers' = Append(answers, RetUnlink(n, "ECONNRESET"))
          /\ UNCHANGED in_channels
       \/ /\ InPending(n) = {} /\ OutPending(n) = {}
          /\ answers' = Append(answers, RetUnlink(n, "OK"))
          /\ UNCHANGED <<in_channels, out_channels>>
    /\ UNCHANGED <<pup, pw, pr, pconn, preq, pwrites, taken, control_ins>>

PipeConnects ==
    /\ pup = "down" /\ pconn < PipeMaxConns
    /\ pup' = "up" /\ pconn' = pconn + 1
    /\ in_channels' = <<>> /\ out_channels' = NoOut
    /\ preq' = 0 /\ taken' = <<>> /\ control_ins' = {} /\ unlinked' = {} /\ answers' = <<>>
    /\ UNCHANGED <<pw, pr, pwrites>>

\* Mutant: the OUT channels keep their requests.
DisconnectsInOnly ==
    /\ pup = "up"
    /\ pup' = "clear"
    /\ in_channels' = [e \in DOMAIN in_channels |->
                          DisconnectRequests(DisconnectData(in_channels[e]))]
    /\ pw' = [w \in PipeWriters |->
                 IF pw[w].pc = "wait" THEN [pw[w] EXCEPT !.pc = "notified"] ELSE pw[w]]
    /\ UNCHANGED <<out_channels, pr, pconn, preq, pwrites, taken, control_ins, unlinked, answers>>

\* on_disconnection: every channel is told, and its writers woken, ...
PipeDisconnects ==
    /\ pup = "up"
    /\ pup' = "clear"
    /\ in_channels' = [e \in DOMAIN in_channels |->
                          DisconnectRequests(DisconnectData(in_channels[e]))]
    /\ out_channels' = NoOut
    /\ pw' = [w \in PipeWriters |->
                 IF pw[w].pc = "wait" THEN [pw[w] EXCEPT !.pc = "notified"] ELSE pw[w]]
    /\ UNCHANGED <<pr, pconn, preq, pwrites, taken, control_ins, unlinked, answers>>

\* Mutant: the readers are not woken.
ClearSilently ==
    /\ pup = "clear"
    /\ pup' = "down" /\ in_channels' = <<>>
    /\ UNCHANGED <<out_channels, pw, pr, pconn, preq, pwrites, taken, control_ins, unlinked,
                   answers>>

\* ... then the maps are cleared, which destroys the channels, and the
\* readers woken.
ClearChannels ==
    /\ pup = "clear"
    /\ pup' = "down" /\ in_channels' = <<>>
    /\ WakeReaders
    /\ UNCHANGED <<out_channels, pw, pconn, preq, pwrites, taken, control_ins, unlinked, answers>>

------------------------------------------------------------------------------
(* write()                                                                   *)

writeUnchanged == <<pup, out_channels, pr, pconn, preq, taken, control_ins, unlinked>>

\* A pointer to the channel is taken under pipe_mutex and used without it.
PipeWrite(w, e, n) ==
    /\ pw[w].pc = "idle" /\ pwrites < PipeMaxWrites /\ pup = "up"
    /\ pwrites' = pwrites + 1
    /\ in_channels' = PutIn(e, GetIn(e))
    /\ pw' = [pw EXCEPT ![w] = [pc |-> "begin", ep |-> e, left |-> n, conn |-> pconn]]
    /\ UNCHANGED <<answers, writeUnchanged>>

\* The channel the writer is in still exists.
Alive(w) == pw[w].conn = pconn /\ HasIn(pw[w].ep)

\* A round of ByteStreamInChannel::write: returns when disconnected, puts in
\* what fits, or waits.
PipeWriterRuns(w) ==
    LET e == pw[w].ep
        c == in_channels[e]
        d == IF pw[w].pc = "begin" /\ Full(c) THEN Drain("stream", c) ELSE c
        k == Lesser(pw[w].left, Room(d))
    IN  /\ pw[w].pc \in {"begin", "notified"} /\ Alive(w)
        /\ \/ /\ c.disconnected
              /\ pw' = [pw EXCEPT ![w] = IdleWriter] /\ UNCHANGED <<in_channels, answers>>
           \/ /\ ~c.disconnected /\ ~Full(d)
              /\ InBecomes(e, PushLocked("stream", d, [i \in 1..k |-> 0]),
                           [pw EXCEPT ![w].pc = "flush", ![w].left = @ - k])
           \/ /\ ~c.disconnected /\ Full(d)
              /\ InBecomes(e, d, [pw EXCEPT ![w].pc = "wait"])
        /\ UNCHANGED <<pwrites, writeUnchanged>>

PipeWriterFlushes(w) ==
    /\ pw[w].pc = "flush" /\ Alive(w)
    /\ InBecomes(pw[w].ep, Drain("stream", in_channels[pw[w].ep]),
                 [pw EXCEPT ![w] = IF @.left = 0 THEN IdleWriter ELSE [@ EXCEPT !.pc = "begin"]])
    /\ UNCHANGED <<pwrites, writeUnchanged>>

\* ClearChannels destroyed the channel under the writer, also one that was
\* woken and has not yet looked at the flag.  That is undefined: it may still
\* read the old flag and return, or never come back.
PipeWriterInFreed(w) ==
    /\ pw[w].pc \notin {"idle", "lost"} /\ ~Alive(w)
    /\ \/ pw' = [pw EXCEPT ![w] = IdleWriter]
       \/ pw' = [pw EXCEPT ![w].pc = "lost"]
    /\ UNCHANGED <<in_channels, answers, pwrites, writeUnchanged>>

------------------------------------------------------------------------------
(* read()                                                                    *)

Wire(n) == (SeqBase + n) % SeqSpace

\* Mutant: sequence numbers are compared as numbers.
NewerPlain(m, n) == Wire(m) > Wire(n)

\* seqnum_newer: static_cast<int32_t>(a - b) > 0
SeqnumNewer(m, n) == (Wire(m) - Wire(n)) % SeqSpace \in 1..(SeqSpace \div 2 - 1)

\* take_one's loop over the map: the channel with the oldest front, -1
\* when all are empty.
Older(best, e) ==
    IF /\ out_channels[e] # <<>>
       /\ best = -1 \/ SeqnumNewer(Head(out_channels[best]).n, Head(out_channels[e]).n)
    THEN e ELSE best

Oldest ==
    LET oldest[i \in 0..Len(OutEps)] == IF i = 0 THEN -1 ELSE Older(oldest[i - 1], OutEps[i])
    IN  oldest[Len(OutEps)]

\* take_locked: a request with data is answered when it is taken.
TakeOne ==
    LET q == Head(out_channels[Oldest])
    IN  /\ out_channels' = [out_channels EXCEPT ![Oldest] = Tail(@)]
        /\ taken' = Append(taken, q.n)
        /\ answers' = IF q.answer THEN Append(answers, RetSubmit(q.n, "OK")) ELSE answers

readUnchanged == <<pup, in_channels, pw, pconn, preq, pwrites, control_ins, unlinked>>

\* read() from its start, or after wait() returned, under pipe_mutex.
Reads(r, timeout) ==
    /\ PipeMutexFree
    /\ \/ Oldest # -1 /\ TakeOne /\ pr' = [pr EXCEPT ![r] = "idle"]
       \/ /\ Oldest = -1
          /\ pr' = [pr EXCEPT ![r] = IF pup # "up" \/ timeout THEN "idle" ELSE "wait"]
          /\ UNCHANGED <<out_channels, taken, answers>>
    /\ UNCHANGED readUnchanged

PipeRead(r) == pr[r] = "idle" /\ pup = "up" /\ Reads(r, FALSE)
PipeReaderWakes(r) == pr[r] = "notified" /\ Reads(r, FALSE)
PipeReadTimeout(r) == pr[r] \in {"wait", "notified"} /\ Reads(r, TRUE)

------------------------------------------------------------------------------

PipeNext ==
    \/ PipeConnects \/ PipeDisconnects \/ ClearChannels \/ ControlOut
    \/ \E len \in PipeLengths : ControlIn(len) \/ \E e \in InEps : OnPipeInRequest(e, len)
    \/ \E e \in ToSet(OutEps) : OnPipeOutTransfer(e)
    \/ \E n \in 1..PipeMaxReqs : OnPipeUnlink(n)
    \/ \E w \in PipeWriters :
          \/ PipeWriterRuns(w) \/ PipeWriterFlushes(w) \/ PipeWriterInFreed(w)
          \/ \E e \in InEps, n \in PipeSizes : PipeWrite(w, e, n)
    \/ \E r \in PipeReaders : PipeRead(r) \/ PipeReaderWakes(r) \/ PipeReadTimeout(r)

\* Threads run, and get pipe_mutex when they keep asking for it.
PipeFairness ==
    /\ WF_pipeVars(ClearChannels)
    /\ \A r \in PipeReaders : SF_pipeVars(PipeReaderWakes(r))

PipeSpec == PipeInit /\ [][PipeNext]_pipeVars /\ PipeFairness

------------------------------------------------------------------------------
(* Properties.                                                               *)

PipeTypeOK ==
    /\ pup \in {"down", "up", "clear"}
    /\ DOMAIN in_channels \subseteq InEps
    /\ \A e \in DOMAIN in_channels :
          Len(in_channels[e].buffer) <= FifoCapacity /\ in_channels[e].out = <<>>
    /\ out_channels \in [ToSet(OutEps) -> Seq([n : 1..PipeMaxReqs, answer : BOOLEAN])]
    /\ pup # "up" => out_channels = NoOut
    /\ pw \in [PipeWriters -> [pc : {"idle", "begin", "wait", "notified", "flush", "lost"},
                               ep : InEps, left : Nat, conn : 0..PipeMaxConns]]
    /\ pr \in [PipeReaders -> {"idle", "wait", "notified"}]
    /\ pconn \in 0..PipeMaxConns /\ preq \in 0..PipeMaxReqs /\ pwrites \in 0..PipeMaxWrites
    /\ taken \in Seq(1..PipeMaxReqs)
    /\ control_ins \cup unlinked \subseteq 1..PipeMaxReqs
    /\ answers \in Seq([kind : {"RET_SUBMIT", "RET_UNLINK"}, n : 1..PipeMaxReqs,
                        status : {"OK", "ECONNRESET"}])

Submits(n) == {i \in 1..Len(answers) : answers[i].kind = "RET_SUBMIT" /\ answers[i].n = n}
Unlinks(n, st) == {i \in 1..Len(answers) : answers[i] = RetUnlink(n, st)}

\* read(): requests are handed out in the order in which the host sent them,
\* across all endpoints, also where the sequence numbers wrap around.
ReadInArrivalOrder ==
    \A i, j \in 1..Len(taken) : i < j => taken[i] < taken[j]

\* A reader does not sleep while a request waits for it.
NoSleepingReader ==
    (\E e \in ToSet(OutEps) : out_channels[e] # <<>>) => \A r \in PipeReaders : pr[r] # "wait"

\* A request is answered at most once, and not at all after its RET_UNLINK; a
\* RET_UNLINK that says it was too late comes after the answer, and one that
\* says it was cancelled means that there was none, unless the request was a
\* control IN, which the two queues of endpoint 0 hold independently.
UnlinkTellsTruth ==
    \A n \in 1..preq :
        /\ Cardinality(Submits(n)) <= 1
        /\ \A i \in Unlinks(n, "ECONNRESET"), j \in Submits(n) : j < i /\ n \in control_ins
        /\ \A i \in Unlinks(n, "OK") : \E j \in Submits(n) : j < i

\* PipeDeviceHandler.cpp:383, on_pipe_unlink: "-ECONNRESET" says that the URB
\* was cancelled and gets no RET_SUBMIT, of whatever kind it was.
PipeUnlinkIsTrue ==
    \A n \in 1..preq : Unlinks(n, "ECONNRESET") # {} => Submits(n) = {}

\* on_disconnection: every read() comes back, unless the next connection is
\* up first.
DisconnectReleasesReaders ==
    (pup = "clear") ~> ((\A r \in PipeReaders : pr[r] = "idle") \/ pup = "up")
==============================================================================
