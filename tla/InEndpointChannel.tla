-------------------------- MODULE InEndpointChannel --------------------------
(***************************************************************************)
(* InEndpointChannelBase and its two derived classes as operators on a     *)
(* channel: what each does while it holds channel_mutex and requests_mutex.*)
(*                                                                         *)
(* A channel serves one IN endpoint.  It pairs the host's requests with    *)
(* the device's data.  In "message" mode (MessageInChannel) a datum is a   *)
(* whole message and answers one request (which cuts it to its length); in *)
(* "stream" mode (ByteStreamInChannel) a datum is a byte and a request     *)
(* takes up to its length of them.                                         *)
(***************************************************************************)
EXTENDS Integers, Sequences, FiniteSets, SequencesExt

Lesser(a, b) == IF a < b THEN a ELSE b

\* A channel that on_new_connection has just reset.  capacity is that of
\* set_capacity or set_max_pending_messages (never "no limit" here), limit that
\* of set_max_pending_requests (0: no limit).  out holds the answers given in
\* this connection, as the responder got them, and sent the data they carried,
\* one after the other; notified tells which of them came with a call of
\* space_cv.notify_one.
NewChannel(capacity, limit) ==
    [capacity |-> capacity, limit |-> limit, buffer |-> <<>>, queue |-> <<>>,
     disconnected |-> FALSE, out |-> <<>>, sent |-> <<>>]

Full(c) == Len(c.buffer) >= c.capacity
Room(c) == c.capacity - Len(c.buffer)

Reply(c, r, data, wakes) ==
    [c EXCEPT !.out = Append(@, [seq |-> r.seq, notified |-> wakes]), !.sent = @ \o data]

\* Mutant: a request takes one byte more than it asks for.
SendOneTooMuch(mode, c, r) ==
    LET n == IF mode = "message" THEN 1 ELSE Lesser(Len(c.buffer), r.len)
    IN  Reply([c EXCEPT !.buffer = SubSeq(@, n + 2, Len(@))], r, SubSeq(c.buffer, 1, n), TRUE)

\* try_send_one, with data in the buffer
SendOne(mode, c, r) ==
    LET n == IF mode = "message" THEN 1 ELSE Lesser(Len(c.buffer), r.len)
    IN  Reply([c EXCEPT !.buffer = SubSeq(@, n + 1, Len(@))], r, SubSeq(c.buffer, 1, n), TRUE)

\* Mutant: only one request is answered.
DrainOne(mode, c) ==
    IF c.buffer = <<>> \/ c.queue = <<>> THEN c
    ELSE SendOne(mode, [c EXCEPT !.queue = Tail(@)], Head(c.queue))

\* One round of the loop of try_send_pending_locked
DrainStep(mode, c) ==
    IF c.buffer = <<>> \/ c.queue = <<>> THEN c
    ELSE SendOne(mode, [c EXCEPT !.queue = Tail(@)], Head(c.queue))

\* try_send_pending_locked: the oldest requests first, while there is data.
Drain(mode, c) ==
    LET drained[i \in 0..Len(c.queue)] ==
            IF i = 0 THEN c ELSE DrainStep(mode, drained[i - 1])
    IN  drained[Len(c.queue)]

\* Mutant: a message is kept without a look at the limit.
PushUnbounded(mode, c, data) ==
    [c EXCEPT !.buffer = @ \o (IF mode = "message" THEN data
                               ELSE SubSeq(data, 1, Lesser(Len(data), Room(c))))]

\* push_locked and RingBuffer::write: a message drops the oldest at the limit,
\* bytes that do not fit are left out.
PushLocked(mode, c, data) ==
    [c EXCEPT !.buffer =
        IF mode = "message"
        THEN (IF Full(c) THEN Tail(@) ELSE @) \o data
        ELSE @ \o SubSeq(data, 1, Lesser(Len(data), Room(c)))]

\* send_pulled_locked of the byte stream: the request first, the rest into
\* the buffer.
SendPulled(c, r, pulled) ==
    LET n == Lesser(Len(pulled), r.len)
    IN  PushLocked("stream", Reply(c, r, SubSeq(pulled, 1, n), FALSE),
                   SubSeq(pulled, n + 1, Len(pulled)))

\* Mutant: the request that is evicted is not answered.
EvictSilently(c) ==
    IF c.limit # 0 /\ Len(c.queue) >= c.limit
    THEN [c EXCEPT !.queue = Tail(@)] ELSE c

\* At the limit the oldest request is answered with nothing (reply_empty).
Evict(c) ==
    IF c.limit # 0 /\ Len(c.queue) >= c.limit
    THEN Reply([c EXCEPT !.queue = Tail(@)], Head(c.queue), <<>>, FALSE)
    ELSE c

\* Mutant: data in the buffer goes to the newcomer, requests waiting or not.
InRequestOvertakes(mode, c, r, pulled) ==
    CASE c.disconnected -> c
      [] ~c.disconnected /\ c.buffer # <<>> -> SendOne(mode, c, r)
      [] ~c.disconnected /\ c.buffer = <<>> /\ pulled # <<>> ->
            Drain(mode, SendPulled(c, r, pulled))
      [] OTHER -> Drain(mode, [Evict(c) EXCEPT !.queue = Append(@, r)])

\* on_in_request; pulled is what try_pull_data would return.
OnInRequest(mode, c, r, pulled) ==
    CASE c.disconnected -> c
      [] ~c.disconnected /\ c.queue = <<>> /\ c.buffer # <<>> -> SendOne(mode, c, r)
      [] ~c.disconnected /\ c.queue = <<>> /\ c.buffer = <<>> /\ pulled # <<>> ->
            Drain(mode, SendPulled(c, r, pulled))
      [] OTHER -> Drain(mode, [Evict(c) EXCEPT !.queue = Append(@, r)])

\* cancel_pending: whether it finds the request, and what it erases (requests
\* that wait have different numbers)
Pends(c, seq) == \E i \in 1..Len(c.queue) : c.queue[i].seq = seq
CancelPending(c, seq) ==
    IF Pends(c, seq)
    THEN [c EXCEPT !.queue = RemoveAt(@, CHOOSE i \in 1..Len(@) : @[i].seq = seq)]
    ELSE c

\* The two critical sections of on_disconnection
DisconnectData(c) == [c EXCEPT !.disconnected = TRUE, !.buffer = <<>>]
DisconnectRequests(c) == [c EXCEPT !.queue = <<>>]

\* How many notify_one calls a step from c to d made.
Wakeups(c, d) == Cardinality({i \in Len(c.out) + 1..Len(d.out) : d.out[i].notified})
==============================================================================
