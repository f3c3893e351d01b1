------------------------- MODULE TransportPartsProofs ------------------------
(***************************************************************************)
(* Proofs about the parts that MCTransport puts side by side: the channels *)
(* of IN endpoints, the TransferScheduler, and the dispatch of the virtual *)
(* device.  Each part of this module is about one of them and uses nothing *)
(* of the others.                                                          *)
(***************************************************************************)
EXTENDS InChannel, TransferScheduler, VirtualDevice, SequenceTheorems, FiniteSetTheorems,
        NaturalsInduction, WellFoundedInduction, TLAPS

------------------------------------------------------------------------------
(***************************************************************************)
(* Proofs about InEndpointChannel and InChannel, for any number of writers *)
(* and requests, any capacity and any limit.                               *)
(*                                                                         *)
(* Answering requests moves data from the buffer to the host and requests  *)
(* from the queue to the answers.  Two sequences do not change with it:    *)
(* all data of the connection, delivered and buffered, and all requests,   *)
(* answered and waiting.  What the channel promises is read off them.      *)
(***************************************************************************)


\* A channel whose requests have numbers up to M and lengths in L
ChannelRequest(M, L) == [seq : 1..M, len : L]
ChannelReply(M) == [seq : 1..M, notified : BOOLEAN]
ChannelOf(M, L) ==
    [capacity : Nat \ {0}, limit : Nat, buffer : Seq(Nat), queue : Seq(ChannelRequest(M, L)),
     disconnected : BOOLEAN, out : Seq(ChannelReply(M)), sent : Seq(Nat)]

\* All data of a connection, and all its requests
Whole(c) == c.sent \o c.buffer
LineOf(o, q) == [i \in 1..(Len(o) + Len(q)) |->
                    IF i <= Len(o) THEN o[i].seq ELSE q[i - Len(o)].seq]
Line(c) == LineOf(c.out, c.queue)

\* c answered some requests from its buffer and became d.
SameLimits(c, d) == d.capacity = c.capacity /\ d.limit = c.limit /\ d.disconnected = c.disconnected
Shorter(c, d) == Len(d.buffer) <= Len(c.buffer) /\ Len(d.queue) <= Len(c.queue)
RepliesAdded(c, d) ==
    /\ Len(c.out) <= Len(d.out)
    /\ \A i \in 1..Len(c.out) : d.out[i] = c.out[i]
    /\ \A i \in (Len(c.out) + 1)..Len(d.out) : d.out[i].notified
Served(c, d) ==
    /\ SameLimits(c, d) /\ Whole(d) = Whole(c) /\ Line(d) = Line(c)
    /\ Shorter(c, d) /\ RepliesAdded(c, d)
    /\ Len(d.out) = Len(c.out) => d = c

------------------------------------------------------------------------------
(* The operators.                                                            *)

\* The fields of a channel
LEMMA ChannelFields ==
    ASSUME NEW M, NEW L, NEW c \in ChannelOf(M, L)
    PROVE  /\ c.capacity \in Nat \ {0} /\ c.limit \in Nat /\ c.buffer \in Seq(Nat)
           /\ c.queue \in Seq(ChannelRequest(M, L)) /\ c.disconnected \in BOOLEAN
           /\ c.out \in Seq(ChannelReply(M)) /\ c.sent \in Seq(Nat)
<1> HIDE DEF ChannelRequest, ChannelReply
<1> QED
    BY DEF ChannelOf

\* A sequence cut in two is the two parts.
LEMMA CutInTwo ==
    ASSUME NEW s \in Seq(Nat), NEW b \in Seq(Nat), NEW n \in 0..Len(b)
    PROVE  /\ SubSeq(b, 1, n) \in Seq(Nat) /\ Len(SubSeq(b, 1, n)) = n
           /\ SubSeq(b, n + 1, Len(b)) \in Seq(Nat)
           /\ Len(SubSeq(b, n + 1, Len(b))) = Len(b) - n
           /\ (s \o SubSeq(b, 1, n)) \o SubSeq(b, n + 1, Len(b)) = s \o b
<1>1. Len(b) \in Nat
    OBVIOUS
<1>2. SubSeq(b, 1, n) \in Seq(Nat) /\ Len(SubSeq(b, 1, n)) = n
    BY <1>1
<1>3. SubSeq(b, n + 1, Len(b)) \in Seq(Nat) /\ Len(SubSeq(b, n + 1, Len(b))) = Len(b) - n
    BY <1>1
<1>4. SubSeq(b, 1, n) \o SubSeq(b, n + 1, Len(b)) = SubSeq(b, 1, Len(b))
    <2>1. 1 \in 1..Len(b) + 1 /\ n \in 1 - 1..Len(b) /\ Len(b) \in n..Len(b)
        BY <1>1
    <2> QED
        BY <2>1, ConcatAdjacentSubSeq
<1>5. SubSeq(b, 1, n) \o SubSeq(b, n + 1, Len(b)) = b
    BY <1>4, SubSeqFull
<1>6. \A t, u \in Seq(Nat) : (s \o t) \o u = s \o (t \o u)
    BY ConcatAssociative, SMTT(30)
<1>7. (s \o SubSeq(b, 1, n)) \o SubSeq(b, n + 1, Len(b))
          = s \o (SubSeq(b, 1, n) \o SubSeq(b, n + 1, Len(b)))
    BY <1>2, <1>3, <1>6, Zenon
<1>8. (s \o SubSeq(b, 1, n)) \o SubSeq(b, n + 1, Len(b)) = s \o b
    BY <1>5, <1>7, Zenon
<1> QED
    BY <1>2, <1>3, <1>8, Zenon

\* The answer and what it carries
Replied(c, d, seq, data, wakes) ==
    /\ SameLimits(c, d) /\ d.queue = c.queue /\ d.buffer = c.buffer
    /\ d.sent = c.sent \o data /\ d.out = Append(c.out, [seq |-> seq, notified |-> wakes])

LEMMA ReplyFields ==
    ASSUME NEW M \in Nat, NEW L, NEW c \in ChannelOf(M, L), NEW r, r.seq \in 1..M,
           NEW data \in Seq(Nat), NEW wakes \in BOOLEAN
    PROVE  /\ Reply(c, r, data, wakes) \in ChannelOf(M, L)
           /\ Replied(c, Reply(c, r, data, wakes), r.seq, data, wakes)
<1>1. /\ c.sent \o data \in Seq(Nat)
      /\ Append(c.out, [seq |-> r.seq, notified |-> wakes]) \in Seq(ChannelReply(M))
    <2>1. c.sent \in Seq(Nat) /\ c.out \in Seq(ChannelReply(M))
        BY ChannelFields
    <2>2. [seq |-> r.seq, notified |-> wakes] \in ChannelReply(M)
        BY DEF ChannelReply
    <2> HIDE DEF ChannelReply
    <2> QED
        BY <2>1, <2>2
<1> HIDE DEF ChannelRequest, ChannelReply
<1> QED
    BY <1>1 DEF Reply, Replied, ChannelOf, SameLimits

\* Shorter records: a channel with another queue, and with another buffer
LEMMA OtherQueue ==
    ASSUME NEW M \in Nat, NEW L, NEW c \in ChannelOf(M, L), NEW q \in Seq(ChannelRequest(M, L)),
           NEW d, d = [c EXCEPT !.queue = q]
    PROVE  /\ d \in ChannelOf(M, L) /\ SameLimits(c, d)
           /\ d.queue = q /\ d.buffer = c.buffer /\ d.sent = c.sent /\ d.out = c.out
<1> HIDE DEF ChannelRequest, ChannelReply
<1> QED
    BY DEF ChannelOf, SameLimits
LEMMA OtherBuffer ==
    ASSUME NEW M \in Nat, NEW L, NEW c \in ChannelOf(M, L), NEW b \in Seq(Nat),
           NEW d, d = [c EXCEPT !.buffer = b]
    PROVE  /\ d \in ChannelOf(M, L) /\ SameLimits(c, d)
           /\ d.queue = c.queue /\ d.buffer = b /\ d.sent = c.sent /\ d.out = c.out
<1> HIDE DEF ChannelRequest, ChannelReply
<1> QED
    BY DEF ChannelOf, SameLimits

\* try_send_one: no byte is lost or repeated, whatever the request's length.
LEMMA SendOneKeepsData ==
    ASSUME NEW M \in Nat, NEW L \in SUBSET Nat, NEW c \in ChannelOf(M, L), NEW m,
           NEW r \in ChannelRequest(M, L), c.buffer # <<>>
    PROVE  /\ SendOne(m, c, r) \in ChannelOf(M, L)
           /\ SameLimits(c, SendOne(m, c, r))
           /\ SendOne(m, c, r).queue = c.queue
           /\ SendOne(m, c, r).out = Append(c.out, [seq |-> r.seq, notified |-> TRUE])
           /\ Whole(SendOne(m, c, r)) = Whole(c)
           /\ Len(SendOne(m, c, r).buffer) <= Len(c.buffer)
<1>1. PICK n : n = IF m = "message" THEN 1 ELSE Lesser(Len(c.buffer), r.len)
    BY Zenon
<1>2. r.seq \in 1..M /\ r.len \in Nat
    BY DEF ChannelRequest
<1>3. c.buffer \in Seq(Nat) /\ c.sent \in Seq(Nat) /\ Len(c.buffer) \in Nat \ {0}
    BY ChannelFields
<1>4. n \in 0..Len(c.buffer)
    BY <1>1, <1>2, <1>3 DEF Lesser
<1>5. PICK rest : rest = SubSeq(c.buffer, n + 1, Len(c.buffer))
    BY Zenon
<1>6. PICK data : data = SubSeq(c.buffer, 1, n)
    BY Zenon
<1>7. /\ rest \in Seq(Nat) /\ data \in Seq(Nat) /\ Len(rest) <= Len(c.buffer)
      /\ (c.sent \o data) \o rest = c.sent \o c.buffer
    <2>1. /\ SubSeq(c.buffer, 1, n) \in Seq(Nat)
          /\ SubSeq(c.buffer, n + 1, Len(c.buffer)) \in Seq(Nat)
          /\ Len(SubSeq(c.buffer, n + 1, Len(c.buffer))) = Len(c.buffer) - n
          /\ (c.sent \o SubSeq(c.buffer, 1, n)) \o SubSeq(c.buffer, n + 1, Len(c.buffer))
                 = c.sent \o c.buffer
        BY <1>3, <1>4, CutInTwo, Zenon
    <2>2. rest \in Seq(Nat) /\ data \in Seq(Nat) /\ (c.sent \o data) \o rest = c.sent \o c.buffer
        BY <1>5, <1>6, <2>1, Zenon
    <2>3. PICK k : k = Len(c.buffer)
        BY Zenon
    <2>4. Len(rest) = k - n /\ k \in Nat /\ n \in 0..k
        BY <1>3, <1>4, <1>5, <2>1, <2>3, Zenon
    <2>5. Len(rest) <= k
        BY <2>4
    <2> QED
        BY <2>2, <2>3, <2>5
<1>8. PICK e : e = [c EXCEPT !.buffer = rest]
    BY Zenon
<1>9. /\ e \in ChannelOf(M, L) /\ SameLimits(c, e) /\ e.queue = c.queue
      /\ e.buffer = rest /\ e.sent = c.sent /\ e.out = c.out
    BY <1>7, <1>8, OtherBuffer
<1>10. SendOne(m, c, r) = Reply(e, r, data, TRUE)
    BY <1>1, <1>5, <1>6, <1>8 DEF SendOne
<1>11. PICK d : d = Reply(e, r, data, TRUE)
    BY Zenon
<1>12. /\ d \in ChannelOf(M, L) /\ SameLimits(e, d) /\ d.queue = e.queue /\ d.buffer = e.buffer
       /\ d.sent = e.sent \o data /\ d.out = Append(e.out, [seq |-> r.seq, notified |-> TRUE])
    <2>1. d \in ChannelOf(M, L) /\ Replied(e, d, r.seq, data, TRUE)
        BY <1>2, <1>7, <1>9, <1>11, ReplyFields
    <2> QED
        BY <2>1 DEF Replied
<1>13. SameLimits(c, d)
    BY <1>9, <1>12 DEF SameLimits
<1> QED
    BY <1>7, <1>9, <1>10, <1>11, <1>12, <1>13 DEF Whole

\* Answering the oldest request leaves the line as it was.
LEMMA OldestAnswered ==
    ASSUME NEW S, NEW T, NEW o \in Seq(S), NEW q \in Seq(T), q # <<>>,
           NEW p \in S, p.seq = Head(q).seq
    PROVE  LineOf(Append(o, p), Tail(q)) = LineOf(o, q)
<1>1. PICK o2 : o2 = Append(o, p)
    BY Zenon
<1>2. PICK q2 : q2 = Tail(q)
    BY Zenon
<1>3. PICK m : m = Len(o)
    BY Zenon
<1>4. PICK n : n = Len(q)
    BY Zenon
<1>5. m \in Nat /\ n \in Nat \ {0} /\ p.seq = q[1].seq
    BY <1>3, <1>4
<1>6. Len(o2) = m + 1 /\ o2[m + 1] = p /\ \A i \in 1..m : o2[i] = o[i]
    BY <1>1, <1>3, AppendProperties
<1>7. Len(q2) = n - 1 /\ \A i \in 1..(n - 1) : q2[i] = q[i + 1]
    BY <1>2, <1>4, HeadTailProperties
<1>8. ASSUME NEW i \in 1..(m + n)
      PROVE  (IF i <= m + 1 THEN o2[i].seq ELSE q2[i - (m + 1)].seq)
           = (IF i <= m THEN o[i].seq ELSE q[i - m].seq)
    <2>1. CASE i <= m
        BY <1>5, <1>6, <2>1
    <2>2. CASE i = m + 1
        BY <1>5, <1>6, <2>2
    <2>3. CASE i > m + 1
        <3>1. i - (m + 1) \in 1..(n - 1) /\ (i - (m + 1)) + 1 = i - m
            BY <1>5, <2>3, SMTT(30)
        <3>2. q2[i - (m + 1)] = q[i - m]
            BY <1>7, <3>1
        <3> QED
            BY <1>5, <2>3, <3>2
    <2> QED
        BY <1>5, <2>1, <2>2, <2>3
<1>9. (m + 1) + (n - 1) = m + n
    BY <1>5
<1>10. LineOf(o2, q2) = [i \in 1..(m + n) |-> IF i <= m + 1 THEN o2[i].seq ELSE q2[i - (m + 1)].seq]
    BY <1>6, <1>7, <1>9, Zenon DEF LineOf
<1>11. LineOf(o, q) = [i \in 1..(m + n) |-> IF i <= m THEN o[i].seq ELSE q[i - m].seq]
    BY <1>3, <1>4, Zenon DEF LineOf
<1>12. LineOf(o2, q2) = LineOf(o, q)
    BY <1>8, <1>10, <1>11, Zenon
<1> QED
    BY <1>1, <1>2, <1>12

LEMMA ChannelLengths ==
    ASSUME NEW M, NEW L, NEW c \in ChannelOf(M, L)
    PROVE  Len(c.buffer) \in Nat /\ Len(c.queue) \in Nat /\ Len(c.out) \in Nat /\ Len(c.sent) \in Nat
BY ChannelFields

LEMMA ServedReflexive ==
    ASSUME NEW M, NEW L, NEW c \in ChannelOf(M, L)
    PROVE  Served(c, c)
<1>1. Len(c.buffer) \in Nat /\ Len(c.queue) \in Nat /\ Len(c.out) \in Nat
    BY ChannelLengths
<1> QED
    BY <1>1 DEF Served, SameLimits, Shorter, RepliesAdded

LEMMA ServedTransitive ==
    ASSUME NEW M, NEW L, NEW c \in ChannelOf(M, L), NEW d \in ChannelOf(M, L),
           NEW e \in ChannelOf(M, L), Served(c, d), Served(d, e)
    PROVE  Served(c, e)
<1>1. /\ Len(c.buffer) \in Nat /\ Len(c.queue) \in Nat /\ Len(c.out) \in Nat
      /\ Len(d.buffer) \in Nat /\ Len(d.queue) \in Nat /\ Len(d.out) \in Nat
      /\ Len(e.buffer) \in Nat /\ Len(e.queue) \in Nat /\ Len(e.out) \in Nat
    BY ChannelLengths
<1>2. SameLimits(c, e) /\ Whole(e) = Whole(c) /\ Line(e) = Line(c)
    BY DEF Served, SameLimits
<1>3. Shorter(c, e)
    BY <1>1 DEF Served, Shorter
<1>4. Len(c.out) <= Len(d.out) /\ Len(d.out) <= Len(e.out)
    BY DEF Served, RepliesAdded
<1>5. RepliesAdded(c, e)
    <2>1. Len(c.out) <= Len(e.out)
        BY <1>1, <1>4
    <2>2. \A i \in 1..Len(c.out) : e.out[i] = c.out[i]
        BY <1>1, <1>4 DEF Served, RepliesAdded
    <2>3. \A i \in (Len(c.out) + 1)..Len(e.out) : e.out[i].notified
        <3> TAKE i \in (Len(c.out) + 1)..Len(e.out)
        <3>1. CASE i <= Len(d.out)
            <4>1. e.out[i] = d.out[i]
                BY <1>1, <3>1 DEF Served, RepliesAdded
            <4>2. d.out[i].notified
                BY <1>1, <3>1 DEF Served, RepliesAdded
            <4> QED
                BY <4>1, <4>2, Zenon
        <3>2. CASE i > Len(d.out)
            BY <1>1, <3>2 DEF Served, RepliesAdded
        <3> QED
            BY <1>1, <3>1, <3>2
    <2> QED
        BY <2>1, <2>2, <2>3 DEF RepliesAdded
<1>6. Len(e.out) = Len(c.out) => e = c
    BY <1>1, <1>4 DEF Served
<1> QED
    BY <1>2, <1>3, <1>5, <1>6 DEF Served

\* A round of the loop answers the oldest request.
LEMMA StepServes ==
    ASSUME NEW M \in Nat, NEW L \in SUBSET Nat, NEW c \in ChannelOf(M, L), NEW m
    PROVE  /\ DrainStep(m, c) \in ChannelOf(M, L) /\ Served(c, DrainStep(m, c))
           /\ \/ DrainStep(m, c) = c /\ (c.buffer = <<>> \/ c.queue = <<>>)
              \/ c.queue # <<>> /\ Len(DrainStep(m, c).queue) = Len(c.queue) - 1
<1>1. CASE c.buffer = <<>> \/ c.queue = <<>>
    BY <1>1, ServedReflexive DEF DrainStep
<1>2. CASE c.buffer # <<>> /\ c.queue # <<>>
    <2>1. c.queue \in Seq(ChannelRequest(M, L)) /\ c.out \in Seq(ChannelReply(M))
        BY ChannelFields
    <2>2. /\ Head(c.queue) \in ChannelRequest(M, L) /\ Tail(c.queue) \in Seq(ChannelRequest(M, L))
          /\ Len(Tail(c.queue)) = Len(c.queue) - 1 /\ Len(c.queue) \in Nat \ {0}
        BY <1>2, <2>1, HeadTailProperties, EmptySeq
    <2>3. PICK e : e = [c EXCEPT !.queue = Tail(c.queue)]
        BY Zenon
    <2>31. PICK q : q = Tail(c.queue)
        BY Zenon
    <2>4. /\ e \in ChannelOf(M, L) /\ SameLimits(c, e) /\ e.queue = Tail(c.queue)
          /\ e.buffer = c.buffer /\ e.sent = c.sent /\ e.out = c.out
        <3>1. q \in Seq(ChannelRequest(M, L)) /\ e = [c EXCEPT !.queue = q]
            BY <2>2, <2>3, <2>31
        <3>2. /\ e \in ChannelOf(M, L) /\ SameLimits(c, e) /\ e.queue = q
              /\ e.buffer = c.buffer /\ e.sent = c.sent /\ e.out = c.out
            BY <3>1, OtherQueue
        <3> QED
            BY <2>31, <3>2
    <2>5. PICK r : r = Head(c.queue)
        BY Zenon
    <2>6. r \in ChannelRequest(M, L) /\ e.buffer # <<>>
        BY <1>2, <2>2, <2>4, <2>5
    <2>7. DrainStep(m, c) = SendOne(m, e, r)
        BY <1>2, <2>3, <2>5, Zenon DEF DrainStep
    <2>8. PICK d : d = SendOne(m, e, r)
        BY Zenon
    <2>9. /\ d \in ChannelOf(M, L) /\ SameLimits(e, d) /\ d.queue = e.queue
          /\ d.out = Append(e.out, [seq |-> r.seq, notified |-> TRUE])
          /\ Whole(d) = Whole(e) /\ Len(d.buffer) <= Len(e.buffer)
        BY <2>4, <2>6, <2>8, SendOneKeepsData
    <2>10. PICK p : p = [seq |-> r.seq, notified |-> TRUE]
        BY Zenon
    <2>11. p \in ChannelReply(M) /\ p.seq = Head(c.queue).seq /\ p.notified
        BY <2>5, <2>6, <2>10 DEF ChannelReply, ChannelRequest
    <2>12. d.out = Append(c.out, p) /\ d.queue = Tail(c.queue)
        BY <2>4, <2>9, <2>10
    <2>13. Line(d) = Line(c)
        BY <1>2, <2>1, <2>11, <2>12, OldestAnswered DEF Line
    <2>14. Whole(d) = Whole(c) /\ SameLimits(c, d)
        BY <2>4, <2>9 DEF Whole, SameLimits
    <2>15. PICK n : n = Len(c.out)
        BY Zenon
    <2>16. n \in Nat /\ Len(d.out) = n + 1 /\ d.out[n + 1] = p /\ \A i \in 1..n : d.out[i] = c.out[i]
        BY <2>1, <2>11, <2>12, <2>15, AppendProperties
    <2>17. RepliesAdded(c, d)
        BY <2>11, <2>15, <2>16 DEF RepliesAdded
    <2>18. Shorter(c, d)
        BY <2>2, <2>4, <2>9, <2>12 DEF Shorter
    <2>19. Len(d.out) # Len(c.out)
        BY <2>15, <2>16
    <2> QED
        BY <1>2, <2>2, <2>7, <2>8, <2>9, <2>12, <2>13, <2>14, <2>17, <2>18, <2>19 DEF Served
<1> QED
    BY <1>1, <1>2

\* The loop of try_send_pending_locked, round by round
Rounds(f, m, c, n) == f = [i \in 0..n |-> IF i = 0 THEN c ELSE DrainStep(m, f[i - 1])]
LEMMA RoundsExist ==
    ASSUME NEW m, NEW c, NEW n \in Nat
    PROVE  \E f : Rounds(f, m, c, n)
<1> DEFINE Good(k) == \E f : Rounds(f, m, c, k)
           Bad == {k \in Nat : ~Good(k)}
<1>1. Good(0)
    <2>1. PICK f : f = [i \in 0..0 |-> c]
        BY Zenon
    <2>2. f = [i \in 0..0 |-> IF i = 0 THEN c ELSE DrainStep(m, f[i - 1])]
        BY <2>1
    <2> QED
        BY <2>2, Zenon DEF Rounds
<1>2. ASSUME NEW k \in Nat, Good(k)
      PROVE  Good(k + 1)
    <2>1. PICK f : f = [i \in 0..k |-> IF i = 0 THEN c ELSE DrainStep(m, f[i - 1])]
        BY <1>2, Zenon DEF Rounds
    <2>2. PICK g : g = [i \in 0..(k + 1) |-> IF i = k + 1 THEN DrainStep(m, f[k]) ELSE f[i]]
        BY Zenon
    <2>3. \A i \in 0..(k + 1) : g[i] = IF i = 0 THEN c ELSE DrainStep(m, g[i - 1])
        <3> TAKE i \in 0..(k + 1)
        <3>1. CASE i = 0
            <4>1. f[0] = c /\ g[0] = f[0]
                BY <2>1, <2>2
            <4> QED
                BY <3>1, <4>1
        <3>2. CASE i \in 1..k
            <4>1. g[i] = f[i] /\ g[i - 1] = f[i - 1]
                BY <2>2, <3>2
            <4>2. f[i] = DrainStep(m, f[i - 1])
                BY <2>1, <3>2
            <4> QED
                BY <3>2, <4>1, <4>2
        <3>3. CASE i = k + 1
            <4>1. g[k + 1] = DrainStep(m, f[k]) /\ g[k] = f[k] /\ i - 1 = k /\ i # 0
                BY <2>2, <3>3
            <4> QED
                BY <3>3, <4>1
        <3> QED
            BY <3>1, <3>2, <3>3
    <2>4. g = [i \in 0..(k + 1) |-> g[i]]
        BY <2>2
    <2>5. g = [i \in 0..(k + 1) |-> IF i = 0 THEN c ELSE DrainStep(m, g[i - 1])]
        BY <2>3, <2>4, Zenon
    <2> QED
        BY <2>5, Zenon DEF Rounds
<1> HIDE DEF Good
<1>3. Bad = {}
    <2> SUFFICES ASSUME Bad # {} PROVE FALSE
        OBVIOUS
    <2>1. PICK x \in Bad : \A y \in Bad : ~(<<y, x>> \in OpToRel(<, Nat))
        BY NatLessThanWellFounded, WFMin
    <2>2. \A y \in Bad : ~(y < x)
        BY <2>1, Zenon DEF OpToRel
    <2>3. x \in Nat /\ x # 0 /\ ~Good(x)
        BY <1>1
    <2>4. x - 1 \in Nat /\ (x - 1) + 1 = x /\ x - 1 < x
        BY <2>3
    <2>5. Good(x - 1)
        BY <2>2, <2>4
    <2> QED
        BY <1>2, <2>3, <2>4, <2>5
<1>4. Good(n)
    BY <1>3
<1> QED
    BY <1>4 DEF Good

\* try_send_pending_locked: what Drain returns has served requests, and stops
\* only when the data or the requests are used up.
LEMMA DrainServes ==
    ASSUME NEW M \in Nat, NEW L \in SUBSET Nat, NEW c \in ChannelOf(M, L), NEW m
    PROVE  /\ Drain(m, c) \in ChannelOf(M, L) /\ Served(c, Drain(m, c))
           /\ Drain(m, c).buffer = <<>> \/ Drain(m, c).queue = <<>>
<1>1. PICK n : n = Len(c.queue)
    BY Zenon
<1>2. n \in Nat
    BY <1>1, ChannelLengths
<1>3. PICK f : f = CHOOSE g : Rounds(g, m, c, n)
    BY Zenon
<1>4. f = [i \in 0..n |-> IF i = 0 THEN c ELSE DrainStep(m, f[i - 1])]
    <2>1. Rounds(f, m, c, n)
        BY <1>2, <1>3, RoundsExist, Zenon
    <2> QED
        BY <2>1 DEF Rounds
<1>5. Drain(m, c) = f[n]
    BY <1>1, <1>3, Zenon DEF Drain, Rounds
<1> DEFINE Good(k) == /\ f[k] \in ChannelOf(M, L) /\ Served(c, f[k])
                      /\ f[k].buffer = <<>> \/ f[k].queue = <<>> \/ Len(f[k].queue) <= n - k
           Bad == {k \in 0..n : ~Good(k)}
<1>6. Good(0)
    <2>1. f[0] = c
        BY <1>2, <1>4
    <2> QED
        BY <1>1, <1>2, <2>1, ServedReflexive
<1>7. ASSUME NEW k \in 0..n, k + 1 \in 0..n, Good(k)
      PROVE  Good(k + 1)
    <2>1. f[k + 1] = DrainStep(m, f[k])
        BY <1>2, <1>4, <1>7
    <2>2. PICK a : a = f[k]
        BY Zenon
    <2>3. PICK b : b = f[k + 1]
        BY Zenon
    <2>4. /\ a \in ChannelOf(M, L) /\ Served(c, a) /\ b = DrainStep(m, a)
          /\ a.buffer = <<>> \/ a.queue = <<>> \/ Len(a.queue) <= n - k
        BY <1>7, <2>1, <2>2, <2>3
    <2>5. /\ b \in ChannelOf(M, L) /\ Served(a, b)
          /\ \/ b = a /\ (a.buffer = <<>> \/ a.queue = <<>>)
             \/ a.queue # <<>> /\ Len(b.queue) = Len(a.queue) - 1
        BY <2>4, StepServes
    <2>6. Served(c, b)
        BY <2>4, <2>5, ServedTransitive
    <2>7. b.buffer = <<>> \/ b.queue = <<>> \/ Len(b.queue) <= n - (k + 1)
        <3>1. CASE b = a /\ (a.buffer = <<>> \/ a.queue = <<>>)
            BY <3>1
        <3>2. CASE a.queue # <<>> /\ Len(b.queue) = Len(a.queue) - 1
            <4>1. CASE a.buffer = <<>>
                <5>1. b = a
                    BY <2>4, <4>1 DEF DrainStep
                <5> QED
                    BY <4>1, <5>1
            <4>2. CASE Len(a.queue) <= n - k
                <5>1. PICK j : j = Len(a.queue)
                    BY Zenon
                <5>2. j \in Nat /\ Len(b.queue) = j - 1 /\ j <= n - k
                    BY <2>4, <3>2, <4>2, <5>1, ChannelLengths
                <5> QED
                    BY <1>2, <5>2
            <4> QED
                BY <2>4, <3>2, <4>1, <4>2
        <3> QED
            BY <2>5, <3>1, <3>2
    <2> QED
        BY <2>3, <2>5, <2>6, <2>7
<1> HIDE DEF Good
<1>8. Bad = {}
    <2> SUFFICES ASSUME Bad # {} PROVE FALSE
        OBVIOUS
    <2>1. Bad \subseteq Nat
        BY <1>2
    <2>2. PICK x \in Bad : \A y \in Bad : ~(<<y, x>> \in OpToRel(<, Nat))
        BY <2>1, NatLessThanWellFounded, WFMin
    <2>3. \A y \in Bad : ~(y < x)
        BY <2>1, <2>2, Zenon DEF OpToRel
    <2>4. x \in 0..n /\ x # 0 /\ ~Good(x)
        BY <1>6
    <2>5. x - 1 \in 0..n /\ (x - 1) + 1 = x /\ x - 1 < x
        BY <1>2, <2>4
    <2>6. Good(x - 1)
        BY <2>3, <2>5
    <2> QED
        BY <1>7, <2>4, <2>5, <2>6
<1>9. n \in 0..n
    BY <1>2
<1>10. Good(n)
    BY <1>8, <1>9
<1>11. PICK d : d = f[n]
    BY Zenon
<1>12. /\ d \in ChannelOf(M, L) /\ Served(c, d)
       /\ d.buffer = <<>> \/ d.queue = <<>> \/ Len(d.queue) <= n - n
    BY <1>10, <1>11 DEF Good
<1>13. d.buffer = <<>> \/ d.queue = <<>>
    <2>1. d.queue \in Seq(ChannelRequest(M, L)) /\ n - n = 0
        BY <1>2, <1>12, ChannelFields
    <2> HIDE DEF ChannelRequest
    <2>2. Len(d.queue) <= 0 => d.queue = <<>>
        BY <2>1, EmptySeq
    <2> QED
        BY <1>12, <2>1, <2>2
<1> QED
    BY <1>5, <1>11, <1>12, <1>13

------------------------------------------------------------------------------
(* Data.                                                                     *)

\* Two sequences one after the other, with their lengths by name
JointOf(S, s, a, t, b, u) ==
    /\ u \in Seq(S) /\ Len(u) = a + b
    /\ \A i \in 1..(a + b) : u[i] = IF i <= a THEN s[i] ELSE t[i - a]
LEMMA Joint ==
    ASSUME NEW S, NEW s \in Seq(S), NEW t \in Seq(S), NEW a, a = Len(s), NEW b, b = Len(t),
           NEW u, u = s \o t
    PROVE  JointOf(S, s, a, t, b, u)
BY ConcatProperties, Zenon DEF JointOf

\* k data that follow number n, and data that are numbered up to n: all of them
\* in a byte stream, some of them in a channel of messages
RunOf(n, k) == [i \in 1..k |-> n + i]
Increasing(s) == \A i, j \in 1..Len(s) : i < j => s[i] < s[j]
NumberedTo(m, s, n) ==
    /\ s \in Seq(Nat)
    /\ IF m = "stream" THEN Len(s) = n /\ \A i \in 1..Len(s) : s[i] = i
       ELSE Increasing(s) /\ \A i \in 1..Len(s) : s[i] <= n

LEMMA RunIsSeq ==
    ASSUME NEW n \in Nat, NEW k \in Nat
    PROVE  /\ RunOf(n, k) \in Seq(Nat) /\ Len(RunOf(n, k)) = k
           /\ \A i \in 1..k : RunOf(n, k)[i] = n + i
<1>1. PICK f : f = [i \in 1..k |-> n + i]
    BY Zenon
<1>2. f \in [1..k -> Nat] /\ \A i \in 1..k : f[i] = n + i
    BY <1>1
<1>3. f \in Seq(Nat) /\ Len(f) = k
    BY <1>2
<1> QED
    BY <1>1, <1>2, <1>3 DEF RunOf

\* The first l of a run, and the rest of it
LEMMA RunCut ==
    ASSUME NEW n \in Nat, NEW k \in Nat, NEW l \in 0..k
    PROVE  /\ SubSeq(RunOf(n, k), 1, l) = RunOf(n, l)
           /\ SubSeq(RunOf(n, k), l + 1, k) = RunOf(n + l, k - l)
<1>1. PICK f : f = RunOf(n, k)
    BY Zenon
<1>2. f \in Seq(Nat) /\ Len(f) = k /\ \A i \in 1..k : f[i] = n + i
    BY <1>1, RunIsSeq
<1>3. PICK a : a = SubSeq(f, 1, l)
    BY Zenon
<1>4. PICK b : b = SubSeq(f, l + 1, k)
    BY Zenon
<1>5. a \in Seq(Nat) /\ Len(a) = l /\ \A i \in 1..l : a[i] = n + i
    BY <1>2, <1>3
<1>6. b \in Seq(Nat) /\ Len(b) = k - l /\ \A i \in 1..(k - l) : b[i] = (n + l) + i
    <2>1. b \in Seq(Nat) /\ Len(b) = k - l /\ \A i \in 1..(k - l) : b[i] = f[l + i]
        BY <1>2, <1>4
    <2>2. \A i \in 1..(k - l) : l + i \in 1..k /\ n + (l + i) = (n + l) + i
        OBVIOUS
    <2> QED
        BY <1>2, <2>1, <2>2
<1>7. /\ RunOf(n, l) \in Seq(Nat) /\ Len(RunOf(n, l)) = l
      /\ \A i \in 1..l : RunOf(n, l)[i] = n + i
    BY RunIsSeq
<1>8. /\ RunOf(n + l, k - l) \in Seq(Nat) /\ Len(RunOf(n + l, k - l)) = k - l
      /\ \A i \in 1..(k - l) : RunOf(n + l, k - l)[i] = (n + l) + i
    <2>1. n + l \in Nat /\ k - l \in Nat
        OBVIOUS
    <2> QED
        BY <2>1, RunIsSeq
<1>9. a = RunOf(n, l)
    BY <1>5, <1>7, SeqEqual
<1>10. b = RunOf(n + l, k - l)
    <2>1. PICK g : g = RunOf(n + l, k - l)
        BY Zenon
    <2>2. g \in Seq(Nat) /\ Len(g) = Len(b) /\ \A i \in 1..Len(b) : b[i] = g[i]
        BY <1>6, <1>8, <2>1
    <2> QED
        BY <1>6, <2>1, <2>2, SeqEqual
<1> QED
    BY <1>1, <1>3, <1>4, <1>9, <1>10

\* Bytes that follow the last one
LEMMA StreamGrows ==
    ASSUME NEW s, NEW n \in Nat, NEW k \in Nat, NumberedTo("stream", s, n)
    PROVE  NumberedTo("stream", s \o RunOf(n, k), n + k)
<1>1. PICK f : f = RunOf(n, k)
    BY Zenon
<1>2. f \in Seq(Nat) /\ Len(f) = k /\ \A i \in 1..k : f[i] = n + i
    BY <1>1, RunIsSeq
<1>3. s \in Seq(Nat) /\ Len(s) = n /\ \A i \in 1..n : s[i] = i
    BY DEF NumberedTo
<1>4. PICK t : t = s \o f
    BY Zenon
<1>5. /\ t \in Seq(Nat) /\ Len(t) = n + k
      /\ \A i \in 1..(n + k) : t[i] = IF i <= n THEN s[i] ELSE f[i - n]
    <2>1. s \in Seq(Nat) /\ f \in Seq(Nat) /\ n = Len(s) /\ k = Len(f)
        BY <1>2, <1>3
    <2>2. JointOf(Nat, s, n, f, k, t)
        BY <1>4, <2>1, Joint
    <2> QED
        BY <2>2 DEF JointOf
<1>6. \A i \in 1..(n + k) : t[i] = i
    <2> TAKE i \in 1..(n + k)
    <2>1. CASE i <= n
        BY <1>3, <1>5, <2>1
    <2>2. CASE i > n
        <3>1. i - n \in 1..k /\ n + (i - n) = i
            BY <2>2
        <3> QED
            BY <1>2, <1>5, <2>2, <3>1
    <2> QED
        BY <2>1, <2>2
<1> QED
    BY <1>1, <1>4, <1>5, <1>6 DEF NumberedTo

\* A message follows the last one,
LEMMA MessageFollows ==
    ASSUME NEW s, NEW n \in Nat, NumberedTo("message", s, n)
    PROVE  NumberedTo("message", s \o RunOf(n, 1), n + 1)
<1>1. PICK f : f = RunOf(n, 1)
    BY Zenon
<1>2. f \in Seq(Nat) /\ Len(f) = 1 /\ f[1] = n + 1
    <2>1. f \in Seq(Nat) /\ Len(f) = 1 /\ \A i \in 1..1 : f[i] = n + i
        BY <1>1, RunIsSeq
    <2> QED
        BY <2>1
<1>3. PICK l : l = Len(s)
    BY Zenon
<1>4. /\ s \in Seq(Nat) /\ l \in Nat /\ \A i \in 1..l : s[i] <= n /\ s[i] \in Nat
      /\ \A i, j \in 1..l : i < j => s[i] < s[j]
    BY <1>3 DEF NumberedTo, Increasing
<1>5. PICK t : t = s \o f
    BY Zenon
<1>6. /\ t \in Seq(Nat) /\ Len(t) = l + 1
      /\ \A i \in 1..(l + 1) : t[i] = IF i <= l THEN s[i] ELSE f[i - l]
    <2>1. s \in Seq(Nat) /\ f \in Seq(Nat) /\ l = Len(s) /\ 1 = Len(f)
        BY <1>2, <1>3, <1>4
    <2>2. JointOf(Nat, s, l, f, 1, t)
        BY <1>5, <2>1, Joint
    <2> QED
        BY <2>2 DEF JointOf
<1>7. t[l + 1] = n + 1 /\ \A i \in 1..l : t[i] = s[i]
    BY <1>2, <1>4, <1>6
<1>8. \A i \in 1..(l + 1) : t[i] <= n + 1
    BY <1>4, <1>7
<1>9. \A i, j \in 1..(l + 1) : i < j => t[i] < t[j]
    BY <1>4, <1>7
<1> QED
    BY <1>1, <1>5, <1>6, <1>8, <1>9 DEF NumberedTo, Increasing

\* and the oldest one in the buffer may be left out.
LEMMA OldestDropped ==
    ASSUME NEW s \in Seq(Nat), NEW b \in Seq(Nat), b # <<>>, NEW n \in Nat,
           NumberedTo("message", s \o b, n)
    PROVE  NumberedTo("message", s \o Tail(b), n)
<1>1. PICK l : l = Len(s)
    BY Zenon
<1>2. PICK k : k = Len(b)
    BY Zenon
<1>3. PICK t : t = Tail(b)
    BY Zenon
<1>31. PICK h : h = k - 1
    BY Zenon
<1>4. l \in Nat /\ k \in Nat \ {0} /\ h \in Nat /\ k = h + 1
    BY <1>1, <1>2, <1>31
<1>5. t \in Seq(Nat) /\ Len(t) = h /\ \A i \in 1..h : t[i] = b[i + 1]
    BY <1>2, <1>3, <1>31, HeadTailProperties
<1>6. PICK x : x = s \o b
    BY Zenon
<1>7. PICK y : y = s \o t
    BY Zenon
<1>8. /\ x \in Seq(Nat) /\ Len(x) = l + k
      /\ \A i \in 1..(l + k) : x[i] = IF i <= l THEN s[i] ELSE b[i - l]
    <2>1. JointOf(Nat, s, l, b, k, x)
        BY <1>1, <1>2, <1>6, Joint
    <2> QED
        BY <2>1 DEF JointOf
<1>9. /\ y \in Seq(Nat) /\ Len(y) = l + h
      /\ \A i \in 1..(l + h) : y[i] = IF i <= l THEN s[i] ELSE t[i - l]
    <2>1. t \in Seq(Nat) /\ h = Len(t)
        BY <1>5
    <2>2. JointOf(Nat, s, l, t, h, y)
        BY <1>1, <1>7, <2>1, Joint
    <2> QED
        BY <2>2 DEF JointOf
<1>10. /\ \A i \in 1..(l + k) : x[i] <= n
       /\ \A i, j \in 1..(l + k) : i < j => x[i] < x[j]
    BY <1>6, <1>8 DEF NumberedTo, Increasing
<1> DEFINE g(i) == IF i <= l THEN i ELSE i + 1
<1>11. \A i \in 1..(l + h) : g(i) \in 1..(l + k) /\ y[i] = x[g(i)]
    <2> TAKE i \in 1..(l + h)
    <2>1. CASE i <= l
        <3>1. i \in 1..(l + k)
            BY <1>4
        <3>2. x[i] = s[i]
            BY <1>8, <2>1, <3>1
        <3>3. y[i] = s[i]
            BY <1>9, <2>1
        <3> QED
            BY <2>1, <3>1, <3>2, <3>3
    <2>2. CASE i > l
        <3>1. i - l \in 1..h /\ (i - l) + 1 = (i + 1) - l /\ i + 1 \in 1..(l + k)
            BY <1>4, <2>2
        <3>2. ~(i <= l) /\ ~(i + 1 <= l)
            BY <1>4, <2>2
        <3>3. y[i] = t[i - l]
            BY <1>9, <3>2
        <3>4. t[i - l] = b[(i + 1) - l]
            BY <1>5, <3>1
        <3>5. x[i + 1] = b[(i + 1) - l]
            BY <1>8, <3>1, <3>2
        <3> QED
            BY <3>1, <3>2, <3>3, <3>4, <3>5
    <2> QED
        BY <1>4, <2>1, <2>2
<1>12. \A i \in 1..(l + h) : y[i] <= n
    BY <1>10, <1>11
<1>13. \A i, j \in 1..(l + h) : i < j => y[i] < y[j]
    <2> SUFFICES ASSUME NEW i \in 1..(l + h), NEW j \in 1..(l + h), i < j
                 PROVE  y[i] < y[j]
        OBVIOUS
    <2>1. g(i) < g(j)
        BY <1>4
    <2> HIDE DEF g
    <2> QED
        BY <1>10, <1>11, <2>1
<1> QED
    BY <1>3, <1>7, <1>9, <1>12, <1>13 DEF NumberedTo, Increasing

LEMMA Joins ==
    /\ \A s, t \in Seq(Nat) : s \o t \in Seq(Nat) /\ Len(s \o t) = Len(s) + Len(t)
    /\ \A s, t, u \in Seq(Nat) : (s \o t) \o u = s \o (t \o u)
<1>1. ASSUME NEW s \in Seq(Nat), NEW t \in Seq(Nat)
      PROVE  s \o t \in Seq(Nat) /\ Len(s \o t) = Len(s) + Len(t)
    BY ConcatProperties
<1>2. ASSUME NEW s \in Seq(Nat), NEW t \in Seq(Nat), NEW u \in Seq(Nat)
      PROVE  (s \o t) \o u = s \o (t \o u)
    BY ConcatAssociative, SMTT(30)
<1> QED
    BY <1>1, <1>2, Zenon

\* push_locked of the byte stream: what fits follows the last byte.
PushedAfter(M, L, c, d, n, k) ==
    /\ d \in ChannelOf(M, L) /\ SameLimits(c, d) /\ d.queue = c.queue /\ d.out = c.out /\ k \in Nat
    /\ Len(d.buffer) = Len(c.buffer) + k /\ Len(d.buffer) <= d.capacity
    /\ Whole(d) = Whole(c) \o RunOf(n, k)
LEMMA PushStream ==
    ASSUME NEW M \in Nat, NEW L, NEW c \in ChannelOf(M, L), Len(c.buffer) <= c.capacity,
           NEW n \in Nat, NEW a \in Nat
    PROVE  PushedAfter(M, L, c, PushLocked("stream", c, RunOf(n, a)), n, Lesser(a, Room(c)))
<1> SUFFICES ASSUME NEW d, d = PushLocked("stream", c, RunOf(n, a)), NEW k, k = Lesser(a, Room(c))
             PROVE  PushedAfter(M, L, c, d, n, k)
    BY Zenon
<1>1. /\ c.buffer \in Seq(Nat) /\ c.sent \in Seq(Nat) /\ c.capacity \in Nat
      /\ Len(c.buffer) \in Nat
    BY ChannelFields
<1>2. PICK b : b = c.buffer
    BY Zenon
<1>3. k \in 0..a /\ Len(b) + k <= c.capacity /\ k \in Nat
    BY <1>1, <1>2 DEF Lesser, Room
<1>4. PICK f : f = RunOf(n, k)
    BY Zenon
<1>5. f \in Seq(Nat) /\ Len(f) = k
    BY <1>3, <1>4, RunIsSeq
<1>6. Len(RunOf(n, a)) = a /\ SubSeq(RunOf(n, a), 1, k) = f
    BY <1>3, <1>4, RunIsSeq, RunCut, ZenonT(60)
<1>7. PICK e : e = b \o f
    BY Zenon
<1>8. e \in Seq(Nat) /\ Len(e) = Len(b) + k
    BY <1>1, <1>2, <1>5, <1>7, ConcatProperties
<1>9. d = [c EXCEPT !.buffer = e]
    BY <1>2, <1>6, <1>7 DEF PushLocked
<1>10. /\ d \in ChannelOf(M, L) /\ SameLimits(c, d) /\ d.queue = c.queue /\ d.out = c.out
       /\ d.sent = c.sent /\ d.buffer = e
    BY <1>8, <1>9, OtherBuffer
<1>11. (c.sent \o b) \o f = c.sent \o e
    BY <1>1, <1>2, <1>5, <1>7, Joins, Zenon
<1>12. Whole(d) = Whole(c) \o f
    BY <1>2, <1>10, <1>11 DEF Whole
<1>13. Len(d.buffer) = Len(c.buffer) + k /\ Len(d.buffer) <= d.capacity
    <2>1. d.capacity = c.capacity
        BY <1>10 DEF SameLimits
    <2> QED
        BY <1>2, <1>3, <1>8, <1>10, <2>1
<1> QED
    BY <1>3, <1>4, <1>10, <1>12, <1>13 DEF PushedAfter

\* push_locked of messages: the new one is last, and the oldest may be gone.
PushedLast(M, L, c, d, n) ==
    /\ d \in ChannelOf(M, L) /\ SameLimits(c, d) /\ d.queue = c.queue /\ d.out = c.out
    /\ Len(d.buffer) <= d.capacity /\ d.buffer # <<>>
    /\ NumberedTo("message", Whole(d), n + 1)
LEMMA PushMessage ==
    ASSUME NEW M \in Nat, NEW L, NEW c \in ChannelOf(M, L), Len(c.buffer) <= c.capacity,
           NEW n \in Nat, NumberedTo("message", Whole(c), n)
    PROVE  PushedLast(M, L, c, PushLocked("message", c, RunOf(n, 1)), n)
<1> SUFFICES ASSUME NEW d, d = PushLocked("message", c, RunOf(n, 1)) PROVE PushedLast(M, L, c, d, n)
    BY Zenon
<1>1. /\ c.buffer \in Seq(Nat) /\ c.sent \in Seq(Nat) /\ c.capacity \in Nat \ {0}
      /\ Len(c.buffer) \in Nat
    BY ChannelFields
<1>2. PICK b : b = IF Full(c) THEN Tail(c.buffer) ELSE c.buffer
    BY Zenon
<1>3. b \in Seq(Nat) /\ Len(b) \in Nat /\ Len(b) + 1 <= c.capacity /\ NumberedTo("message", c.sent \o b, n)
    <2>1. CASE Full(c)
        <3>1. c.buffer # <<>> /\ Len(c.buffer) = c.capacity
            BY <1>1, <2>1 DEF Full
        <3>2. b \in Seq(Nat) /\ Len(b) = Len(c.buffer) - 1
            BY <1>1, <1>2, <2>1, <3>1, HeadTailProperties
        <3>3. NumberedTo("message", c.sent \o b, n)
            BY <1>1, <1>2, <2>1, <3>1, OldestDropped DEF Whole
        <3> QED
            BY <1>1, <3>1, <3>2, <3>3
    <2>2. CASE ~Full(c)
        BY <1>1, <1>2, <2>2 DEF Full, Whole
    <2> QED
        BY <2>1, <2>2
<1>4. PICK f : f = RunOf(n, 1)
    BY Zenon
<1>5. f \in Seq(Nat) /\ Len(f) = 1
    BY <1>4, RunIsSeq
<1>6. PICK e : e = b \o f
    BY Zenon
<1>7. e \in Seq(Nat) /\ Len(e) = Len(b) + 1
    <2>1. e \in Seq(Nat) /\ Len(e) = Len(b) + Len(f)
        BY <1>3, <1>5, <1>6, Joins, Zenon
    <2> QED
        BY <1>5, <2>1
<1>8. d = [c EXCEPT !.buffer = e]
    BY <1>2, <1>4, <1>6 DEF PushLocked
<1>9. /\ d \in ChannelOf(M, L) /\ SameLimits(c, d) /\ d.queue = c.queue /\ d.out = c.out
      /\ d.sent = c.sent /\ d.buffer = e
    BY <1>7, <1>8, OtherBuffer
<1>10. NumberedTo("message", (c.sent \o b) \o f, n + 1)
    BY <1>3, <1>4, MessageFollows
<1>11. (c.sent \o b) \o f = c.sent \o e
    BY <1>1, <1>3, <1>5, <1>6, Joins, ZenonT(60)
<1>12. NumberedTo("message", Whole(d), n + 1)
    BY <1>9, <1>10, <1>11 DEF Whole
<1>13. d.capacity = c.capacity
    BY <1>9 DEF SameLimits
<1>14. Len(d.buffer) <= d.capacity /\ d.buffer # <<>>
    BY <1>1, <1>3, <1>7, <1>9, <1>13
<1> QED
    BY <1>9, <1>12, <1>14 DEF PushedLast

------------------------------------------------------------------------------
(* Requests.                                                                 *)

\* Requests in line, numbered up to n, and those of them that are gone
InLine(s, n) == s \in Seq(Nat) /\ Increasing(s) /\ \A i \in 1..Len(s) : s[i] \in 1..n
CompleteTo(s, n, gone) ==
    \A x \in 1..n : x \notin gone <=> \E i \in 1..Len(s) : s[i] = x

\* A request that joins the line, waiting or answered at once
LEMMA LineJoined ==
    ASSUME NEW S, NEW T, NEW o \in Seq(S), NEW q \in Seq(T), NEW r \in T, NEW p \in S, p.seq = r.seq,
           \A x \in S : x.seq \in Nat, \A x \in T : x.seq \in Nat
    PROVE  /\ LineOf(o, q) \in Seq(Nat)
           /\ LineOf(o, Append(q, r)) = Append(LineOf(o, q), r.seq)
           /\ q = <<>> => LineOf(Append(o, p), q) = Append(LineOf(o, q), r.seq)
<1>1. PICK q2 : q2 = Append(q, r)
    BY Zenon
<1>2. PICK o2 : o2 = Append(o, p)
    BY Zenon
<1>3. PICK l : l = Len(o)
    BY Zenon
<1>4. PICK k : k = Len(q)
    BY Zenon
<1>5. l \in Nat /\ k \in Nat
    BY <1>3, <1>4
<1>6. q2 \in Seq(T) /\ Len(q2) = k + 1 /\ q2[k + 1] = r /\ \A i \in 1..k : q2[i] = q[i]
    BY <1>1, <1>4, AppendProperties
<1>7. o2 \in Seq(S) /\ Len(o2) = l + 1 /\ o2[l + 1] = p /\ \A i \in 1..l : o2[i] = o[i]
    BY <1>2, <1>3, AppendProperties
<1>8. PICK x : x = LineOf(o, q)
    BY Zenon
<1>9. x = [i \in 1..(l + k) |-> IF i <= l THEN o[i].seq ELSE q[i - l].seq]
    BY <1>3, <1>4, <1>8, Zenon DEF LineOf
<1>10. \A i \in 1..(l + k) : (IF i <= l THEN o[i].seq ELSE q[i - l].seq) \in Nat
    <2> TAKE i \in 1..(l + k)
    <2>1. CASE i <= l
        <3>1. o[i] \in S
            BY <1>3, <1>5, <2>1
        <3> QED
            BY <2>1, <3>1
    <2>2. CASE ~(i <= l)
        <3>1. i - l \in 1..k
            BY <1>5, <2>2
        <3>2. q[i - l] \in T
            BY <1>4, <3>1, ElementOfSeq
        <3> QED
            BY <2>2, <3>2
    <2> QED
        BY <2>1, <2>2
<1>11. x \in [1..(l + k) -> Nat]
    BY <1>9, <1>10
<1>12. x \in Seq(Nat) /\ Len(x) = l + k
    <2>1. l + k \in Nat
        BY <1>5
    <2>2. PICK z : z = l + k
        BY Zenon
    <2>3. x \in [1..z -> Nat] /\ z \in Nat
        BY <1>11, <2>1, <2>2
    <2>4. x \in Seq(Nat) /\ Len(x) = z
        BY <2>3
    <2> QED
        BY <2>2, <2>4
<1>13. PICK y : y = Append(x, r.seq)
    BY Zenon
<1>14. r.seq \in Nat
    OBVIOUS
<1>15. /\ y \in Seq(Nat) /\ Len(y) = (l + k) + 1 /\ y[(l + k) + 1] = r.seq
       /\ \A i \in 1..(l + k) : y[i] = x[i]
    BY <1>12, <1>13, <1>14, AppendProperties
<1>16. y = [i \in 1..((l + k) + 1) |-> y[i]]
    BY <1>15
<1>17. \A i \in 1..((l + k) + 1) : y[i] = IF i <= l THEN o[i].seq ELSE q2[i - l].seq
    <2> TAKE i \in 1..((l + k) + 1)
    <2>1. CASE i <= l
        <3>1. i \in 1..(l + k)
            BY <1>5, <2>1
        <3> QED
            BY <1>9, <1>15, <2>1, <3>1
    <2>2. CASE ~(i <= l) /\ i # (l + k) + 1
        <3>1. i \in 1..(l + k) /\ i - l \in 1..k
            BY <1>5, <2>2
        <3>2. x[i] = q[i - l].seq
            BY <1>9, <2>2, <3>1
        <3>3. q2[i - l] = q[i - l]
            BY <1>6, <3>1
        <3> QED
            BY <1>15, <2>2, <3>1, <3>2, <3>3
    <2>3. CASE i = (l + k) + 1
        <3>1. i - l = k + 1 /\ ~(i <= l)
            BY <1>5, <2>3
        <3> QED
            BY <1>6, <1>15, <2>3, <3>1
    <2> QED
        BY <2>1, <2>2, <2>3
<1>18. LineOf(o, q2) = [i \in 1..(l + (k + 1)) |-> IF i <= l THEN o[i].seq ELSE q2[i - l].seq]
    BY <1>3, <1>6, Zenon DEF LineOf
<1>19. (l + k) + 1 = l + (k + 1)
    BY <1>5
<1>20. LineOf(o, q2) = y
    BY <1>16, <1>17, <1>18, <1>19, Zenon
<1>21. ASSUME q = <<>>
       PROVE  LineOf(o2, q) = y
    <2>1. k = 0
        BY <1>4, <1>21
    <2>2. \A i \in 1..((l + k) + 1) : y[i] = IF i <= l + 1 THEN o2[i].seq ELSE q[i - (l + 1)].seq
        <3> TAKE i \in 1..((l + k) + 1)
        <3>1. i <= l + 1 /\ (i <= l \/ i = l + 1)
            BY <1>5, <2>1
        <3>2. CASE i <= l
            <4>1. i \in 1..l
                BY <1>5, <3>2
            <4> QED
                BY <1>7, <1>17, <3>1, <3>2, <4>1
        <3>3. CASE i = l + 1
            BY <1>5, <1>7, <1>15, <2>1, <3>3
        <3> QED
            BY <3>1, <3>2, <3>3
    <2>3. LineOf(o2, q) = [i \in 1..((l + 1) + k) |-> IF i <= l + 1 THEN o2[i].seq ELSE q[i - (l + 1)].seq]
        BY <1>4, <1>7, Zenon DEF LineOf
    <2>4. (l + 1) + k = (l + k) + 1
        BY <1>5
    <2> QED
        BY <1>16, <2>2, <2>3, <2>4, Zenon
<1> QED
    BY <1>1, <1>2, <1>8, <1>12, <1>13, <1>20, <1>21

\* The newest request is the last in line.
LEMMA NewestLast ==
    ASSUME NEW s, NEW n \in Nat, InLine(s, n)
    PROVE  /\ InLine(Append(s, n + 1), n + 1)
           /\ \A gone \in SUBSET (1..n) : CompleteTo(s, n, gone) => CompleteTo(Append(s, n + 1), n + 1, gone)
<1>1. PICK t : t = Append(s, n + 1)
    BY Zenon
<1>2. PICK k : k = Len(s)
    BY Zenon
<1>3. s \in Seq(Nat) /\ k \in Nat /\ n + 1 \in Nat
    BY <1>2 DEF InLine
<1>4. t \in Seq(Nat) /\ Len(t) = k + 1 /\ t[k + 1] = n + 1 /\ \A i \in 1..k : t[i] = s[i]
    BY <1>1, <1>2, <1>3, AppendProperties
<1>5. \A i \in 1..k : s[i] \in 1..n
    BY <1>2 DEF InLine
<1>6. \A i, j \in 1..k : i < j => s[i] < s[j]
    BY <1>2 DEF InLine, Increasing
<1>7. \A i \in 1..(k + 1) : t[i] \in 1..(n + 1)
    <2> TAKE i \in 1..(k + 1)
    <2>1. CASE i \in 1..k
        <3>1. t[i] = s[i] /\ s[i] \in 1..n
            BY <1>4, <1>5, <2>1
        <3> QED
            BY <3>1
    <2>2. CASE i = k + 1
        BY <1>4, <2>2
    <2> QED
        BY <1>3, <2>1, <2>2
<1>8. \A i, j \in 1..(k + 1) : i < j => t[i] < t[j]
    BY <1>3, <1>4, <1>5, <1>6
<1>9. ASSUME NEW gone \in SUBSET (1..n), CompleteTo(s, n, gone)
      PROVE  CompleteTo(t, n + 1, gone)
    <2>1. \A x \in 1..n : x \notin gone <=> \E i \in 1..k : s[i] = x
        BY <1>2, <1>9 DEF CompleteTo
    <2>2. ASSUME NEW x \in 1..(n + 1)
          PROVE  x \notin gone <=> \E i \in 1..(k + 1) : t[i] = x
        <3>1. CASE x = n + 1
            <4>1. x \notin gone /\ k + 1 \in 1..(k + 1)
                BY <1>3, <3>1
            <4> QED
                BY <1>4, <3>1, <4>1
        <3>2. CASE x \in 1..n
            <4>1. (\E i \in 1..(k + 1) : t[i] = x) <=> \E i \in 1..k : s[i] = x
                BY <1>3, <1>4, <3>2
            <4> QED
                BY <2>1, <3>2, <4>1
        <3> QED
            BY <3>1, <3>2
    <2> QED
        BY <1>4, <2>2 DEF CompleteTo
<1> QED
    BY <1>1, <1>4, <1>7, <1>8, <1>9 DEF InLine, Increasing

\* The elements of a sequence without the one at j
LEMMA Removed ==
    ASSUME NEW S, NEW q \in Seq(S), NEW j \in 1..Len(q)
    PROVE  /\ RemoveAt(q, j) \in Seq(S) /\ Len(RemoveAt(q, j)) = Len(q) - 1
           /\ \A i \in 1..(Len(q) - 1) : RemoveAt(q, j)[i] = IF i < j THEN q[i] ELSE q[i + 1]
<1>1. PICK k : k = Len(q)
    BY Zenon
<1>2. PICK h : h = j - 1
    BY Zenon
<1>3. k \in Nat /\ j \in 1..k /\ h \in Nat /\ j = h + 1 /\ k - j \in Nat
    BY <1>1, <1>2
<1>4. PICK a : a = SubSeq(q, 1, h)
    BY Zenon
<1>5. PICK b : b = SubSeq(q, j + 1, k)
    BY Zenon
<1>6. a \in Seq(S) /\ Len(a) = h /\ \A i \in 1..h : a[i] = q[i]
    BY <1>1, <1>3, <1>4
<1>7. b \in Seq(S) /\ Len(b) = k - j /\ \A i \in 1..(k - j) : b[i] = q[j + i]
    BY <1>1, <1>3, <1>5
<1>8. PICK l : l = k - j
    BY Zenon
<1>9. PICK t : t = a \o b
    BY Zenon
<1>10. /\ t \in Seq(S) /\ Len(t) = h + l
       /\ \A i \in 1..(h + l) : t[i] = IF i <= h THEN a[i] ELSE b[i - h]
    <2>1. a \in Seq(S) /\ b \in Seq(S) /\ h = Len(a) /\ l = Len(b)
        BY <1>6, <1>7, <1>8
    <2>2. JointOf(S, a, h, b, l, t)
        BY <1>9, <2>1, Joint
    <2> QED
        BY <2>2 DEF JointOf
<1>11. h + l = k - 1
    BY <1>3, <1>8
<1>12. ASSUME NEW i \in 1..(k - 1)
       PROVE  t[i] = IF i < j THEN q[i] ELSE q[i + 1]
    <2>1. CASE i < j
        <3>1. i \in 1..h /\ i <= h
            BY <1>3, <2>1
        <3> QED
            BY <1>6, <1>10, <1>11, <2>1, <3>1
    <2>2. CASE ~(i < j)
        <3>1. ~(i <= h) /\ i - h \in 1..(k - j) /\ j + (i - h) = i + 1
            BY <1>3, <2>2
        <3>2. t[i] = b[i - h]
            BY <1>10, <1>11, <3>1
        <3>3. b[i - h] = q[i + 1]
            BY <1>7, <3>1
        <3> QED
            BY <2>2, <3>2, <3>3
    <2> QED
        BY <2>1, <2>2
<1>13. RemoveAt(q, j) = t
    BY <1>1, <1>2, <1>4, <1>5, <1>9, Zenon DEF RemoveAt
<1> QED
    BY <1>1, <1>10, <1>11, <1>12, <1>13

\* A request that leaves the line
LEMMA LineLeft ==
    ASSUME NEW S, NEW T, NEW o \in Seq(S), NEW q \in Seq(T), NEW j \in 1..Len(q), NEW n \in Nat,
           InLine(LineOf(o, q), n)
    PROVE  /\ InLine(LineOf(o, RemoveAt(q, j)), n)
           /\ \A gone : CompleteTo(LineOf(o, q), n, gone)
                            => CompleteTo(LineOf(o, RemoveAt(q, j)), n, gone \cup {q[j].seq})
<1>1. PICK q2 : q2 = RemoveAt(q, j)
    BY Zenon
<1>2. PICK k : k = Len(q)
    BY Zenon
<1>3. PICK l : l = Len(o)
    BY Zenon
<1>4. PICK h : h = k - 1
    BY Zenon
<1>5. l \in Nat /\ k \in Nat /\ h \in Nat /\ k = h + 1 /\ j \in 1..k
    BY <1>2, <1>3, <1>4
<1>6. Len(q2) = h /\ \A i \in 1..h : q2[i] = IF i < j THEN q[i] ELSE q[i + 1]
    BY <1>1, <1>2, <1>4, Removed
<1>7. PICK x : x = LineOf(o, q)
    BY Zenon
<1>8. PICK y : y = LineOf(o, q2)
    BY Zenon
<1>9. x = [i \in 1..(l + k) |-> IF i <= l THEN o[i].seq ELSE q[i - l].seq]
    BY <1>2, <1>3, <1>7, Zenon DEF LineOf
<1>10. y = [i \in 1..(l + h) |-> IF i <= l THEN o[i].seq ELSE q2[i - l].seq]
    BY <1>3, <1>6, <1>8, Zenon DEF LineOf
<1>11. l + k \in Nat /\ l + h \in Nat /\ l + j \in 1..(l + k)
    BY <1>5
<1> DEFINE g(i) == IF i < l + j THEN i ELSE i + 1
<1>12. ASSUME NEW i \in 1..(l + h)
       PROVE  g(i) \in 1..(l + k) /\ g(i) # l + j /\ y[i] = x[g(i)]
    <2>1. CASE i <= l
        <3>1. g(i) = i /\ i \in 1..(l + k) /\ i # l + j
            BY <1>5, <2>1
        <3>2. y[i] = o[i].seq /\ x[i] = o[i].seq
            BY <1>9, <1>10, <2>1, <3>1
        <3> HIDE DEF g
        <3> QED
            BY <3>1, <3>2
    <2>2. CASE ~(i <= l) /\ i < l + j
        <3>1. g(i) = i /\ i \in 1..(l + k) /\ i # l + j /\ i - l \in 1..h /\ i - l < j
            BY <1>5, <2>2
        <3>2. y[i] = q2[i - l].seq /\ x[i] = q[i - l].seq
            BY <1>9, <1>10, <2>2, <3>1
        <3>3. q2[i - l] = q[i - l]
            BY <1>6, <3>1
        <3> HIDE DEF g
        <3> QED
            BY <3>1, <3>2, <3>3
    <2>3. CASE ~(i < l + j)
        <3>1. /\ g(i) = i + 1 /\ i + 1 \in 1..(l + k) /\ i + 1 # l + j /\ i - l \in 1..h
              /\ ~(i - l < j) /\ (i - l) + 1 = (i + 1) - l /\ ~(i <= l) /\ ~(i + 1 <= l)
            BY <1>5, <2>3
        <3>2. y[i] = q2[i - l].seq
            BY <1>10, <3>1
        <3>3. x[i + 1] = q[(i + 1) - l].seq
            BY <1>9, <3>1
        <3>4. q2[i - l] = q[(i + 1) - l]
            BY <1>6, <3>1
        <3> HIDE DEF g
        <3> QED
            BY <3>1, <3>2, <3>3, <3>4
    <2> QED
        BY <2>1, <2>2, <2>3
<1>13. x \in Seq(Nat) /\ Len(x) = l + k
    <2>1. x \in Seq(Nat)
        BY <1>7 DEF InLine
    <2>2. DOMAIN x = 1..(l + k)
        BY <1>9
    <2>3. Len(x) \in Nat /\ DOMAIN x = 1..Len(x)
        BY <2>1, LenProperties
    <2> QED
        BY <1>11, <2>1, <2>2, <2>3
<1>14. \A i \in 1..(l + k) : x[i] \in 1..n
    BY <1>7, <1>13 DEF InLine
<1>15. \A i1, i2 \in 1..(l + k) : i1 < i2 => x[i1] < x[i2]
    BY <1>7, <1>13 DEF InLine, Increasing
<1>16. y \in Seq(Nat) /\ Len(y) = l + h
    <2>1. \A i \in 1..(l + h) : y[i] \in Nat
        BY <1>12, <1>14
    <2>2. y = [i \in 1..(l + h) |-> y[i]]
        BY <1>10
    <2>3. PICK z : z = l + h
        BY Zenon
    <2>4. z \in Nat /\ y \in [1..z -> Nat]
        BY <1>11, <2>1, <2>2, <2>3
    <2>5. y \in Seq(Nat) /\ Len(y) = z
        BY <2>4
    <2> QED
        BY <2>3, <2>5
<1>17. \A i1, i2 \in 1..(l + h) : i1 < i2 => g(i1) < g(i2)
    BY <1>11
<1>18. x[l + j] = q[j].seq
    <2>1. ~(l + j <= l) /\ (l + j) - l = j
        BY <1>5
    <2> QED
        BY <1>9, <1>11, <2>1
<1>19. \A i \in 1..(l + k) : i # l + j => \E i2 \in 1..(l + h) : g(i2) = i
    <2> SUFFICES ASSUME NEW i \in 1..(l + k), i # l + j PROVE \E i2 \in 1..(l + h) : g(i2) = i
        OBVIOUS
    <2>1. CASE i < l + j
        <3>1. i \in 1..(l + h) /\ g(i) = i
            BY <1>5, <2>1
        <3> QED
            BY <3>1
    <2>2. CASE i > l + j
        <3>1. i - 1 \in 1..(l + h) /\ g(i - 1) = i
            BY <1>5, <2>2
        <3> QED
            BY <3>1
    <2> QED
        BY <1>5, <2>1, <2>2
<1> HIDE DEF g
<1>20. InLine(y, n)
    <2>1. \A i \in 1..(l + h) : y[i] \in 1..n
        BY <1>12, <1>14
    <2>2. \A i1, i2 \in 1..(l + h) : i1 < i2 => y[i1] < y[i2]
        BY <1>12, <1>15, <1>17
    <2> QED
        BY <1>16, <2>1, <2>2 DEF InLine, Increasing
<1>21. ASSUME NEW gone, CompleteTo(x, n, gone)
       PROVE  CompleteTo(y, n, gone \cup {q[j].seq})
    <2>1. \A v \in 1..n : v \notin gone <=> \E i \in 1..(l + k) : x[i] = v
        BY <1>13, <1>21 DEF CompleteTo
    <2>2. ASSUME NEW v \in 1..n, v \notin gone, v # q[j].seq
          PROVE  \E i \in 1..(l + h) : y[i] = v
        <3>1. PICK i \in 1..(l + k) : x[i] = v
            BY <2>1, <2>2
        <3>2. i # l + j
            BY <1>18, <2>2, <3>1
        <3>3. PICK i2 \in 1..(l + h) : g(i2) = i
            BY <1>19, <3>2
        <3> QED
            BY <1>12, <3>1, <3>3
    <2>3. ASSUME NEW v \in 1..n, NEW i \in 1..(l + h), y[i] = v
          PROVE  v \notin gone /\ v # q[j].seq
        <3>1. g(i) \in 1..(l + k) /\ g(i) # l + j /\ x[g(i)] = v
            BY <1>12, <2>3
        <3>2. v \notin gone
            BY <2>1, <3>1
        <3>3. x[g(i)] # x[l + j]
            <4>1. PICK u : u = g(i)
                BY Zenon
            <4>2. u \in 1..(l + k) /\ (u < l + j \/ l + j < u)
                BY <1>5, <3>1, <4>1
            <4>3. x[u] \in Int /\ x[l + j] \in Int
                BY <1>11, <1>14, <4>2
            <4>4. x[u] < x[l + j] \/ x[l + j] < x[u]
                BY <1>11, <1>15, <4>2
            <4> QED
                BY <4>1, <4>3, <4>4
        <3> QED
            BY <1>18, <3>1, <3>2, <3>3
    <2>4. \A v \in 1..n : v \notin gone \cup {q[j].seq} <=> \E i \in 1..(l + h) : y[i] = v
        BY <2>2, <2>3
    <2> QED
        BY <1>16, <2>4 DEF CompleteTo
<1> QED
    BY <1>1, <1>7, <1>8, <1>20, <1>21, Zenon

\* Two runs that follow each other, and the empty run
LEMMA RunsJoin ==
    ASSUME NEW n \in Nat, NEW k \in Nat, NEW l \in Nat
    PROVE  RunOf(n, k) \o RunOf(n + k, l) = RunOf(n, k + l)
<1>1. PICK t : t = RunOf(n, k + l)
    BY Zenon
<1>2. k + l \in Nat /\ k \in 0..(k + l) /\ (k + l) - k = l
    OBVIOUS
<1>3. t \in Seq(Nat) /\ Len(t) = k + l
    BY <1>1, <1>2, RunIsSeq
<1>4. SubSeq(t, 1, k) = RunOf(n, k) /\ SubSeq(t, k + 1, k + l) = RunOf(n + k, (k + l) - k)
    BY <1>1, <1>2, RunCut, ZenonT(60)
<1>5. (<<>> \o SubSeq(t, 1, k)) \o SubSeq(t, k + 1, Len(t)) = <<>> \o t
    BY <1>2, <1>3, CutInTwo, SMTT(30)
<1>6. RunOf(n, k) \in Seq(Nat)
    BY RunIsSeq
<1>7. <<>> \o t = t /\ <<>> \o RunOf(n, k) = RunOf(n, k)
    BY <1>3, <1>6, ConcatEmptySeq
<1> QED
    BY <1>1, <1>2, <1>3, <1>4, <1>5, <1>7

LEMMA RunEmpty ==
    ASSUME NEW n \in Nat
    PROVE  RunOf(n, 0) = <<>> /\ \A s \in Seq(Nat) : s \o RunOf(n, 0) = s
<1>1. RunOf(n, 0) \in Seq(Nat) /\ Len(RunOf(n, 0)) = 0
    BY RunIsSeq
<1>2. RunOf(n, 0) = <<>>
    BY <1>1, EmptySeq
<1>3. \A s \in Seq(Nat) : s \o <<>> = s
    BY ConcatEmptySeq
<1> QED
    BY <1>2, <1>3

\* Eviction at the limit makes room for a request, and loses none.
LEMMA EvictMakesRoom ==
    ASSUME NEW M \in Nat, NEW L, NEW c \in ChannelOf(M, L), NEW d, d = Evict(c),
           c.limit # 0 => Len(c.queue) <= c.limit
    PROVE  /\ d \in ChannelOf(M, L) /\ SameLimits(c, d) /\ Line(d) = Line(c) /\ Whole(d) = Whole(c)
           /\ d.buffer = c.buffer /\ Len(c.out) <= Len(d.out)
           /\ d.limit # 0 => Len(d.queue) + 1 <= d.limit
<1>1. c.queue \in Seq(ChannelRequest(M, L)) /\ c.out \in Seq(ChannelReply(M)) /\ c.limit \in Nat
      /\ c.sent \in Seq(Nat) /\ Len(c.queue) \in Nat /\ Len(c.out) \in Nat
    BY ChannelFields, ChannelLengths
<1>2. CASE ~(c.limit # 0 /\ Len(c.queue) >= c.limit)
    <2>1. d = c
        BY <1>2 DEF Evict
    <2> QED
        BY <1>1, <1>2, <2>1 DEF SameLimits
<1>3. CASE c.limit # 0 /\ Len(c.queue) >= c.limit
    <2>1. PICK q : q = Tail(c.queue)
        BY Zenon
    <2>2. PICK r : r = Head(c.queue)
        BY Zenon
    <2>3. c.queue # <<>> /\ Len(c.queue) = c.limit
        BY <1>1, <1>3
    <2>4. q \in Seq(ChannelRequest(M, L)) /\ Len(q) = Len(c.queue) - 1 /\ r \in ChannelRequest(M, L)
        BY <1>1, <2>1, <2>2, <2>3, HeadTailProperties
    <2>5. PICK e : e = [c EXCEPT !.queue = q]
        BY Zenon
    <2>6. /\ e \in ChannelOf(M, L) /\ SameLimits(c, e)
          /\ e.queue = q /\ e.buffer = c.buffer /\ e.sent = c.sent /\ e.out = c.out
        BY <2>4, <2>5, OtherQueue
    <2>7. d = Reply(e, r, <<>>, FALSE)
        BY <1>3, <2>1, <2>2, <2>5, Zenon DEF Evict
    <2>8. r.seq \in 1..M /\ <<>> \in Seq(Nat)
        BY <2>4, EmptySeq DEF ChannelRequest
    <2>9. d \in ChannelOf(M, L) /\ Replied(e, d, r.seq, <<>>, FALSE)
        BY <2>6, <2>7, <2>8, ReplyFields
    <2>10. PICK p : p = [seq |-> r.seq, notified |-> FALSE]
        BY Zenon
    <2>11. p \in ChannelReply(M) /\ p.seq = Head(c.queue).seq
        BY <2>2, <2>8, <2>10 DEF ChannelReply
    <2>12. /\ SameLimits(e, d) /\ d.queue = q /\ d.buffer = c.buffer /\ d.sent = c.sent \o <<>>
           /\ d.out = Append(c.out, p)
        BY <2>6, <2>9, <2>10 DEF Replied
    <2>13. d.sent = c.sent
        BY <1>1, <2>12, ConcatEmptySeq
    <2>14. Line(d) = Line(c)
        BY <1>1, <2>1, <2>3, <2>11, <2>12, OldestAnswered DEF Line
    <2>15. SameLimits(c, d)
        BY <2>6, <2>12 DEF SameLimits
    <2>16. Len(d.out) = Len(c.out) + 1
        BY <1>1, <2>11, <2>12, AppendProperties
    <2>17. Len(c.out) <= Len(d.out)
        BY <1>1, <2>16
    <2>18. d.limit # 0 => Len(d.queue) + 1 <= d.limit
        <3>1. d.limit = c.limit
            BY <2>15 DEF SameLimits
        <3>2. Len(d.queue) = Len(c.queue) - 1
            BY <2>4, <2>12
        <3> QED
            BY <1>1, <2>3, <3>1, <3>2
    <2> QED
        BY <2>9, <2>12, <2>13, <2>14, <2>15, <2>17, <2>18 DEF Whole
<1> QED
    BY <1>2, <1>3

\* on_in_request: the request joins the end of the line, data that were
\* pulled for it the end of the data, and no data wait with a request.
Joined(c, d, r) ==
    /\ SameLimits(c, d) /\ Line(d) = Append(Line(c), r.seq)
    /\ Len(d.buffer) <= d.capacity /\ (d.limit # 0 => Len(d.queue) <= d.limit)
    /\ d.buffer = <<>> \/ d.queue = <<>>
    /\ \/ d.buffer # <<>> \/ c.buffer = <<>>
       \/ \E i \in (Len(c.out) + 1)..Len(d.out) : d.out[i].notified

Takes(M, L, c, d, r, whole) == d \in ChannelOf(M, L) /\ Joined(c, d, r) /\ Whole(d) = whole

LEMMA LineOfRequests ==
    ASSUME NEW M \in Nat, NEW L \in SUBSET Nat, NEW c \in ChannelOf(M, L),
           NEW r \in ChannelRequest(M, L), NEW wakes \in BOOLEAN
    PROVE  /\ Line(c) \in Seq(Nat)
           /\ LineOf(c.out, Append(c.queue, r)) = Append(Line(c), r.seq)
           /\ c.queue = <<>> => LineOf(Append(c.out, [seq |-> r.seq, notified |-> wakes]), c.queue)
                                    = Append(Line(c), r.seq)
<1>1. PICK p : p = [seq |-> r.seq, notified |-> wakes]
    BY Zenon
<1>2. p \in ChannelReply(M) /\ p.seq = r.seq
    BY <1>1 DEF ChannelReply, ChannelRequest
<1>3. /\ \A x \in ChannelReply(M) : x.seq \in Nat
      /\ \A x \in ChannelRequest(M, L) : x.seq \in Nat
    BY DEF ChannelReply, ChannelRequest
<1>4. c.queue \in Seq(ChannelRequest(M, L)) /\ c.out \in Seq(ChannelReply(M))
    BY ChannelFields
<1>5. PICK o : o = c.out
    BY Zenon
<1>6. PICK q : q = c.queue
    BY Zenon
<1> HIDE DEF ChannelReply, ChannelRequest
<1>7. q \in Seq(ChannelRequest(M, L)) /\ o \in Seq(ChannelReply(M))
    BY <1>4, <1>5, <1>6
<1>8. /\ LineOf(o, q) \in Seq(Nat)
      /\ LineOf(o, Append(q, r)) = Append(LineOf(o, q), r.seq)
      /\ q = <<>> => LineOf(Append(o, p), q) = Append(LineOf(o, q), r.seq)
    BY <1>2, <1>3, <1>7, LineJoined
<1> QED
    BY <1>1, <1>5, <1>6, <1>8 DEF Line

\* with data in the buffer and nobody waiting,
LEMMA JoinedAtOnce ==
    ASSUME NEW M \in Nat, NEW L \in SUBSET Nat, NEW c \in ChannelOf(M, L), NEW m,
           NEW r \in ChannelRequest(M, L), Len(c.buffer) <= c.capacity,
           c.queue = <<>>, c.buffer # <<>>
    PROVE  Takes(M, L, c, SendOne(m, c, r), r, Whole(c))
<1> SUFFICES ASSUME NEW d, d = SendOne(m, c, r) PROVE Takes(M, L, c, d, r, Whole(c))
    BY Zenon
<1>1. PICK p : p = [seq |-> r.seq, notified |-> TRUE]
    BY Zenon
<1>2. p \in ChannelReply(M) /\ p.notified = TRUE
    BY <1>1 DEF ChannelReply, ChannelRequest
<1>3. /\ d \in ChannelOf(M, L) /\ SameLimits(c, d) /\ d.queue = c.queue /\ d.out = Append(c.out, p)
      /\ Whole(d) = Whole(c) /\ Len(d.buffer) <= Len(c.buffer)
    BY <1>1, SendOneKeepsData
<1>4. c.out \in Seq(ChannelReply(M)) /\ c.capacity \in Nat /\ c.limit \in Nat
    BY ChannelFields
<1>5. Len(c.buffer) \in Nat /\ Len(d.buffer) \in Nat /\ Len(c.out) \in Nat
    BY <1>3, ChannelLengths
<1>6. PICK k : k = Len(c.out)
    BY Zenon
<1>7. Len(d.out) = k + 1 /\ d.out[k + 1] = p /\ k + 1 \in (k + 1)..(k + 1)
    BY <1>2, <1>3, <1>4, <1>5, <1>6, AppendProperties
<1>8. Line(d) = Append(Line(c), r.seq)
    BY <1>1, <1>3, LineOfRequests DEF Line
<1>9. d.capacity = c.capacity /\ d.limit = c.limit
    BY <1>3 DEF SameLimits
<1>10. Len(d.buffer) <= d.capacity /\ d.queue = <<>> /\ Len(d.queue) = 0
    BY <1>3, <1>4, <1>5, <1>9
<1>11. \E i \in (Len(c.out) + 1)..Len(d.out) : d.out[i].notified
    BY <1>2, <1>6, <1>7
<1> QED
    BY <1>3, <1>4, <1>8, <1>9, <1>10, <1>11 DEF Joined, Takes

\* with data that were pulled for it,
LEMMA JoinedPulled ==
    ASSUME NEW M \in Nat, NEW L \in SUBSET Nat, NEW c \in ChannelOf(M, L), NEW m,
           NEW r \in ChannelRequest(M, L), c.queue = <<>>, c.buffer = <<>>,
           NEW n \in Nat, NEW a \in Nat
    PROVE  Takes(M, L, c, Drain(m, SendPulled(c, r, RunOf(n, a))), r,
                 Whole(c) \o RunOf(n, Lesser(a, r.len + c.capacity)))
<1> SUFFICES ASSUME NEW d, d = Drain(m, SendPulled(c, r, RunOf(n, a)))
             PROVE  Takes(M, L, c, d, r, Whole(c) \o RunOf(n, Lesser(a, r.len + c.capacity)))
    BY Zenon
<1>1. PICK k : k = Lesser(a, r.len)
    BY Zenon
<1>2. r.len \in Nat /\ r.seq \in 1..M /\ c.capacity \in Nat /\ c.limit \in Nat /\ c.sent \in Seq(Nat)
    BY ChannelFields DEF ChannelRequest
<1>3. k \in 0..a /\ k \in Nat /\ a - k \in Nat /\ n + k \in Nat
    BY <1>1, <1>2 DEF Lesser
<1>4. PICK f : f = RunOf(n, k)
    BY Zenon
<1>5. f \in Seq(Nat)
    BY <1>3, <1>4, RunIsSeq
<1>6. PICK e : e = Reply(c, r, f, FALSE)
    BY Zenon
<1>7. e \in ChannelOf(M, L) /\ Replied(c, e, r.seq, f, FALSE)
    BY <1>2, <1>5, <1>6, ReplyFields
<1>8. PICK g : g = PushLocked("stream", e, RunOf(n + k, a - k))
    BY Zenon
<1>9. d = Drain(m, g)
    <2>1. Len(RunOf(n, a)) = a /\ SubSeq(RunOf(n, a), 1, k) = f
          /\ SubSeq(RunOf(n, a), k + 1, a) = RunOf(n + k, a - k)
        BY <1>3, <1>4, RunIsSeq, RunCut, ZenonT(60)
    <2> QED
        BY <1>1, <1>6, <1>8, <2>1, Zenon DEF SendPulled
<1>10. PICK l : l = Lesser(a - k, Room(e))
    BY Zenon
<1>11. e.capacity = c.capacity /\ e.buffer = <<>> /\ Len(e.buffer) = 0 /\ Len(e.buffer) <= e.capacity
    BY <1>2, <1>7 DEF Replied, SameLimits
<1>12. /\ g \in ChannelOf(M, L) /\ SameLimits(e, g) /\ g.queue = e.queue /\ g.out = e.out
       /\ l \in Nat /\ Len(g.buffer) <= g.capacity /\ Whole(g) = Whole(e) \o RunOf(n + k, l)
    <2>1. PICK n2 : n2 = n + k
        BY Zenon
    <2>2. PICK a2 : a2 = a - k
        BY Zenon
    <2>3. n2 \in Nat /\ a2 \in Nat /\ g = PushLocked("stream", e, RunOf(n2, a2)) /\ l = Lesser(a2, Room(e))
        BY <1>3, <1>8, <1>10, <2>1, <2>2
    <2>4. PushedAfter(M, L, e, g, n2, l)
        BY <1>7, <1>11, <2>3, PushStream
    <2> QED
        BY <2>1, <2>4 DEF PushedAfter
<1>13. /\ d \in ChannelOf(M, L) /\ Served(g, d)
    BY <1>9, <1>12, DrainServes
<1>14. Line(g) = Append(Line(c), r.seq)
    <2>1. g.queue = c.queue /\ g.out = Append(c.out, [seq |-> r.seq, notified |-> FALSE])
        BY <1>7, <1>12 DEF Replied
    <2> QED
        BY <2>1, LineOfRequests DEF Line
<1>15. SameLimits(c, d) /\ Line(d) = Append(Line(c), r.seq) /\ Whole(d) = Whole(g)
    BY <1>7, <1>12, <1>13, <1>14 DEF Served, SameLimits, Replied
<1>16. Len(d.buffer) <= d.capacity /\ d.queue = <<>> /\ Len(d.queue) = 0
    <2>1. d.capacity = g.capacity /\ Len(d.buffer) <= Len(g.buffer) /\ Len(d.queue) <= Len(g.queue)
        BY <1>13 DEF Served, SameLimits, Shorter
    <2>2. g.queue = <<>>
        BY <1>7, <1>12 DEF Replied
    <2>3. d.queue \in Seq(ChannelRequest(M, L)) /\ g.capacity \in Nat
        BY <1>12, <1>13, ChannelFields
    <2>4. Len(d.buffer) \in Nat /\ Len(g.buffer) \in Nat /\ Len(d.queue) \in Nat
        BY <1>12, <1>13, ChannelLengths
    <2>5. Len(d.queue) = 0
        BY <2>1, <2>2, <2>4
    <2> HIDE DEF ChannelRequest
    <2>6. d.queue = <<>>
        BY <2>3, <2>5, EmptySeq
    <2> QED
        BY <1>12, <2>1, <2>3, <2>4, <2>5, <2>6
<1>17. Whole(c) = c.sent /\ Whole(e) = c.sent \o f
    <2>1. e.sent = c.sent \o f
        BY <1>7 DEF Replied
    <2>2. c.sent \o f \in Seq(Nat)
        BY <1>2, <1>5, ConcatProperties
    <2>3. PICK z : z = c.sent \o f
        BY Zenon
    <2>4. z \o <<>> = z /\ c.sent \o <<>> = c.sent
        BY <1>2, <2>2, <2>3, ConcatEmptySeq
    <2> QED
        BY <1>11, <2>1, <2>3, <2>4 DEF Whole
<1>18. PICK h : h = RunOf(n + k, l)
    BY Zenon
<1>19. h \in Seq(Nat)
    BY <1>3, <1>12, <1>18, RunIsSeq
<1>20. Whole(d) = c.sent \o (f \o h)
    <2>1. Whole(d) = (c.sent \o f) \o h
        BY <1>12, <1>15, <1>17, <1>18
    <2>2. (c.sent \o f) \o h = c.sent \o (f \o h)
        BY <1>2, <1>5, <1>19, Joins, Zenon
    <2> QED
        BY <2>1, <2>2
<1>21. f \o h = RunOf(n, k + l)
    BY <1>3, <1>4, <1>12, <1>18, RunsJoin, ZenonT(60)
<1>22. k + l = Lesser(a, r.len + c.capacity)
    <2>1. l = Lesser(a - k, c.capacity - 0)
        BY <1>10, <1>11 DEF Room
    <2> QED
        BY <1>1, <1>2, <1>3, <2>1, SMTT(30) DEF Lesser
<1>23. Whole(d) = Whole(c) \o RunOf(n, Lesser(a, r.len + c.capacity))
    BY <1>17, <1>20, <1>21, <1>22
<1>24. d.limit # 0 => Len(d.queue) <= d.limit
    <2>1. d.limit = c.limit
        BY <1>15 DEF SameLimits
    <2> QED
        BY <1>2, <1>16, <2>1
<1> QED
    BY <1>13, <1>15, <1>16, <1>23, <1>24 DEF Joined, Takes

\* and without.
LEMMA JoinedBehind ==
    ASSUME NEW M \in Nat, NEW L \in SUBSET Nat, NEW c \in ChannelOf(M, L), NEW m,
           NEW r \in ChannelRequest(M, L), Len(c.buffer) <= c.capacity,
           c.limit # 0 => Len(c.queue) <= c.limit
    PROVE  Takes(M, L, c, Drain(m, [Evict(c) EXCEPT !.queue = Append(@, r)]), r, Whole(c))
<1> SUFFICES ASSUME NEW d, d = Drain(m, [Evict(c) EXCEPT !.queue = Append(@, r)])
             PROVE  Takes(M, L, c, d, r, Whole(c))
    BY Zenon
<1>1. PICK e : e = Evict(c)
    BY Zenon
<1>2. /\ e \in ChannelOf(M, L) /\ SameLimits(c, e) /\ Line(e) = Line(c) /\ Whole(e) = Whole(c)
      /\ e.buffer = c.buffer /\ Len(c.out) <= Len(e.out)
      /\ e.limit # 0 => Len(e.queue) + 1 <= e.limit
    BY <1>1, EvictMakesRoom
<1>3. PICK q : q = Append(e.queue, r)
    BY Zenon
<1>4. q \in Seq(ChannelRequest(M, L)) /\ Len(q) = Len(e.queue) + 1
    <2>1. e.queue \in Seq(ChannelRequest(M, L))
        BY <1>2, ChannelFields
    <2> HIDE DEF ChannelRequest
    <2> QED
        BY <1>3, <2>1, AppendProperties
<1>5. PICK f : f = [e EXCEPT !.queue = q]
    BY Zenon
<1>6. /\ f \in ChannelOf(M, L) /\ SameLimits(e, f)
      /\ f.queue = q /\ f.buffer = e.buffer /\ f.sent = e.sent /\ f.out = e.out
    BY <1>2, <1>4, <1>5, OtherQueue
<1>7. d = Drain(m, f)
    BY <1>1, <1>3, <1>5, Zenon
<1>8. d \in ChannelOf(M, L) /\ Served(f, d) /\ (d.buffer = <<>> \/ d.queue = <<>>)
    BY <1>6, <1>7, DrainServes
<1>9. Line(f) = Append(Line(c), r.seq)
    <2>1. LineOf(e.out, Append(e.queue, r)) = Append(Line(e), r.seq)
        BY <1>2, LineOfRequests
    <2> QED
        BY <1>2, <1>3, <1>6, <2>1, SMTT(30) DEF Line
<1>10. Line(d) = Append(Line(c), r.seq) /\ Whole(d) = Whole(c) /\ SameLimits(c, d)
    BY <1>2, <1>6, <1>8, <1>9 DEF Served, SameLimits, Whole
<1>11. /\ d.capacity = c.capacity /\ d.limit = e.limit
       /\ Len(d.buffer) <= Len(f.buffer) /\ Len(d.queue) <= Len(f.queue)
    BY <1>2, <1>6, <1>8, <1>10 DEF Served, SameLimits, Shorter
<1>12. /\ Len(d.buffer) \in Nat /\ Len(d.queue) \in Nat /\ Len(f.buffer) \in Nat
       /\ Len(f.queue) \in Nat /\ c.capacity \in Nat /\ e.limit \in Nat
    BY <1>2, <1>6, <1>8, ChannelLengths, ChannelFields
<1>13. Len(d.buffer) <= d.capacity
    BY <1>2, <1>6, <1>11, <1>12
<1>14. d.limit # 0 => Len(d.queue) <= d.limit
    <2>1. Len(e.queue) \in Nat
        BY <1>2, ChannelLengths
    <2> QED
        BY <1>2, <1>4, <1>6, <1>11, <1>12, <2>1
<1>15. \/ d.buffer # <<>> \/ c.buffer = <<>>
       \/ \E i \in (Len(c.out) + 1)..Len(d.out) : d.out[i].notified
    <2>1. CASE Len(d.out) = Len(f.out)
        <3>1. d = f
            BY <1>8, <2>1 DEF Served
        <3> QED
            BY <1>2, <1>6, <3>1
    <2>2. CASE Len(d.out) # Len(f.out)
        <3>1. PICK k : k = Len(d.out)
            BY Zenon
        <3>2. Len(f.out) <= k /\ \A i \in (Len(f.out) + 1)..k : d.out[i].notified
            BY <1>8, <3>1 DEF Served, RepliesAdded
        <3>3. k \in Nat /\ Len(f.out) \in Nat /\ Len(c.out) \in Nat /\ Len(c.out) <= Len(f.out)
            BY <1>2, <1>6, <1>8, <3>1, ChannelLengths
        <3>4. k \in (Len(f.out) + 1)..k /\ k \in (Len(c.out) + 1)..k
            BY <2>2, <3>1, <3>2, <3>3
        <3>5. d.out[k].notified
            BY <3>2, <3>4, Zenon
        <3> QED
            BY <3>1, <3>4, <3>5, Zenon
    <2> QED
        BY <2>1, <2>2
<1> QED
    BY <1>8, <1>10, <1>13, <1>14, <1>15 DEF Joined, Takes

LEMMA RequestJoins ==
    ASSUME NEW M \in Nat, NEW L \in SUBSET Nat, NEW c \in ChannelOf(M, L), NEW m,
           NEW r \in ChannelRequest(M, L), Len(c.buffer) <= c.capacity,
           c.limit # 0 => Len(c.queue) <= c.limit, ~c.disconnected,
           NEW n \in Nat, NEW a \in Nat, a > 0 => c.queue = <<>> /\ c.buffer = <<>>
    PROVE  Takes(M, L, c, OnInRequest(m, c, r, RunOf(n, a)), r,
                 Whole(c) \o RunOf(n, Lesser(a, r.len + c.capacity)))
<1>1. RunOf(n, a) \in Seq(Nat) /\ Len(RunOf(n, a)) = a
    BY RunIsSeq
<1>2. CASE a > 0
    <2>1. RunOf(n, a) # <<>>
        BY <1>1, <1>2
    <2>2. OnInRequest(m, c, r, RunOf(n, a)) = Drain(m, SendPulled(c, r, RunOf(n, a)))
        BY <1>2, <2>1, Zenon DEF OnInRequest
    <2> QED
        BY <1>2, <2>2, JoinedPulled
<1>3. CASE a = 0
    <2>1. RunOf(n, a) = <<>>
        BY <1>3, RunEmpty
    <2>2. Whole(c) \in Seq(Nat)
        <3>1. c.sent \in Seq(Nat) /\ c.buffer \in Seq(Nat)
            BY ChannelFields
        <3> QED
            BY <3>1, ConcatProperties DEF Whole
    <2>3. r.len \in Nat /\ c.capacity \in Nat
        BY ChannelFields DEF ChannelRequest
    <2>4. Lesser(a, r.len + c.capacity) = 0
        BY <1>3, <2>3 DEF Lesser
    <2>5. Whole(c) \o RunOf(n, Lesser(a, r.len + c.capacity)) = Whole(c)
        BY <2>2, <2>4, RunEmpty, Zenon
    <2>6. Takes(M, L, c, OnInRequest(m, c, r, RunOf(n, a)), r, Whole(c))
        <3>1. CASE c.queue = <<>> /\ c.buffer # <<>>
            <4>1. OnInRequest(m, c, r, RunOf(n, a)) = SendOne(m, c, r)
                BY <3>1, Zenon DEF OnInRequest
            <4> QED
                BY <3>1, <4>1, JoinedAtOnce
        <3>2. CASE ~(c.queue = <<>> /\ c.buffer # <<>>)
            <4>1. OnInRequest(m, c, r, RunOf(n, a)) = Drain(m, [Evict(c) EXCEPT !.queue = Append(@, r)])
                BY <2>1, <3>2, Zenon DEF OnInRequest
            <4> QED
                BY <4>1, JoinedBehind
        <3> QED
            BY <3>1, <3>2
    <2> QED
        BY <2>5, <2>6
<1> QED
    BY <1>2, <1>3

\* cancel_pending takes one request out of the line.
LEMMA CancelTakesOut ==
    ASSUME NEW M \in Nat, NEW L, NEW c \in ChannelOf(M, L), NEW seq, Pends(c, seq),
           NEW n \in Nat, InLine(Line(c), n), NEW d, d = CancelPending(c, seq)
    PROVE  /\ d \in ChannelOf(M, L) /\ SameLimits(c, d) /\ d.buffer = c.buffer
           /\ d.sent = c.sent /\ d.out = c.out /\ Len(d.queue) = Len(c.queue) - 1
           /\ InLine(Line(d), n)
           /\ \A gone : CompleteTo(Line(c), n, gone) => CompleteTo(Line(d), n, gone \cup {seq})
<1>1. PICK o : o = c.out
    BY Zenon
<1>2. PICK q : q = c.queue
    BY Zenon
<1>3. q \in Seq(ChannelRequest(M, L)) /\ o \in Seq(ChannelReply(M))
    BY <1>1, <1>2, ChannelFields
<1>4. PICK j : j = CHOOSE i \in 1..Len(q) : q[i].seq = seq
    BY Zenon
<1>5. j \in 1..Len(q) /\ q[j].seq = seq
    <2>1. \E i \in 1..Len(q) : q[i].seq = seq
        BY <1>2 DEF Pends
    <2> QED
        BY <1>4, <2>1, Zenon
<1>6. PICK q2 : q2 = RemoveAt(q, j)
    BY Zenon
<1> HIDE DEF ChannelRequest, ChannelReply
<1>7. q2 \in Seq(ChannelRequest(M, L)) /\ Len(q2) = Len(q) - 1
    BY <1>3, <1>5, <1>6, Removed
<1>8. d = [c EXCEPT !.queue = q2]
    BY <1>2, <1>4, <1>6, Zenon DEF CancelPending
<1>9. /\ d \in ChannelOf(M, L) /\ SameLimits(c, d)
      /\ d.queue = q2 /\ d.buffer = c.buffer /\ d.sent = c.sent /\ d.out = c.out
    BY <1>7, <1>8, OtherQueue
<1>10. InLine(LineOf(o, q), n)
    BY <1>1, <1>2 DEF Line
<1>11. /\ InLine(LineOf(o, RemoveAt(q, j)), n)
       /\ \A gone : CompleteTo(LineOf(o, q), n, gone)
                        => CompleteTo(LineOf(o, RemoveAt(q, j)), n, gone \cup {q[j].seq})
    BY <1>3, <1>5, <1>10, LineLeft
<1>12. Line(d) = LineOf(o, RemoveAt(q, j)) /\ Line(c) = LineOf(o, q)
    BY <1>1, <1>2, <1>6, <1>9 DEF Line
<1>13. InLine(Line(d), n)
    BY <1>11, <1>12
<1>14. \A gone : CompleteTo(Line(c), n, gone) => CompleteTo(Line(d), n, gone \cup {seq})
    BY <1>5, <1>11, <1>12, Zenon
<1> QED
    BY <1>2, <1>7, <1>9, <1>13, <1>14

------------------------------------------------------------------------------
(* The inductive invariant.                                                  *)

Places == {"idle", "begin", "wait", "notified", "flush"}

ChTypes ==
    /\ mode \in {"message", "stream"} /\ ch \in ChannelOf(MaxReqs, Lengths)
    /\ ch.capacity = Capacity /\ ch.limit = MaxPendingRequests
ChBounds ==
    /\ Len(ch.buffer) <= Capacity
    /\ MaxPendingRequests # 0 => Len(ch.queue) <= MaxPendingRequests
WriterTypes ==
    /\ wpc \in [Writers -> Places] /\ left \in [Writers -> Nat]
    /\ \A w \in Writers : wpc[w] \in {"wait", "notified", "begin"} => left[w] > 0
ChCounts ==
    /\ rx \in {"down", "up", "clear", "notify"} /\ ndata \in Nat /\ nreq \in 0..MaxReqs
    /\ nconn \in 0..MaxConns /\ cancelled \subseteq 1..nreq

\* Between the critical sections of on_disconnection
ChPhases ==
    /\ ch.disconnected <=> rx # "up"
    /\ ch.disconnected => ch.buffer = <<>>
    /\ rx \in {"notify", "down"} => ch.queue = <<>>
    /\ rx = "down" => \A w \in Writers : wpc[w] # "wait"

ChData == rx = "up" => NumberedTo(mode, Whole(ch), ndata)
ChLine == InLine(Line(ch), nreq) /\ (rx = "up" => CompleteTo(Line(ch), nreq, cancelled))

\* A writer waits while there is data, or another is on its way: it is this
\* that one notify_one per answer has to keep up.
RoomAhead ==
    (ch.buffer = <<>> /\ ~ch.disconnected) =>
        \A w \in Writers : wpc[w] = "wait" => \E v \in Writers : wpc[v] \in {"begin", "notified"}

ChInv == /\ ChTypes /\ ChBounds /\ WriterTypes /\ ChCounts
         /\ ChPhases /\ ChData /\ ChLine /\ NoMissedMatch /\ RoomAhead

------------------------------------------------------------------------------
(* Notifications.                                                            *)

LEMMA NotifyWakes ==
    ASSUME NEW n \in Nat, NEW pcs \in [Writers -> Places], Notify(n, pcs)
    PROVE  /\ wpc' \in [Writers -> Places]
           /\ \A w \in Writers : wpc'[w] = pcs[w] \/ (pcs[w] = "wait" /\ wpc'[w] = "notified")
           /\ n > 0 => \A w \in Writers : pcs[w] = "wait" =>
                          \E v \in Writers : wpc'[v] = "notified"
<1>1. PICK asleep : asleep = {w \in Writers : pcs[w] = "wait"}
    BY Zenon
<1>2. PICK woken \in SUBSET asleep :
          /\ Cardinality(woken) = Lesser(n, Cardinality(asleep))
          /\ wpc' = [w \in Writers |-> IF w \in woken THEN "notified" ELSE pcs[w]]
    BY <1>1, Zenon DEF Notify
<1>3. woken \subseteq asleep /\ asleep \subseteq Writers
    BY <1>1
<1>4. \A w \in Writers : wpc'[w] = IF w \in woken THEN "notified" ELSE pcs[w]
    BY <1>2
<1>5. wpc' \in [Writers -> Places]
    BY <1>2 DEF Places
<1>6. \A w \in Writers : wpc'[w] = pcs[w] \/ (pcs[w] = "wait" /\ wpc'[w] = "notified")
    BY <1>1, <1>3, <1>4
<1>7. ASSUME n > 0, NEW w \in Writers, pcs[w] = "wait"
      PROVE  \E v \in Writers : wpc'[v] = "notified"
    <2>1. IsFiniteSet(asleep) /\ asleep # {}
        BY <1>1, <1>3, <1>7, FS_Subset, InChannelAssumption DEF InChannelAssumption
    <2>2. Cardinality(asleep) \in Nat /\ Cardinality(asleep) # 0
        BY <2>1, FS_CardinalityType, FS_EmptySet
    <2>3. Cardinality(woken) # 0
        BY <1>2, <1>7, <2>2 DEF Lesser
    <2>4. woken # {}
        BY <2>3, FS_EmptySet
    <2>5. PICK v \in woken : TRUE
        BY <2>4
    <2> QED
        BY <1>3, <1>4, <2>5
<1> QED
    BY <1>5, <1>6, <1>7

LEMMA WakeupsCounted ==
    ASSUME NEW M, NEW L, NEW c \in ChannelOf(M, L), NEW d \in ChannelOf(M, L)
    PROVE  /\ Wakeups(c, d) \in Nat
           /\ (\E i \in (Len(c.out) + 1)..Len(d.out) : d.out[i].notified) => Wakeups(c, d) > 0
<1>1. PICK S : S = {i \in (Len(c.out) + 1)..Len(d.out) : d.out[i].notified}
    BY Zenon
<1>2. Len(c.out) + 1 \in Int /\ Len(d.out) \in Int
    BY ChannelLengths
<1>3. IsFiniteSet((Len(c.out) + 1)..Len(d.out))
    BY <1>2, FS_Interval
<1>4. S \subseteq (Len(c.out) + 1)..Len(d.out)
    BY <1>1, Zenon
<1>5. IsFiniteSet(S)
    BY <1>3, <1>4, FS_Subset, Zenon
<1>6. Cardinality(S) \in Nat /\ (Cardinality(S) = 0 <=> S = {})
    BY <1>5, FS_CardinalityType, FS_EmptySet
<1>7. Wakeups(c, d) = Cardinality(S)
    BY <1>1, Zenon DEF Wakeups
<1>8. (\E i \in (Len(c.out) + 1)..Len(d.out) : d.out[i].notified) => S # {}
    BY <1>1, Zenon
<1> QED
    BY <1>6, <1>7, <1>8

------------------------------------------------------------------------------
(* The steps.                                                                *)

LEMMA Constants ==
    /\ Capacity \in Nat \ {0} /\ MaxPendingRequests \in Nat /\ Lengths \in SUBSET Nat
    /\ MaxReqs \in Nat /\ MaxConns \in Nat /\ WriteSizes \in SUBSET (Nat \ {0}) /\ MaxPull \in Nat
BY InChannelAssumption DEF InChannelAssumption

\* What the channel may become in a critical section, with the threads at pcs
\* before the notifications
Ready(d, pcs) ==
    /\ pcs \in [Writers -> Places]
    /\ d \in ChannelOf(MaxReqs, Lengths) /\ SameLimits(ch, d)
    /\ Len(d.buffer) <= Capacity
    /\ MaxPendingRequests # 0 => Len(d.queue) <= MaxPendingRequests
    /\ ch.disconnected => d.buffer = <<>> /\ Len(d.queue) <= Len(ch.queue)
\* ... leaving no data with a request, and nobody asleep who could go on
Wakes(d, pcs) ==
    \/ d.buffer # <<>> \/ ch.disconnected
    \/ \E i \in (Len(ch.out) + 1)..Len(d.out) : d.out[i].notified
    \/ /\ ch.buffer = <<>>
       /\ \A w \in Writers : wpc[w] \in {"begin", "notified"} => pcs[w] = wpc[w]
       /\ \A w \in Writers : pcs[w] = "wait" => wpc[w] = "wait"
Goes(d, pcs) ==
    /\ \A w \in Writers : pcs[w] = "wait" => wpc[w] = "wait" \/ ~ch.disconnected
    /\ d.buffer = <<>> \/ d.queue = <<>> \/ \E w \in Writers : pcs[w] = "flush"

LEMMA ChannelMoves ==
    ASSUME ChInv, NEW d, NEW pcs, Become(d, pcs), mode' = mode, rx' = rx,
           Ready(d, pcs), Goes(d, pcs), Wakes(d, pcs),
           left' \in [Writers -> Nat],
           \A w \in Writers : pcs[w] \in {"wait", "notified", "begin"} => left'[w] > 0
    PROVE  /\ ChTypes' /\ ChBounds' /\ WriterTypes' /\ ChPhases' /\ NoMissedMatch' /\ RoomAhead'
<1>1. ch' = d
    BY DEF Become
<1>2. pcs \in [Writers -> Places] /\ d \in ChannelOf(MaxReqs, Lengths) /\ SameLimits(ch, d)
    BY DEF Ready
<1>3. ch \in ChannelOf(MaxReqs, Lengths)
    BY DEF ChInv, ChTypes
<1>4. PICK n : n = Wakeups(ch, d)
    BY Zenon
<1>5. /\ n \in Nat
      /\ (\E i \in (Len(ch.out) + 1)..Len(d.out) : d.out[i].notified) => n > 0
    BY <1>2, <1>3, <1>4, WakeupsCounted
<1>6. Notify(n, pcs)
    BY <1>4 DEF Become
<1>7. /\ wpc' \in [Writers -> Places]
      /\ \A w \in Writers : wpc'[w] = pcs[w] \/ (pcs[w] = "wait" /\ wpc'[w] = "notified")
      /\ n > 0 => \A w \in Writers : pcs[w] = "wait" => \E v \in Writers : wpc'[v] = "notified"
    BY <1>2, <1>5, <1>6, NotifyWakes
<1>8. d.capacity = Capacity /\ d.limit = MaxPendingRequests /\ d.disconnected = ch.disconnected
    BY <1>2 DEF ChInv, ChTypes, SameLimits
<1>9. ChTypes'
    BY <1>1, <1>2, <1>8 DEF ChInv, ChTypes
<1>10. ChBounds'
    BY <1>1 DEF Ready, ChBounds
<1>11. WriterTypes'
    <2>1. \A w \in Writers : wpc'[w] \in {"wait", "notified", "begin"} => left'[w] > 0
        BY <1>7
    <2> QED
        BY <1>7, <2>1 DEF WriterTypes
<1>12. ChPhases'
    <2>1. ch'.disconnected <=> rx' # "up"
        BY <1>1, <1>8 DEF ChInv, ChPhases
    <2>2. ch'.disconnected => ch'.buffer = <<>>
        BY <1>1, <1>8 DEF Ready
    <2>3. rx' \in {"notify", "down"} => ch'.queue = <<>>
        <3> SUFFICES ASSUME rx \in {"notify", "down"} PROVE d.queue = <<>>
            BY <1>1
        <3>1. ch.queue = <<>> /\ ch.disconnected
            BY DEF ChInv, ChPhases
        <3>2. Len(d.queue) <= Len(ch.queue)
            BY <3>1 DEF Ready
        <3>3. d.queue \in Seq(ChannelRequest(MaxReqs, Lengths))
            BY <1>2, ChannelFields
        <3> HIDE DEF ChannelRequest
        <3>4. Len(d.queue) \in Nat /\ Len(d.queue) <= 0
            BY <3>1, <3>2, <3>3
        <3>5. Len(d.queue) = 0
            BY <3>4
        <3> QED
            BY <3>3, <3>5, EmptySeq
    <2>4. rx' = "down" => \A w \in Writers : wpc'[w] # "wait"
        <3> SUFFICES ASSUME rx = "down", NEW w \in Writers, wpc'[w] = "wait" PROVE FALSE
            OBVIOUS
        <3>1. ch.disconnected /\ wpc[w] # "wait"
            BY DEF ChInv, ChPhases
        <3>2. pcs[w] = "wait"
            BY <1>7
        <3> QED
            BY <3>1, <3>2 DEF Goes
    <2> QED
        BY <2>1, <2>2, <2>3, <2>4 DEF ChPhases
<1>13. NoMissedMatch'
    <2>1. \A w \in Writers : pcs[w] = "flush" => wpc'[w] = "flush"
        BY <1>7
    <2> QED
        BY <1>1, <2>1 DEF Goes, NoMissedMatch
<1>14. RoomAhead'
    <2> SUFFICES ASSUME d.buffer = <<>>, ~ch.disconnected, NEW w \in Writers, wpc'[w] = "wait"
                 PROVE  \E v \in Writers : wpc'[v] \in {"begin", "notified"}
        BY <1>1, <1>8 DEF RoomAhead
    <2>1. pcs[w] = "wait"
        BY <1>7
    <2>2. CASE \E i \in (Len(ch.out) + 1)..Len(d.out) : d.out[i].notified
        <3>1. PICK v \in Writers : wpc'[v] = "notified"
            BY <1>5, <1>7, <2>1, <2>2
        <3> QED
            BY <3>1
    <2>3. CASE /\ ch.buffer = <<>>
               /\ \A v \in Writers : wpc[v] \in {"begin", "notified"} => pcs[v] = wpc[v]
               /\ \A v \in Writers : pcs[v] = "wait" => wpc[v] = "wait"
        <3>1. wpc[w] = "wait"
            BY <2>1, <2>3
        <3>2. PICK v \in Writers : wpc[v] \in {"begin", "notified"}
            BY <2>3, <3>1 DEF ChInv, RoomAhead
        <3>3. wpc'[v] = wpc[v]
            BY <1>7, <2>3, <3>2
        <3> QED
            BY <3>2, <3>3
    <2> QED
        BY <2>2, <2>3 DEF Wakes
<1> QED
    BY <1>9, <1>10, <1>11, <1>12, <1>13, <1>14

\* A critical section of a writer neither adds nor loses requests.
Lands(d) ==
    /\ d \in ChannelOf(MaxReqs, Lengths) /\ SameLimits(ch, d)
    /\ Len(d.buffer) <= Capacity /\ Len(d.queue) <= Len(ch.queue) /\ Line(d) = Line(ch)

LEMMA WriterStep ==
    ASSUME ChInv, NEW d, NEW pcs \in [Writers -> Places], Become(d, pcs),
           UNCHANGED writerUnchanged, Lands(d), Goes(d, pcs), Wakes(d, pcs),
           ch.disconnected => d.buffer = <<>>,
           ~ch.disconnected => NumberedTo(mode, Whole(d), ndata'), ndata' \in Nat,
           left' \in [Writers -> Nat],
           \A w \in Writers : pcs[w] \in {"wait", "notified", "begin"} => left'[w] > 0
    PROVE  ChInv'
<1>1. /\ mode' = mode /\ rx' = rx /\ nreq' = nreq /\ nconn' = nconn /\ cancelled' = cancelled
      /\ ch' = d
    BY DEF writerUnchanged, Become
<1>2. Ready(d, pcs)
    <2>1. MaxPendingRequests # 0 => Len(d.queue) <= MaxPendingRequests
        <3>1. Len(d.queue) \in Nat /\ Len(ch.queue) \in Nat /\ Len(d.queue) <= Len(ch.queue)
            BY ChannelLengths DEF Lands, ChInv, ChTypes
        <3> QED
            BY <3>1, Constants DEF ChInv, ChBounds
    <2> QED
        BY <2>1 DEF Lands, Ready
<1>3. ChTypes' /\ ChBounds' /\ WriterTypes' /\ ChPhases' /\ NoMissedMatch' /\ RoomAhead'
    BY <1>1, <1>2, ChannelMoves
<1>4. ChCounts'
    BY <1>1 DEF ChInv, ChCounts
<1>5. ChData'
    <2>1. rx = "up" => ~ch.disconnected
        BY DEF ChInv, ChPhases
    <2> QED
        BY <1>1, <2>1 DEF ChData
<1>6. ChLine'
    BY <1>1 DEF ChInv, ChLine, Lands
<1> QED
    BY <1>3, <1>4, <1>5, <1>6 DEF ChInv

\* try_send_pending_locked at the end of a critical section
LandsDrained(e, d) ==
    /\ Lands(d) /\ Whole(d) = Whole(e)
    /\ d.buffer = <<>> \/ d.queue = <<>>
    /\ e.buffer = <<>> => d.buffer = <<>>
    /\ \/ d.buffer # <<>> \/ e.buffer = <<>>
       \/ \E i \in (Len(ch.out) + 1)..Len(d.out) : d.out[i].notified
LEMMA DrainLands ==
    ASSUME ChInv, NEW e \in ChannelOf(MaxReqs, Lengths), SameLimits(ch, e),
           Len(e.buffer) <= Capacity, e.queue = ch.queue, e.out = ch.out
    PROVE  LandsDrained(e, Drain(mode, e))
<1> SUFFICES ASSUME NEW d, d = Drain(mode, e) PROVE LandsDrained(e, d)
    BY Zenon
<1>1. d \in ChannelOf(MaxReqs, Lengths) /\ Served(e, d) /\ (d.buffer = <<>> \/ d.queue = <<>>)
    BY Constants, DrainServes
<1>2. /\ Len(d.buffer) \in Nat /\ Len(e.buffer) \in Nat /\ Len(d.queue) \in Nat
      /\ Len(e.queue) \in Nat /\ Len(d.out) \in Nat /\ Len(e.out) \in Nat
    BY <1>1, ChannelLengths
<1>3. /\ SameLimits(e, d) /\ Whole(d) = Whole(e) /\ Line(d) = Line(e)
      /\ Len(d.buffer) <= Len(e.buffer) /\ Len(d.queue) <= Len(e.queue)
    BY <1>1 DEF Served, Shorter
<1>4. SameLimits(ch, d) /\ Line(d) = Line(ch)
    BY <1>3 DEF SameLimits, Line
<1>5. Len(d.buffer) <= Capacity /\ Len(d.queue) <= Len(ch.queue)
    BY <1>2, <1>3, Constants
<1>6. e.buffer = <<>> => d.buffer = <<>>
    <2>1. d.buffer \in Seq(Nat)
        BY <1>1, ChannelFields
    <2> SUFFICES ASSUME e.buffer = <<>> PROVE d.buffer = <<>>
        OBVIOUS
    <2>2. Len(d.buffer) = 0
        BY <1>2, <1>3
    <2> QED
        BY <2>1, <2>2, EmptySeq
<1>7. \/ d.buffer # <<>> \/ e.buffer = <<>>
      \/ \E i \in (Len(ch.out) + 1)..Len(d.out) : d.out[i].notified
    <2>1. CASE Len(d.out) = Len(e.out)
        <3>1. d = e
            BY <1>1, <2>1 DEF Served
        <3> QED
            BY <3>1
    <2>2. CASE Len(d.out) # Len(e.out)
        <3>1. PICK k : k = Len(d.out)
            BY Zenon
        <3>2. Len(e.out) <= k /\ \A i \in (Len(e.out) + 1)..k : d.out[i].notified
            BY <1>1, <3>1 DEF Served, RepliesAdded
        <3>3. k \in (Len(e.out) + 1)..k
            BY <1>2, <2>2, <3>1, <3>2
        <3>4. d.out[k].notified
            BY <3>2, <3>3, Zenon
        <3> QED
            BY <3>1, <3>3, <3>4, Zenon
    <2> QED
        BY <2>1, <2>2
<1> QED
    BY <1>1, <1>3, <1>4, <1>5, <1>6, <1>7 DEF LandsDrained, Lands

LEMMA ChannelIsThere ==
    ASSUME ChInv
    PROVE  /\ ch \in ChannelOf(MaxReqs, Lengths) /\ SameLimits(ch, ch) /\ Len(ch.buffer) <= Capacity
           /\ ch.capacity = Capacity /\ Len(ch.buffer) <= ch.capacity /\ Lands(ch)
<1>1. /\ ch \in ChannelOf(MaxReqs, Lengths) /\ ch.capacity = Capacity /\ Len(ch.buffer) <= Capacity
      /\ SameLimits(ch, ch)
    BY DEF ChInv, ChTypes, ChBounds, SameLimits
<1>2. Len(ch.queue) \in Nat
    BY <1>1, ChannelLengths
<1> QED
    BY <1>1, <1>2 DEF Lands

\* One thread goes on, the others stay.
LEMMA OneGoes ==
    ASSUME ChInv, NEW w \in Writers, NEW p \in Places
    PROVE  /\ [wpc EXCEPT ![w] = p] \in [Writers -> Places]
           /\ [wpc EXCEPT ![w] = p][w] = p
           /\ \A v \in Writers : v # w => [wpc EXCEPT ![w] = p][v] = wpc[v]
<1>1. wpc \in [Writers -> Places]
    BY DEF ChInv, WriterTypes
<1> QED
    BY <1>1

\* push, and push_blocking with room: the message is last in the buffer, then
\* requests are answered.
LEMMA MessageLands ==
    ASSUME ChInv, mode = "message", ~ch.disconnected
    PROVE  LET d == Drain(mode, PushLocked(mode, ch, Fresh(1)))
           IN  /\ Lands(d) /\ NumberedTo(mode, Whole(d), ndata + 1)
               /\ d.buffer = <<>> \/ d.queue = <<>>
               /\ d.buffer # <<>> \/ \E i \in (Len(ch.out) + 1)..Len(d.out) : d.out[i].notified
<1>1. PICK e : e = PushLocked(mode, ch, Fresh(1))
    BY Zenon
<1>2. ndata \in Nat /\ NumberedTo(mode, Whole(ch), ndata)
    BY DEF ChInv, ChCounts, ChData, ChPhases
<1>3. e = PushLocked("message", ch, RunOf(ndata, 1))
    BY <1>1 DEF Fresh, RunOf
<1>4. PushedLast(MaxReqs, Lengths, ch, e, ndata)
    BY <1>2, <1>3, Constants, ChannelIsThere, PushMessage
<1>5. /\ e \in ChannelOf(MaxReqs, Lengths) /\ SameLimits(ch, e) /\ e.queue = ch.queue
      /\ e.out = ch.out /\ Len(e.buffer) <= Capacity /\ e.buffer # <<>>
      /\ NumberedTo(mode, Whole(e), ndata + 1)
    BY <1>4, ChannelIsThere DEF PushedLast, SameLimits
<1>6. PICK d : d = Drain(mode, e)
    BY Zenon
<1>7. LandsDrained(e, d)
    BY <1>5, <1>6, DrainLands
<1> QED
    BY <1>1, <1>5, <1>6, <1>7 DEF LandsDrained

\* write and write_nb: what fits follows the bytes that are there, here with
\* the channel at c after it may have answered requests.
LEMMA BytesLand ==
    ASSUME ChInv, mode = "stream", ~ch.disconnected, NEW c, Lands(c), Whole(c) = Whole(ch),
           NEW a \in Nat
    PROVE  LET e == PushLocked(mode, c, Fresh(a))
               k == Lesser(a, Room(c))
           IN  /\ Lands(e) /\ NumberedTo(mode, Whole(e), ndata + k) /\ k \in Nat
               /\ Len(e.buffer) = Len(c.buffer) + k /\ e.queue = c.queue /\ e.out = c.out
<1>1. PICK e : e = PushLocked(mode, c, Fresh(a))
    BY Zenon
<1>2. PICK k : k = Lesser(a, Room(c))
    BY Zenon
<1>3. ndata \in Nat /\ NumberedTo("stream", Whole(c), ndata)
    BY DEF ChInv, ChCounts, ChData, ChPhases
<1>4. e = PushLocked("stream", c, RunOf(ndata, a))
    BY <1>1 DEF Fresh, RunOf
<1>5. c \in ChannelOf(MaxReqs, Lengths) /\ SameLimits(ch, c) /\ c.capacity = Capacity
    BY ChannelIsThere DEF Lands, SameLimits
<1>6. Len(c.buffer) <= c.capacity
    BY <1>5 DEF Lands
<1>7. PushedAfter(MaxReqs, Lengths, c, e, ndata, k)
    BY <1>2, <1>3, <1>4, <1>5, <1>6, Constants, PushStream
<1>8. /\ e \in ChannelOf(MaxReqs, Lengths) /\ SameLimits(c, e) /\ e.queue = c.queue /\ e.out = c.out
      /\ k \in Nat /\ Len(e.buffer) = Len(c.buffer) + k /\ Len(e.buffer) <= e.capacity
      /\ Whole(e) = Whole(c) \o RunOf(ndata, k)
    BY <1>7 DEF PushedAfter
<1>9. NumberedTo(mode, Whole(e), ndata + k)
    BY <1>3, <1>8, StreamGrows
<1>10. Lands(e)
    BY <1>5, <1>8 DEF Lands, SameLimits, Line
<1> QED
    BY <1>1, <1>2, <1>8, <1>9, <1>10

LEMMA PushStep ==
    ASSUME ChInv, NEW w \in Writers, Push(w)
    PROVE  ChInv'
<1>1. PICK d : d = Drain(mode, PushLocked(mode, ch, Fresh(1)))
    BY Zenon
<1>2. /\ mode = "message" /\ ~ch.disconnected /\ Become(d, wpc)
      /\ ndata' = ndata + 1 /\ left' = left /\ UNCHANGED writerUnchanged
    BY <1>1 DEF Push
<1>3. /\ Lands(d) /\ NumberedTo(mode, Whole(d), ndata + 1)
      /\ d.buffer = <<>> \/ d.queue = <<>>
      /\ d.buffer # <<>> \/ \E i \in (Len(ch.out) + 1)..Len(d.out) : d.out[i].notified
    BY <1>1, <1>2, MessageLands, Zenon
<1>4. PICK pcs : pcs = wpc
    BY Zenon
<1>5. pcs \in [Writers -> Places] /\ ndata \in Nat /\ left \in [Writers -> Nat]
    BY <1>4 DEF ChInv, WriterTypes, ChCounts
<1>6. Goes(d, pcs) /\ Wakes(d, pcs)
    BY <1>3, <1>4 DEF Goes, Wakes
<1>7. \A v \in Writers : pcs[v] \in {"wait", "notified", "begin"} => left'[v] > 0
    BY <1>2, <1>4 DEF ChInv, WriterTypes
<1>8. Become(d, pcs) /\ ndata' \in Nat /\ left' \in [Writers -> Nat] /\ NumberedTo(mode, Whole(d), ndata')
    BY <1>2, <1>3, <1>4, <1>5
<1> QED
    BY <1>2, <1>3, <1>5, <1>6, <1>7, <1>8, WriterStep

LEMMA WriteNbStep ==
    ASSUME ChInv, NEW w \in Writers, NEW n \in WriteSizes, WriteNb(w, n)
    PROVE  ChInv'
<1>1. PICK e : e = PushLocked(mode, ch, Fresh(n))
    BY Zenon
<1>2. PICK k : k = Lesser(n, Room(ch))
    BY Zenon
<1>3. PICK d : d = Drain(mode, e)
    BY Zenon
<1>4. /\ mode = "stream" /\ ~ch.disconnected /\ Become(d, wpc)
      /\ ndata' = ndata + k /\ left' = left /\ UNCHANGED writerUnchanged
    BY <1>1, <1>2, <1>3 DEF WriteNb
<1>5. n \in Nat /\ n > 0
    BY Constants
<1>6. /\ Lands(e) /\ NumberedTo(mode, Whole(e), ndata + k) /\ k \in Nat
      /\ Len(e.buffer) = Len(ch.buffer) + k /\ e.queue = ch.queue /\ e.out = ch.out
    BY <1>1, <1>2, <1>4, <1>5, ChannelIsThere, BytesLand, Zenon
<1>7. LandsDrained(e, d)
    BY <1>3, <1>6, DrainLands DEF Lands
<1>8. e.buffer # <<>>
    <2>1. PICK b : b = Len(ch.buffer)
        BY Zenon
    <2>2. b \in Nat /\ b <= Capacity /\ ch.capacity = Capacity /\ Capacity \in Nat /\ Capacity > 0
        BY <2>1, ChannelIsThere, ChannelLengths, Constants
    <2>3. k = IF n < Capacity - b THEN n ELSE Capacity - b
        BY <1>2, <2>1, <2>2 DEF Lesser, Room
    <2>4. b + k > 0
        BY <1>5, <2>2, <2>3
    <2>5. Len(e.buffer) > 0
        BY <1>6, <2>1, <2>4
    <2> QED
        BY <2>5
<1>9. PICK pcs : pcs = wpc
    BY Zenon
<1>10. pcs \in [Writers -> Places] /\ ndata \in Nat /\ left \in [Writers -> Nat]
    BY <1>9 DEF ChInv, WriterTypes, ChCounts
<1>11. Goes(d, pcs) /\ Wakes(d, pcs) /\ Lands(d)
    BY <1>7, <1>8, <1>9 DEF Goes, Wakes, LandsDrained
<1>12. \A v \in Writers : pcs[v] \in {"wait", "notified", "begin"} => left'[v] > 0
    BY <1>4, <1>9 DEF ChInv, WriterTypes
<1>13. Become(d, pcs) /\ ndata' \in Nat /\ left' \in [Writers -> Nat] /\ NumberedTo(mode, Whole(d), ndata')
    BY <1>4, <1>6, <1>7, <1>9, <1>10 DEF LandsDrained
<1> QED
    BY <1>4, <1>10, <1>11, <1>12, <1>13, WriterStep

\* push_blocking and write with room in the buffer
LEMMA PutStep ==
    ASSUME ChInv, NEW w \in Writers, wpc[w] \in {"begin", "wait", "notified"}, ~ch.disconnected,
           NEW c, Lands(c), Whole(c) = Whole(ch), mode = "message" => c = ch,
           ~Full(c), Put(w, c), UNCHANGED writerUnchanged
    PROVE  ChInv'
<1>1. wpc \in [Writers -> Places] /\ left \in [Writers -> Nat] /\ ndata \in Nat /\ left[w] > 0
    BY DEF ChInv, WriterTypes, ChCounts
<1>2. CASE mode = "message"
    <2>1. PICK d : d = Drain(mode, PushLocked(mode, ch, Fresh(1)))
        BY Zenon
    <2>2. PICK pcs : pcs = [wpc EXCEPT ![w] = "idle"]
        BY Zenon
    <2>3. Become(d, pcs) /\ left' = [left EXCEPT ![w] = 0] /\ ndata' = ndata + 1
        BY <1>2, <2>1, <2>2 DEF Put
    <2>4. /\ Lands(d) /\ NumberedTo(mode, Whole(d), ndata + 1)
          /\ d.buffer = <<>> \/ d.queue = <<>>
          /\ d.buffer # <<>> \/ \E i \in (Len(ch.out) + 1)..Len(d.out) : d.out[i].notified
        BY <1>2, <2>1, MessageLands, Zenon
    <2>5. /\ pcs \in [Writers -> Places] /\ pcs[w] = "idle"
          /\ \A v \in Writers : v # w => pcs[v] = wpc[v]
        BY <1>1, <2>2 DEF Places
    <2>6. Goes(d, pcs) /\ Wakes(d, pcs)
        BY <2>4, <2>5 DEF Goes, Wakes
    <2>7. \A v \in Writers : pcs[v] \in {"wait", "notified", "begin"} => left'[v] > 0
        BY <1>1, <2>3, <2>5 DEF ChInv, WriterTypes
    <2>8. ndata' \in Nat /\ left' \in [Writers -> Nat] /\ NumberedTo(mode, Whole(d), ndata')
        BY <1>1, <2>3, <2>4
    <2> QED
        BY <2>3, <2>4, <2>5, <2>6, <2>7, <2>8, WriterStep
<1>3. CASE mode = "stream"
    <2>1. PICK n : n = Lesser(left[w], Room(c))
        BY Zenon
    <2>2. PICK d : d = PushLocked(mode, c, Fresh(n))
        BY Zenon
    <2>3. PICK pcs : pcs = [wpc EXCEPT ![w] = "flush"]
        BY Zenon
    <2>4. Become(d, pcs) /\ left' = [left EXCEPT ![w] = left[w] - n] /\ ndata' = ndata + n
        BY <1>1, <1>3, <2>1, <2>2, <2>3 DEF Put
    <2>5. c.capacity = Capacity /\ Len(c.buffer) \in Nat /\ Len(c.buffer) <= Capacity
        BY ChannelIsThere, ChannelLengths DEF Lands, SameLimits
    <2>6. n \in Nat /\ n > 0 /\ n <= left[w] /\ n <= Room(c) /\ Lesser(n, Room(c)) = n
        <3>1. Room(c) \in Nat /\ Room(c) > 0
            BY <2>5, Constants DEF Full, Room
        <3>2. left[w] \in Nat
            BY <1>1
        <3> QED
            BY <1>1, <2>1, <3>1, <3>2 DEF Lesser
    <2>7. /\ Lands(d) /\ NumberedTo(mode, Whole(d), ndata + Lesser(n, Room(c)))
          /\ Len(d.buffer) = Len(c.buffer) + Lesser(n, Room(c))
        BY <1>3, <2>2, <2>6, BytesLand, Zenon
    <2>8. d.buffer # <<>>
        <3>1. Len(d.buffer) > 0
            BY <2>5, <2>6, <2>7
        <3> QED
            BY <3>1
    <2>9. /\ pcs \in [Writers -> Places] /\ pcs[w] = "flush"
          /\ \A v \in Writers : v # w => pcs[v] = wpc[v]
        BY <1>1, <2>3 DEF Places
    <2>10. Goes(d, pcs) /\ Wakes(d, pcs)
        BY <2>8, <2>9 DEF Goes, Wakes
    <2>11. left[w] - n \in Nat
        BY <1>1, <2>6
    <2>12. left' \in [Writers -> Nat] /\ \A v \in Writers : v # w => left'[v] = left[v]
        BY <1>1, <2>4, <2>11
    <2>13. \A v \in Writers : pcs[v] \in {"wait", "notified", "begin"} => left'[v] > 0
        BY <1>1, <2>9, <2>12 DEF ChInv, WriterTypes
    <2>14. ndata' \in Nat /\ NumberedTo(mode, Whole(d), ndata')
        BY <1>1, <2>4, <2>6, <2>7
    <2> QED
        BY <2>4, <2>7, <2>9, <2>10, <2>12, <2>13, <2>14, WriterStep
<1> QED
    BY <1>2, <1>3 DEF ChInv, ChTypes

------------------------------------------------------------------------------
(* The steps of the writers.                                                 *)

\* No request is answered, so nobody is notified.
LEMMA QuietStep ==
    ASSUME ChInv, NEW pcs \in [Writers -> Places], ch' = ch, wpc' = pcs, ndata' = ndata,
           UNCHANGED writerUnchanged, Goes(ch, pcs), Wakes(ch, pcs), left' \in [Writers -> Nat],
           \A w \in Writers : pcs[w] \in {"wait", "notified", "begin"} => left'[w] > 0
    PROVE  ChInv'
<1>1. PICK d : d = ch
    BY Zenon
<1>2. Wakeups(ch, d) = 0
    <2>1. PICK n : n = Len(ch.out)
        BY Zenon
    <2>2. n \in Nat
        BY <2>1, ChannelIsThere, ChannelLengths
    <2>3. (n + 1)..n = {}
        BY <2>2
    <2>4. {i \in (n + 1)..n : d.out[i].notified} = {}
        BY <2>3, Zenon
    <2> QED
        BY <1>1, <2>1, <2>4, FS_EmptySet, Zenon DEF Wakeups
<1>3. Notify(0, pcs)
    <2>1. PICK asleep : asleep = {w \in Writers : pcs[w] = "wait"}
        BY Zenon
    <2>2. IsFiniteSet(asleep)
        BY <2>1, FS_Subset, InChannelAssumption DEF InChannelAssumption
    <2>3. Cardinality(asleep) \in Nat
        BY <2>2, FS_CardinalityType
    <2>4. Lesser(0, Cardinality(asleep)) = 0
        BY <2>3 DEF Lesser
    <2>5. Cardinality({}) = Lesser(0, Cardinality(asleep))
        BY <2>4, FS_EmptySet
    <2>6. wpc' = [w \in Writers |-> IF w \in {} THEN "notified" ELSE pcs[w]]
        OBVIOUS
    <2>7. {} \in SUBSET asleep
        OBVIOUS
    <2> QED
        BY <2>1, <2>5, <2>6, <2>7, Zenon DEF Notify
<1>4. Become(d, pcs)
    BY <1>1, <1>2, <1>3 DEF Become
<1>5. Lands(d) /\ Goes(d, pcs) /\ Wakes(d, pcs)
    BY <1>1, ChannelIsThere
<1>6. ch.disconnected => d.buffer = <<>>
    BY <1>1 DEF ChInv, ChPhases
<1>7. ndata' \in Nat /\ (~ch.disconnected => NumberedTo(mode, Whole(d), ndata'))
    BY <1>1 DEF ChInv, ChCounts, ChPhases, ChData
<1> QED
    BY <1>4, <1>5, <1>6, <1>7, WriterStep

LEMMA FullNotEmpty ==
    ASSUME NEW c \in ChannelOf(MaxReqs, Lengths), c.capacity = Capacity, Full(c)
    PROVE  c.buffer # <<>>
<1>1. Len(c.buffer) > 0
    BY ChannelLengths, Constants DEF Full
<1> QED
    BY <1>1

LEMMA CallStep ==
    ASSUME ChInv, NEW w \in Writers, NEW n \in WriteSizes, Call(w, n)
    PROVE  ChInv'
<1>1. PICK pcs : pcs = [wpc EXCEPT ![w] = "begin"]
    BY Zenon
<1>2. /\ wpc[w] = "idle" /\ wpc' = pcs /\ left' = [left EXCEPT ![w] = n] /\ ch' = ch
      /\ ndata' = ndata /\ UNCHANGED writerUnchanged
    BY <1>1 DEF Call
<1>3. n \in Nat /\ n > 0
    BY Constants
<1>4. wpc \in [Writers -> Places] /\ left \in [Writers -> Nat]
    BY DEF ChInv, WriterTypes
<1>5. /\ pcs \in [Writers -> Places] /\ pcs[w] = "begin"
      /\ \A v \in Writers : v # w => pcs[v] = wpc[v]
    BY <1>1, <1>4 DEF Places
<1>6. /\ left' \in [Writers -> Nat]
      /\ \A v \in Writers : pcs[v] \in {"wait", "notified", "begin"} => left'[v] > 0
    BY <1>2, <1>3, <1>4, <1>5 DEF ChInv, WriterTypes
<1>7. Goes(ch, pcs)
    BY <1>2, <1>5 DEF ChInv, NoMissedMatch, Goes
<1>8. Wakes(ch, pcs)
    BY <1>2, <1>5 DEF Wakes
<1> QED
    BY <1>2, <1>5, <1>6, <1>7, <1>8, QuietStep

\* A blocking call returns without having written: the channel is down, or
\* it is full and the time is up.
LEMMA ReturnStep ==
    ASSUME ChInv, NEW w \in Writers, wpc[w] \in {"begin", "wait", "notified"},
           ch.disconnected \/ Full(ch), Return(w), ch' = ch, ndata' = ndata,
           UNCHANGED writerUnchanged
    PROVE  ChInv'
<1>1. PICK pcs : pcs = [wpc EXCEPT ![w] = "idle"]
    BY Zenon
<1>2. wpc' = pcs /\ left' = [left EXCEPT ![w] = 0]
    BY <1>1 DEF Return
<1>3. wpc \in [Writers -> Places] /\ left \in [Writers -> Nat]
    BY DEF ChInv, WriterTypes
<1>4. /\ pcs \in [Writers -> Places] /\ pcs[w] = "idle"
      /\ \A v \in Writers : v # w => pcs[v] = wpc[v]
    BY <1>1, <1>3 DEF Places
<1>5. /\ left' \in [Writers -> Nat]
      /\ \A v \in Writers : pcs[v] \in {"wait", "notified", "begin"} => left'[v] > 0
    BY <1>2, <1>3, <1>4 DEF ChInv, WriterTypes
<1>6. Goes(ch, pcs)
    BY <1>4 DEF ChInv, NoMissedMatch, Goes
<1>7. Wakes(ch, pcs)
    BY ChannelIsThere, FullNotEmpty DEF Wakes
<1> QED
    BY <1>2, <1>4, <1>5, <1>6, <1>7, QuietStep

\* push_blocking and write wait while the buffer is full.
LEMMA WaitStep ==
    ASSUME ChInv, NEW w \in Writers, wpc[w] \in {"begin", "wait", "notified"}, ~ch.disconnected,
           NEW d, Lands(d), Whole(d) = Whole(ch), Full(d),
           d = ch \/ d.buffer = <<>> \/ d.queue = <<>>,
           Become(d, [wpc EXCEPT ![w] = "wait"]), left' = left, ndata' = ndata,
           UNCHANGED writerUnchanged
    PROVE  ChInv'
<1>1. PICK pcs : pcs = [wpc EXCEPT ![w] = "wait"]
    BY Zenon
<1>2. wpc \in [Writers -> Places] /\ left \in [Writers -> Nat] /\ ndata \in Nat /\ left[w] > 0
    BY DEF ChInv, WriterTypes, ChCounts
<1>3. /\ pcs \in [Writers -> Places] /\ pcs[w] = "wait"
      /\ \A v \in Writers : v # w => pcs[v] = wpc[v]
    BY <1>1, <1>2 DEF Places
<1>4. d.buffer # <<>>
    BY ChannelIsThere, FullNotEmpty DEF Lands, SameLimits
<1>5. Goes(d, pcs)
    BY <1>3, <1>4 DEF ChInv, NoMissedMatch, Goes
<1>6. Wakes(d, pcs)
    BY <1>4 DEF Wakes
<1>7. /\ left' \in [Writers -> Nat]
      /\ \A v \in Writers : pcs[v] \in {"wait", "notified", "begin"} => left'[v] > 0
    BY <1>2, <1>3 DEF ChInv, WriterTypes
<1>8. Become(d, pcs) /\ ndata' \in Nat /\ NumberedTo(mode, Whole(d), ndata')
    BY <1>1, <1>2 DEF ChInv, ChPhases, ChData
<1> QED
    BY <1>3, <1>5, <1>6, <1>7, <1>8, WriterStep

LEMMA BeginStep ==
    ASSUME ChInv, NEW w \in Writers, Begin(w)
    PROVE  ChInv'
<1>1. PICK c : c = IF mode = "stream" /\ Full(ch) THEN Drain(mode, ch) ELSE ch
    BY Zenon
<1>2. /\ wpc[w] = "begin" /\ UNCHANGED writerUnchanged
      /\ \/ ch.disconnected /\ Return(w) /\ UNCHANGED <<ch, ndata>>
         \/ ~ch.disconnected /\ ~Full(c) /\ Put(w, c)
         \/ /\ ~ch.disconnected /\ Full(c) /\ Become(c, [wpc EXCEPT ![w] = "wait"])
            /\ UNCHANGED <<left, ndata>>
    BY <1>1, Zenon DEF Begin
<1>3. /\ Lands(c) /\ Whole(c) = Whole(ch) /\ (mode = "message" => c = ch)
      /\ c = ch \/ c.buffer = <<>> \/ c.queue = <<>>
    <2>1. CASE mode = "stream" /\ Full(ch)
        <3>1. c = Drain(mode, ch)
            BY <1>1, <2>1, Zenon
        <3>2. PICK e : e = ch
            BY Zenon
        <3>3. /\ e \in ChannelOf(MaxReqs, Lengths) /\ SameLimits(ch, e)
              /\ Len(e.buffer) <= Capacity /\ e.queue = ch.queue /\ e.out = ch.out
            BY <3>2, ChannelIsThere
        <3>4. LandsDrained(e, c)
            BY <3>1, <3>2, <3>3, DrainLands
        <3> QED
            BY <2>1, <3>2, <3>4 DEF LandsDrained
    <2>2. CASE ~(mode = "stream" /\ Full(ch))
        <3>1. c = ch
            BY <1>1, <2>2, Zenon
        <3> QED
            BY <3>1, ChannelIsThere
    <2> QED
        BY <2>1, <2>2
<1>4. CASE ch.disconnected /\ Return(w) /\ UNCHANGED <<ch, ndata>>
    BY <1>2, <1>4, ReturnStep
<1>5. CASE ~ch.disconnected /\ ~Full(c) /\ Put(w, c)
    BY <1>2, <1>3, <1>5, PutStep
<1>6. CASE /\ ~ch.disconnected /\ Full(c) /\ Become(c, [wpc EXCEPT ![w] = "wait"])
           /\ UNCHANGED <<left, ndata>>
    BY <1>2, <1>3, <1>6, WaitStep
<1> QED
    BY <1>2, <1>4, <1>5, <1>6

LEMMA WokenStep ==
    ASSUME ChInv, NEW w \in Writers, wpc[w] \in {"wait", "notified"}, NEW timeout, Woken(w, timeout)
    PROVE  ChInv'
<1>1. UNCHANGED writerUnchanged
    BY DEF Woken
<1>2. CASE ch.disconnected /\ Return(w) /\ UNCHANGED <<ch, ndata>>
    BY <1>1, <1>2, ReturnStep
<1>3. CASE ~ch.disconnected /\ ~Full(ch) /\ Put(w, ch)
    <2>1. PICK c : c = ch
        BY Zenon
    <2>2. Lands(c) /\ Whole(c) = Whole(ch) /\ ~Full(c) /\ Put(w, c)
        BY <1>3, <2>1, ChannelIsThere
    <2> QED
        BY <1>1, <1>3, <2>1, <2>2, PutStep
<1>4. CASE ~ch.disconnected /\ Full(ch) /\ timeout /\ Return(w) /\ UNCHANGED <<ch, ndata>>
    BY <1>1, <1>4, ReturnStep
<1>5. CASE /\ ~ch.disconnected /\ Full(ch)
           /\ wpc' = [wpc EXCEPT ![w] = "wait"] /\ UNCHANGED <<ch, left, ndata>>
    <2>1. PICK pcs : pcs = [wpc EXCEPT ![w] = "wait"]
        BY Zenon
    <2>2. wpc \in [Writers -> Places] /\ left \in [Writers -> Nat] /\ left[w] > 0
        BY DEF ChInv, WriterTypes
    <2>3. /\ pcs \in [Writers -> Places] /\ pcs[w] = "wait"
          /\ \A v \in Writers : v # w => pcs[v] = wpc[v]
        BY <2>1, <2>2 DEF Places
    <2>4. ch.buffer # <<>>
        BY <1>5, ChannelIsThere, FullNotEmpty
    <2>5. Goes(ch, pcs) /\ Wakes(ch, pcs)
        BY <1>5, <2>3, <2>4 DEF ChInv, NoMissedMatch, Goes, Wakes
    <2>6. /\ left' \in [Writers -> Nat] /\ wpc' = pcs
          /\ \A v \in Writers : pcs[v] \in {"wait", "notified", "begin"} => left'[v] > 0
        BY <1>5, <2>1, <2>2, <2>3 DEF ChInv, WriterTypes
    <2> QED
        BY <1>1, <1>5, <2>3, <2>5, <2>6, QuietStep
<1> QED
    BY <1>2, <1>3, <1>4, <1>5 DEF Woken

LEMMA FlushStep ==
    ASSUME ChInv, NEW w \in Writers, Flush(w)
    PROVE  ChInv'
<1>1. PICK p : p = IF left[w] = 0 THEN "idle" ELSE "begin"
    BY Zenon
<1>2. PICK pcs : pcs = [wpc EXCEPT ![w] = p]
    BY Zenon
<1>3. PICK e : e = ch
    BY Zenon
<1>4. PICK d : d = Drain(mode, e)
    BY Zenon
<1>5. /\ wpc[w] = "flush" /\ Become(d, pcs) /\ left' = left /\ ndata' = ndata
      /\ UNCHANGED writerUnchanged
    BY <1>1, <1>2, <1>3, <1>4, Zenon DEF Flush
<1>6. /\ e \in ChannelOf(MaxReqs, Lengths) /\ SameLimits(ch, e)
      /\ Len(e.buffer) <= Capacity /\ e.queue = ch.queue /\ e.out = ch.out
    BY <1>3, ChannelIsThere
<1>7. LandsDrained(e, d)
    BY <1>4, <1>6, DrainLands
<1>8. wpc \in [Writers -> Places] /\ left \in [Writers -> Nat] /\ ndata \in Nat
    BY DEF ChInv, WriterTypes, ChCounts
<1>9. /\ pcs \in [Writers -> Places] /\ pcs[w] = p /\ p \in {"idle", "begin"}
      /\ p = "begin" => left[w] > 0
      /\ \A v \in Writers : v # w => pcs[v] = wpc[v]
    BY <1>1, <1>2, <1>8 DEF Places
<1>10. Goes(d, pcs)
    BY <1>7, <1>9 DEF Goes, LandsDrained
<1>11. Wakes(d, pcs)
    BY <1>3, <1>5, <1>7, <1>9 DEF Wakes, LandsDrained
<1>12. /\ left' \in [Writers -> Nat]
       /\ \A v \in Writers : pcs[v] \in {"wait", "notified", "begin"} => left'[v] > 0
    BY <1>5, <1>8, <1>9 DEF ChInv, WriterTypes
<1>13. Lands(d) /\ (ch.disconnected => d.buffer = <<>>)
    BY <1>3, <1>7 DEF LandsDrained, ChInv, ChPhases
<1>14. ndata' \in Nat /\ (~ch.disconnected => NumberedTo(mode, Whole(d), ndata'))
    BY <1>3, <1>5, <1>7, <1>8 DEF LandsDrained, ChInv, ChPhases, ChData
<1> QED
    BY <1>5, <1>9, <1>10, <1>11, <1>12, <1>13, <1>14, WriterStep

------------------------------------------------------------------------------
(* The steps of the receiver.                                                *)

LEMMA HostRequestStep ==
    ASSUME ChInv, NEW len \in Lengths, NEW npull \in 0..MaxPull, HostRequest(len, npull)
    PROVE  ChInv'
<1>1. PICK r : r = [seq |-> nreq + 1, len |-> len]
    BY Zenon
<1>2. PICK c : c = ch
    BY Zenon
<1>3. PICK d : d = OnInRequest(mode, c, r, Fresh(npull))
    BY Zenon
<1>4. PICK k : k = Lesser(npull, len + Capacity)
    BY Zenon
<1>5. PICK pcs : pcs = wpc
    BY Zenon
<1>6. /\ rx = "up" /\ nreq < MaxReqs /\ (npull > 0 => mode = "stream" /\ c.queue = <<>> /\ c.buffer = <<>>)
      /\ Become(d, pcs) /\ ndata' = ndata + k /\ nreq' = nreq + 1
      /\ rx' = rx /\ nconn' = nconn /\ cancelled' = cancelled /\ mode' = mode /\ left' = left
    BY <1>1, <1>2, <1>3, <1>4, <1>5, Zenon DEF HostRequest, receiverUnchanged
<1>7. /\ nreq \in Nat /\ nreq + 1 \in 1..MaxReqs /\ ndata \in Nat /\ npull \in Nat /\ len \in Nat
      /\ cancelled \in SUBSET (1..nreq)
    BY <1>6, Constants DEF ChInv, ChCounts
<1>8. r \in ChannelRequest(MaxReqs, Lengths) /\ r.seq = nreq + 1 /\ r.len = len
    BY <1>1, <1>7 DEF ChannelRequest
<1>9. ~c.disconnected /\ c \in ChannelOf(MaxReqs, Lengths) /\ c.capacity = Capacity /\ Len(c.buffer) <= c.capacity
    BY <1>2, <1>6, ChannelIsThere DEF ChInv, ChPhases
<1>10. c.limit # 0 => Len(c.queue) <= c.limit
    BY <1>2 DEF ChInv, ChTypes, ChBounds
<1>11. Fresh(npull) = RunOf(ndata, npull)
    BY DEF Fresh, RunOf
<1>12. PICK m : m = mode
    BY Zenon
<1>13. PICK n : n = ndata
    BY Zenon
<1>14. Takes(MaxReqs, Lengths, c, OnInRequest(m, c, r, RunOf(n, npull)), r,
             Whole(c) \o RunOf(n, Lesser(npull, r.len + c.capacity)))
    BY <1>6, <1>7, <1>8, <1>9, <1>10, <1>13, Constants, RequestJoins
<1>15. d = OnInRequest(m, c, r, RunOf(n, npull))
    BY <1>3, <1>11, <1>12, <1>13, Zenon
<1>16. d \in ChannelOf(MaxReqs, Lengths) /\ Joined(c, d, r) /\ Whole(d) = Whole(c) \o RunOf(n, k)
    BY <1>4, <1>8, <1>9, <1>14, <1>15 DEF Takes
<1>17. /\ SameLimits(ch, d) /\ Line(d) = Append(Line(ch), nreq + 1) /\ d.limit = MaxPendingRequests
       /\ Len(d.buffer) <= Capacity /\ (MaxPendingRequests # 0 => Len(d.queue) <= MaxPendingRequests)
    BY <1>2, <1>8, <1>16 DEF Joined, SameLimits, ChInv, ChTypes
<1>18. Ready(d, pcs)
    BY <1>2, <1>5, <1>9, <1>16, <1>17 DEF Ready, ChInv, WriterTypes
<1>19. Goes(d, pcs)
    BY <1>5, <1>16 DEF Goes, Joined
<1>20. Wakes(d, pcs)
    BY <1>2, <1>5, <1>16 DEF Wakes, Joined
<1>21. /\ left' \in [Writers -> Nat]
       /\ \A v \in Writers : pcs[v] \in {"wait", "notified", "begin"} => left'[v] > 0
    BY <1>5, <1>6 DEF ChInv, WriterTypes
<1>22. ChTypes' /\ ChBounds' /\ WriterTypes' /\ ChPhases' /\ NoMissedMatch' /\ RoomAhead'
    BY <1>6, <1>18, <1>19, <1>20, <1>21, ChannelMoves
<1>23. ch' = d
    BY <1>6 DEF Become
<1>24. k \in Nat /\ (npull = 0 => k = 0)
    BY <1>4, <1>7, Constants DEF Lesser
<1>25. ChCounts'
    <2>1. cancelled' \subseteq 1..nreq'
        BY <1>6, <1>7
    <2> QED
        BY <1>6, <1>7, <1>24, <2>1 DEF ChInv, ChCounts
<1>26. ChData'
    <2>1. NumberedTo(mode, Whole(c), n)
        BY <1>2, <1>6, <1>13 DEF ChInv, ChData
    <2>2. NumberedTo(mode, Whole(d), n + k)
        <3>1. CASE npull > 0
            BY <1>6, <1>7, <1>13, <1>16, <1>24, <2>1, <3>1, StreamGrows
        <3>2. CASE npull = 0
            <4>1. Whole(c) \in Seq(Nat)
                BY <2>1 DEF NumberedTo
            <4>2. Whole(d) = Whole(c)
                BY <1>7, <1>13, <1>16, <1>24, <3>2, <4>1, RunEmpty
            <4>3. n + k = n
                BY <1>7, <1>13, <1>24, <3>2
            <4> QED
                BY <2>1, <4>2, <4>3
        <3> QED
            BY <1>7, <3>1, <3>2
    <2> QED
        BY <1>6, <1>13, <1>23, <2>2 DEF ChData
<1>27. ChLine'
    <2>1. InLine(Line(ch), nreq) /\ CompleteTo(Line(ch), nreq, cancelled)
        BY <1>6 DEF ChInv, ChLine
    <2>2. InLine(Append(Line(ch), nreq + 1), nreq + 1) /\ CompleteTo(Append(Line(ch), nreq + 1), nreq + 1, cancelled)
        BY <1>7, <2>1, NewestLast
    <2> QED
        BY <1>6, <1>17, <1>23, <2>2 DEF ChLine
<1> QED
    BY <1>22, <1>25, <1>26, <1>27 DEF ChInv

LEMMA ChUnlinkStep ==
    ASSUME ChInv, NEW seq, Unlink(seq)
    PROVE  ChInv'
<1>1. PICK c : c = ch
    BY Zenon
<1>2. PICK d : d = CancelPending(c, seq)
    BY Zenon
<1>3. PICK n : n = nreq
    BY Zenon
<1>4. /\ rx = "up" /\ Pends(c, seq) /\ ch' = d /\ cancelled' = cancelled \cup {seq} /\ wpc' = wpc
      /\ rx' = rx /\ ndata' = ndata /\ nreq' = n /\ nconn' = nconn /\ mode' = mode /\ left' = left
    BY <1>1, <1>2, <1>3 DEF Unlink, receiverUnchanged
<1>5. n \in Nat /\ c \in ChannelOf(MaxReqs, Lengths) /\ InLine(Line(c), n)
    BY <1>1, <1>3, ChannelIsThere, Constants DEF ChInv, ChCounts, ChLine
<1>6. /\ d \in ChannelOf(MaxReqs, Lengths) /\ SameLimits(c, d) /\ d.buffer = c.buffer
      /\ d.sent = c.sent /\ d.out = c.out /\ Len(d.queue) = Len(c.queue) - 1
      /\ InLine(Line(d), n)
      /\ \A gone : CompleteTo(Line(c), n, gone) => CompleteTo(Line(d), n, gone \cup {seq})
    BY <1>2, <1>4, <1>5, Constants, CancelTakesOut
<1>7. Len(c.queue) \in Nat /\ Len(d.queue) \in Nat /\ Len(c.out) \in Nat
    BY <1>5, <1>6, ChannelLengths
<1>8. seq \in 1..n
    <2>1. PICK i \in 1..Len(c.queue) : c.queue[i].seq = seq
        BY <1>4 DEF Pends
    <2>2. PICK a : a = Len(c.out)
        BY Zenon
    <2>3. PICK j : j = a + i
        BY Zenon
    <2>4. PICK b : b = Len(c.queue)
        BY Zenon
    <2>5. /\ a \in Nat /\ b \in Nat /\ i \in 1..b
          /\ j \in 1..(a + b) /\ ~(j <= a) /\ j - a = i
        <3>1. a \in Nat /\ b \in Nat /\ i \in 1..b
            BY <1>7, <2>2, <2>4, Zenon
        <3> QED
            BY <2>3, <3>1
    <2>6. PICK s : s = Line(c)
        BY Zenon
    <2>7. s = [x \in 1..(a + b) |-> IF x <= a THEN c.out[x].seq ELSE c.queue[x - a].seq]
        BY <2>2, <2>4, <2>6, Zenon DEF Line, LineOf
    <2>8. s[j] = seq
        BY <2>1, <2>5, <2>7
    <2>9. s \in Seq(Nat) /\ \A x \in 1..Len(s) : s[x] \in 1..n
        BY <1>5, <2>6 DEF InLine
    <2>10. Len(s) = a + b
        <3>1. DOMAIN s = 1..(a + b)
            BY <2>7
        <3>2. DOMAIN s = 1..Len(s) /\ Len(s) \in Nat
            BY <2>9
        <3> QED
            BY <2>5, <3>1, <3>2
    <2> QED
        BY <2>5, <2>8, <2>9, <2>10
<1>9. ChTypes'
    BY <1>1, <1>4, <1>6 DEF ChInv, ChTypes, SameLimits
<1>10. ChBounds'
    <2>1. MaxPendingRequests # 0 => Len(c.queue) - 1 <= MaxPendingRequests
        BY <1>1, <1>7, Constants DEF ChInv, ChBounds
    <2> QED
        BY <1>1, <1>4, <1>6, <2>1 DEF ChInv, ChBounds
<1>11. WriterTypes'
    BY <1>4 DEF ChInv, WriterTypes
<1>12. ChCounts'
    BY <1>3, <1>4, <1>8 DEF ChInv, ChCounts
<1>13. ChPhases'
    BY <1>1, <1>4, <1>6 DEF ChInv, ChPhases, SameLimits
<1>14. ChData'
    BY <1>1, <1>4, <1>6 DEF ChInv, ChData, Whole
<1>15. ChLine'
    <2>1. CompleteTo(Line(c), n, cancelled)
        BY <1>1, <1>3, <1>4 DEF ChInv, ChLine
    <2>2. CompleteTo(Line(d), n, cancelled \cup {seq})
        BY <1>6, <2>1, Zenon
    <2> QED
        BY <1>4, <1>6, <2>2 DEF ChLine
<1>16. NoMissedMatch'
    <2>1. d.queue # <<>> => c.queue # <<>>
        BY <1>6, <1>7
    <2> QED
        BY <1>1, <1>4, <1>6, <2>1 DEF ChInv, NoMissedMatch
<1>17. RoomAhead'
    BY <1>1, <1>4, <1>6 DEF ChInv, RoomAhead, SameLimits
<1> QED
    BY <1>9, <1>10, <1>11, <1>12, <1>13, <1>14, <1>15, <1>16, <1>17 DEF ChInv

\* Requests that are dropped from the end of the line leave it in order.
LEMMA AnsweredLine ==
    ASSUME NEW S, NEW T, NEW o \in Seq(S), NEW q \in Seq(T), NEW n \in Nat, InLine(LineOf(o, q), n)
    PROVE  InLine(LineOf(o, <<>>), n)
<1>1. PICK s : s = LineOf(o, q)
    BY Zenon
<1>2. PICK t : t = LineOf(o, <<>>)
    BY Zenon
<1>3. PICK a : a = Len(o)
    BY Zenon
<1>4. PICK b : b = Len(q)
    BY Zenon
<1>5. a \in Nat /\ b \in Nat /\ Len(<<>>) = 0 /\ a + 0 = a
    BY <1>3, <1>4
<1>6. s = [i \in 1..(a + b) |-> IF i <= a THEN o[i].seq ELSE q[i - a].seq]
    BY <1>1, <1>3, <1>4, Zenon DEF LineOf
<1>7. t = [i \in 1..a |-> IF i <= a THEN o[i].seq ELSE <<>>[i - a].seq]
    BY <1>2, <1>3, <1>5, Zenon DEF LineOf
<1>8. s \in Seq(Nat) /\ Increasing(s) /\ \A i \in 1..Len(s) : s[i] \in 1..n
    BY <1>1 DEF InLine
<1>9. Len(s) = a + b
    <2>1. DOMAIN s = 1..(a + b)
        BY <1>6
    <2>2. DOMAIN s = 1..Len(s) /\ Len(s) \in Nat
        BY <1>8
    <2> QED
        BY <1>5, <2>1, <2>2
<1>10. \A i \in 1..a : i \in 1..Len(s) /\ t[i] = s[i]
    BY <1>5, <1>6, <1>7, <1>9
<1>11. \A i \in 1..a : t[i] \in 1..n
    BY <1>8, <1>10
<1>12. t \in [1..a -> Nat]
    BY <1>7, <1>11
<1>13. t \in Seq(Nat) /\ Len(t) = a
    BY <1>5, <1>12
<1>14. Increasing(t)
    BY <1>8, <1>10, <1>13 DEF Increasing
<1> QED
    BY <1>2, <1>11, <1>13, <1>14 DEF InLine

LEMMA EmptyLine == LineOf(<<>>, <<>>) = <<>> /\ <<>> \o <<>> = <<>>
<1>1. <<>> \in Seq(Nat) /\ Len(<<>>) = 0 /\ 1..(0 + 0) = {}
    OBVIOUS
<1>2. PICK t : t = LineOf(<<>>, <<>>)
    BY Zenon
<1>3. t \in [1..0 -> Nat]
    BY <1>1, <1>2 DEF LineOf
<1>4. t \in Seq(Nat) /\ Len(t) = 0
    BY <1>3
<1> QED
    BY <1>1, <1>2, <1>4, EmptySeq, ConcatEmptySeq

LEMMA NewConnectionStep ==
    ASSUME ChInv, OnNewConnection
    PROVE  ChInv'
<1>1. PICK d : d = [NewChannel(Capacity, MaxPendingRequests) EXCEPT !.queue = ch.queue]
    BY Zenon
<1>2. /\ rx = "down" /\ nconn < MaxConns /\ ch' = d /\ rx' = "up" /\ nconn' = nconn + 1
      /\ ndata' = 0 /\ nreq' = 0 /\ cancelled' = {} /\ wpc' = wpc /\ mode' = mode /\ left' = left
    BY <1>1 DEF OnNewConnection, receiverUnchanged
<1>3. /\ d.capacity = Capacity /\ d.limit = MaxPendingRequests /\ d.buffer = <<>> /\ d.queue = <<>>
      /\ d.disconnected = FALSE /\ d.out = <<>> /\ d.sent = <<>>
    BY <1>1, <1>2 DEF ChInv, ChPhases, NewChannel
<1>4. d = [capacity |-> Capacity, limit |-> MaxPendingRequests, buffer |-> <<>>, queue |-> <<>>,
           disconnected |-> FALSE, out |-> <<>>, sent |-> <<>>]
    BY <1>1, <1>2 DEF ChInv, ChPhases, NewChannel
<1>5. d \in ChannelOf(MaxReqs, Lengths)
    <2> HIDE DEF ChannelRequest, ChannelReply
    <2>1. /\ <<>> \in Seq(ChannelRequest(MaxReqs, Lengths)) /\ <<>> \in Seq(ChannelReply(MaxReqs))
          /\ <<>> \in Seq(Nat)
        OBVIOUS
    <2> QED
        BY <1>4, <2>1, Constants DEF ChannelOf
<1>6. Line(d) = <<>> /\ Whole(d) = <<>>
    BY <1>3, EmptyLine DEF Line, Whole
<1>7. ChTypes' /\ ChBounds'
    BY <1>2, <1>3, <1>5, Constants DEF ChInv, ChTypes, ChBounds
<1>8. WriterTypes'
    BY <1>2 DEF ChInv, WriterTypes
<1>9. ChCounts'
    BY <1>2, Constants DEF ChInv, ChCounts
<1>10. ChPhases'
    BY <1>2, <1>3 DEF ChPhases
<1>11. ChData'
    BY <1>2, <1>6 DEF ChData, NumberedTo, Increasing
<1>12. ChLine'
    BY <1>2, <1>6 DEF ChLine, InLine, CompleteTo, Increasing
<1>13. NoMissedMatch' /\ RoomAhead'
    BY <1>2, <1>3 DEF ChInv, ChPhases, NoMissedMatch, RoomAhead
<1> QED
    BY <1>7, <1>8, <1>9, <1>10, <1>11, <1>12, <1>13 DEF ChInv

LEMMA DisconnectionStep ==
    ASSUME ChInv, OnDisconnection
    PROVE  ChInv'
<1>1. PICK c : c = ch
    BY Zenon
<1>2. PICK d : d = DisconnectData(c)
    BY Zenon
<1>3. /\ rx = "up" /\ ch' = d /\ rx' = "clear" /\ wpc' = wpc /\ ndata' = ndata /\ nreq' = nreq
      /\ nconn' = nconn /\ cancelled' = cancelled /\ mode' = mode /\ left' = left
    BY <1>1, <1>2 DEF OnDisconnection, receiverUnchanged
<1>4. c \in ChannelOf(MaxReqs, Lengths)
    BY <1>1, ChannelIsThere
<1>5. /\ d \in ChannelOf(MaxReqs, Lengths) /\ d.capacity = c.capacity /\ d.limit = c.limit
      /\ d.buffer = <<>> /\ d.disconnected = TRUE /\ d.queue = c.queue /\ d.out = c.out
    <2>1. PICK b : b = <<>>
        BY Zenon
    <2>2. PICK e : e = [c EXCEPT !.buffer = b]
        BY Zenon
    <2>3. b \in Seq(Nat)
        BY <2>1
    <2>4. /\ e \in ChannelOf(MaxReqs, Lengths) /\ SameLimits(c, e) /\ e.buffer = b
          /\ e.queue = c.queue /\ e.out = c.out
        BY <1>4, <2>2, <2>3, Constants, OtherBuffer
    <2> HIDE DEF ChannelRequest, ChannelReply
    <2>5. d = [e EXCEPT !.disconnected = TRUE]
        BY <1>2, <1>4, <2>1, <2>2 DEF DisconnectData, ChannelOf
    <2>6. /\ d \in ChannelOf(MaxReqs, Lengths) /\ d.capacity = e.capacity /\ d.limit = e.limit
          /\ d.buffer = e.buffer /\ d.disconnected = TRUE /\ d.queue = e.queue /\ d.out = e.out
        BY <2>4, <2>5 DEF ChannelOf
    <2> QED
        BY <2>1, <2>4, <2>6 DEF SameLimits
<1>6. ChTypes' /\ ChBounds'
    BY <1>1, <1>3, <1>5, Constants DEF ChInv, ChTypes, ChBounds
<1>7. WriterTypes'
    BY <1>3 DEF ChInv, WriterTypes
<1>8. ChCounts'
    BY <1>3 DEF ChInv, ChCounts
<1>9. ChPhases' /\ ChData'
    BY <1>3, <1>5 DEF ChPhases, ChData
<1>10. ChLine'
    BY <1>1, <1>3, <1>5 DEF ChInv, ChLine, Line
<1>11. NoMissedMatch' /\ RoomAhead'
    BY <1>3, <1>5 DEF NoMissedMatch, RoomAhead
<1> QED
    BY <1>6, <1>7, <1>8, <1>9, <1>10, <1>11 DEF ChInv

LEMMA ClearRequestsStep ==
    ASSUME ChInv, ClearRequests
    PROVE  ChInv'
<1>1. PICK c : c = ch
    BY Zenon
<1>2. PICK d : d = DisconnectRequests(c)
    BY Zenon
<1>3. /\ rx = "clear" /\ ch' = d /\ rx' = "notify" /\ wpc' = wpc /\ ndata' = ndata /\ nreq' = nreq
      /\ nconn' = nconn /\ cancelled' = cancelled /\ mode' = mode /\ left' = left
    BY <1>1, <1>2 DEF ClearRequests, receiverUnchanged
<1>4. c \in ChannelOf(MaxReqs, Lengths)
    BY <1>1, ChannelIsThere
<1>5. /\ d \in ChannelOf(MaxReqs, Lengths) /\ d.capacity = c.capacity /\ d.limit = c.limit
      /\ d.queue = <<>> /\ d.disconnected = c.disconnected /\ d.buffer = c.buffer /\ d.out = c.out
    <2>1. PICK q : q = <<>>
        BY Zenon
    <2>2. q \in Seq(ChannelRequest(MaxReqs, Lengths)) /\ d = [c EXCEPT !.queue = q]
        BY <1>2, <2>1 DEF DisconnectRequests
    <2>3. /\ d \in ChannelOf(MaxReqs, Lengths) /\ SameLimits(c, d)
          /\ d.queue = q /\ d.buffer = c.buffer /\ d.out = c.out
        BY <1>4, <2>2, Constants, OtherQueue
    <2> QED
        BY <2>1, <2>3 DEF SameLimits
<1>6. ChTypes' /\ ChBounds'
    BY <1>1, <1>3, <1>5, Constants DEF ChInv, ChTypes, ChBounds
<1>7. WriterTypes'
    BY <1>3 DEF ChInv, WriterTypes
<1>8. ChCounts'
    BY <1>3 DEF ChInv, ChCounts
<1>9. ChPhases' /\ ChData'
    BY <1>1, <1>3, <1>5 DEF ChInv, ChPhases, ChData
<1>10. ChLine'
    <2>1. InLine(LineOf(c.out, c.queue), nreq) /\ nreq \in Nat
        BY <1>1, Constants DEF ChInv, ChLine, Line, ChCounts
    <2>2. c.out \in Seq(ChannelReply(MaxReqs)) /\ c.queue \in Seq(ChannelRequest(MaxReqs, Lengths))
        BY <1>4, ChannelFields
    <2>3. InLine(LineOf(c.out, <<>>), nreq)
        <3> HIDE DEF ChannelRequest, ChannelReply
        <3> QED
            BY <2>1, <2>2, AnsweredLine
    <2> QED
        BY <1>3, <1>5, <2>3 DEF ChLine, Line
<1>11. NoMissedMatch' /\ RoomAhead'
    BY <1>1, <1>3, <1>5 DEF ChInv, ChPhases, NoMissedMatch, RoomAhead
<1> QED
    BY <1>6, <1>7, <1>8, <1>9, <1>10, <1>11 DEF ChInv

LEMMA NotifyWritersStep ==
    ASSUME ChInv, NotifyWriters
    PROVE  ChInv'
<1>1. /\ rx = "notify" /\ ch' = ch /\ rx' = "down" /\ ndata' = ndata /\ nreq' = nreq
      /\ nconn' = nconn /\ cancelled' = cancelled /\ mode' = mode /\ left' = left
      /\ wpc' = [w \in Writers |-> IF wpc[w] = "wait" THEN "notified" ELSE wpc[w]]
    BY DEF NotifyWriters, receiverUnchanged
<1>2. wpc \in [Writers -> Places]
    BY DEF ChInv, WriterTypes
<1>3. /\ wpc' \in [Writers -> Places]
      /\ \A w \in Writers : /\ wpc'[w] # "wait"
                            /\ wpc'[w] = wpc[w] \/ (wpc[w] = "wait" /\ wpc'[w] = "notified")
    BY <1>1, <1>2 DEF Places
<1>4. ChTypes' /\ ChBounds'
    BY <1>1 DEF ChInv, ChTypes, ChBounds
<1>5. WriterTypes'
    BY <1>1, <1>3 DEF ChInv, WriterTypes
<1>6. ChCounts'
    BY <1>1 DEF ChInv, ChCounts
<1>7. ChPhases' /\ ChData'
    BY <1>1, <1>3 DEF ChInv, ChPhases, ChData
<1>8. ChLine'
    BY <1>1 DEF ChInv, ChLine
<1>9. NoMissedMatch' /\ RoomAhead'
    BY <1>1, <1>3 DEF ChInv, ChPhases, NoMissedMatch, RoomAhead
<1> QED
    BY <1>4, <1>5, <1>6, <1>7, <1>8, <1>9 DEF ChInv

------------------------------------------------------------------------------
(* The theorems.                                                             *)

LEMMA ChInitInv == ChInit => ChInv
<1> SUFFICES ASSUME ChInit PROVE ChInv
    OBVIOUS
<1>1. /\ ch = [capacity |-> Capacity, limit |-> MaxPendingRequests, buffer |-> <<>>, queue |-> <<>>,
               disconnected |-> TRUE, out |-> <<>>, sent |-> <<>>]
      /\ mode \in {"message", "stream"} /\ rx = "down" /\ ndata = 0 /\ nreq = 0 /\ nconn = 0
      /\ cancelled = {} /\ wpc = [w \in Writers |-> "idle"] /\ left = [w \in Writers |-> 0]
    BY DEF ChInit, DisconnectData, NewChannel
<1>2. ch \in ChannelOf(MaxReqs, Lengths)
    <2> HIDE DEF ChannelRequest, ChannelReply
    <2>1. /\ <<>> \in Seq(ChannelRequest(MaxReqs, Lengths)) /\ <<>> \in Seq(ChannelReply(MaxReqs))
          /\ <<>> \in Seq(Nat)
        OBVIOUS
    <2> QED
        BY <1>1, <2>1, Constants DEF ChannelOf
<1>3. /\ ch.capacity = Capacity /\ ch.limit = MaxPendingRequests /\ ch.buffer = <<>> /\ ch.queue = <<>>
      /\ ch.disconnected = TRUE /\ ch.out = <<>>
    BY <1>1
<1>4. Line(ch) = <<>>
    BY <1>3, EmptyLine DEF Line
<1>5. ChTypes /\ ChBounds
    BY <1>1, <1>2, <1>3, Constants DEF ChTypes, ChBounds
<1>6. WriterTypes
    BY <1>1 DEF WriterTypes, Places
<1>7. ChCounts /\ ChData
    BY <1>1, Constants DEF ChCounts, ChData
<1>8. ChPhases
    BY <1>1, <1>3 DEF ChPhases
<1>9. ChLine
    <2>1. InLine(<<>>, 0)
        BY DEF InLine, Increasing
    <2> QED
        BY <1>1, <1>4, <2>1 DEF ChLine
<1>10. NoMissedMatch /\ RoomAhead
    BY <1>3 DEF NoMissedMatch, RoomAhead
<1> QED
    BY <1>5, <1>6, <1>7, <1>8, <1>9, <1>10 DEF ChInv

LEMMA ChStutter == ChInv /\ UNCHANGED chVars => ChInv'
<1> SUFFICES ASSUME ChInv, UNCHANGED chVars PROVE ChInv'
    OBVIOUS
<1>1. /\ mode' = mode /\ ch' = ch /\ wpc' = wpc /\ left' = left /\ rx' = rx /\ ndata' = ndata
      /\ nreq' = nreq /\ nconn' = nconn /\ cancelled' = cancelled
    BY DEF chVars
<1>2. ChTypes' /\ ChBounds' /\ WriterTypes' /\ ChCounts'
    BY <1>1 DEF ChInv, ChTypes, ChBounds, WriterTypes, ChCounts
<1>3. ChPhases' /\ ChData' /\ ChLine'
    BY <1>1 DEF ChInv, ChPhases, ChData, ChLine
<1>4. NoMissedMatch' /\ RoomAhead'
    BY <1>1 DEF ChInv, NoMissedMatch, RoomAhead
<1> QED
    BY <1>2, <1>3, <1>4 DEF ChInv

LEMMA ChStep == ChInv /\ [ChNext]_chVars => ChInv'
<1> SUFFICES ASSUME ChInv, [ChNext]_chVars PROVE ChInv'
    OBVIOUS
<1>1. ASSUME NEW w \in Writers, Push(w) PROVE ChInv'
    BY <1>1, PushStep
<1>2. ASSUME NEW w \in Writers, NEW n \in WriteSizes, WriteNb(w, n) PROVE ChInv'
    BY <1>2, WriteNbStep
<1>3. ASSUME NEW w \in Writers, NEW n \in WriteSizes, Call(w, n) PROVE ChInv'
    BY <1>3, CallStep
<1>4. ASSUME NEW w \in Writers, Begin(w) PROVE ChInv'
    BY <1>4, BeginStep
<1>5. ASSUME NEW w \in Writers, Wake(w) PROVE ChInv'
    BY <1>5, WokenStep DEF Wake
<1>6. ASSUME NEW w \in Writers, Flush(w) PROVE ChInv'
    BY <1>6, FlushStep
<1>7. ASSUME NEW w \in Writers, SpuriousWakeup(w) PROVE ChInv'
    BY <1>7, WokenStep DEF SpuriousWakeup
<1>8. ASSUME NEW w \in Writers, Timeout(w) PROVE ChInv'
    BY <1>8, WokenStep DEF Timeout
<1>9. ASSUME NEW len \in Lengths, NEW npull \in 0..MaxPull, HostRequest(len, npull) PROVE ChInv'
    BY <1>9, HostRequestStep
<1>10. ASSUME NEW seq \in 1..MaxReqs, Unlink(seq) PROVE ChInv'
    BY <1>10, ChUnlinkStep
<1>11. CASE OnNewConnection
    BY <1>11, NewConnectionStep
<1>12. CASE OnDisconnection
    BY <1>12, DisconnectionStep
<1>13. CASE ClearRequests
    BY <1>13, ClearRequestsStep
<1>14. CASE NotifyWriters
    BY <1>14, NotifyWritersStep
<1>15. CASE UNCHANGED chVars
    BY <1>15, ChStutter
<1> QED
    BY <1>1, <1>2, <1>3, <1>4, <1>5, <1>6, <1>7, <1>8, <1>9, <1>10, <1>11, <1>12, <1>13, <1>14, <1>15
       DEF ChNext, WriterRuns

\* The inductive invariant of the channel: the line of requests and the run of
\* data that no step of a writer or of the receiver breaks up, who may be
\* blocked in which phase of on_disconnection, and that a writer blocked with
\* an empty buffer is not alone (space_cv.notify_one per answer).
THEOREM ChInductive == ChSpec => []ChInv
<1>1. ChInit => ChInv
    BY ChInitInv
<1>2. ChInv /\ [ChNext]_chVars => ChInv'
    BY ChStep
<1> QED
    BY <1>1, <1>2, PTL DEF ChSpec

\* Every writer and every request keeps the buffer within its capacity and the
\* queue within max_pending_requests, and a blocked write has bytes left.
THEOREM ChTypeCorrect == ChSpec => []ChTypeOK
<1>1. ChInv => ChTypeOK
    <2> SUFFICES ASSUME ChInv PROVE ChTypeOK
        OBVIOUS
    <2>1. ch \in [capacity : {Capacity}, limit : {MaxPendingRequests}, buffer : Seq(Nat),
                  queue : Seq(ChRequest), disconnected : BOOLEAN, out : Seq(ChReply), sent : Seq(Nat)]
        <3>1. /\ ch \in ChannelOf(MaxReqs, Lengths)
              /\ ch.capacity = Capacity /\ ch.limit = MaxPendingRequests
            BY DEF ChInv, ChTypes
        <3>2. ChRequest = ChannelRequest(MaxReqs, Lengths) /\ ChReply = ChannelReply(MaxReqs)
            BY DEF ChRequest, ChReply, ChannelRequest, ChannelReply
        <3> HIDE DEF ChRequest, ChReply, ChannelRequest, ChannelReply
        <3> QED
            BY <3>1, <3>2 DEF ChannelOf
    <2>2. mode \in {"message", "stream"}
        BY DEF ChInv, ChTypes
    <2>3. Len(ch.buffer) <= Capacity /\ (MaxPendingRequests # 0 => Len(ch.queue) <= MaxPendingRequests)
        BY DEF ChInv, ChBounds
    <2>4. /\ wpc \in [Writers -> {"idle", "begin", "wait", "notified", "flush"}] /\ left \in [Writers -> Nat]
          /\ \A w \in Writers : wpc[w] \in {"wait", "notified", "begin"} => left[w] > 0
        BY DEF ChInv, WriterTypes, Places
    <2>5. /\ rx \in {"down", "up", "clear", "notify"} /\ ndata \in Nat /\ nreq \in 0..MaxReqs
          /\ nconn \in 0..MaxConns /\ cancelled \subseteq 1..MaxReqs
        BY Constants DEF ChInv, ChCounts
    <2> QED
        BY <2>1, <2>2, <2>3, <2>4, <2>5 DEF ChTypeOK
<1> QED
    BY <1>1, ChInductive, PTL

\* InEndpointChannel.h, try_send_one, push_locked, send_pulled_locked: the host
\* gets the bytes of a stream whole and in order, and messages in order,
\* whoever of any number of threads answers, and for requests of any length.
THEOREM ChStreamIntact == ChSpec => []StreamIntact
<1>1. ChInv => StreamIntact
    <2> SUFFICES ASSUME ChInv, rx = "up",
                        NEW all, all = ch.sent \o ch.buffer
                 PROVE  IF mode = "stream" THEN all = [i \in 1..ndata |-> i]
                        ELSE \A i, j \in 1..Len(all) : i < j => all[i] < all[j]
        BY DEF StreamIntact
    <2>1. NumberedTo(mode, all, ndata) /\ ndata \in Nat
        BY DEF ChInv, ChData, Whole, ChCounts
    <2>2. CASE mode = "stream"
        <3>1. all \in Seq(Nat) /\ Len(all) = ndata /\ \A i \in 1..Len(all) : all[i] = i
            BY <2>1, <2>2 DEF NumberedTo
        <3>2. PICK f : f = [i \in 1..ndata |-> i]
            BY Zenon
        <3>3. f \in [1..ndata -> Nat] /\ \A i \in 1..ndata : f[i] = i
            BY <3>2
        <3>4. f \in Seq(Nat) /\ Len(f) = ndata
            BY <2>1, <3>3
        <3>5. all = f
            BY <3>1, <3>3, <3>4, SeqEqual, ZenonT(60)
        <3> QED
            BY <2>2, <3>2, <3>5
    <2>3. CASE mode # "stream"
        BY <2>1, <2>3 DEF NumberedTo, Increasing
    <2> QED
        BY <2>2, <2>3
<1> QED
    BY <1>1, ChInductive, PTL

\* The answers and the requests that wait, read off the line
LEMMA LineRead ==
    ASSUME ChInv
    PROVE  /\ Len(ch.out) \in Nat /\ Len(ch.queue) \in Nat
           /\ \A i \in 1..Len(ch.out) : ch.out[i].seq = Line(ch)[i]
           /\ \A i \in 1..Len(ch.queue) : ch.queue[i].seq = Line(ch)[Len(ch.out) + i]
           /\ Len(Line(ch)) = Len(ch.out) + Len(ch.queue)
<1>1. PICK o : o = ch.out
    BY Zenon
<1>2. PICK q : q = ch.queue
    BY Zenon
<1>3. PICK a : a = Len(o)
    BY Zenon
<1>4. PICK b : b = Len(q)
    BY Zenon
<1>5. PICK s : s = Line(ch)
    BY Zenon
<1>6. a \in Nat /\ b \in Nat
    BY <1>1, <1>2, <1>3, <1>4, ChannelIsThere, ChannelLengths
<1>7. s = [i \in 1..(a + b) |-> IF i <= a THEN o[i].seq ELSE q[i - a].seq]
    BY <1>1, <1>2, <1>3, <1>4, <1>5, Zenon DEF Line, LineOf
<1>8. \A i \in 1..a : o[i].seq = s[i]
    BY <1>6, <1>7
<1>9. \A i \in 1..b : q[i].seq = s[a + i]
    <2> SUFFICES ASSUME NEW i \in 1..b PROVE q[i].seq = s[a + i]
        OBVIOUS
    <2>1. PICK j : j = a + i
        BY Zenon
    <2>2. j \in 1..(a + b) /\ ~(j <= a) /\ j - a = i
        BY <1>6, <2>1
    <2> QED
        BY <1>7, <2>1, <2>2
<1>10. s \in Seq(Nat)
    BY <1>5 DEF ChInv, ChLine, InLine
<1>11. Len(s) = a + b
    <2>1. DOMAIN s = 1..(a + b)
        BY <1>7
    <2>2. DOMAIN s = 1..Len(s) /\ Len(s) \in Nat
        BY <1>10
    <2> QED
        BY <1>6, <2>1, <2>2
<1> QED
    BY <1>1, <1>2, <1>3, <1>4, <1>5, <1>6, <1>8, <1>9, <1>11, Zenon

\* on_in_request and try_send_pending_locked: no request is answered before an
\* older one of the endpoint, evicted ones included.
THEOREM ChAnsweredInOrder == ChSpec => []AnsweredInOrder
<1>1. ChInv => AnsweredInOrder
    <2> SUFFICES ASSUME ChInv, NEW i \in 1..Len(ch.out), NEW j \in 1..Len(ch.out), i < j
                 PROVE  ch.out[i].seq < ch.out[j].seq
        BY DEF AnsweredInOrder
    <2>1. ch.out[i].seq = Line(ch)[i] /\ ch.out[j].seq = Line(ch)[j]
        BY LineRead
    <2>2. i \in 1..Len(Line(ch)) /\ j \in 1..Len(Line(ch))
        <3>1. /\ Len(ch.out) \in Nat /\ Len(ch.queue) \in Nat
              /\ Len(Line(ch)) = Len(ch.out) + Len(ch.queue)
            BY LineRead
        <3>2. PICK a : a = Len(ch.out)
            BY Zenon
        <3>3. PICK b : b = Len(ch.queue)
            BY Zenon
        <3>4. PICK l : l = Len(Line(ch))
            BY Zenon
        <3>5. a \in Nat /\ b \in Nat /\ l = a + b /\ i \in 1..a /\ j \in 1..a
            BY <3>1, <3>2, <3>3, <3>4, Zenon
        <3>6. i \in 1..l /\ j \in 1..l
            BY <3>5
        <3> QED
            BY <3>4, <3>6, Zenon
    <2>3. Line(ch)[i] < Line(ch)[j]
        BY <2>2 DEF ChInv, ChLine, InLine, Increasing
    <2> QED
        BY <2>1, <2>3
<1> QED
    BY <1>1, ChInductive, PTL

\* on_in_request, cancel_pending, the eviction at max_pending_requests and
\* on_disconnection: no request of a connection is lost and none of an
\* earlier one is left over.
THEOREM ChRequestsAccounted == ChSpec => []RequestsAccounted
<1>1. ChInv => RequestsAccounted
    <2> SUFFICES ASSUME ChInv, rx = "up"
                 PROVE  /\ {ch.queue[i].seq : i \in 1..Len(ch.queue)} =
                               1..nreq \ (cancelled \cup {ch.out[i].seq : i \in 1..Len(ch.out)})
                        /\ \A i, j \in 1..Len(ch.queue) : i < j => ch.queue[i].seq < ch.queue[j].seq
        BY DEF RequestsAccounted
    <2>1. PICK o : o = ch.out
        BY Zenon
    <2>2. PICK q : q = ch.queue
        BY Zenon
    <2>3. PICK a : a = Len(o)
        BY Zenon
    <2>4. PICK b : b = Len(q)
        BY Zenon
    <2>5. PICK s : s = Line(ch)
        BY Zenon
    <2>6. /\ a \in Nat /\ b \in Nat /\ Len(s) = a + b
          /\ \A i \in 1..a : o[i].seq = s[i]
          /\ \A i \in 1..b : q[i].seq = s[a + i]
        BY <2>1, <2>2, <2>3, <2>4, <2>5, LineRead, Zenon
    <2>7. /\ Increasing(s) /\ \A i \in 1..Len(s) : s[i] \in 1..nreq
          /\ \A x \in 1..nreq : x \notin cancelled <=> \E i \in 1..Len(s) : s[i] = x
        BY <2>5 DEF ChInv, ChLine, InLine, CompleteTo
    <2>8. \A i \in 1..b : a + i \in 1..Len(s)
        BY <2>6
    <2>9. \A i \in 1..a : i \in 1..Len(s)
        BY <2>6
    <2>10. \A i, j \in 1..b : i < j => q[i].seq < q[j].seq
        <3> SUFFICES ASSUME NEW i \in 1..b, NEW j \in 1..b, i < j PROVE q[i].seq < q[j].seq
            OBVIOUS
        <3>1. a + i < a + j
            BY <2>6
        <3>2. s[a + i] < s[a + j]
            BY <2>7, <2>8, <3>1 DEF Increasing
        <3> QED
            BY <2>6, <3>2
    <2>11. ASSUME NEW i \in 1..b
           PROVE  q[i].seq \in 1..nreq /\ q[i].seq \notin cancelled /\ \A j \in 1..a : o[j].seq # q[i].seq
        <3>1. a + i \in 1..Len(s) /\ q[i].seq = s[a + i]
            BY <2>6, <2>8
        <3>2. q[i].seq \in 1..nreq /\ q[i].seq \notin cancelled
            BY <2>7, <3>1
        <3>3. ASSUME NEW j \in 1..a PROVE o[j].seq # q[i].seq
            <4>1. j < a + i /\ j \in 1..Len(s)
                BY <2>6
            <4>2. s[j] < s[a + i] /\ s[j] \in Int /\ s[a + i] \in Int
                BY <2>7, <3>1, <4>1 DEF Increasing
            <4> QED
                BY <2>6, <3>1, <4>2
        <3> QED
            BY <3>2, <3>3
    <2>12. ASSUME NEW x \in 1..nreq, x \notin cancelled, \A j \in 1..a : o[j].seq # x
           PROVE  \E i \in 1..b : q[i].seq = x
        <3>1. PICK j \in 1..Len(s) : s[j] = x
            BY <2>7, <2>12
        <3>2. ~(j <= a)
            BY <2>6, <2>12, <3>1
        <3>3. PICK i : i = j - a
            BY Zenon
        <3>4. i \in 1..b /\ j = a + i
            BY <2>6, <3>2, <3>3
        <3> QED
            BY <2>6, <3>1, <3>4
    <2>13. {q[i].seq : i \in 1..b} = 1..nreq \ (cancelled \cup {o[i].seq : i \in 1..a})
        <3>1. \A i \in 1..b : /\ q[i].seq \in 1..nreq /\ q[i].seq \notin cancelled
                              /\ \A j \in 1..a : o[j].seq # q[i].seq
            BY <2>11
        <3>2. \A x \in 1..nreq : (x \notin cancelled /\ \A j \in 1..a : o[j].seq # x)
                                  => \E i \in 1..b : q[i].seq = x
            BY <2>12
        <3> QED
            BY <3>1, <3>2
    <2> QED
        BY <2>1, <2>2, <2>3, <2>4, <2>10, <2>13
<1> QED
    BY <1>1, ChInductive, PTL

\* write, push and on_in_request: data and a request for it never wait for each
\* other once every thread has left its critical sections.
THEOREM ChNoMissedMatch == ChSpec => []NoMissedMatch
<1>1. ChInv => NoMissedMatch
    BY DEF ChInv
<1> QED
    BY <1>1, ChInductive, PTL

\* space_cv.notify_one once per answer: the host's request for data and a
\* writer's wait for room never block each other, however many writers wait.
THEOREM ChNoStall == ChSpec => []NoStall
<1>1. ChInv => NoStall
    <2> SUFFICES ASSUME ChInv, ch.queue # <<>>, Waiting # {}, ~ch.disconnected
                 PROVE  \E w \in Writers : wpc[w] \in {"begin", "notified", "flush"}
        BY DEF NoStall
    <2>1. CASE ch.buffer = <<>>
        <3>1. PICK w \in Writers : wpc[w] = "wait"
            BY DEF Waiting
        <3> QED
            BY <2>1, <3>1 DEF ChInv, RoomAhead
    <2>2. CASE ch.buffer # <<>>
        BY <2>2 DEF ChInv, NoMissedMatch
    <2> QED
        BY <2>1, <2>2
<1> QED
    BY <1>1, ChInductive, PTL

------------------------------------------------------------------------------
(***************************************************************************)
(* Proofs about TransferScheduler, for any endpoints, delays and bounds.   *)
(*                                                                         *)
(* What the properties say of the answers rests on where a URB can be: in  *)
(* the queue of its endpoint, in the hands of the scheduler's thread       *)
(* (due), in those of a processor (handling), answered or cancelled - in   *)
(* one of these places only, and it passes through them in the order of    *)
(* its endpoint.  processing names the URB of the endpoint that is on its  *)
(* way, so on_timer takes no second one; a report that comes late, of a    *)
(* URB of an earlier connection, is not mistaken for it.                   *)
(***************************************************************************)


Urb == [seq : Nat \ {0}, delay : Int, ready : BOOLEAN, at : Nat, conn : Nat]
Due == [ep : SchedEps, urb : Urb]
Handled == [ep : SchedEps, seq : Nat \ {0}, conn : Nat, sent : BOOLEAN]
SchedReply == [ep : SchedEps \cup {"none"}, seq : Nat \ {0}, conn : Nat]
IoHandler == {"schedule", "timer", "aborted"}

SchedTypes ==
    /\ now \in Nat \ {0} /\ started \in BOOLEAN /\ joining \in BOOLEAN
    /\ queue \in [SchedEps -> Seq(Urb)]
    /\ processing \in [SchedEps -> Nat] /\ last_scheduled \in [SchedEps -> Nat]
    /\ timer_pending \in BOOLEAN /\ expires \in {NoTimer} \cup Nat
    /\ io_queue \in Seq(IoHandler)
    /\ due \in Seq(Due) /\ handling \subseteq Handled /\ answered \in Seq(SchedReply)
    /\ cancelled_urbs \subseteq 1..nurbs /\ nurbs \in Nat /\ nstarts \in 0..MaxStarts

\* Only the head of a queue has a time.
HeadArmed == \A e \in SchedEps : \A i \in 1..Len(queue[e]) : i > 1 => queue[e][i].at = 0

\* Every number was given to a URB, and no connection is later than this one.
QueueNumbered == \A e \in SchedEps : \A i \in 1..Len(queue[e]) : queue[e][i].seq <= nurbs
ProcessingNumbered == \A e \in SchedEps : processing[e] <= nurbs
DueNumbered == \A i \in 1..Len(due) : due[i].urb.seq <= nurbs
HandlingNumbered == \A h \in handling : h.seq <= nurbs /\ h.conn <= nstarts
AnsweredNumbered ==
    \A i \in 1..Len(answered) : answered[i].seq <= nurbs /\ answered[i].conn <= nstarts

Numbered ==
    /\ QueueNumbered /\ ProcessingNumbered /\ DueNumbered /\ HandlingNumbered
    /\ AnsweredNumbered

\* stop() leaves nothing queued and no timer; what the thread still holds is
\* waited for by join(), so the next start() finds nothing of it.
Stopped ==
    /\ ~started => queue = NoUrbs /\ processing = Nothing /\ ~timer_pending /\ expires = NoTimer
    /\ due # <<>> => started \/ joining

\* What is queued or due belongs to this connection.
QueueCurrent == \A e \in SchedEps : \A i \in 1..Len(queue[e]) : queue[e][i].conn = nstarts
DueCurrent == \A i \in 1..Len(due) : due[i].urb.conn = nstarts

\* Nothing queued is anywhere else.
QueueOrdered ==
    \A e \in SchedEps : \A i, j \in 1..Len(queue[e]) : i < j => queue[e][i].seq < queue[e][j].seq
QueuesApart ==
    \A e, f \in SchedEps : \A i \in 1..Len(queue[e]), j \in 1..Len(queue[f]) :
        e # f => queue[e][i].seq # queue[f][j].seq
QueuedNotCancelled ==
    \A e \in SchedEps : \A i \in 1..Len(queue[e]) : queue[e][i].seq \notin cancelled_urbs
QueuedNotHandled ==
    \A e \in SchedEps : \A i \in 1..Len(queue[e]) : \A h \in handling : h.seq # queue[e][i].seq
QueuedNotDue ==
    \A e \in SchedEps : \A i \in 1..Len(queue[e]) :
        \A j \in 1..Len(due) : due[j].urb.seq # queue[e][i].seq
QueuedNotAnswered ==
    \A e \in SchedEps : \A i \in 1..Len(queue[e]) :
        \A j \in 1..Len(answered) : answered[j].seq # queue[e][i].seq

QueuedOnce ==
    /\ QueueOrdered /\ QueuesApart /\ QueuedNotCancelled /\ QueuedNotHandled /\ QueuedNotDue
    /\ QueuedNotAnswered

\* The URB of an endpoint that is on its way is the one processing names.
OnItsWay ==
    started =>
        /\ \A i \in 1..Len(due) : processing[due[i].ep] = due[i].urb.seq
        /\ \A h \in handling : h.conn = nstarts <=> processing[h.ep] = h.seq

\* An endpoint has one URB on its way in a connection.
OneAtATime ==
    /\ \A g, h \in handling : (g.ep = h.ep /\ g.conn = h.conn) => g = h
    /\ \A i, j \in 1..Len(due) : due[i].ep = due[j].ep => i = j
    /\ \A i \in 1..Len(due) : \A h \in handling : h.ep = due[i].ep => h.conn # nstarts

\* Places follow one another in the order of the endpoint.
AnsweredBeforeDue ==
    \A i \in 1..Len(answered), j \in 1..Len(due) :
        (answered[i].ep = due[j].ep /\ answered[i].conn = nstarts) =>
            answered[i].seq < due[j].urb.seq
AnsweredBeforeHandled ==
    \A i \in 1..Len(answered), h \in handling :
        (answered[i].ep = h.ep /\ answered[i].conn = h.conn /\ ~h.sent) => answered[i].seq < h.seq
AnsweredBeforeQueued ==
    \A i \in 1..Len(answered), e \in SchedEps : \A k \in 1..Len(queue[e]) :
        (answered[i].ep = e /\ answered[i].conn = nstarts) => answered[i].seq < queue[e][k].seq
DueBeforeQueued ==
    \A j \in 1..Len(due) : \A k \in 1..Len(queue[due[j].ep]) :
        due[j].urb.seq < queue[due[j].ep][k].seq
HandledBeforeQueued ==
    \A h \in handling : \A k \in 1..Len(queue[h.ep]) :
        h.conn = nstarts => h.seq < queue[h.ep][k].seq

InPlace ==
    /\ AnsweredBeforeDue /\ AnsweredBeforeHandled /\ AnsweredBeforeQueued /\ DueBeforeQueued
    /\ HandledBeforeQueued

AnsweredOrdered ==
    \A i, j \in 1..Len(answered) :
        (i < j /\ answered[i].ep = answered[j].ep /\ answered[i].conn = answered[j].conn)
            => answered[i].seq < answered[j].seq

SchedInv ==
    /\ SchedTypes /\ HeadArmed /\ Numbered /\ Stopped /\ QueueCurrent /\ DueCurrent
    /\ QueuedOnce /\ OnItsWay /\ OneAtATime /\ InPlace /\ AnsweredOrdered
    /\ CancelledStaysSilent /\ UrbsHaveWakeup

------------------------------------------------------------------------------
(* The operators.                                                            *)

\* A set of numbers has a least one: schedule_next's choice is among the heads.
LEMMA LeastTime ==
    ASSUME NEW S, S \subseteq Nat, S # {}
    PROVE  (CHOOSE t \in S : \A u \in S : t <= u) \in S
<1>1. PICK x \in S : \A y \in S : ~(<<y, x>> \in OpToRel(<, Nat))
    BY NatLessThanWellFounded, WFMin
<1>2. \A y \in S : ~(y < x)
    BY <1>1, Zenon DEF OpToRel
<1>3. \A y \in S : x <= y
    BY <1>2
<1> QED
    BY <1>3

\* SetToSeq lists each element of a finite set once.
LEMMA ListOfSet ==
    ASSUME NEW S, IsFiniteSet(S)
    PROVE  /\ SetToSeq(S) \in Seq(S)
           /\ \A i, j \in 1..Len(SetToSeq(S)) : SetToSeq(S)[i] = SetToSeq(S)[j] => i = j
<1>1. Cardinality(S) \in Nat /\ ExistsBijection(1..Cardinality(S), S)
    BY FS_CardinalityType
<1>2. \E f \in [1..Cardinality(S) -> S] : IsInjective(f)
    BY <1>1 DEF ExistsBijection, Bijection, Injection
<1>3. SetToSeq(S) \in [1..Cardinality(S) -> S] /\ IsInjective(SetToSeq(S))
    BY <1>2 DEF SetToSeq
<1> QED
    BY <1>1, <1>3 DEF IsInjective

\* RemoveAt closes the gap.
LEMMA WithoutOne ==
    ASSUME NEW S, NEW q \in Seq(S), NEW i \in 1..Len(q)
    PROVE  /\ RemoveAt(q, i) \in Seq(S) /\ Len(RemoveAt(q, i)) = Len(q) - 1
           /\ \A k \in 1..Len(q) - 1 : RemoveAt(q, i)[k] = q[IF k < i THEN k ELSE k + 1]
<1> DEFINE a == SubSeq(q, 1, i - 1)
           z == SubSeq(q, i + 1, Len(q))
<1>1. /\ a \in Seq(S) /\ Len(a) = i - 1 /\ \A k \in 1..i - 1 : a[k] = q[k]
      /\ z \in Seq(S) /\ Len(z) = Len(q) - i /\ \A k \in 1..Len(q) - i : z[k] = q[i + k]
    OBVIOUS
<1> HIDE DEF a, z
<1>2. a \o z \in Seq(S) /\ Len(a \o z) = Len(q) - 1
    BY <1>1
<1>3. ASSUME NEW k \in 1..Len(q) - 1 PROVE (a \o z)[k] = q[IF k < i THEN k ELSE k + 1]
    <2>1. CASE k < i
        BY <1>1, <2>1
    <2>2. CASE ~(k < i)
        <3>1. (a \o z)[k] = z[k - (i - 1)] /\ k - (i - 1) \in 1..Len(q) - i
            BY <1>1, <2>2
        <3> QED
            BY <1>1, <2>2, <3>1
    <2> QED
        BY <2>1, <2>2
<1>4. RemoveAt(q, i) = a \o z
    BY DEF RemoveAt, a, z
<1> QED
    BY <1>2, <1>3, <1>4

\* The next frame boundary lies ahead.
LEMMA FrameAhead ==
    ASSUME NEW t \in Nat
    PROVE  AlignToFrame(t) \in Nat
    BY TransferSchedulerAssumption DEF TransferSchedulerAssumption, AlignToFrame

\* arm_next sets the time of the head and leaves everything else in place.
LEMMA ArmsHead ==
    ASSUME NEW e \in SchedEps, NEW q \in Seq(Urb), NEW l \in Nat, now \in Nat
    PROVE  /\ ArmNext(e, q, l).queue \in Seq(Urb) /\ ArmNext(e, q, l).last \in Nat
           /\ Len(ArmNext(e, q, l).queue) = Len(q)
           /\ \A k \in 1..Len(q) :
                 /\ ArmNext(e, q, l).queue[k].seq = q[k].seq
                 /\ ArmNext(e, q, l).queue[k].conn = q[k].conn
                 /\ k > 1 => ArmNext(e, q, l).queue[k] = q[k]
<1> DEFINE base == IF l = 0 THEN now ELSE l
           at == IF e \in IsoEps THEN Greater(now, base + Head(q).delay)
                 ELSE AlignToFrame(Greater(now, base))
<1>1. CASE q = <<>>
    BY <1>1 DEF ArmNext
<1>2. CASE q # <<>>
    <2>1. q[1] \in Urb /\ Head(q) = q[1] /\ base \in Nat
        BY <1>2
    <2>2. Greater(now, base + Head(q).delay) \in Nat
        BY <2>1 DEF Urb, Greater
    <2>3. AlignToFrame(Greater(now, base)) \in Nat
        BY <2>1, FrameAhead DEF Greater
    <2>4. at \in Nat
        BY <2>2, <2>3
    <2> HIDE DEF at
    <2>a. /\ [q[1] EXCEPT !.at = at] \in Urb
          /\ [q[1] EXCEPT !.at = at].seq = q[1].seq /\ [q[1] EXCEPT !.at = at].conn = q[1].conn
        BY <2>1, <2>4 DEF Urb
    <2>b. PICK u : u = [q[1] EXCEPT !.at = at]
        BY Zenon
    <2>5. u \in Urb /\ u = [q[1] EXCEPT !.at = at] /\ u.seq = q[1].seq /\ u.conn = q[1].conn
        BY <2>a, <2>b, Zenon
    <2>6. ArmNext(e, q, l) = [queue |-> <<u>> \o Tail(q), last |-> at]
        BY <1>2, <2>1, <2>5 DEF ArmNext, at
    <2>7. /\ <<u>> \o Tail(q) \in Seq(Urb) /\ Len(<<u>> \o Tail(q)) = Len(q)
          /\ (<<u>> \o Tail(q))[1] = u
          /\ \A k \in 2..Len(q) : (<<u>> \o Tail(q))[k] = q[k]
        <3>1. u \in Urb /\ Tail(q) \in Seq(Urb) /\ Len(Tail(q)) = Len(q) - 1
              /\ \A k \in 1..Len(q) - 1 : Tail(q)[k] = q[k + 1]
            BY <1>2, <2>5
        <3>2. <<u>> \in Seq(Urb) /\ Len(<<u>>) = 1 /\ <<u>>[1] = u
            BY <3>1
        <3> HIDE <2>5
        <3> QED
            BY <1>2, <3>1, <3>2
    <2>8. /\ ArmNext(e, q, l).queue = <<u>> \o Tail(q) /\ ArmNext(e, q, l).last = at
          /\ u \in Urb /\ u.seq = q[1].seq /\ u.conn = q[1].conn
        <3>1. ArmNext(e, q, l).queue = <<u>> \o Tail(q) /\ ArmNext(e, q, l).last = at
            BY <2>6
        <3> QED
            BY <2>5, <3>1, Zenon
    <2> HIDE DEF base
    <2> QED
        BY <1>2, <2>4, <2>7, <2>8
<1> QED
    BY <1>1, <1>2

------------------------------------------------------------------------------
\* The elements of the queues and the fields of the records.
LEMMA Elements ==
    ASSUME SchedTypes
    PROVE  /\ \A e \in SchedEps :
                 /\ queue[e] \in Seq(Urb) /\ Len(queue[e]) \in Nat /\ processing[e] \in Nat
                 /\ \A i \in 1..Len(queue[e]) :
                       queue[e][i].seq \in Nat \ {0} /\ queue[e][i].conn \in Nat
           /\ Len(due) \in Nat
           /\ \A i \in 1..Len(due) :
                 /\ due[i].ep \in SchedEps
                 /\ due[i].urb.seq \in Nat \ {0} /\ due[i].urb.conn \in Nat
           /\ \A h \in handling : /\ h.ep \in SchedEps /\ h.seq \in Nat \ {0}
                                  /\ h.conn \in Nat /\ h.sent \in BOOLEAN
           /\ Len(answered) \in Nat
           /\ \A i \in 1..Len(answered) : answered[i].seq \in Nat \ {0} /\ answered[i].conn \in Nat
           /\ nurbs \in Nat /\ nstarts \in Nat
<1>1. \A e \in SchedEps : queue[e] \in Seq(Urb) /\ Len(queue[e]) \in Nat /\ processing[e] \in Nat
    BY DEF SchedTypes
<1>2. ASSUME NEW e \in SchedEps, NEW i \in 1..Len(queue[e])
      PROVE  queue[e][i].seq \in Nat \ {0} /\ queue[e][i].conn \in Nat
    <2>1. queue[e][i] \in Urb
        BY <1>1
    <2> QED
        BY <2>1 DEF Urb
<1>3. Len(due) \in Nat /\ Len(answered) \in Nat /\ nurbs \in Nat /\ nstarts \in Nat
    BY TransferSchedulerAssumption DEF SchedTypes, TransferSchedulerAssumption
<1>4. ASSUME NEW i \in 1..Len(due)
      PROVE  due[i].ep \in SchedEps /\ due[i].urb.seq \in Nat \ {0} /\ due[i].urb.conn \in Nat
    <2>1. due[i] \in Due
        BY DEF SchedTypes
    <2>2. due[i].ep \in SchedEps /\ due[i].urb \in Urb
        BY <2>1 DEF Due
    <2> QED
        BY <2>2 DEF Urb
<1>5. ASSUME NEW h \in handling
      PROVE  h.ep \in SchedEps /\ h.seq \in Nat \ {0} /\ h.conn \in Nat /\ h.sent \in BOOLEAN
    <2>1. h \in Handled
        BY DEF SchedTypes
    <2> QED
        BY <2>1 DEF Handled
<1>6. ASSUME NEW i \in 1..Len(answered)
      PROVE  answered[i].seq \in Nat \ {0} /\ answered[i].conn \in Nat
    <2>1. answered[i] \in SchedReply
        BY DEF SchedTypes
    <2> QED
        BY <2>1 DEF SchedReply
<1> QED
    BY <1>1, <1>2, <1>3, <1>4, <1>5, <1>6

\* What posting a handler to the io_context and running the oldest do to it.
LEMMA AppendedMember ==
    ASSUME NEW S, NEW q \in Seq(S), NEW x \in S
    PROVE  ToSet(Append(q, x)) = ToSet(q) \cup {x}
<1>1. /\ Len(q) \in Nat /\ DOMAIN q = 1..Len(q) /\ DOMAIN Append(q, x) = 1..Len(q) + 1
      /\ \A i \in 1..Len(q) : Append(q, x)[i] = q[i]
      /\ Append(q, x)[Len(q) + 1] = x
    OBVIOUS
<1> QED
    BY <1>1 DEF ToSet

LEMMA TailMembers ==
    ASSUME NEW S, NEW q \in Seq(S), q # <<>>
    PROVE  /\ Tail(q) \in Seq(S)
           /\ \A x : x \in ToSet(q) <=> x = Head(q) \/ x \in ToSet(Tail(q))
<1>1. /\ Len(q) \in Nat \ {0} /\ DOMAIN q = 1..Len(q) /\ DOMAIN Tail(q) = 1..Len(q) - 1
      /\ \A i \in 1..Len(q) - 1 : Tail(q)[i] = q[i + 1]
      /\ Head(q) = q[1] /\ Tail(q) \in Seq(S)
    OBVIOUS
<1>2. ASSUME NEW x, x \in ToSet(q) PROVE x = Head(q) \/ x \in ToSet(Tail(q))
    <2>1. PICK i \in 1..Len(q) : x = q[i]
        BY <1>1, <1>2 DEF ToSet
    <2>2. CASE i # 1
        <3>1. i - 1 \in 1..Len(q) - 1 /\ Tail(q)[i - 1] = x
            BY <1>1, <2>1, <2>2
        <3> QED
            BY <1>1, <3>1 DEF ToSet
    <2> QED
        BY <1>1, <2>1, <2>2
<1>3. ASSUME NEW x, x = Head(q) \/ x \in ToSet(Tail(q)) PROVE x \in ToSet(q)
    BY <1>1, <1>3 DEF ToSet
<1> QED
    BY <1>1, <1>2, <1>3

\* There is a time to wait for exactly when a URB waits on an idle endpoint.
LEMMA HeadsWait ==
    ASSUME NEW q, NEW p
    PROVE  HeadTimes(q, p) # {} <=> \E e \in SchedEps : p[e] = 0 /\ q[e] # <<>>
    BY DEF HeadTimes

\* schedule_next sets the timer unless no URB waits.
LEMMA TimerIsSet ==
    ASSUME NEW q \in [SchedEps -> Seq(Urb)], NEW p, NEW io \in Seq(IoHandler),
           ScheduleNext(q, p, io)
    PROVE  /\ \/ HeadTimes(q, p) = {} /\ UNCHANGED <<timer_pending, expires>>
              \/ timer_pending' = TRUE /\ expires' \in Nat
           /\ io_queue' \in Seq(IoHandler) /\ ToSet(io) \subseteq ToSet(io_queue')
<1>1. ASSUME NEW e \in SchedEps, q[e] # <<>> PROVE Head(q[e]).at \in Nat
    <2>1. q[e] \in Seq(Urb)
        OBVIOUS
    <2>2. Head(q[e]) \in Urb
        BY <1>1, <2>1
    <2> QED
        BY <2>2 DEF Urb
<1>2. HeadTimes(q, p) \subseteq Nat
    BY <1>1 DEF HeadTimes
<1>3. \/ HeadTimes(q, p) = {} /\ UNCHANGED <<timer_pending, expires>>
      \/ timer_pending' = TRUE /\ expires' \in Nat
    BY <1>2, LeastTime DEF ScheduleNext
<1>4. io_queue' = io \/ io_queue' = Append(io, "aborted")
    BY DEF ScheduleNext, CancelTimer
<1>5. io_queue' \in Seq(IoHandler) /\ ToSet(io) \subseteq ToSet(io_queue')
    <2>1. CASE io_queue' = io
        BY <2>1
    <2>2. CASE io_queue' = Append(io, "aborted")
        <3>1. ToSet(io_queue') = ToSet(io) \cup {"aborted"}
            BY <2>2, AppendedMember DEF IoHandler
        <3> QED
            BY <2>2, <3>1 DEF IoHandler
    <2> QED
        BY <1>4, <2>1, <2>2
<1> QED
    BY <1>3, <1>5

\* on_urb_done lets the endpoint go and sees to the URBs behind it.
LEMMA DoneLetsGo ==
    ASSUME SchedTypes, UrbsHaveWakeup, NEW e \in SchedEps, NEW s, OnUrbDone(e, s),
           UNCHANGED <<started, queue, timer_pending, expires>>
    PROVE  /\ processing' \in [SchedEps -> Nat] /\ io_queue' \in Seq(IoHandler)
           /\ ~started => processing' = processing
           /\ \A f \in SchedEps : processing'[f] = 0 \/ processing'[f] = processing[f]
           /\ \A f \in SchedEps : f # e \/ processing[f] # s => processing'[f] = processing[f]
           /\ UrbsHaveWakeup'
<1>1. CASE ~(started /\ processing[e] = s)
    <2>1. UNCHANGED <<processing, io_queue>>
        BY <1>1 DEF OnUrbDone
    <2>2. HeadTimes(queue, processing)' = HeadTimes(queue, processing)
        BY <2>1 DEF HeadTimes
    <2> QED
        BY <2>1, <2>2 DEF SchedTypes, UrbsHaveWakeup
<1>2. CASE started /\ processing[e] = s
    <2>1. /\ processing' = [processing EXCEPT ![e] = 0]
          /\ io_queue' = IF queue[e] # <<>> THEN Kick(io_queue) ELSE io_queue
        BY <1>2 DEF OnUrbDone
    <2>2. /\ processing \in [SchedEps -> Nat] /\ io_queue \in Seq(IoHandler)
          /\ "schedule" \in IoHandler
        BY DEF SchedTypes, IoHandler
    <2>3. /\ io_queue' \in Seq(IoHandler) /\ ToSet(io_queue) \subseteq ToSet(io_queue')
          /\ queue[e] # <<>> /\ ~timer_pending => "schedule" \in ToSet(io_queue')
        <3>1. CASE queue[e] = <<>> \/ timer_pending
            BY <2>1, <2>2, <3>1 DEF Kick
        <3>2. CASE queue[e] # <<>> /\ ~timer_pending
            <4>1. io_queue' = Append(io_queue, "schedule")
                BY <2>1, <3>2 DEF Kick
            <4>2. ToSet(io_queue') = ToSet(io_queue) \cup {"schedule"}
                BY <2>2, <4>1, AppendedMember
            <4> QED
                BY <2>2, <4>1, <4>2
        <3> QED
            BY <3>1, <3>2
    <2>4. /\ processing' \in [SchedEps -> Nat]
          /\ \A f \in SchedEps : f # e => processing'[f] = processing[f]
          /\ processing'[e] = 0
        BY <2>1, <2>2
    <2>5. ASSUME HeadTimes(queue, processing)' # {}
          PROVE  HeadTimes(queue, processing) # {} \/ queue[e] # <<>>
        <3>1. PICK f \in SchedEps : processing'[f] = 0 /\ queue[f] # <<>>
            BY <2>5 DEF HeadTimes
        <3>2. CASE f = e
            BY <3>1, <3>2
        <3>3. CASE f # e
            BY <2>4, <3>1, <3>3, HeadsWait
        <3> QED
            BY <3>2, <3>3
    <2>6. UrbsHaveWakeup'
        BY <1>2, <2>3, <2>5 DEF UrbsHaveWakeup
    <2> QED
        BY <1>2, <2>3, <2>4, <2>6
<1> QED
    BY <1>1, <1>2

\* What a step that only takes URBs out of queues keeps of their order; m[f][k]
\* is where the k-th URB of f was.
LEMMA QueuesShrink ==
    ASSUME SchedTypes, QueueNumbered, QueueCurrent, QueueOrdered, QueuesApart, QueuedNotCancelled,
           QueuedNotHandled, QueuedNotAnswered, AnsweredBeforeQueued, HandledBeforeQueued, NEW m,
           \A f \in SchedEps : \A k \in 1..Len(queue'[f]) :
               /\ m[f][k] \in 1..Len(queue[f])
               /\ queue'[f][k].seq = queue[f][m[f][k]].seq
               /\ queue'[f][k].conn = queue[f][m[f][k]].conn,
           \A f \in SchedEps : \A i, j \in 1..Len(queue'[f]) : i < j => m[f][i] < m[f][j],
           UNCHANGED <<nurbs, nstarts, handling, answered>>
    PROVE  /\ QueueNumbered' /\ QueueCurrent' /\ QueueOrdered' /\ QueuesApart'
           /\ QueuedNotHandled' /\ QueuedNotAnswered' /\ AnsweredBeforeQueued'
           /\ HandledBeforeQueued'
           /\ cancelled_urbs' = cancelled_urbs => QueuedNotCancelled'
<1>1. QueueNumbered'
    BY DEF QueueNumbered
<1>2. QueueCurrent'
    BY DEF QueueCurrent
<1>3. QueueOrdered'
    BY DEF QueueOrdered
<1>4. QueuesApart'
    <2>1. ASSUME NEW e \in SchedEps, NEW f \in SchedEps, e # f,
                 NEW i \in 1..Len(queue'[e]), NEW j \in 1..Len(queue'[f])
          PROVE  queue'[e][i].seq # queue'[f][j].seq
        <3>1. /\ m[e][i] \in 1..Len(queue[e]) /\ queue'[e][i].seq = queue[e][m[e][i]].seq
              /\ m[f][j] \in 1..Len(queue[f]) /\ queue'[f][j].seq = queue[f][m[f][j]].seq
            OBVIOUS
        <3>2. queue[e][m[e][i]].seq # queue[f][m[f][j]].seq
            BY <2>1, <3>1 DEF QueuesApart
        <3> QED
            BY <3>1, <3>2
    <2> QED
        BY <2>1 DEF QueuesApart
<1>5. QueuedNotHandled'
    BY DEF QueuedNotHandled
<1>a. QueuedNotAnswered'
    <2>1. ASSUME NEW e \in SchedEps, NEW i \in 1..Len(queue'[e]), NEW j \in 1..Len(answered)
          PROVE  answered[j].seq # queue'[e][i].seq
        <3>1. m[e][i] \in 1..Len(queue[e]) /\ queue'[e][i].seq = queue[e][m[e][i]].seq
            OBVIOUS
        <3>2. answered[j].seq # queue[e][m[e][i]].seq
            BY <3>1 DEF QueuedNotAnswered
        <3> QED
            BY <3>1, <3>2
    <2> QED
        BY <2>1 DEF QueuedNotAnswered
<1>6. AnsweredBeforeQueued'
    <2>1. ASSUME NEW i \in 1..Len(answered), NEW e \in SchedEps, NEW k \in 1..Len(queue'[e]),
                 answered[i].ep = e, answered[i].conn = nstarts
          PROVE  answered[i].seq < queue'[e][k].seq
        BY <2>1 DEF AnsweredBeforeQueued
    <2> QED
        BY <2>1 DEF AnsweredBeforeQueued
<1>7. HandledBeforeQueued'
    <2>1. \A h \in handling : h.ep \in SchedEps
        BY Elements
    <2> QED
        BY <2>1 DEF HandledBeforeQueued
<1>8. cancelled_urbs' = cancelled_urbs => QueuedNotCancelled'
    <2>1. ASSUME NEW e \in SchedEps, NEW i \in 1..Len(queue'[e])
          PROVE  queue'[e][i].seq \notin cancelled_urbs
        <3>1. m[e][i] \in 1..Len(queue[e]) /\ queue'[e][i].seq = queue[e][m[e][i]].seq
            OBVIOUS
        <3> QED
            BY <3>1 DEF QueuedNotCancelled
    <2> QED
        BY <2>1 DEF QueuedNotCancelled
<1> QED
    BY <1>1, <1>2, <1>3, <1>4, <1>5, <1>a, <1>6, <1>7, <1>8

\* Every step preserves the invariant.
LEMMA SchedStep == SchedInv /\ [SchedNext]_schedVars => SchedInv'
<1> SUFFICES ASSUME SchedInv, [SchedNext]_schedVars PROVE SchedInv'
    OBVIOUS
<1>0. /\ SchedTypes /\ HeadArmed /\ Numbered /\ Stopped /\ QueueCurrent /\ DueCurrent
      /\ QueuedOnce /\ OnItsWay /\ OneAtATime /\ InPlace /\ AnsweredOrdered
    /\ CancelledStaysSilent /\ UrbsHaveWakeup
    BY DEF SchedInv
<1>t. /\ \A e \in SchedEps :
            /\ queue[e] \in Seq(Urb) /\ Len(queue[e]) \in Nat /\ processing[e] \in Nat
            /\ \A i \in 1..Len(queue[e]) :
                  queue[e][i].seq \in Nat \ {0} /\ queue[e][i].conn \in Nat
      /\ Len(due) \in Nat
      /\ \A i \in 1..Len(due) :
            /\ due[i].ep \in SchedEps
            /\ due[i].urb.seq \in Nat \ {0} /\ due[i].urb.conn \in Nat
      /\ \A h \in handling : /\ h.ep \in SchedEps /\ h.seq \in Nat \ {0}
                             /\ h.conn \in Nat /\ h.sent \in BOOLEAN
      /\ Len(answered) \in Nat
      /\ \A i \in 1..Len(answered) : answered[i].seq \in Nat \ {0} /\ answered[i].conn \in Nat
      /\ nurbs \in Nat /\ nstarts \in Nat
    BY <1>0, Elements
<1>p. /\ QueueNumbered /\ ProcessingNumbered /\ DueNumbered /\ HandlingNumbered
      /\ AnsweredNumbered
      /\ QueueOrdered /\ QueuesApart /\ QueuedNotCancelled /\ QueuedNotHandled /\ QueuedNotDue
      /\ QueuedNotAnswered
      /\ AnsweredBeforeDue /\ AnsweredBeforeHandled /\ AnsweredBeforeQueued /\ DueBeforeQueued
      /\ HandledBeforeQueued
    BY <1>0 DEF Numbered, QueuedOnce, InPlace
<1>1. CASE Start
    <2>a. /\ started' = TRUE /\ nstarts < MaxStarts /\ nstarts' = nstarts + 1
          /\ UNCHANGED <<now, joining, queue, processing, last_scheduled, timer_pending,
                         expires, io_queue, due, handling, answered, cancelled_urbs, nurbs>>
        BY <1>1 DEF Start
    <2>b. /\ \A e \in SchedEps : queue[e] = <<>> /\ processing[e] = 0
          /\ due = <<>> /\ ~timer_pending
        BY <1>0, <1>1 DEF Start, Stopped, NoUrbs, Nothing
    <2>1. SchedTypes'
        BY <1>0, <1>t, <2>a, TransferSchedulerAssumption DEF SchedTypes,
           TransferSchedulerAssumption
    <2>2. HeadArmed'
        BY <1>0, <2>a, <2>b DEF HeadArmed
    <2>3. Numbered'
        <3>1. QueueNumbered'
            BY <1>p, <1>t, <2>a, <2>b DEF QueueNumbered
        <3>2. ProcessingNumbered'
            BY <1>p, <1>t, <2>a, <2>b DEF ProcessingNumbered
        <3>3. DueNumbered'
            BY <1>p, <1>t, <2>a, <2>b DEF DueNumbered
        <3>4. HandlingNumbered'
            BY <1>p, <1>t, <2>a, <2>b DEF HandlingNumbered
        <3>5. AnsweredNumbered'
            BY <1>p, <1>t, <2>a, <2>b DEF AnsweredNumbered
        <3> QED
            BY <3>1, <3>2, <3>3, <3>4, <3>5 DEF Numbered
    <2>4. Stopped'
        BY <1>0, <2>a, <2>b DEF Stopped
    <2>5. QueueCurrent'
        BY <1>0, <1>t, <2>a, <2>b DEF QueueCurrent
    <2>6. DueCurrent'
        BY <1>0, <1>t, <2>a, <2>b DEF DueCurrent
    <2>7. QueuedOnce'
        <3>1. QueueOrdered'
            BY <1>p, <1>t, <2>a, <2>b DEF QueueOrdered
        <3>2. QueuesApart'
            BY <1>p, <1>t, <2>a, <2>b DEF QueuesApart
        <3>3. QueuedNotCancelled'
            BY <1>p, <1>t, <2>a, <2>b DEF QueuedNotCancelled
        <3>4. QueuedNotHandled'
            BY <1>p, <1>t, <2>a, <2>b DEF QueuedNotHandled
        <3>5. QueuedNotDue'
            BY <1>p, <1>t, <2>a, <2>b DEF QueuedNotDue
        <3>6. QueuedNotAnswered'
            BY <1>p, <1>t, <2>a, <2>b DEF QueuedNotAnswered
        <3> QED
            BY <3>1, <3>2, <3>3, <3>4, <3>5, <3>6 DEF QueuedOnce
    <2>8. OnItsWay'
        <3>1. \A h \in handling : h.conn # nstarts' /\ processing'[h.ep] # h.seq
            BY <1>p, <1>t, <2>a, <2>b DEF HandlingNumbered
        <3> QED
            BY <2>a, <2>b, <3>1 DEF OnItsWay
    <2>9. OneAtATime'
        BY <1>0, <1>t, <2>a, <2>b DEF OneAtATime
    <2>10. InPlace'
        <3>1. AnsweredBeforeDue'
            BY <1>p, <1>t, <2>a, <2>b DEF AnsweredBeforeDue
        <3>2. AnsweredBeforeHandled'
            BY <1>p, <1>t, <2>a, <2>b DEF AnsweredBeforeHandled
        <3>3. AnsweredBeforeQueued'
            BY <1>p, <1>t, <2>a, <2>b DEF AnsweredBeforeQueued
        <3>4. DueBeforeQueued'
            BY <1>p, <1>t, <2>a, <2>b DEF DueBeforeQueued
        <3>5. HandledBeforeQueued'
            BY <1>p, <1>t, <2>a, <2>b DEF HandledBeforeQueued
        <3> QED
            BY <3>1, <3>2, <3>3, <3>4, <3>5 DEF InPlace
    <2>11. AnsweredOrdered'
        BY <1>0, <1>t, <2>a, <2>b DEF AnsweredOrdered
    <2>12. CancelledStaysSilent'
        BY <1>0, <1>t, <2>a, <2>b DEF CancelledStaysSilent
    <2>13. UrbsHaveWakeup'
        BY <1>0, <2>a, <2>b DEF UrbsHaveWakeup, HeadTimes
    <2> QED
        BY <2>1, <2>2, <2>3, <2>4, <2>5, <2>6, <2>7, <2>8, <2>9, <2>10, <2>11, <2>12, <2>13
           DEF SchedInv
<1>2. CASE Stop
    <2>a. /\ started' = FALSE /\ joining' = TRUE
          /\ queue' = NoUrbs /\ processing' = Nothing /\ last_scheduled' = Nothing
          /\ timer_pending' = FALSE /\ expires' = NoTimer
          /\ UNCHANGED <<now, due, handling, answered, cancelled_urbs, nurbs, nstarts>>
        BY <1>2 DEF Stop
    <2>b. \A e \in SchedEps : Len(queue'[e]) = 0 /\ processing'[e] = 0
        BY <2>a DEF NoUrbs, Nothing
    <2>1. SchedTypes'
        <3>1. io_queue' \in Seq(IoHandler)
            BY <1>0, <1>2 DEF Stop, CancelTimer, SchedTypes, IoHandler
        <3>2. /\ queue' \in [SchedEps -> Seq(Urb)] /\ processing' \in [SchedEps -> Nat]
              /\ last_scheduled' \in [SchedEps -> Nat]
            BY <2>a DEF NoUrbs, Nothing
        <3> QED
            BY <1>0, <2>a, <3>1, <3>2 DEF SchedTypes
    <2>2. HeadArmed'
        BY <1>0, <2>a, <2>b DEF HeadArmed
    <2>3. Numbered'
        <3>1. QueueNumbered'
            BY <1>p, <1>t, <2>a, <2>b DEF QueueNumbered
        <3>2. ProcessingNumbered'
            BY <1>p, <1>t, <2>a, <2>b DEF ProcessingNumbered
        <3>3. DueNumbered'
            BY <1>p, <1>t, <2>a, <2>b DEF DueNumbered
        <3>4. HandlingNumbered'
            BY <1>p, <1>t, <2>a, <2>b DEF HandlingNumbered
        <3>5. AnsweredNumbered'
            BY <1>p, <1>t, <2>a, <2>b DEF AnsweredNumbered
        <3> QED
            BY <3>1, <3>2, <3>3, <3>4, <3>5 DEF Numbered
    <2>4. Stopped'
        BY <1>0, <2>a, <2>b DEF Stopped
    <2>5. QueueCurrent'
        BY <1>0, <1>t, <2>a, <2>b DEF QueueCurrent
    <2>6. DueCurrent'
        BY <1>0, <1>t, <2>a, <2>b DEF DueCurrent
    <2>7. QueuedOnce'
        <3>1. QueueOrdered'
            BY <1>p, <1>t, <2>a, <2>b DEF QueueOrdered
        <3>2. QueuesApart'
            BY <1>p, <1>t, <2>a, <2>b DEF QueuesApart
        <3>3. QueuedNotCancelled'
            BY <1>p, <1>t, <2>a, <2>b DEF QueuedNotCancelled
        <3>4. QueuedNotHandled'
            BY <1>p, <1>t, <2>a, <2>b DEF QueuedNotHandled
        <3>5. QueuedNotDue'
            BY <1>p, <1>t, <2>a, <2>b DEF QueuedNotDue
        <3>6. QueuedNotAnswered'
            BY <1>p, <1>t, <2>a, <2>b DEF QueuedNotAnswered
        <3> QED
            BY <3>1, <3>2, <3>3, <3>4, <3>5, <3>6 DEF QueuedOnce
    <2>8. OnItsWay'
        BY <1>0, <1>t, <2>a, <2>b DEF OnItsWay
    <2>9. OneAtATime'
        BY <1>0, <1>t, <2>a, <2>b DEF OneAtATime
    <2>10. InPlace'
        <3>1. AnsweredBeforeDue'
            BY <1>p, <1>t, <2>a, <2>b DEF AnsweredBeforeDue
        <3>2. AnsweredBeforeHandled'
            BY <1>p, <1>t, <2>a, <2>b DEF AnsweredBeforeHandled
        <3>3. AnsweredBeforeQueued'
            BY <1>p, <1>t, <2>a, <2>b DEF AnsweredBeforeQueued
        <3>4. DueBeforeQueued'
            BY <1>p, <1>t, <2>a, <2>b DEF DueBeforeQueued
        <3>5. HandledBeforeQueued'
            BY <1>p, <1>t, <2>a, <2>b DEF HandledBeforeQueued
        <3> QED
            BY <3>1, <3>2, <3>3, <3>4, <3>5 DEF InPlace
    <2>11. AnsweredOrdered'
        BY <1>0, <1>t, <2>a, <2>b DEF AnsweredOrdered
    <2>12. CancelledStaysSilent'
        BY <1>0, <1>t, <2>a, <2>b DEF CancelledStaysSilent
    <2>13. UrbsHaveWakeup'
        BY <1>0, <2>a, <2>b DEF UrbsHaveWakeup, HeadTimes
    <2> QED
        BY <2>1, <2>2, <2>3, <2>4, <2>5, <2>6, <2>7, <2>8, <2>9, <2>10, <2>11, <2>12, <2>13
           DEF SchedInv
<1>3. CASE StopJoined
    <2>a. /\ due = <<>> /\ joining' = FALSE
          /\ UNCHANGED <<now, started, queue, processing, last_scheduled, timer_pending,
                         expires, io_queue, due, handling, answered, cancelled_urbs, nurbs, nstarts>>
        BY <1>3 DEF StopJoined
    <2>1. SchedTypes'
        BY <1>0, <2>a DEF SchedTypes
    <2>2. HeadArmed'
        BY <1>0, <2>a DEF HeadArmed
    <2>3. Numbered'
        BY <1>p, <2>a DEF Numbered, QueueNumbered, ProcessingNumbered, DueNumbered,
           HandlingNumbered, AnsweredNumbered
    <2>4. Stopped'
        BY <1>0, <2>a DEF Stopped
    <2>5. QueueCurrent'
        BY <1>0, <2>a DEF QueueCurrent
    <2>6. DueCurrent'
        BY <1>0, <2>a DEF DueCurrent
    <2>7. QueuedOnce'
        BY <1>p, <2>a DEF QueuedOnce, QueueOrdered, QueuesApart, QueuedNotCancelled,
           QueuedNotHandled, QueuedNotDue, QueuedNotAnswered
    <2>8. OnItsWay'
        BY <1>0, <2>a DEF OnItsWay
    <2>9. OneAtATime'
        BY <1>0, <2>a DEF OneAtATime
    <2>10. InPlace'
        BY <1>p, <2>a DEF InPlace, AnsweredBeforeDue, AnsweredBeforeHandled,
           AnsweredBeforeQueued, DueBeforeQueued, HandledBeforeQueued
    <2>11. AnsweredOrdered'
        BY <1>0, <2>a DEF AnsweredOrdered
    <2>12. CancelledStaysSilent'
        BY <1>0, <2>a DEF CancelledStaysSilent
    <2>13. UrbsHaveWakeup'
        BY <1>0, <2>a DEF UrbsHaveWakeup, HeadTimes
    <2> QED
        BY <2>1, <2>2, <2>3, <2>4, <2>5, <2>6, <2>7, <2>8, <2>9, <2>10, <2>11, <2>12, <2>13
           DEF SchedInv
<1>4. CASE SubmitAtOnce
    <2>a. /\ answered' = Append(answered, [ep |-> "none", seq |-> nurbs + 1, conn |-> nstarts])
          /\ nurbs' = nurbs + 1
          /\ UNCHANGED <<now, started, joining, queue, processing, last_scheduled,
                         timer_pending, expires, io_queue, due, handling, cancelled_urbs, nstarts>>
        BY <1>4 DEF SubmitAtOnce
    <2>b. PICK r \in SchedReply : r = [ep |-> "none", seq |-> nurbs + 1, conn |-> nstarts]
        <3>1. [ep |-> "none", seq |-> nurbs + 1, conn |-> nstarts] \in SchedReply
            BY <1>t DEF SchedReply
        <3> QED
            BY <3>1, Zenon
    <2>c. r.ep = "none" /\ r.seq = nurbs + 1 /\ r.conn = nstarts
        BY <2>b
    <2>d. /\ answered' \in Seq(SchedReply)
          /\ Len(answered') = Len(answered) + 1
          /\ answered'[Len(answered) + 1] = r
          /\ \A i \in 1..Len(answered) : answered'[i] = answered[i]
        BY <1>0, <2>a, <2>b DEF SchedTypes
    <2>x. \A i \in 1..Len(answered') :
             (i \in 1..Len(answered) /\ answered'[i] = answered[i]) \/ answered'[i] = r
        BY <1>t, <2>d
    <2>1. SchedTypes'
        BY <1>0, <2>a, <2>c, <2>d DEF SchedTypes
    <2>2. HeadArmed'
        BY <1>0, <2>a DEF HeadArmed
    <2>3. Numbered'
        <3>1. QueueNumbered'
            <4>1. queue' = queue /\ nurbs' = nurbs + 1 /\ nurbs \in Nat
                BY <1>t, <2>a
            <4>2. ASSUME NEW e \in SchedEps, NEW i \in 1..Len(queue[e])
                  PROVE  queue[e][i].seq <= nurbs + 1
                BY <1>p, <1>t DEF QueueNumbered
            <4> QED
                BY <4>1, <4>2 DEF QueueNumbered
        <3>2. ProcessingNumbered'
            BY <1>p, <1>t, <2>a, <2>c, <2>d DEF ProcessingNumbered
        <3>3. DueNumbered'
            BY <1>p, <1>t, <2>a, <2>c, <2>d DEF DueNumbered
        <3>4. HandlingNumbered'
            BY <1>p, <1>t, <2>a, <2>c, <2>d DEF HandlingNumbered
        <3>5. AnsweredNumbered'
            BY <1>p, <1>t, <2>a, <2>c, <2>d DEF AnsweredNumbered
        <3> QED
            BY <3>1, <3>2, <3>3, <3>4, <3>5 DEF Numbered
    <2>4. Stopped'
        BY <1>0, <2>a DEF Stopped
    <2>5. QueueCurrent'
        BY <1>0, <2>a DEF QueueCurrent
    <2>6. DueCurrent'
        BY <1>0, <2>a DEF DueCurrent
    <2>7. QueuedOnce'
        <3>1. QueueOrdered'
            BY <1>p, <2>a DEF QueueOrdered
        <3>2. QueuesApart'
            BY <1>p, <2>a DEF QueuesApart
        <3>3. QueuedNotCancelled'
            BY <1>p, <2>a DEF QueuedNotCancelled
        <3>4. QueuedNotHandled'
            BY <1>p, <2>a DEF QueuedNotHandled
        <3>5. QueuedNotDue'
            BY <1>p, <2>a DEF QueuedNotDue
        <3>6. QueuedNotAnswered'
            <4>1. \A e \in SchedEps : \A i \in 1..Len(queue[e]) : r.seq # queue[e][i].seq
                BY <1>p, <1>t, <2>c DEF QueueNumbered
            <4> QED
                BY <1>p, <2>a, <2>x, <4>1 DEF QueuedNotAnswered
        <3> QED
            BY <3>1, <3>2, <3>3, <3>4, <3>5, <3>6 DEF QueuedOnce
    <2>8. OnItsWay'
        BY <1>0, <2>a DEF OnItsWay
    <2>9. OneAtATime'
        BY <1>0, <2>a DEF OneAtATime
    <2>10. InPlace'
        <3>1. AnsweredBeforeDue'
            <4>1. "none" \notin SchedEps
                BY TransferSchedulerAssumption DEF TransferSchedulerAssumption
            <4>2. ASSUME NEW i \in 1..Len(answered'), NEW j \in 1..Len(due'),
                         answered'[i].ep = due'[j].ep, answered'[i].conn = nstarts
                  PROVE  answered'[i].seq < due'[j].urb.seq
                <5>1. CASE i \in 1..Len(answered) /\ answered'[i] = answered[i]
                    BY <1>p, <2>a, <4>2, <5>1 DEF AnsweredBeforeDue
                <5>2. CASE answered'[i] = r
                    BY <1>t, <2>a, <2>c, <4>1, <4>2, <5>2
                <5> QED
                    BY <2>x, <5>1, <5>2
            <4> QED
                BY <2>a, <4>2 DEF AnsweredBeforeDue
        <3>2. AnsweredBeforeHandled'
            <4>1. "none" \notin SchedEps
                BY TransferSchedulerAssumption DEF TransferSchedulerAssumption
            <4> QED
                BY <1>p, <1>t, <2>a, <2>c, <2>x, <4>1 DEF AnsweredBeforeHandled
        <3>3. AnsweredBeforeQueued'
            <4>1. "none" \notin SchedEps
                BY TransferSchedulerAssumption DEF TransferSchedulerAssumption
            <4> QED
                BY <1>p, <1>t, <2>a, <2>c, <2>x, <4>1 DEF AnsweredBeforeQueued
        <3>4. DueBeforeQueued'
            BY <1>p, <2>a DEF DueBeforeQueued
        <3>5. HandledBeforeQueued'
            BY <1>p, <2>a DEF HandledBeforeQueued
        <3> QED
            BY <3>1, <3>2, <3>3, <3>4, <3>5 DEF InPlace
    <2>11. AnsweredOrdered'
        <3>1. \A i \in 1..Len(answered) : answered[i].seq <= nurbs
            BY <1>p DEF AnsweredNumbered
        <3>2. ASSUME NEW i \in 1..Len(answered), NEW j \in 1..Len(answered) + 1, i < j,
                     answered'[i].ep = answered'[j].ep, answered'[i].conn = answered'[j].conn
              PROVE  answered'[i].seq < answered'[j].seq
            <4>1. CASE j \in 1..Len(answered)
                BY <1>0, <2>d, <3>2, <4>1 DEF AnsweredOrdered
            <4>2. CASE j = Len(answered) + 1
                BY <1>t, <2>c, <2>d, <3>1, <4>2
            <4>3. Len(answered) \in Nat
                BY <1>t
            <4> QED
                BY <4>1, <4>2, <4>3
        <3>3. Len(answered) \in Nat
            BY <1>t
        <3>4. \A i, j \in 1..Len(answered') : i < j => i \in 1..Len(answered) /\ j \in 1..Len(answered) + 1
            BY <2>d, <3>3
        <3> QED
            BY <3>2, <3>4 DEF AnsweredOrdered
    <2>12. CancelledStaysSilent'
        <3>1. r.seq \notin cancelled_urbs
            BY <1>0, <1>t, <2>c DEF SchedTypes
        <3> QED
            BY <1>0, <1>t, <2>a, <2>d, <3>1 DEF CancelledStaysSilent
    <2>13. UrbsHaveWakeup'
        BY <1>0, <2>a DEF UrbsHaveWakeup, HeadTimes
    <2> QED
        BY <2>1, <2>2, <2>3, <2>4, <2>5, <2>6, <2>7, <2>8, <2>9, <2>10, <2>11, <2>12, <2>13
           DEF SchedInv
<1>5. CASE TimerExpires
    <2>a. /\ expires' = NoTimer /\ io_queue' = Append(io_queue, "timer")
          /\ UNCHANGED <<now, started, joining, queue, processing, last_scheduled,
                         timer_pending, due, handling, answered, cancelled_urbs, nurbs, nstarts>>
        BY <1>5 DEF TimerExpires
    <2>1. SchedTypes'
        BY <1>0, <2>a DEF SchedTypes, IoHandler
    <2>2. HeadArmed'
        BY <1>0, <2>a DEF HeadArmed
    <2>3. Numbered'
        BY <1>p, <2>a DEF Numbered, QueueNumbered, ProcessingNumbered, DueNumbered,
           HandlingNumbered, AnsweredNumbered
    <2>4. Stopped'
        BY <1>0, <2>a DEF Stopped
    <2>5. QueueCurrent'
        BY <1>0, <2>a DEF QueueCurrent
    <2>6. DueCurrent'
        BY <1>0, <2>a DEF DueCurrent
    <2>7. QueuedOnce'
        BY <1>p, <2>a DEF QueuedOnce, QueueOrdered, QueuesApart, QueuedNotCancelled,
           QueuedNotHandled, QueuedNotDue, QueuedNotAnswered
    <2>8. OnItsWay'
        BY <1>0, <2>a DEF OnItsWay
    <2>9. OneAtATime'
        BY <1>0, <2>a DEF OneAtATime
    <2>10. InPlace'
        BY <1>p, <2>a DEF InPlace, AnsweredBeforeDue, AnsweredBeforeHandled,
           AnsweredBeforeQueued, DueBeforeQueued, HandledBeforeQueued
    <2>11. AnsweredOrdered'
        BY <1>0, <2>a DEF AnsweredOrdered
    <2>12. CancelledStaysSilent'
        BY <1>0, <2>a DEF CancelledStaysSilent
    <2>13. UrbsHaveWakeup'
        <3>1. "timer" \in ToSet(io_queue')
            BY <1>0, <2>a, AppendedMember, SMTT(30) DEF SchedTypes, IoHandler
        <3> QED
            BY <3>1 DEF UrbsHaveWakeup
    <2> QED
        BY <2>1, <2>2, <2>3, <2>4, <2>5, <2>6, <2>7, <2>8, <2>9, <2>10, <2>11, <2>12, <2>13
           DEF SchedInv
<1>6. CASE ScheduleOnThread
    <2>a. /\ started /\ io_queue # <<>> /\ Head(io_queue) = "schedule"
          /\ UNCHANGED <<now, started, joining, queue, processing, last_scheduled, due,
                         handling, answered, cancelled_urbs, nurbs, nstarts>>
        BY <1>6 DEF ScheduleOnThread, Runs, ThreadFree
    <2>d. PICK io : io = Tail(io_queue)
        BY Zenon
    <2>e. /\ io \in Seq(IoHandler) /\ queue \in [SchedEps -> Seq(Urb)]
          /\ \A x : x \in ToSet(io_queue) <=> x = "schedule" \/ x \in ToSet(io)
        BY <1>0, <2>a, <2>d, TailMembers DEF SchedTypes
    <2>f. \/ timer_pending /\ io_queue' = io /\ UNCHANGED <<timer_pending, expires>>
          \/ ScheduleNext(queue, processing, io)
        BY <1>6, <2>d DEF ScheduleOnThread
    <2>b. /\ \/ timer_pending /\ UNCHANGED <<timer_pending, expires>>
             \/ HeadTimes(queue, processing) = {} /\ UNCHANGED <<timer_pending, expires>>
             \/ timer_pending' = TRUE /\ expires' \in Nat
          /\ io_queue' \in Seq(IoHandler) /\ ToSet(io) \subseteq ToSet(io_queue')
        BY <2>e, <2>f, TimerIsSet
    <2>c. /\ io_queue' \in Seq(IoHandler)
          /\ \A x : x \in ToSet(io_queue) => x = "schedule" \/ x \in ToSet(io_queue')
        BY <2>b, <2>e
    <2>1. SchedTypes'
        BY <1>0, <2>a, <2>b, <2>c DEF SchedTypes
    <2>2. HeadArmed'
        BY <1>0, <2>a DEF HeadArmed
    <2>3. Numbered'
        BY <1>p, <2>a DEF Numbered, QueueNumbered, ProcessingNumbered, DueNumbered,
           HandlingNumbered, AnsweredNumbered
    <2>4. Stopped'
        BY <1>0, <2>a DEF Stopped
    <2>5. QueueCurrent'
        BY <1>0, <2>a DEF QueueCurrent
    <2>6. DueCurrent'
        BY <1>0, <2>a DEF DueCurrent
    <2>7. QueuedOnce'
        BY <1>p, <2>a DEF QueuedOnce, QueueOrdered, QueuesApart, QueuedNotCancelled,
           QueuedNotHandled, QueuedNotDue, QueuedNotAnswered
    <2>8. OnItsWay'
        BY <1>0, <2>a DEF OnItsWay
    <2>9. OneAtATime'
        BY <1>0, <2>a DEF OneAtATime
    <2>10. InPlace'
        BY <1>p, <2>a DEF InPlace, AnsweredBeforeDue, AnsweredBeforeHandled,
           AnsweredBeforeQueued, DueBeforeQueued, HandledBeforeQueued
    <2>11. AnsweredOrdered'
        BY <1>0, <2>a DEF AnsweredOrdered
    <2>12. CancelledStaysSilent'
        BY <1>0, <2>a DEF CancelledStaysSilent
    <2>13. UrbsHaveWakeup'
        <3>1. HeadTimes(queue, processing)' = HeadTimes(queue, processing)
            BY <2>a DEF HeadTimes
        <3> QED
            BY <1>0, <2>a, <2>b, <2>c, <3>1 DEF UrbsHaveWakeup, NoTimer
    <2> QED
        BY <2>1, <2>2, <2>3, <2>4, <2>5, <2>6, <2>7, <2>8, <2>9, <2>10, <2>11, <2>12, <2>13
           DEF SchedInv
<1>7. CASE OnTimerAborted
    <2>a. /\ started /\ io_queue # <<>> /\ Head(io_queue) = "aborted" /\ io_queue' = Tail(io_queue)
          /\ timer_pending' = FALSE
          /\ UNCHANGED <<now, started, joining, queue, processing, last_scheduled, expires,
                         due, handling, answered, cancelled_urbs, nurbs, nstarts>>
        BY <1>7 DEF OnTimerAborted, Runs, ThreadFree
    <2>b. /\ io_queue' \in Seq(IoHandler)
          /\ \A x : x \in ToSet(io_queue) <=> x = "aborted" \/ x \in ToSet(io_queue')
        BY <1>0, <2>a, TailMembers DEF SchedTypes
    <2>1. SchedTypes'
        BY <1>0, <2>a, <2>b DEF SchedTypes
    <2>2. HeadArmed'
        BY <1>0, <2>a DEF HeadArmed
    <2>3. Numbered'
        BY <1>p, <2>a DEF Numbered, QueueNumbered, ProcessingNumbered, DueNumbered,
           HandlingNumbered, AnsweredNumbered
    <2>4. Stopped'
        BY <1>0, <2>a DEF Stopped
    <2>5. QueueCurrent'
        BY <1>0, <2>a DEF QueueCurrent
    <2>6. DueCurrent'
        BY <1>0, <2>a DEF DueCurrent
    <2>7. QueuedOnce'
        BY <1>p, <2>a DEF QueuedOnce, QueueOrdered, QueuesApart, QueuedNotCancelled,
           QueuedNotHandled, QueuedNotDue, QueuedNotAnswered
    <2>8. OnItsWay'
        BY <1>0, <2>a DEF OnItsWay
    <2>9. OneAtATime'
        BY <1>0, <2>a DEF OneAtATime
    <2>10. InPlace'
        BY <1>p, <2>a DEF InPlace, AnsweredBeforeDue, AnsweredBeforeHandled,
           AnsweredBeforeQueued, DueBeforeQueued, HandledBeforeQueued
    <2>11. AnsweredOrdered'
        BY <1>0, <2>a DEF AnsweredOrdered
    <2>12. CancelledStaysSilent'
        BY <1>0, <2>a DEF CancelledStaysSilent
    <2>13. UrbsHaveWakeup'
        <3>1. HeadTimes(queue, processing)' = HeadTimes(queue, processing)
            BY <2>a DEF HeadTimes
        <3> QED
            BY <1>0, <2>a, <2>b, <3>1 DEF UrbsHaveWakeup
    <2> QED
        BY <2>1, <2>2, <2>3, <2>4, <2>5, <2>6, <2>7, <2>8, <2>9, <2>10, <2>11, <2>12, <2>13
           DEF SchedInv
<1>8. CASE OnTimer
    <2>0. PICK served, next : /\ served = {e \in SchedEps : IsDue(e)}
                              /\ next = [e \in SchedEps |->
                                            ArmNext(e, Tail(queue[e]), last_scheduled[e])]
        BY Zenon
    <2>a. /\ started /\ io_queue # <<>>
          /\ UNCHANGED <<now, started, joining, handling, answered, cancelled_urbs, nurbs,
                         nstarts>>
        BY <1>8 DEF OnTimer, Runs, ThreadFree
    <2>b. /\ queue' = [e \in SchedEps |-> IF e \in served THEN next[e].queue ELSE queue[e]]
          /\ processing' = [e \in SchedEps |-> IF e \in served THEN Head(queue[e]).seq
                                               ELSE processing[e]]
          /\ last_scheduled' = [e \in SchedEps |-> IF e \in served THEN next[e].last
                                                   ELSE last_scheduled[e]]
          /\ due' = SetToSeq({[ep |-> e, urb |-> Head(queue[e])] : e \in served})
          /\ \/ /\ HeadTimes(queue', processing') # {}
                /\ ScheduleNext(queue', processing', Tail(io_queue))
             \/ /\ HeadTimes(queue', processing') = {}
                /\ timer_pending' = FALSE /\ io_queue' = Tail(io_queue) /\ UNCHANGED expires
        BY <1>8, <2>0 DEF OnTimer
    <2>c. /\ queue \in [SchedEps -> Seq(Urb)] /\ last_scheduled \in [SchedEps -> Nat]
          /\ processing \in [SchedEps -> Nat] /\ now \in Nat
        BY <1>0 DEF SchedTypes
    <2>d. ASSUME NEW e \in served
          PROVE  /\ e \in SchedEps /\ processing[e] = 0 /\ 1 \in 1..Len(queue[e])
                 /\ queue[e][1] \in Urb /\ Head(queue[e]) = queue[e][1]
                 /\ next[e].queue \in Seq(Urb) /\ next[e].last \in Nat
                 /\ Len(next[e].queue) = Len(queue[e]) - 1
                 /\ \A k \in 1..Len(queue[e]) - 1 :
                       /\ next[e].queue[k].seq = queue[e][k + 1].seq
                       /\ next[e].queue[k].conn = queue[e][k + 1].conn
                       /\ k > 1 => next[e].queue[k] = queue[e][k + 1]
        <3>1. e \in SchedEps /\ processing[e] = 0 /\ queue[e] # <<>>
            BY <2>0 DEF IsDue
        <3>2. PICK z : z = Tail(queue[e])
            BY Zenon
        <3>3. /\ z \in Seq(Urb) /\ Len(z) = Len(queue[e]) - 1 /\ last_scheduled[e] \in Nat
              /\ \A k \in 1..Len(queue[e]) - 1 : z[k] = queue[e][k + 1]
              /\ 1 \in 1..Len(queue[e]) /\ queue[e][1] \in Urb /\ Head(queue[e]) = queue[e][1]
            <4>1. queue[e] \in Seq(Urb) /\ last_scheduled[e] \in Nat
                BY <2>c, <3>1
            <4> QED
                BY <3>1, <3>2, <4>1
        <3>4. PICK a : a = ArmNext(e, z, last_scheduled[e])
            BY Zenon
        <3>5. /\ a.queue \in Seq(Urb) /\ a.last \in Nat
              /\ Len(a.queue) = Len(z)
              /\ \A k \in 1..Len(z) : /\ a.queue[k].seq = z[k].seq
                                      /\ a.queue[k].conn = z[k].conn
                                      /\ k > 1 => a.queue[k] = z[k]
            BY <2>c, <3>1, <3>3, <3>4, ArmsHead, ZenonT(60)
        <3>6. next[e] = a
            BY <2>0, <3>1, <3>2, <3>4
        <3>7. /\ a.queue \in Seq(Urb) /\ a.last \in Nat
              /\ Len(a.queue) = Len(queue[e]) - 1
              /\ \A k \in 1..Len(queue[e]) - 1 :
                       /\ a.queue[k].seq = queue[e][k + 1].seq
                       /\ a.queue[k].conn = queue[e][k + 1].conn
                       /\ k > 1 => a.queue[k] = queue[e][k + 1]
            BY <3>3, <3>5
        <3> QED
            BY <3>1, <3>3, <3>6, <3>7
    <2>e. /\ \A e \in SchedEps : /\ e \in served => queue'[e] = next[e].queue
                                 /\ e \notin served => queue'[e] = queue[e]
          /\ \A e \in SchedEps : /\ e \in served => processing'[e] = queue[e][1].seq
                                 /\ e \notin served => processing'[e] = processing[e]
        BY <2>b, <2>d
    <2>f. /\ queue' \in [SchedEps -> Seq(Urb)] /\ last_scheduled' \in [SchedEps -> Nat]
          /\ processing' \in [SchedEps -> Nat]
        <3>1. queue' \in [SchedEps -> Seq(Urb)]
            BY <2>b, <2>c, <2>d
        <3>2. last_scheduled' \in [SchedEps -> Nat]
            BY <2>b, <2>c, <2>d
        <3>3. \A e \in served : Head(queue[e]).seq \in Nat
            BY <1>t, <2>d
        <3>4. processing' \in [SchedEps -> Nat]
            BY <2>b, <2>c, <3>3
        <3> QED
            BY <3>1, <3>2, <3>4
    <2>g. PICK S : S = {[ep |-> e, urb |-> Head(queue[e])] : e \in served}
        BY Zenon
    <2>h. IsFiniteSet(S)
        <3>1. IsFiniteSet(served)
            BY <2>0, FS_Subset, TransferSchedulerAssumption DEF TransferSchedulerAssumption
        <3>2. [e \in served |-> [ep |-> e, urb |-> Head(queue[e])]] \in Surjection(served, S)
            BY <2>g DEF Surjection
        <3> QED
            BY <3>1, <3>2, FS_Surjection
    <2>i. S \subseteq Due
        <3>1. ASSUME NEW e \in served PROVE [ep |-> e, urb |-> Head(queue[e])] \in Due
            BY <2>d DEF Due
        <3> QED
            BY <2>g, <3>1
    <2>j. /\ due' \in Seq(Due)
          /\ \A j \in 1..Len(due') : due'[j] \in S
          /\ \A i, j \in 1..Len(due') : due'[i] = due'[j] => i = j
        <3>1. /\ due' \in Seq(S)
              /\ \A i, j \in 1..Len(due') : due'[i] = due'[j] => i = j
            BY <2>b, <2>g, <2>h, ListOfSet
        <3> QED
            BY <2>i, <3>1
    <2>k. ASSUME NEW j \in 1..Len(due')
          PROVE  /\ due'[j].ep \in served /\ due'[j].ep \in SchedEps
                 /\ due'[j].urb = queue[due'[j].ep][1]
                 /\ due'[j] = [ep |-> due'[j].ep, urb |-> Head(queue[due'[j].ep])]
                 /\ processing[due'[j].ep] = 0 /\ 1 \in 1..Len(queue[due'[j].ep])
        <3>1. PICK e \in served : due'[j] = [ep |-> e, urb |-> Head(queue[e])]
            BY <2>g, <2>j
        <3>2. due'[j].ep = e /\ due'[j].urb = Head(queue[e])
            BY <3>1
        <3> QED
            BY <2>d, <3>1, <3>2
    <2>l. PICK m : m = [f \in SchedEps |-> [k \in Nat |-> IF f \in served THEN k + 1 ELSE k]]
        BY Zenon
    <2>m. \A f \in SchedEps, k \in Nat : m[f][k] = IF f \in served THEN k + 1 ELSE k
        BY <2>l
    <2>n. ASSUME NEW f \in SchedEps, NEW k \in 1..Len(queue'[f])
          PROVE  /\ m[f][k] \in 1..Len(queue[f])
                 /\ queue'[f][k].seq = queue[f][m[f][k]].seq
                 /\ queue'[f][k].conn = queue[f][m[f][k]].conn
                 /\ k > 1 => queue'[f][k] = queue[f][m[f][k]] /\ m[f][k] > 1
                 /\ f \in served => m[f][k] > 1
        <3>0. Len(queue[f]) \in Nat /\ Len(queue'[f]) \in Nat /\ k \in Nat /\ k >= 1
            BY <2>c, <2>f
        <3>1. CASE f \notin served
            <4>1. m[f][k] = k /\ queue'[f] = queue[f]
                BY <2>e, <2>m, <3>0, <3>1
            <4> QED
                BY <3>0, <3>1, <4>1
        <3>2. CASE f \in served
            <4>1. m[f][k] = k + 1 /\ queue'[f] = next[f].queue
                BY <2>e, <2>m, <3>0, <3>2
            <4>2. k \in 1..Len(queue[f]) - 1
                BY <2>d, <3>0, <3>2, <4>1
            <4> QED
                BY <2>d, <3>0, <3>2, <4>1, <4>2
        <3> QED
            BY <3>1, <3>2
    <2>o. \A f \in SchedEps : \A k, j \in 1..Len(queue'[f]) : k < j => m[f][k] < m[f][j]
        <3> SUFFICES ASSUME NEW f \in SchedEps, NEW k \in 1..Len(queue'[f]), NEW j \in 1..Len(queue'[f]),
                            k < j
                     PROVE  m[f][k] < m[f][j]
            OBVIOUS
        <3>1. Len(queue'[f]) \in Nat
            BY <2>f
        <3>2. k \in Nat /\ j \in Nat
            BY <3>1
        <3>3. /\ m[f][k] = IF f \in served THEN k + 1 ELSE k
              /\ m[f][j] = IF f \in served THEN j + 1 ELSE j
            BY <2>m, <3>2, Zenon
        <3> QED
            BY <3>2, <3>3
    <2>p. /\ QueueNumbered' /\ QueueCurrent' /\ QueueOrdered' /\ QueuesApart'
          /\ QueuedNotHandled' /\ QueuedNotAnswered' /\ AnsweredBeforeQueued'
          /\ HandledBeforeQueued' /\ QueuedNotCancelled'
        BY <1>0, <1>p, <2>a, <2>n, <2>o, QueuesShrink, ZenonT(60)
    <2>r. Tail(io_queue) \in Seq(IoHandler)
        BY <1>0, <2>a DEF SchedTypes
    <2>q. /\ \/ expires' \in Nat
             \/ HeadTimes(queue', processing') = {} /\ timer_pending' = FALSE /\ UNCHANGED expires
          /\ timer_pending' \in BOOLEAN /\ io_queue' \in Seq(IoHandler)
        <3>1. CASE /\ HeadTimes(queue', processing') # {}
                   /\ ScheduleNext(queue', processing', Tail(io_queue))
            BY <2>f, <2>r, <3>1, TimerIsSet
        <3>2. CASE /\ HeadTimes(queue', processing') = {}
                   /\ timer_pending' = FALSE /\ io_queue' = Tail(io_queue) /\ UNCHANGED expires
            BY <2>r, <3>2
        <3> QED
            BY <2>b, <3>1, <3>2
    <2>1. SchedTypes'
        <3>1. io_queue' \in Seq(IoHandler)
            BY <2>q
        <3>2. timer_pending' \in BOOLEAN /\ expires' \in {NoTimer} \cup Nat
            BY <1>0, <2>q DEF SchedTypes
        <3> QED
            BY <1>0, <2>a, <2>f, <2>j, <3>1, <3>2 DEF SchedTypes
    <2>2. HeadArmed'
        BY <1>0, <2>n DEF HeadArmed
    <2>3. Numbered'
        <3>1. QueueNumbered'
            BY <2>p
        <3>2. ProcessingNumbered'
            <4>1. \A e \in served : e \in SchedEps /\ queue[e][1].seq <= nurbs
                BY <1>p, <2>d DEF QueueNumbered
            <4> QED
                BY <1>p, <2>a, <2>e, <4>1 DEF ProcessingNumbered
        <3>3. DueNumbered'
            <4>1. \A e \in SchedEps : 1 \in 1..Len(queue[e]) => queue[e][1].seq <= nurbs
                BY <1>p DEF QueueNumbered
            <4> QED
                BY <2>a, <2>k, <4>1 DEF DueNumbered
        <3>4. HandlingNumbered'
            BY <1>p, <2>a DEF HandlingNumbered
        <3>5. AnsweredNumbered'
            BY <1>p, <2>a DEF AnsweredNumbered
        <3> QED
            BY <3>1, <3>2, <3>3, <3>4, <3>5 DEF Numbered
    <2>4. Stopped'
        BY <2>a DEF Stopped
    <2>5. QueueCurrent'
        BY <2>p
    <2>6. DueCurrent'
        <3>1. \A e \in SchedEps : 1 \in 1..Len(queue[e]) => queue[e][1].conn = nstarts
            BY <1>0 DEF QueueCurrent
        <3> QED
            BY <2>a, <2>k, <3>1, ZenonT(60) DEF DueCurrent
    <2>7. QueuedOnce'
        <3>1. QueueOrdered'
            BY <2>p
        <3>2. QueuesApart'
            BY <2>p
        <3>3. QueuedNotCancelled'
            BY <2>p
        <3>4. QueuedNotHandled'
            BY <2>p
        <3>5. QueuedNotDue'
            <4>1. ASSUME NEW f \in SchedEps, NEW k \in 1..Len(queue'[f]), NEW j \in 1..Len(due')
                  PROVE  due'[j].urb.seq # queue'[f][k].seq
                <5>1. PICK e \in SchedEps : /\ e = due'[j].ep /\ e \in served /\ 1 \in 1..Len(queue[e])
                                            /\ due'[j].urb.seq = queue[e][1].seq
                    BY <2>k
                <5>2. /\ m[f][k] \in 1..Len(queue[f]) /\ (f \in served => m[f][k] > 1)
                      /\ queue'[f][k].seq = queue[f][m[f][k]].seq
                    BY <2>n
                <5>3. CASE f # e
                    BY <1>p, <5>1, <5>2, <5>3, SMTT(30) DEF QueuesApart
                <5>4. CASE f = e
                    <6>1. queue[e][1].seq \in Nat /\ queue[e][m[f][k]].seq \in Nat
                        BY <1>t, <5>1, <5>2, <5>4
                    <6>2. queue[e][1].seq < queue[e][m[f][k]].seq
                        BY <1>p, <5>1, <5>2, <5>4 DEF QueueOrdered
                    <6> QED
                        BY <5>1, <5>2, <5>4, <6>1, <6>2
                <5> QED
                    BY <5>3, <5>4
            <4> QED
                BY <4>1 DEF QueuedNotDue
        <3>6. QueuedNotAnswered'
            BY <2>p
        <3> QED
            BY <3>1, <3>2, <3>3, <3>4, <3>5, <3>6 DEF QueuedOnce
    <2>8. OnItsWay'
        <3>1. ASSUME NEW j \in 1..Len(due') PROVE processing'[due'[j].ep] = due'[j].urb.seq
            BY <2>e, <2>k
        <3>2. ASSUME NEW h \in handling PROVE h.conn = nstarts <=> processing'[h.ep] = h.seq
            <4>1. h.ep \in SchedEps /\ h.seq # 0 /\ (h.conn = nstarts <=> processing[h.ep] = h.seq)
                BY <1>0, <1>t, <2>a DEF OnItsWay
            <4>2. CASE h.ep \in served
                <5>1. processing'[h.ep] = queue[h.ep][1].seq /\ queue[h.ep][1].seq # h.seq
                    BY <1>p, <2>d, <2>e, <4>1, <4>2 DEF QueuedNotHandled
                <5> QED
                    BY <2>d, <4>1, <4>2, <5>1
            <4>3. CASE h.ep \notin served
                BY <2>e, <4>1, <4>3
            <4> QED
                BY <4>2, <4>3
        <3> QED
            BY <2>a, <3>1, <3>2 DEF OnItsWay
    <2>9. OneAtATime'
        <3>1. \A i, j \in 1..Len(due') : due'[i].ep = due'[j].ep => i = j
            <4>1. ASSUME NEW i \in 1..Len(due'), NEW j \in 1..Len(due'), due'[i].ep = due'[j].ep
                  PROVE  i = j
                <5>1. due'[i] = due'[j]
                    BY <2>k, <4>1, Zenon
                <5> QED
                    BY <2>j, <5>1
            <4> QED
                BY <4>1
        <3>2. ASSUME NEW i \in 1..Len(due'), NEW h \in handling, h.ep = due'[i].ep
              PROVE  h.conn # nstarts
            <4>1. h.seq # 0 /\ (h.conn = nstarts => processing[h.ep] = h.seq)
                BY <1>0, <1>t, <2>a DEF OnItsWay
            <4> QED
                BY <2>k, <3>2, <4>1
        <3> QED
            BY <1>0, <2>a, <3>1, <3>2 DEF OneAtATime
    <2>10. InPlace'
        <3>1. AnsweredBeforeDue'
            <4>1. ASSUME NEW i \in 1..Len(answered), NEW j \in 1..Len(due'),
                         answered[i].ep = due'[j].ep, answered[i].conn = nstarts
                  PROVE  answered[i].seq < due'[j].urb.seq
                BY <1>p, <2>k, <4>1 DEF AnsweredBeforeQueued
            <4> QED
                BY <2>a, <4>1 DEF AnsweredBeforeDue
        <3>2. AnsweredBeforeHandled'
            BY <1>p, <2>a DEF AnsweredBeforeHandled
        <3>3. AnsweredBeforeQueued'
            BY <2>p
        <3>4. DueBeforeQueued'
            <4>1. ASSUME NEW j \in 1..Len(due'), NEW k \in 1..Len(queue'[due'[j].ep])
                  PROVE  due'[j].urb.seq < queue'[due'[j].ep][k].seq
                <5>1. PICK e \in SchedEps : /\ e = due'[j].ep /\ e \in served /\ 1 \in 1..Len(queue[e])
                                            /\ due'[j].urb.seq = queue[e][1].seq
                    BY <2>k
                <5>2. /\ m[e][k] \in 1..Len(queue[e]) /\ m[e][k] > 1
                      /\ queue'[e][k].seq = queue[e][m[e][k]].seq
                    BY <2>n, <5>1
                <5>3. queue[e][1].seq < queue[e][m[e][k]].seq
                    BY <1>p, <5>1, <5>2 DEF QueueOrdered
                <5> QED
                    BY <5>1, <5>2, <5>3
            <4> QED
                BY <4>1 DEF DueBeforeQueued
        <3>5. HandledBeforeQueued'
            BY <2>p
        <3> QED
            BY <3>1, <3>2, <3>3, <3>4, <3>5 DEF InPlace
    <2>11. AnsweredOrdered'
        BY <1>0, <2>a DEF AnsweredOrdered
    <2>12. CancelledStaysSilent'
        <3>1. \A j \in 1..Len(due') : due'[j].urb.seq \notin cancelled_urbs
            BY <1>p, <2>k DEF QueuedNotCancelled
        <3> QED
            BY <1>0, <2>a, <3>1 DEF CancelledStaysSilent
    <2>13. UrbsHaveWakeup'
        <3>1. expires' # NoTimer \/ (HeadTimes(queue', processing') = {} /\ timer_pending' = FALSE)
            BY <2>q DEF NoTimer
        <3>2. HeadTimes(queue, processing)' = HeadTimes(queue', processing')
            BY DEF HeadTimes
        <3> QED
            BY <3>1, <3>2 DEF UrbsHaveWakeup
    <2> QED
        BY <2>1, <2>2, <2>3, <2>4, <2>5, <2>6, <2>7, <2>8, <2>9, <2>10, <2>11, <2>12, <2>13
           DEF SchedInv
<1>9. CASE Process
    <2>a. /\ due # <<>> /\ due' = Tail(due)
          /\ handling' = handling \cup {[ep |-> Head(due).ep, seq |-> Head(due).urb.seq,
                                          conn |-> Head(due).urb.conn, sent |-> FALSE]}
          /\ UNCHANGED <<now, started, joining, queue, processing, last_scheduled,
                         timer_pending, expires, io_queue, answered, cancelled_urbs, nurbs, nstarts>>
        BY <1>9 DEF Process
    <2>b. /\ Len(due) \in Nat
          /\ Head(due) = due[1] /\ 1 \in 1..Len(due)
          /\ due' \in Seq(Due) /\ Len(due') = Len(due) - 1
          /\ \A i \in 1..Len(due') : due'[i] = due[i + 1] /\ i + 1 \in 1..Len(due) /\ i + 1 # 1
        BY <1>0, <1>t, <2>a DEF SchedTypes
    <2>c. PICK g \in Handled : g = [ep |-> Head(due).ep, seq |-> Head(due).urb.seq,
                                    conn |-> Head(due).urb.conn, sent |-> FALSE]
        <3>1. [ep |-> Head(due).ep, seq |-> Head(due).urb.seq,
               conn |-> Head(due).urb.conn, sent |-> FALSE] \in Handled
            BY <1>t, <2>b DEF Handled
        <3> QED
            BY <3>1, Zenon
    <2>d. /\ g.ep = due[1].ep /\ g.seq = due[1].urb.seq /\ g.conn = due[1].urb.conn /\ ~g.sent
          /\ handling' = handling \cup {g} /\ g.conn = nstarts
        <3>1. due[1].urb.conn = nstarts
            BY <1>0, <2>b DEF DueCurrent
        <3> QED
            BY <2>a, <2>b, <2>c, <3>1
    <2>1. SchedTypes'
        BY <1>0, <2>a, <2>b, <2>d DEF SchedTypes
    <2>2. HeadArmed'
        BY <1>0, <2>a DEF HeadArmed
    <2>3. Numbered'
        <3>1. QueueNumbered'
            BY <1>p, <2>a DEF QueueNumbered
        <3>2. ProcessingNumbered'
            BY <1>p, <2>a DEF ProcessingNumbered
        <3>3. DueNumbered'
            <4>1. \A j \in 1..Len(due') : \E i \in 1..Len(due) : due'[j] = due[i]
                BY <2>b
            <4> QED
                BY <1>p, <2>a, <4>1 DEF DueNumbered
        <3>4. HandlingNumbered'
            <4>1. g.seq <= nurbs /\ g.conn <= nstarts
                BY <1>p, <1>t, <2>b, <2>d DEF DueNumbered
            <4> QED
                BY <1>p, <2>a, <2>d, <4>1 DEF HandlingNumbered
        <3>5. AnsweredNumbered'
            BY <1>p, <2>a DEF AnsweredNumbered
        <3> QED
            BY <3>1, <3>2, <3>3, <3>4, <3>5 DEF Numbered
    <2>4. Stopped'
        BY <1>0, <2>a DEF Stopped
    <2>5. QueueCurrent'
        BY <1>0, <2>a DEF QueueCurrent
    <2>6. DueCurrent'
        BY <1>0, <2>a, <2>b DEF DueCurrent
    <2>7. QueuedOnce'
        <3>1. QueueOrdered'
            BY <1>p, <2>a DEF QueueOrdered
        <3>2. QueuesApart'
            BY <1>p, <2>a DEF QueuesApart
        <3>3. QueuedNotCancelled'
            BY <1>p, <2>a DEF QueuedNotCancelled
        <3>4. QueuedNotHandled'
            <4>1. ASSUME NEW e \in SchedEps, NEW i \in 1..Len(queue[e])
                  PROVE  g.seq # queue[e][i].seq
                BY <1>p, <2>b, <2>d DEF QueuedNotDue
            <4> QED
                BY <1>p, <2>a, <2>d, <4>1 DEF QueuedNotHandled
        <3>5. QueuedNotDue'
            <4>1. \A j \in 1..Len(due') : \E i \in 1..Len(due) : due'[j] = due[i]
                BY <2>b
            <4> QED
                BY <1>p, <2>a, <4>1 DEF QueuedNotDue
        <3>6. QueuedNotAnswered'
            BY <1>p, <2>a DEF QueuedNotAnswered
        <3> QED
            BY <3>1, <3>2, <3>3, <3>4, <3>5, <3>6 DEF QueuedOnce
    <2>8. OnItsWay'
        BY <1>0, <1>t, <2>a, <2>b, <2>d DEF OnItsWay
    <2>9. OneAtATime'
        <3>1. \A h \in handling : h.ep = g.ep => h.conn # g.conn
            BY <1>0, <2>b, <2>d DEF OneAtATime
        <3>2. \A i \in 1..Len(due') : due'[i].ep # g.ep
            BY <1>0, <2>b, <2>d DEF OneAtATime
        <3> QED
            BY <1>0, <2>a, <2>b, <2>d, <3>1, <3>2 DEF OneAtATime
    <2>10. InPlace'
        <3>1. AnsweredBeforeDue'
            <4>1. \A j \in 1..Len(due') : \E i \in 1..Len(due) : due'[j] = due[i]
                BY <2>b
            <4> QED
                BY <1>p, <2>a, <4>1 DEF AnsweredBeforeDue
        <3>2. AnsweredBeforeHandled'
            <4>1. \A i \in 1..Len(answered) :
                     (answered[i].ep = g.ep /\ answered[i].conn = g.conn) => answered[i].seq < g.seq
                BY <1>p, <2>b, <2>d DEF AnsweredBeforeDue
            <4> QED
                BY <1>p, <2>a, <2>d, <4>1 DEF AnsweredBeforeHandled
        <3>3. AnsweredBeforeQueued'
            BY <1>p, <2>a DEF AnsweredBeforeQueued
        <3>4. DueBeforeQueued'
            <4>1. \A j \in 1..Len(due') : \E i \in 1..Len(due) : due'[j] = due[i]
                BY <2>b
            <4> QED
                BY <1>p, <2>a, <4>1 DEF DueBeforeQueued
        <3>5. HandledBeforeQueued'
            <4>1. \A k \in 1..Len(queue[g.ep]) : g.seq < queue[g.ep][k].seq
                BY <1>p, <2>b, <2>d DEF DueBeforeQueued
            <4> QED
                BY <1>p, <2>a, <2>d, <4>1 DEF HandledBeforeQueued
        <3> QED
            BY <3>1, <3>2, <3>3, <3>4, <3>5 DEF InPlace
    <2>11. AnsweredOrdered'
        BY <1>0, <2>a DEF AnsweredOrdered
    <2>12. CancelledStaysSilent'
        BY <1>0, <1>t, <2>a, <2>b, <2>c, <2>d DEF CancelledStaysSilent
    <2>13. UrbsHaveWakeup'
        BY <1>0, <2>a DEF UrbsHaveWakeup, HeadTimes
    <2> QED
        BY <2>1, <2>2, <2>3, <2>4, <2>5, <2>6, <2>7, <2>8, <2>9, <2>10, <2>11, <2>12, <2>13
           DEF SchedInv
<1>10. CASE SendReady
    <2>a. /\ due # <<>> /\ due' = Tail(due)
          /\ answered' = Append(answered, [ep |-> Head(due).ep, seq |-> Head(due).urb.seq,
                                            conn |-> Head(due).urb.conn])
          /\ OnUrbDone(Head(due).ep, Head(due).urb.seq)
          /\ UNCHANGED <<now, started, joining, queue, last_scheduled, timer_pending,
                         expires, handling, cancelled_urbs, nurbs, nstarts>>
        BY <1>10 DEF SendReady
    <2>b. /\ Len(due) \in Nat
          /\ Head(due) = due[1] /\ 1 \in 1..Len(due)
          /\ due' \in Seq(Due) /\ Len(due') = Len(due) - 1
          /\ \A i \in 1..Len(due') : due'[i] = due[i + 1] /\ i + 1 \in 1..Len(due) /\ i + 1 # 1
        <3>1. due \in Seq(Due)
            BY <1>0 DEF SchedTypes
        <3> QED
            BY <2>a, <3>1
    <2>c. PICK r \in SchedReply : r = [ep |-> Head(due).ep, seq |-> Head(due).urb.seq,
                                       conn |-> Head(due).urb.conn]
        <3>1. [ep |-> Head(due).ep, seq |-> Head(due).urb.seq, conn |-> Head(due).urb.conn]
                  \in SchedReply
            BY <1>t, <2>b DEF SchedReply
        <3> QED
            BY <3>1, Zenon
    <2>d. r.ep = due[1].ep /\ r.seq = due[1].urb.seq /\ r.conn = nstarts
        <3>1. due[1].urb.conn = nstarts
            BY <1>0, <2>b DEF DueCurrent
        <3> QED
            BY <2>b, <2>c, <3>1
    <2>e. /\ answered' \in Seq(SchedReply)
          /\ Len(answered') = Len(answered) + 1
          /\ answered'[Len(answered) + 1] = r
          /\ \A i \in 1..Len(answered) : answered'[i] = answered[i]
        BY <1>0, <2>a, <2>c DEF SchedTypes
    <2>x. \A i \in 1..Len(answered') :
             (i \in 1..Len(answered) /\ answered'[i] = answered[i]) \/ answered'[i] = r
        BY <1>t, <2>e
    <2>f. /\ processing' \in [SchedEps -> Nat] /\ io_queue' \in Seq(IoHandler)
          /\ ~started => processing' = processing
          /\ \A f \in SchedEps : processing'[f] = 0 \/ processing'[f] = processing[f]
          /\ \A f \in SchedEps : f # r.ep => processing'[f] = processing[f]
          /\ UrbsHaveWakeup'
        <3>1. r.ep \in SchedEps /\ OnUrbDone(r.ep, r.seq)
            BY <1>t, <2>a, <2>b, <2>d
        <3> QED
            BY <1>0, <2>a, <3>1, DoneLetsGo
    <2>1. SchedTypes'
        BY <1>0, <2>a, <2>b, <2>e, <2>f DEF SchedTypes
    <2>2. HeadArmed'
        BY <1>0, <2>a DEF HeadArmed
    <2>3. Numbered'
        <3>1. QueueNumbered'
            BY <1>p, <2>a DEF QueueNumbered
        <3>2. ProcessingNumbered'
            <4>1. \A e \in SchedEps : processing'[e] = 0 \/ processing'[e] = processing[e]
                BY <2>f
            <4>2. nurbs' = nurbs /\ 0 <= nurbs
                BY <1>t, <2>a
            <4> QED
                BY <1>p, <4>1, <4>2 DEF ProcessingNumbered
        <3>3. DueNumbered'
            <4>1. \A j \in 1..Len(due') : \E i \in 1..Len(due) : due'[j] = due[i]
                BY <2>b
            <4> QED
                BY <1>p, <2>a, <4>1 DEF DueNumbered
        <3>4. HandlingNumbered'
            BY <1>p, <2>a DEF HandlingNumbered
        <3>5. AnsweredNumbered'
            <4>1. r.seq <= nurbs /\ r.conn <= nstarts
                BY <1>p, <1>t, <2>b, <2>d DEF DueNumbered
            <4> QED
                BY <1>p, <1>t, <2>a, <2>e, <4>1 DEF AnsweredNumbered
        <3> QED
            BY <3>1, <3>2, <3>3, <3>4, <3>5 DEF Numbered
    <2>4. Stopped'
        BY <1>0, <2>a, <2>f DEF Stopped
    <2>5. QueueCurrent'
        BY <1>0, <2>a DEF QueueCurrent
    <2>6. DueCurrent'
        BY <1>0, <2>a, <2>b DEF DueCurrent
    <2>7. QueuedOnce'
        <3>1. QueueOrdered'
            BY <1>p, <2>a DEF QueueOrdered
        <3>2. QueuesApart'
            BY <1>p, <2>a DEF QueuesApart
        <3>3. QueuedNotCancelled'
            BY <1>p, <2>a DEF QueuedNotCancelled
        <3>4. QueuedNotHandled'
            BY <1>p, <2>a DEF QueuedNotHandled
        <3>5. QueuedNotDue'
            <4>1. \A j \in 1..Len(due') : \E i \in 1..Len(due) : due'[j] = due[i]
                BY <2>b
            <4> QED
                BY <1>p, <2>a, <4>1 DEF QueuedNotDue
        <3>6. QueuedNotAnswered'
            <4>1. \A e \in SchedEps : \A i \in 1..Len(queue[e]) : r.seq # queue[e][i].seq
                BY <1>p, <2>b, <2>d DEF QueuedNotDue
            <4> QED
                BY <1>p, <2>a, <2>x, <4>1 DEF QueuedNotAnswered
        <3> QED
            BY <3>1, <3>2, <3>3, <3>4, <3>5, <3>6 DEF QueuedOnce
    <2>8. OnItsWay'
        <3>1. \A i \in 1..Len(due') : due'[i].ep # r.ep /\ due'[i].ep \in SchedEps
            BY <1>0, <1>t, <2>b, <2>d DEF OneAtATime
        <3>2. \A h \in handling : h.ep = r.ep => h.conn # nstarts
            BY <1>0, <2>b, <2>d DEF OneAtATime
        <3>3. ASSUME started, NEW i \in 1..Len(due')
              PROVE  processing'[due'[i].ep] = due'[i].urb.seq
            <4>1. PICK j \in 1..Len(due) : due'[i] = due[j]
                BY <2>b
            <4>2. processing[due[j].ep] = due[j].urb.seq
                BY <1>0, <3>3 DEF OnItsWay
            <4> QED
                BY <2>f, <3>1, <4>1, <4>2
        <3>4. ASSUME started, NEW h \in handling
              PROVE  h.conn = nstarts <=> processing'[h.ep] = h.seq
            <4>1. h.ep \in SchedEps /\ h.seq # 0
                BY <1>t
            <4>2. h.conn = nstarts <=> processing[h.ep] = h.seq
                BY <1>0, <3>4 DEF OnItsWay
            <4>3. CASE h.ep # r.ep
                BY <2>f, <4>1, <4>2, <4>3
            <4>4. CASE h.ep = r.ep
                BY <2>f, <3>2, <4>1, <4>2, <4>4
            <4> QED
                BY <4>3, <4>4
        <3> QED
            BY <2>a, <3>3, <3>4 DEF OnItsWay
    <2>9. OneAtATime'
        BY <1>0, <1>t, <2>a, <2>b DEF OneAtATime
    <2>10. InPlace'
        <3>1. AnsweredBeforeDue'
            <4>1. \A j \in 1..Len(due') : due'[j].ep # r.ep
                BY <1>0, <2>b, <2>d DEF OneAtATime
            <4>2. \A j \in 1..Len(due') : \E i \in 1..Len(due) : due'[j] = due[i]
                BY <2>b
            <4>3. ASSUME NEW i \in 1..Len(answered'), NEW j \in 1..Len(due'),
                         answered'[i].ep = due'[j].ep, answered'[i].conn = nstarts
                  PROVE  answered'[i].seq < due'[j].urb.seq
                <5>1. CASE i \in 1..Len(answered) /\ answered'[i] = answered[i]
                    BY <1>p, <2>a, <4>3, <4>2, <5>1 DEF AnsweredBeforeDue
                <5>2. CASE answered'[i] = r
                    BY <4>1, <4>3, <5>2
                <5> QED
                    BY <2>x, <5>1, <5>2
            <4> QED
                BY <2>a, <4>3 DEF AnsweredBeforeDue
        <3>2. AnsweredBeforeHandled'
            <4>1. \A h \in handling : h.ep = r.ep => h.conn # r.conn
                BY <1>0, <2>b, <2>d DEF OneAtATime
            <4> QED
                BY <1>p, <2>a, <2>x, <4>1 DEF AnsweredBeforeHandled
        <3>3. AnsweredBeforeQueued'
            <4>1. \A k \in 1..Len(queue[r.ep]) : r.seq < queue[r.ep][k].seq
                BY <1>p, <2>b, <2>d DEF DueBeforeQueued
            <4> QED
                BY <1>p, <2>a, <2>x, <4>1 DEF AnsweredBeforeQueued
        <3>4. DueBeforeQueued'
            <4>1. \A j \in 1..Len(due') : \E i \in 1..Len(due) : due'[j] = due[i]
                BY <2>b
            <4> QED
                BY <1>p, <2>a, <4>1 DEF DueBeforeQueued
        <3>5. HandledBeforeQueued'
            BY <1>p, <2>a DEF HandledBeforeQueued
        <3> QED
            BY <3>1, <3>2, <3>3, <3>4, <3>5 DEF InPlace
    <2>11. AnsweredOrdered'
        <3>1. ASSUME NEW i \in 1..Len(answered), NEW j \in 1..Len(answered) + 1, i < j,
                     answered'[i].ep = answered'[j].ep, answered'[i].conn = answered'[j].conn
              PROVE  answered'[i].seq < answered'[j].seq
            <4>1. CASE j \in 1..Len(answered)
                BY <1>0, <2>e, <3>1, <4>1 DEF AnsweredOrdered
            <4>2. CASE j = Len(answered) + 1
                BY <1>p, <2>b, <2>d, <2>e, <3>1, <4>2 DEF AnsweredBeforeDue
            <4>3. Len(answered) \in Nat
                BY <1>t
            <4> QED
                BY <4>1, <4>2, <4>3
        <3>2. Len(answered) \in Nat
            BY <1>t
        <3>3. \A i, j \in 1..Len(answered') : i < j => i \in 1..Len(answered) /\ j \in 1..Len(answered) + 1
            BY <2>e, <3>2
        <3> QED
            BY <3>1, <3>3 DEF AnsweredOrdered
    <2>12. CancelledStaysSilent'
        BY <1>0, <1>t, <2>a, <2>b, <2>d, <2>e, <2>f DEF CancelledStaysSilent
    <2>13. UrbsHaveWakeup'
        BY <2>f
    <2> QED
        BY <2>1, <2>2, <2>3, <2>4, <2>5, <2>6, <2>7, <2>8, <2>9, <2>10, <2>11, <2>12, <2>13
           DEF SchedInv
<1>11. CASE Tick
    <2>a. /\ now' = now + 1
          /\ UNCHANGED <<started, joining, queue, processing, last_scheduled, timer_pending,
                         expires, io_queue, due, handling, answered, cancelled_urbs, nurbs, nstarts>>
        BY <1>11 DEF Tick
    <2>1. SchedTypes'
        BY <1>0, <2>a DEF SchedTypes
    <2>2. HeadArmed'
        BY <1>0, <2>a DEF HeadArmed
    <2>3. Numbered'
        BY <1>p, <2>a DEF Numbered, QueueNumbered, ProcessingNumbered, DueNumbered,
           HandlingNumbered, AnsweredNumbered
    <2>4. Stopped'
        BY <1>0, <2>a DEF Stopped
    <2>5. QueueCurrent'
        BY <1>0, <2>a DEF QueueCurrent
    <2>6. DueCurrent'
        BY <1>0, <2>a DEF DueCurrent
    <2>7. QueuedOnce'
        BY <1>p, <2>a DEF QueuedOnce, QueueOrdered, QueuesApart, QueuedNotCancelled,
           QueuedNotHandled, QueuedNotDue, QueuedNotAnswered
    <2>8. OnItsWay'
        BY <1>0, <2>a DEF OnItsWay
    <2>9. OneAtATime'
        BY <1>0, <2>a DEF OneAtATime
    <2>10. InPlace'
        BY <1>p, <2>a DEF InPlace, AnsweredBeforeDue, AnsweredBeforeHandled,
           AnsweredBeforeQueued, DueBeforeQueued, HandledBeforeQueued
    <2>11. AnsweredOrdered'
        BY <1>0, <2>a DEF AnsweredOrdered
    <2>12. CancelledStaysSilent'
        BY <1>0, <2>a DEF CancelledStaysSilent
    <2>13. UrbsHaveWakeup'
        BY <1>0, <2>a DEF UrbsHaveWakeup, HeadTimes
    <2> QED
        BY <2>1, <2>2, <2>3, <2>4, <2>5, <2>6, <2>7, <2>8, <2>9, <2>10, <2>11, <2>12, <2>13
           DEF SchedInv
<1>12. ASSUME NEW e \in SchedEps, NEW d \in Int, NEW ready \in BOOLEAN, Submit(e, d, ready)
       PROVE  SchedInv'
    <2>a. /\ started /\ nurbs' = nurbs + 1
          /\ UNCHANGED <<now, started, joining, processing, timer_pending, expires, due,
                         handling, answered, cancelled_urbs, nstarts>>
        BY <1>12 DEF Submit
    <2>b. PICK u \in Urb : u = [seq |-> nurbs + 1, delay |-> d, ready |-> ready, at |-> 0,
                                conn |-> nstarts]
        <3>1. [seq |-> nurbs + 1, delay |-> d, ready |-> ready, at |-> 0, conn |-> nstarts] \in Urb
            BY <1>t DEF Urb
        <3> QED
            BY <3>1, Zenon
    <2>c. u.seq = nurbs + 1 /\ u.at = 0 /\ u.conn = nstarts
        BY <2>b
    <2>d. IF queue[e] = <<>>
          THEN /\ Armed(e, <<u>>, last_scheduled[e])
               /\ io_queue' = IF processing[e] = 0 THEN Kick(io_queue) ELSE io_queue
          ELSE /\ queue' = [queue EXCEPT ![e] = Append(queue[e], u)]
               /\ UNCHANGED <<last_scheduled, io_queue>>
        <3>1. CASE queue[e] = <<>>
            BY <1>12, <2>b, <3>1, Zenon DEF Submit
        <3>2. CASE queue[e] # <<>>
            BY <1>12, <2>b, <3>2, Zenon DEF Submit
        <3> QED
            BY <3>1, <3>2, Zenon
    <2>e. /\ queue \in [SchedEps -> Seq(Urb)] /\ last_scheduled \in [SchedEps -> Nat]
          /\ io_queue \in Seq(IoHandler) /\ "schedule" \in IoHandler /\ now \in Nat
        BY <1>0 DEF SchedTypes, IoHandler
    <2>f. /\ queue' \in [SchedEps -> Seq(Urb)] /\ last_scheduled' \in [SchedEps -> Nat]
          /\ \A f \in SchedEps : f # e => queue'[f] = queue[f]
          /\ Len(queue'[e]) = Len(queue[e]) + 1
          /\ \A k \in 1..Len(queue[e]) : queue'[e][k] = queue[e][k]
          /\ queue'[e][Len(queue[e]) + 1].seq = u.seq /\ queue'[e][Len(queue[e]) + 1].conn = u.conn
          /\ queue[e] # <<>> => queue'[e][Len(queue[e]) + 1] = u
        <3>1. CASE queue[e] = <<>>
            <4>0. PICK w : w = <<u>>
                BY Zenon
            <4>1. /\ w \in Seq(Urb) /\ Len(w) = 1 /\ w[1] = u /\ Len(queue[e]) = 0
                  /\ last_scheduled[e] \in Nat
                BY <2>e, <3>1, <4>0
            <4>2. PICK a : a = ArmNext(e, w, last_scheduled[e])
                BY Zenon
            <4>3. /\ a.queue \in Seq(Urb) /\ a.last \in Nat /\ Len(a.queue) = 1
                  /\ a.queue[1].seq = u.seq /\ a.queue[1].conn = u.conn
                BY <2>e, <4>1, <4>2, ArmsHead
            <4>4. /\ queue' = [queue EXCEPT ![e] = a.queue]
                  /\ last_scheduled' = [last_scheduled EXCEPT ![e] = a.last]
                BY <2>d, <3>1, <4>0, <4>2, Zenon DEF Armed
            <4>5. queue'[e] = a.queue /\ \A f \in SchedEps : f # e => queue'[f] = queue[f]
                BY <2>e, <4>4
            <4>6. /\ queue' \in [SchedEps -> Seq(Urb)] /\ last_scheduled' \in [SchedEps -> Nat]
                BY <2>e, <4>3, <4>4
            <4> QED
                BY <3>1, <4>1, <4>3, <4>5, <4>6
        <3>2. CASE queue[e] # <<>>
            <4>1. /\ queue' = [queue EXCEPT ![e] = Append(queue[e], u)]
                  /\ last_scheduled' = last_scheduled
                BY <2>d, <3>2, Zenon
            <4>2. Append(queue[e], u) \in Seq(Urb) /\ queue[e] \in Seq(Urb)
                BY <2>e
            <4>3. /\ queue'[e] = Append(queue[e], u) /\ queue' \in [SchedEps -> Seq(Urb)]
                  /\ \A f \in SchedEps : f # e => queue'[f] = queue[f]
                BY <2>e, <4>1, <4>2
            <4>4. /\ Len(Append(queue[e], u)) = Len(queue[e]) + 1
                  /\ \A k \in 1..Len(queue[e]) : Append(queue[e], u)[k] = queue[e][k]
                  /\ Append(queue[e], u)[Len(queue[e]) + 1] = u
                BY <4>2
            <4> QED
                BY <2>e, <4>1, <4>3, <4>4
        <3> QED
            BY <3>1, <3>2
    <2>g. /\ io_queue' \in Seq(IoHandler) /\ ToSet(io_queue) \subseteq ToSet(io_queue')
          /\ (queue[e] = <<>> /\ processing[e] = 0 /\ ~timer_pending) => "schedule" \in ToSet(io_queue')
        <3>1. CASE queue[e] = <<>> /\ processing[e] = 0 /\ ~timer_pending
            <4>1. io_queue' = Append(io_queue, "schedule")
                BY <2>d, <3>1 DEF Kick
            <4>2. ToSet(io_queue') = ToSet(io_queue) \cup {"schedule"}
                BY <2>e, <4>1, AppendedMember
            <4> QED
                BY <2>e, <4>1, <4>2
        <3>2. CASE ~(queue[e] = <<>> /\ processing[e] = 0 /\ ~timer_pending)
            BY <2>d, <2>e, <3>2 DEF Kick
        <3> QED
            BY <3>1, <3>2
    <2>n. \A f \in SchedEps : \A k \in 1..Len(queue'[f]) :
             \/ k \in 1..Len(queue[f]) /\ queue'[f][k] = queue[f][k]
             \/ /\ f = e /\ k = Len(queue[e]) + 1
                /\ queue'[f][k].seq = nurbs + 1 /\ queue'[f][k].conn = nstarts
        <3>1. ASSUME NEW k \in 1..Len(queue'[e])
              PROVE  \/ k \in 1..Len(queue[e]) /\ queue'[e][k] = queue[e][k]
                     \/ /\ k = Len(queue[e]) + 1
                        /\ queue'[e][k].seq = nurbs + 1 /\ queue'[e][k].conn = nstarts
            <4>1. Len(queue[e]) \in Nat /\ Len(queue'[e]) = Len(queue[e]) + 1
                BY <1>t, <2>f
            <4>2. k \in 1..Len(queue[e]) \/ k = Len(queue[e]) + 1
                BY <4>1
            <4> QED
                BY <2>c, <2>f, <4>2
        <3> QED
            BY <2>f, <3>1
    <2>1. SchedTypes'
        <3>1. cancelled_urbs' \subseteq 1..nurbs'
            BY <1>0, <1>t, <2>a DEF SchedTypes
        <3>2. nurbs' \in Nat
            BY <1>t, <2>a
        <3> QED
            BY <1>0, <2>a, <2>f, <2>g, <3>1, <3>2 DEF SchedTypes
    <2>2. HeadArmed'
        <3>1. ASSUME NEW f \in SchedEps, NEW k \in 1..Len(queue'[f]), k > 1
              PROVE  queue'[f][k].at = 0
            <4>1. CASE k \in 1..Len(queue[f]) /\ queue'[f][k] = queue[f][k]
                BY <1>0, <3>1, <4>1 DEF HeadArmed
            <4>2. CASE f = e /\ k = Len(queue[e]) + 1
                <5>1. queue[e] # <<>>
                    BY <1>t, <3>1, <4>2
                <5> QED
                    BY <2>c, <2>f, <4>2, <5>1
            <4> QED
                BY <2>n, <4>1, <4>2
        <3> QED
            BY <3>1 DEF HeadArmed
    <2>3. Numbered'
        <3>1. QueueNumbered'
            <4>1. ASSUME NEW f \in SchedEps, NEW k \in 1..Len(queue'[f])
                  PROVE  queue'[f][k].seq <= nurbs + 1
                <5>1. CASE k \in 1..Len(queue[f]) /\ queue'[f][k] = queue[f][k]
                    <6>1. queue[f][k].seq <= nurbs /\ queue[f][k].seq \in Nat /\ nurbs \in Nat
                        <7>1. queue[f][k].seq <= nurbs
                            BY <1>p, <5>1, Zenon DEF QueueNumbered
                        <7>2. queue[f][k].seq \in Nat /\ nurbs \in Nat
                            BY <1>t, <5>1
                        <7> QED
                            BY <7>1, <7>2
                    <6> QED
                        BY <5>1, <6>1
                <5> QED
                    BY <1>t, <2>n, <5>1
            <4> QED
                BY <2>a, <4>1 DEF QueueNumbered
        <3>2. ProcessingNumbered'
            BY <1>p, <1>t, <2>a DEF ProcessingNumbered
        <3>3. DueNumbered'
            BY <1>p, <1>t, <2>a DEF DueNumbered
        <3>4. HandlingNumbered'
            BY <1>p, <1>t, <2>a DEF HandlingNumbered
        <3>5. AnsweredNumbered'
            BY <1>p, <1>t, <2>a DEF AnsweredNumbered
        <3> QED
            BY <3>1, <3>2, <3>3, <3>4, <3>5 DEF Numbered
    <2>4. Stopped'
        BY <1>0, <2>a DEF Stopped
    <2>5. QueueCurrent'
        BY <1>0, <2>a, <2>n DEF QueueCurrent
    <2>6. DueCurrent'
        BY <1>0, <2>a DEF DueCurrent
    <2>7. QueuedOnce'
        <3>1. QueueOrdered'
            <4>1. ASSUME NEW f \in SchedEps, NEW i \in 1..Len(queue'[f]), NEW j \in 1..Len(queue'[f]), i < j
                  PROVE  queue'[f][i].seq < queue'[f][j].seq
                <5>1. i \in 1..Len(queue[f]) /\ queue'[f][i] = queue[f][i]
                    <6>1. Len(queue[f]) \in Nat /\ (f = e => Len(queue'[f]) = Len(queue[f]) + 1)
                        BY <1>t, <2>f
                    <6>2. CASE f = e
                        BY <2>f, <4>1, <6>1, <6>2
                    <6>3. CASE f # e
                        BY <2>f, <6>3
                    <6> QED
                        BY <6>2, <6>3
                <5>2. queue[f][i].seq \in Nat /\ queue[f][i].seq <= nurbs
                    BY <1>p, <1>t, <5>1 DEF QueueNumbered
                <5>3. CASE j \in 1..Len(queue[f]) /\ queue'[f][j] = queue[f][j]
                    BY <1>p, <4>1, <5>1, <5>3 DEF QueueOrdered
                <5>4. CASE queue'[f][j].seq = nurbs + 1
                    BY <1>t, <5>1, <5>2, <5>4
                <5> QED
                    BY <2>n, <5>3, <5>4
            <4> QED
                BY <4>1 DEF QueueOrdered
        <3>2. QueuesApart'
            <4>1. \A f \in SchedEps : \A k \in 1..Len(queue[f]) : queue[f][k].seq # nurbs + 1
                BY <1>p, <1>t DEF QueueNumbered
            <4>2. ASSUME NEW f \in SchedEps, NEW g \in SchedEps, f # g,
                         NEW i \in 1..Len(queue'[f]), NEW j \in 1..Len(queue'[g])
                  PROVE  queue'[f][i].seq # queue'[g][j].seq
                <5>1. \/ i \in 1..Len(queue[f]) /\ queue'[f][i] = queue[f][i]
                      \/ f = e /\ queue'[f][i].seq = nurbs + 1
                    BY <2>n
                <5>2. \/ j \in 1..Len(queue[g]) /\ queue'[g][j] = queue[g][j]
                      \/ g = e /\ queue'[g][j].seq = nurbs + 1
                    BY <2>n
                <5> QED
                    BY <1>p, <4>1, <4>2, <5>1, <5>2 DEF QueuesApart
            <4> QED
                BY <4>2 DEF QueuesApart
        <3>3. QueuedNotCancelled'
            <4>1. nurbs + 1 \notin cancelled_urbs
                BY <1>0, <1>t DEF SchedTypes
            <4> QED
                BY <1>p, <2>a, <2>n, <4>1 DEF QueuedNotCancelled
        <3>4. QueuedNotHandled'
            <4>1. \A h \in handling : h.seq # nurbs + 1
                BY <1>p, <1>t DEF HandlingNumbered
            <4> QED
                BY <1>p, <2>a, <2>n, <4>1 DEF QueuedNotHandled
        <3>5. QueuedNotDue'
            <4>1. \A j \in 1..Len(due) : due[j].urb.seq # nurbs + 1
                BY <1>p, <1>t DEF DueNumbered
            <4> QED
                BY <1>p, <2>a, <2>n, <4>1, SMTT(30) DEF QueuedNotDue
        <3>6. QueuedNotAnswered'
            <4>1. \A j \in 1..Len(answered) : answered[j].seq # nurbs + 1
                BY <1>p, <1>t DEF AnsweredNumbered
            <4> QED
                BY <1>p, <2>a, <2>n, <4>1, SMTT(30) DEF QueuedNotAnswered
        <3> QED
            BY <3>1, <3>2, <3>3, <3>4, <3>5, <3>6 DEF QueuedOnce
    <2>8. OnItsWay'
        BY <1>0, <2>a DEF OnItsWay
    <2>9. OneAtATime'
        BY <1>0, <2>a DEF OneAtATime
    <2>10. InPlace'
        <3>1. AnsweredBeforeDue'
            BY <1>p, <2>a DEF AnsweredBeforeDue
        <3>2. AnsweredBeforeHandled'
            BY <1>p, <2>a DEF AnsweredBeforeHandled
        <3>3. AnsweredBeforeQueued'
            <4>1. \A i \in 1..Len(answered) : answered[i].seq < nurbs + 1
                BY <1>p, <1>t DEF AnsweredNumbered
            <4> QED
                BY <1>p, <2>a, <2>n, <4>1 DEF AnsweredBeforeQueued
        <3>4. DueBeforeQueued'
            <4>1. ASSUME NEW j \in 1..Len(due), NEW k \in 1..Len(queue'[due[j].ep])
                  PROVE  due[j].urb.seq < queue'[due[j].ep][k].seq
                <5>1. due[j].ep \in SchedEps /\ due[j].urb.seq \in Nat /\ due[j].urb.seq <= nurbs
                    BY <1>p, <1>t DEF DueNumbered
                <5>2. CASE k \in 1..Len(queue[due[j].ep]) /\ queue'[due[j].ep][k] = queue[due[j].ep][k]
                    BY <1>p, <5>2 DEF DueBeforeQueued
                <5>3. CASE queue'[due[j].ep][k].seq = nurbs + 1
                    BY <1>t, <5>1, <5>3
                <5> QED
                    BY <2>n, <5>1, <5>2, <5>3
            <4> QED
                BY <2>a, <4>1 DEF DueBeforeQueued
        <3>5. HandledBeforeQueued'
            <4>1. \A h \in handling : h.seq < nurbs + 1 /\ h.ep \in SchedEps
                BY <1>p, <1>t DEF HandlingNumbered
            <4> QED
                BY <1>p, <2>a, <2>n, <4>1 DEF HandledBeforeQueued
        <3> QED
            BY <3>1, <3>2, <3>3, <3>4, <3>5 DEF InPlace
    <2>11. AnsweredOrdered'
        BY <1>0, <2>a DEF AnsweredOrdered
    <2>12. CancelledStaysSilent'
        BY <1>0, <2>a DEF CancelledStaysSilent
    <2>13. UrbsHaveWakeup'
        <3>1. ASSUME HeadTimes(queue, processing)' # {}
              PROVE  HeadTimes(queue, processing) # {} \/ (queue[e] = <<>> /\ processing[e] = 0)
            <4>1. PICK f \in SchedEps : processing[f] = 0 /\ queue'[f] # <<>>
                BY <2>a, <3>1 DEF HeadTimes
            <4>2. CASE f = e
                BY <4>1, <4>2, HeadsWait
            <4>3. CASE f # e
                BY <2>f, <4>1, <4>3, HeadsWait
            <4> QED
                BY <4>2, <4>3
        <3> QED
            BY <1>0, <2>a, <2>g, <3>1 DEF UrbsHaveWakeup
    <2> QED
        BY <2>1, <2>2, <2>3, <2>4, <2>5, <2>6, <2>7, <2>8, <2>9, <2>10, <2>11, <2>12, <2>13
           DEF SchedInv
<1>13. ASSUME NEW seq \in 1..MaxUrbs, Cancel(seq) PROVE SchedInv'
    <2>z. PICK e \in SchedEps : \E i \in Position(e, seq) :
              LET q == RemoveAt(queue[e], i)
                  l == IF i = 1 THEN Greater(last_scheduled[e], Head(queue[e]).at)
                       ELSE last_scheduled[e]
              IN  /\ cancelled_urbs' = cancelled_urbs \cup {seq}
                  /\ IF processing[e] = 0 THEN Armed(e, q, l)
                     ELSE /\ queue' = [queue EXCEPT ![e] = q]
                          /\ last_scheduled' = [last_scheduled EXCEPT ![e] = l]
                  /\ UNCHANGED <<now, started, joining, processing, timer_pending, expires,
                                 io_queue, due, handling, answered, nurbs, nstarts>>
        BY <1>13 DEF Cancel
<2>0. PICK i \in Position(e, seq) :
              LET q == RemoveAt(queue[e], i)
                  l == IF i = 1 THEN Greater(last_scheduled[e], Head(queue[e]).at)
                       ELSE last_scheduled[e]
              IN  /\ cancelled_urbs' = cancelled_urbs \cup {seq}
                  /\ IF processing[e] = 0 THEN Armed(e, q, l)
                     ELSE /\ queue' = [queue EXCEPT ![e] = q]
                          /\ last_scheduled' = [last_scheduled EXCEPT ![e] = l]
                  /\ UNCHANGED <<now, started, joining, processing, timer_pending, expires,
                                 io_queue, due, handling, answered, nurbs, nstarts>>
        BY <2>z
    <2>a. /\ cancelled_urbs' = cancelled_urbs \cup {seq}
          /\ UNCHANGED <<now, started, joining, processing, timer_pending, expires,
                         io_queue, due, handling, answered, nurbs, nstarts>>
        BY <2>0
    <2>b. i \in 1..Len(queue[e]) /\ queue[e][i].seq = seq
        BY DEF Position
    <2>c. PICK q, l : /\ q = RemoveAt(queue[e], i)
                      /\ l = IF i = 1 THEN Greater(last_scheduled[e], Head(queue[e]).at)
                             ELSE last_scheduled[e]
        BY Zenon
    <2>d. IF processing[e] = 0 THEN Armed(e, q, l)
          ELSE /\ queue' = [queue EXCEPT ![e] = q]
               /\ last_scheduled' = [last_scheduled EXCEPT ![e] = l]
        BY <2>0, <2>c, Zenon
    <2>e. /\ queue \in [SchedEps -> Seq(Urb)] /\ last_scheduled \in [SchedEps -> Nat]
          /\ now \in Nat
        BY <1>0 DEF SchedTypes
    <2>f. /\ q \in Seq(Urb) /\ Len(q) = Len(queue[e]) - 1
          /\ \A k \in 1..Len(q) : q[k] = queue[e][IF k < i THEN k ELSE k + 1]
        BY <1>t, <2>b, <2>c, WithoutOne
    <2>g. l \in Nat
        <3>1. queue[e][1] \in Urb /\ Head(queue[e]) = queue[e][1]
            BY <2>b, <2>e
        <3> QED
            BY <2>c, <2>e, <3>1 DEF Greater, Urb
    <2>h. /\ queue' \in [SchedEps -> Seq(Urb)] /\ last_scheduled' \in [SchedEps -> Nat]
          /\ \A f \in SchedEps : f # e => queue'[f] = queue[f]
          /\ Len(queue'[e]) = Len(q)
          /\ \A k \in 1..Len(q) : /\ queue'[e][k].seq = q[k].seq /\ queue'[e][k].conn = q[k].conn
                                  /\ k > 1 => queue'[e][k] = q[k]
        <3>1. CASE processing[e] = 0
            <4>2. PICK a : a = ArmNext(e, q, l)
                BY Zenon
            <4>3. /\ a.queue \in Seq(Urb) /\ a.last \in Nat /\ Len(a.queue) = Len(q)
                  /\ \A k \in 1..Len(q) : /\ a.queue[k].seq = q[k].seq
                                          /\ a.queue[k].conn = q[k].conn
                                          /\ k > 1 => a.queue[k] = q[k]
                BY <2>e, <2>f, <2>g, <4>2, ArmsHead
            <4>4. /\ queue' = [queue EXCEPT ![e] = a.queue]
                  /\ last_scheduled' = [last_scheduled EXCEPT ![e] = a.last]
                BY <2>d, <3>1, <4>2, Zenon DEF Armed
            <4>5. queue'[e] = a.queue /\ \A f \in SchedEps : f # e => queue'[f] = queue[f]
                BY <2>e, <4>4
            <4>6. /\ queue' \in [SchedEps -> Seq(Urb)] /\ last_scheduled' \in [SchedEps -> Nat]
                BY <2>e, <4>3, <4>4
            <4> QED
                BY <4>3, <4>5, <4>6
        <3>2. CASE processing[e] # 0
            <4>1. /\ queue' = [queue EXCEPT ![e] = q]
                  /\ last_scheduled' = [last_scheduled EXCEPT ![e] = l]
                BY <2>d, <3>2
            <4>2. /\ queue'[e] = q /\ queue' \in [SchedEps -> Seq(Urb)]
                  /\ last_scheduled' \in [SchedEps -> Nat]
                  /\ \A f \in SchedEps : f # e => queue'[f] = queue[f]
                BY <2>e, <2>f, <2>g, <4>1
            <4> QED
                BY <4>2
        <3> QED
            BY <3>1, <3>2
    <2>k. PICK m : m = [f \in SchedEps |-> [k \in Nat |-> IF f # e \/ k < i THEN k ELSE k + 1]]
        BY Zenon
    <2>l. \A f \in SchedEps, k \in Nat : m[f][k] = IF f # e \/ k < i THEN k ELSE k + 1
        BY <2>k
    <2>m. ASSUME NEW f \in SchedEps, NEW k \in 1..Len(queue'[f])
          PROVE  /\ m[f][k] \in 1..Len(queue[f])
                 /\ queue'[f][k].seq = queue[f][m[f][k]].seq
                 /\ queue'[f][k].conn = queue[f][m[f][k]].conn
                 /\ k > 1 => queue'[f][k] = queue[f][m[f][k]] /\ m[f][k] > 1
                 /\ f = e => m[f][k] # i
        <3>0. Len(queue[f]) \in Nat /\ Len(queue'[f]) \in Nat /\ k \in Nat
            BY <2>e, <2>h
        <3>1. CASE f # e
            <4>1. m[f][k] = k /\ queue'[f] = queue[f]
                BY <2>h, <2>l, <3>0, <3>1
            <4> QED
                BY <3>0, <3>1, <4>1
        <3>2. CASE f = e
            <4>1. m[f][k] = IF k < i THEN k ELSE k + 1
                BY <2>l, <3>0, <3>2
            <4>2. k \in 1..Len(q) /\ q[k] = queue[e][m[f][k]]
                BY <2>f, <2>h, <3>2, <4>1
            <4>3. m[f][k] \in 1..Len(queue[f]) /\ m[f][k] # i /\ (k > 1 => m[f][k] > 1)
                BY <2>b, <2>f, <3>0, <3>2, <4>1, <4>2
            <4> QED
                BY <2>h, <3>2, <4>2, <4>3
        <3> QED
            BY <3>1, <3>2
    <2>n. \A f \in SchedEps : \A k, j \in 1..Len(queue'[f]) : k < j => m[f][k] < m[f][j]
        <3>1. \A f \in SchedEps : Len(queue'[f]) \in Nat
            BY <2>h
        <3>2. ASSUME NEW f \in SchedEps, NEW k \in 1..Len(queue'[f]), NEW j \in 1..Len(queue'[f]), k < j
              PROVE  m[f][k] < m[f][j]
            <4>1. k \in Nat /\ j \in Nat /\ i \in Nat
                BY <1>t, <2>b, <3>1
            <4>2. /\ m[f][k] = IF f # e \/ k < i THEN k ELSE k + 1
                  /\ m[f][j] = IF f # e \/ j < i THEN j ELSE j + 1
                BY <2>l, <4>1
            <4> QED
                BY <3>2, <4>1, <4>2
        <3> QED
            BY <3>2
    <2>o. /\ QueueNumbered' /\ QueueCurrent' /\ QueueOrdered' /\ QueuesApart'
          /\ QueuedNotHandled' /\ QueuedNotAnswered' /\ AnsweredBeforeQueued'
          /\ HandledBeforeQueued'
        BY <1>0, <1>p, <2>a, <2>m, <2>n, QueuesShrink
    <2>p. seq <= nurbs
        BY <1>p, <2>b DEF QueueNumbered
    <2>1. SchedTypes'
        <3>1. cancelled_urbs' \subseteq 1..nurbs'
            BY <1>0, <1>t, <2>a, <2>p DEF SchedTypes
        <3> QED
            BY <1>0, <2>a, <2>h, <3>1 DEF SchedTypes
    <2>2. HeadArmed'
        BY <1>0, <2>m DEF HeadArmed
    <2>3. Numbered'
        <3>1. QueueNumbered'
            BY <2>o
        <3>2. ProcessingNumbered'
            BY <1>p, <2>a DEF ProcessingNumbered
        <3>3. DueNumbered'
            BY <1>p, <2>a DEF DueNumbered
        <3>4. HandlingNumbered'
            BY <1>p, <2>a DEF HandlingNumbered
        <3>5. AnsweredNumbered'
            BY <1>p, <2>a DEF AnsweredNumbered
        <3> QED
            BY <3>1, <3>2, <3>3, <3>4, <3>5 DEF Numbered
    <2>4. Stopped'
        <3>1. started
            <4>1. ~started => queue[e] = <<>>
                BY <1>0 DEF Stopped, NoUrbs
            <4> QED
                BY <2>b, <4>1
        <3> QED
            BY <1>0, <2>a, <3>1 DEF Stopped
    <2>5. QueueCurrent'
        BY <2>o
    <2>6. DueCurrent'
        BY <1>0, <2>a DEF DueCurrent
    <2>7. QueuedOnce'
        <3>1. QueueOrdered'
            BY <2>o
        <3>2. QueuesApart'
            BY <2>o
        <3>3. QueuedNotCancelled'
            <4>1. ASSUME NEW f \in SchedEps, NEW k \in 1..Len(queue'[f])
                  PROVE  queue'[f][k].seq # seq
                <5>1. /\ m[f][k] \in 1..Len(queue[f]) /\ (f = e => m[f][k] # i)
                      /\ queue'[f][k].seq = queue[f][m[f][k]].seq
                    BY <2>m
                <5>2. CASE f # e
                    BY <1>p, <2>b, <5>1, <5>2 DEF QueuesApart
                <5>3. CASE f = e
                    <6>1. queue[e][m[f][k]].seq \in Nat /\ queue[e][i].seq \in Nat /\ i \in Nat
                          /\ m[f][k] \in Nat
                        BY <1>t, <2>b, <5>1, <5>3
                    <6>2. m[f][k] < i \/ i < m[f][k]
                        BY <5>1, <5>3, <6>1
                    <6> QED
                        BY <1>p, <2>b, <5>1, <5>3, <6>1, <6>2 DEF QueueOrdered
                <5> QED
                    BY <5>2, <5>3
            <4>2. ASSUME NEW f \in SchedEps, NEW k \in 1..Len(queue'[f])
                  PROVE  queue'[f][k].seq \notin cancelled_urbs
                <5>1. m[f][k] \in 1..Len(queue[f]) /\ queue'[f][k].seq = queue[f][m[f][k]].seq
                    BY <2>m
                <5> QED
                    BY <1>p, <5>1 DEF QueuedNotCancelled
            <4> QED
                BY <2>a, <4>1, <4>2 DEF QueuedNotCancelled
        <3>4. QueuedNotHandled'
            BY <2>o
        <3>5. QueuedNotDue'
            <4>1. ASSUME NEW f \in SchedEps, NEW k \in 1..Len(queue'[f]), NEW j \in 1..Len(due)
                  PROVE  due[j].urb.seq # queue'[f][k].seq
                <5>1. m[f][k] \in 1..Len(queue[f]) /\ queue'[f][k].seq = queue[f][m[f][k]].seq
                    BY <2>m
                <5> QED
                    BY <1>p, <5>1 DEF QueuedNotDue
            <4> QED
                BY <2>a, <4>1 DEF QueuedNotDue
        <3>6. QueuedNotAnswered'
            BY <2>o
        <3> QED
            BY <3>1, <3>2, <3>3, <3>4, <3>5, <3>6 DEF QueuedOnce
    <2>8. OnItsWay'
        BY <1>0, <2>a DEF OnItsWay
    <2>9. OneAtATime'
        BY <1>0, <2>a DEF OneAtATime
    <2>10. InPlace'
        <3>1. AnsweredBeforeDue'
            BY <1>p, <2>a DEF AnsweredBeforeDue
        <3>2. AnsweredBeforeHandled'
            BY <1>p, <2>a DEF AnsweredBeforeHandled
        <3>3. AnsweredBeforeQueued'
            BY <2>o
        <3>4. DueBeforeQueued'
            <4>1. ASSUME NEW j \in 1..Len(due), NEW k \in 1..Len(queue'[due[j].ep])
                  PROVE  due[j].urb.seq < queue'[due[j].ep][k].seq
                <5>1. PICK f \in SchedEps : f = due[j].ep
                    BY <1>t
                <5>2. m[f][k] \in 1..Len(queue[f]) /\ queue'[f][k].seq = queue[f][m[f][k]].seq
                    BY <2>m, <5>1
                <5> QED
                    BY <1>p, <5>1, <5>2 DEF DueBeforeQueued
            <4> QED
                BY <2>a, <4>1 DEF DueBeforeQueued
        <3>5. HandledBeforeQueued'
            BY <2>o
        <3> QED
            BY <3>1, <3>2, <3>3, <3>4, <3>5 DEF InPlace
    <2>11. AnsweredOrdered'
        BY <1>0, <2>a DEF AnsweredOrdered
    <2>12. CancelledStaysSilent'
        <3>1. started /\ answered' = answered /\ due' = due /\ handling' = handling
            <4>1. ~started => queue[e] = <<>>
                BY <1>0 DEF Stopped, NoUrbs
            <4> QED
                BY <2>a, <2>b, <4>1
        <3>2. \A j \in 1..Len(due) : due[j].urb.seq # seq
            BY <1>p, <2>b DEF QueuedNotDue
        <3>3. \A h \in handling : h.seq # seq
            BY <1>p, <2>b DEF QueuedNotHandled
        <3>4. \A j \in 1..Len(answered) : answered[j].seq # seq
            BY <1>p, <2>b DEF QueuedNotAnswered
        <3> QED
            BY <1>0, <2>a, <3>1, <3>2, <3>3, <3>4 DEF CancelledStaysSilent
    <2>13. UrbsHaveWakeup'
        <3>1. ASSUME HeadTimes(queue, processing)' # {} PROVE HeadTimes(queue, processing) # {}
            <4>1. PICK f \in SchedEps : processing[f] = 0 /\ queue'[f] # <<>>
                BY <2>a, <3>1 DEF HeadTimes
            <4>2. CASE f = e
                BY <2>b, <4>1, <4>2, HeadsWait
            <4>3. CASE f # e
                BY <2>h, <4>1, <4>3, HeadsWait
            <4> QED
                BY <4>2, <4>3
        <3> QED
            BY <1>0, <2>a, <3>1 DEF UrbsHaveWakeup
    <2> QED
        BY <2>1, <2>2, <2>3, <2>4, <2>5, <2>6, <2>7, <2>8, <2>9, <2>10, <2>11, <2>12, <2>13
           DEF SchedInv
<1>14. ASSUME NEW h \in handling, HandlerSends(h) PROVE SchedInv'
    <2>a. /\ ~h.sent /\ handling' = (handling \ {h}) \cup {[h EXCEPT !.sent = TRUE]}
          /\ answered' = Append(answered, [ep |-> h.ep, seq |-> h.seq, conn |-> h.conn])
          /\ UNCHANGED <<now, started, joining, queue, processing, last_scheduled,
                         timer_pending, expires, io_queue, due, cancelled_urbs, nurbs, nstarts>>
        BY <1>14 DEF HandlerSends
    <2>b. PICK g \in Handled : g = [h EXCEPT !.sent = TRUE]
        <3>1. [h EXCEPT !.sent = TRUE] \in Handled
            BY <1>0 DEF SchedTypes, Handled
        <3> QED
            BY <3>1, Zenon
    <2>g. /\ g.ep = h.ep /\ g.seq = h.seq /\ g.conn = h.conn /\ g.sent
          /\ handling' = (handling \ {h}) \cup {g}
        <3>1. /\ [h EXCEPT !.sent = TRUE].ep = h.ep /\ [h EXCEPT !.sent = TRUE].seq = h.seq
              /\ [h EXCEPT !.sent = TRUE].conn = h.conn /\ [h EXCEPT !.sent = TRUE].sent
            BY <1>0 DEF SchedTypes, Handled
        <3> QED
            BY <2>a, <2>b, <3>1, Zenon
    <2>c. PICK r \in SchedReply : r = [ep |-> h.ep, seq |-> h.seq, conn |-> h.conn]
        <3>1. [ep |-> h.ep, seq |-> h.seq, conn |-> h.conn] \in SchedReply
            BY <1>t DEF SchedReply
        <3> QED
            BY <3>1, Zenon
    <2>d. r.ep = h.ep /\ r.seq = h.seq /\ r.conn = h.conn
        BY <2>c
    <2>e. /\ answered' \in Seq(SchedReply)
          /\ Len(answered') = Len(answered) + 1
          /\ answered'[Len(answered) + 1] = r
          /\ \A i \in 1..Len(answered) : answered'[i] = answered[i]
        BY <1>0, <2>a, <2>c DEF SchedTypes
    <2>x. \A i \in 1..Len(answered') :
             (i \in 1..Len(answered) /\ answered'[i] = answered[i]) \/ answered'[i] = r
        BY <1>t, <2>e
    <2>1. SchedTypes'
        BY <1>0, <2>a, <2>e, <2>g DEF SchedTypes
    <2>2. HeadArmed'
        BY <1>0, <2>a DEF HeadArmed
    <2>3. Numbered'
        <3>1. QueueNumbered'
            BY <1>p, <2>a DEF QueueNumbered
        <3>2. ProcessingNumbered'
            BY <1>p, <2>a DEF ProcessingNumbered
        <3>3. DueNumbered'
            BY <1>p, <2>a DEF DueNumbered
        <3>4. HandlingNumbered'
            BY <1>p, <1>t, <2>a, <2>g DEF HandlingNumbered
        <3>5. AnsweredNumbered'
            <4>1. h.seq <= nurbs /\ h.conn <= nstarts
                BY <1>p DEF HandlingNumbered
            <4> QED
                BY <1>p, <1>t, <2>a, <2>d, <2>e, <4>1 DEF AnsweredNumbered
        <3> QED
            BY <3>1, <3>2, <3>3, <3>4, <3>5 DEF Numbered
    <2>4. Stopped'
        BY <1>0, <2>a DEF Stopped
    <2>5. QueueCurrent'
        BY <1>0, <2>a DEF QueueCurrent
    <2>6. DueCurrent'
        BY <1>0, <2>a DEF DueCurrent
    <2>7. QueuedOnce'
        <3>1. QueueOrdered'
            BY <1>p, <2>a DEF QueueOrdered
        <3>2. QueuesApart'
            BY <1>p, <2>a DEF QueuesApart
        <3>3. QueuedNotCancelled'
            BY <1>p, <2>a DEF QueuedNotCancelled
        <3>4. QueuedNotHandled'
            BY <1>p, <2>a, <2>g DEF QueuedNotHandled
        <3>5. QueuedNotDue'
            BY <1>p, <2>a DEF QueuedNotDue
        <3>6. QueuedNotAnswered'
            <4>1. \A e \in SchedEps : \A i \in 1..Len(queue[e]) : r.seq # queue[e][i].seq
                BY <1>p, <2>d DEF QueuedNotHandled
            <4> QED
                BY <1>p, <2>a, <2>x, <4>1 DEF QueuedNotAnswered
        <3> QED
            BY <3>1, <3>2, <3>3, <3>4, <3>5, <3>6 DEF QueuedOnce
    <2>8. OnItsWay'
        BY <1>0, <2>a, <2>g DEF OnItsWay
    <2>9. OneAtATime'
        BY <1>0, <2>a, <2>g DEF OneAtATime
    <2>10. InPlace'
        <3>1. AnsweredBeforeDue'
            <4>1. \A j \in 1..Len(due) : due[j].ep = h.ep => h.conn # nstarts
                BY <1>0 DEF OneAtATime
            <4>2. ASSUME NEW i \in 1..Len(answered'), NEW j \in 1..Len(due'),
                         answered'[i].ep = due'[j].ep, answered'[i].conn = nstarts
                  PROVE  answered'[i].seq < due'[j].urb.seq
                <5>1. CASE i \in 1..Len(answered) /\ answered'[i] = answered[i]
                    BY <1>p, <2>a, <4>2, <5>1 DEF AnsweredBeforeDue
                <5>2. CASE answered'[i] = r
                    BY <2>a, <2>d, <4>1, <4>2, <5>2
                <5> QED
                    BY <2>x, <5>1, <5>2
            <4> QED
                BY <2>a, <4>2 DEF AnsweredBeforeDue
        <3>2. AnsweredBeforeHandled'
            <4>1. \A k \in handling : (k.ep = h.ep /\ k.conn = h.conn) => k = h
                BY <1>0 DEF OneAtATime
            <4> QED
                BY <1>p, <2>d, <2>x, <2>g, <4>1 DEF AnsweredBeforeHandled
        <3>3. AnsweredBeforeQueued'
            <4>1. \A k \in 1..Len(queue[h.ep]) : h.conn = nstarts => h.seq < queue[h.ep][k].seq
                BY <1>p DEF HandledBeforeQueued
            <4> QED
                BY <1>p, <2>a, <2>d, <2>x, <4>1 DEF AnsweredBeforeQueued
        <3>4. DueBeforeQueued'
            BY <1>p, <2>a DEF DueBeforeQueued
        <3>5. HandledBeforeQueued'
            BY <1>p, <1>t, <2>a, <2>g, SMTT(30) DEF HandledBeforeQueued
        <3> QED
            BY <3>1, <3>2, <3>3, <3>4, <3>5 DEF InPlace
    <2>11. AnsweredOrdered'
        <3>1. ASSUME NEW i \in 1..Len(answered), NEW j \in 1..Len(answered) + 1, i < j,
                     answered'[i].ep = answered'[j].ep, answered'[i].conn = answered'[j].conn
              PROVE  answered'[i].seq < answered'[j].seq
            <4>1. CASE j \in 1..Len(answered)
                BY <1>0, <2>e, <3>1, <4>1 DEF AnsweredOrdered
            <4>2. CASE j = Len(answered) + 1
                BY <1>p, <2>a, <2>d, <2>e, <3>1, <4>2 DEF AnsweredBeforeHandled
            <4>3. Len(answered) \in Nat
                BY <1>t
            <4> QED
                BY <4>1, <4>2, <4>3
        <3>2. Len(answered) \in Nat
            BY <1>t
        <3>3. \A i, j \in 1..Len(answered') : i < j => i \in 1..Len(answered) /\ j \in 1..Len(answered) + 1
            BY <2>e, <3>2
        <3> QED
            BY <3>1, <3>3 DEF AnsweredOrdered
    <2>12. CancelledStaysSilent'
        <3>1. h.seq \notin cancelled_urbs
            BY <1>0 DEF CancelledStaysSilent
        <3> QED
            BY <1>0, <1>t, <2>a, <2>d, <2>e, <2>g, <3>1 DEF CancelledStaysSilent
    <2>13. UrbsHaveWakeup'
        BY <1>0, <2>a DEF UrbsHaveWakeup, HeadTimes
    <2> QED
        BY <2>1, <2>2, <2>3, <2>4, <2>5, <2>6, <2>7, <2>8, <2>9, <2>10, <2>11, <2>12, <2>13
           DEF SchedInv
<1>15. ASSUME NEW h \in handling, HandlerReports(h) PROVE SchedInv'
    <2>a. /\ handling' = handling \ {h} /\ OnUrbDone(h.ep, h.seq)
          /\ UNCHANGED <<now, started, joining, queue, last_scheduled, timer_pending,
                         expires, due, answered, cancelled_urbs, nurbs, nstarts>>
        BY <1>15 DEF HandlerReports
    <2>b. /\ processing' \in [SchedEps -> Nat] /\ io_queue' \in Seq(IoHandler)
          /\ ~started => processing' = processing
          /\ \A f \in SchedEps : processing'[f] = 0 \/ processing'[f] = processing[f]
          /\ \A f \in SchedEps : f # h.ep \/ processing[f] # h.seq => processing'[f] = processing[f]
          /\ UrbsHaveWakeup'
        BY <1>0, <1>t, <2>a, DoneLetsGo
    <2>1. SchedTypes'
        BY <1>0, <2>a, <2>b DEF SchedTypes
    <2>2. HeadArmed'
        BY <1>0, <2>a DEF HeadArmed
    <2>3. Numbered'
        <3>1. QueueNumbered'
            BY <1>p, <2>a DEF QueueNumbered
        <3>2. ProcessingNumbered'
            BY <1>p, <1>t, <2>a, <2>b, SMTT(30) DEF ProcessingNumbered
        <3>3. DueNumbered'
            BY <1>p, <2>a DEF DueNumbered
        <3>4. HandlingNumbered'
            BY <1>p, <1>t, <2>a, <2>b DEF HandlingNumbered
        <3>5. AnsweredNumbered'
            BY <1>p, <2>a DEF AnsweredNumbered
        <3> QED
            BY <3>1, <3>2, <3>3, <3>4, <3>5 DEF Numbered
    <2>4. Stopped'
        BY <1>0, <2>a, <2>b DEF Stopped
    <2>5. QueueCurrent'
        BY <1>0, <2>a DEF QueueCurrent
    <2>6. DueCurrent'
        BY <1>0, <2>a DEF DueCurrent
    <2>7. QueuedOnce'
        <3>1. QueueOrdered'
            BY <1>p, <2>a DEF QueueOrdered
        <3>2. QueuesApart'
            BY <1>p, <2>a DEF QueuesApart
        <3>3. QueuedNotCancelled'
            BY <1>p, <2>a DEF QueuedNotCancelled
        <3>4. QueuedNotHandled'
            <4>1. handling' \subseteq handling /\ queue' = queue
                BY <2>a
            <4>2. QueuedNotHandled
                BY <1>p
            <4> QED
                BY <4>1, <4>2 DEF QueuedNotHandled
        <3>5. QueuedNotDue'
            BY <1>p, <2>a DEF QueuedNotDue
        <3>6. QueuedNotAnswered'
            BY <1>p, <2>a DEF QueuedNotAnswered
        <3> QED
            BY <3>1, <3>2, <3>3, <3>4, <3>5, <3>6 DEF QueuedOnce
    <2>8. OnItsWay'
        <3>1. CASE ~started
            BY <2>a, <3>1 DEF OnItsWay
        <3>2. CASE started
            <4>1. ASSUME NEW i \in 1..Len(due) PROVE processing'[due[i].ep] = due[i].urb.seq
                <5>1. due[i].ep \in SchedEps /\ processing[due[i].ep] = due[i].urb.seq
                    BY <1>0, <1>t, <3>2 DEF OnItsWay
                <5>2. due[i].ep = h.ep => processing[h.ep] # h.seq
                    BY <1>0, <3>2 DEF OnItsWay, OneAtATime
                <5> QED
                    BY <2>b, <5>1, <5>2
            <4>2. ASSUME NEW g \in handling \ {h}
                  PROVE  g.conn = nstarts <=> processing'[g.ep] = g.seq
                <5>1. g.ep \in SchedEps /\ g.seq # 0 /\ (g.conn = nstarts <=> processing[g.ep] = g.seq)
                    BY <1>0, <1>t, <3>2 DEF OnItsWay
                <5>2. g.conn = nstarts /\ g.ep = h.ep => processing[h.ep] # h.seq
                    BY <1>0, <3>2 DEF OnItsWay, OneAtATime
                <5> QED
                    BY <2>b, <5>1, <5>2
            <4> QED
                BY <2>a, <4>1, <4>2 DEF OnItsWay
        <3> QED
            BY <3>1, <3>2
    <2>9. OneAtATime'
        BY <1>0, <1>t, <2>a, <2>b DEF OneAtATime
    <2>10. InPlace'
        <3>1. AnsweredBeforeDue'
            BY <1>p, <2>a DEF AnsweredBeforeDue
        <3>2. AnsweredBeforeHandled'
            BY <1>p, <1>t, <2>a, <2>b DEF AnsweredBeforeHandled
        <3>3. AnsweredBeforeQueued'
            BY <1>p, <2>a DEF AnsweredBeforeQueued
        <3>4. DueBeforeQueued'
            BY <1>p, <2>a DEF DueBeforeQueued
        <3>5. HandledBeforeQueued'
            BY <1>p, <1>t, <2>a, <2>b DEF HandledBeforeQueued
        <3> QED
            BY <3>1, <3>2, <3>3, <3>4, <3>5 DEF InPlace
    <2>11. AnsweredOrdered'
        BY <1>0, <2>a DEF AnsweredOrdered
    <2>12. CancelledStaysSilent'
        BY <1>0, <1>t, <2>a, <2>b DEF CancelledStaysSilent
    <2>13. UrbsHaveWakeup'
        BY <2>b
    <2> QED
        BY <2>1, <2>2, <2>3, <2>4, <2>5, <2>6, <2>7, <2>8, <2>9, <2>10, <2>11, <2>12, <2>13
           DEF SchedInv
<1>16. CASE UNCHANGED schedVars
    <2>a. UNCHANGED <<now, started, joining, queue, processing, last_scheduled,
                      timer_pending, expires, io_queue, due, handling, answered, cancelled_urbs, nurbs,
                      nstarts>>
        BY <1>16 DEF schedVars
    <2>1. SchedTypes'
        BY <1>0, <2>a DEF SchedTypes
    <2>2. HeadArmed'
        BY <1>0, <2>a DEF HeadArmed
    <2>3. Numbered'
        BY <1>0, <1>p, <2>a DEF Numbered, QueueNumbered, ProcessingNumbered, DueNumbered,
           HandlingNumbered, AnsweredNumbered
    <2>4. Stopped'
        BY <1>0, <2>a DEF Stopped
    <2>5. QueueCurrent'
        BY <1>0, <2>a DEF QueueCurrent
    <2>6. DueCurrent'
        BY <1>0, <2>a DEF DueCurrent
    <2>7. QueuedOnce'
        BY <1>0, <1>p, <2>a DEF QueuedOnce, QueueOrdered, QueuesApart, QueuedNotCancelled,
           QueuedNotHandled, QueuedNotDue, QueuedNotAnswered
    <2>8. OnItsWay'
        BY <1>0, <2>a DEF OnItsWay
    <2>9. OneAtATime'
        BY <1>0, <2>a DEF OneAtATime
    <2>10. InPlace'
        BY <1>0, <1>p, <2>a DEF InPlace, AnsweredBeforeDue, AnsweredBeforeHandled,
           AnsweredBeforeQueued, DueBeforeQueued, HandledBeforeQueued
    <2>11. AnsweredOrdered'
        BY <1>0, <2>a DEF AnsweredOrdered
    <2>12. CancelledStaysSilent'
        BY <1>0, <2>a DEF CancelledStaysSilent
    <2>13. UrbsHaveWakeup'
        BY <1>0, <2>a DEF UrbsHaveWakeup, HeadTimes
    <2> QED
        BY <2>1, <2>2, <2>3, <2>4, <2>5, <2>6, <2>7, <2>8, <2>9, <2>10, <2>11, <2>12, <2>13
           DEF SchedInv
<1>17. IsoEps \subseteq SchedEps /\ Delays \subseteq Int /\ 0 \in Int
    BY TransferSchedulerAssumption DEF TransferSchedulerAssumption
<1> QED
    BY <1>1, <1>2, <1>3, <1>4, <1>5, <1>6, <1>7, <1>8, <1>9, <1>10, <1>11, <1>12, <1>13,
       <1>14, <1>15, <1>16, <1>17 DEF SchedNext, SchedThread

\* The state in which the scheduler is built.
LEMMA SchedInitInv == SchedInit => SchedInv
<1> SUFFICES ASSUME SchedInit PROVE SchedInv
    OBVIOUS
<1>1. /\ now = 1 /\ started = FALSE /\ joining = FALSE
      /\ queue = NoUrbs /\ processing = Nothing /\ last_scheduled = Nothing
      /\ timer_pending = FALSE /\ expires = NoTimer /\ io_queue = <<>> /\ due = <<>> /\ handling = {}
      /\ answered = <<>> /\ cancelled_urbs = {} /\ nurbs = 0 /\ nstarts = 0
    BY DEF SchedInit
<1>2. /\ \A e \in SchedEps : queue[e] = <<>> /\ Len(queue[e]) = 0 /\ processing[e] = 0
      /\ Len(due) = 0 /\ Len(answered) = 0
    BY <1>1 DEF NoUrbs, Nothing
<1>3. SchedTypes
    <2>1. 0 \in 0..MaxStarts
        BY TransferSchedulerAssumption DEF TransferSchedulerAssumption
    <2>2. /\ queue \in [SchedEps -> Seq(Urb)] /\ processing \in [SchedEps -> Nat]
          /\ last_scheduled \in [SchedEps -> Nat]
        BY <1>1 DEF NoUrbs, Nothing
    <2>3. /\ io_queue \in Seq(IoHandler) /\ due \in Seq(Due) /\ answered \in Seq(SchedReply)
          /\ handling \subseteq Handled
        BY <1>1
    <2>4. /\ now \in Nat \ {0} /\ expires \in {NoTimer} \cup Nat
          /\ cancelled_urbs \subseteq 1..nurbs /\ nurbs \in Nat /\ nstarts \in 0..MaxStarts
        BY <1>1, <2>1
    <2>5. started \in BOOLEAN /\ joining \in BOOLEAN /\ timer_pending \in BOOLEAN
        BY <1>1
    <2> QED
        BY <2>2, <2>3, <2>4, <2>5 DEF SchedTypes
<1>4. HeadArmed /\ Stopped
    BY <1>1, <1>2 DEF HeadArmed, Stopped
<1>5. Numbered
    BY <1>1, <1>2 DEF Numbered, QueueNumbered, ProcessingNumbered, DueNumbered, HandlingNumbered,
       AnsweredNumbered
<1>6. QueueCurrent /\ DueCurrent /\ OnItsWay /\ OneAtATime
    BY <1>1, <1>2 DEF QueueCurrent, DueCurrent, OnItsWay, OneAtATime
<1>7. QueuedOnce
    BY <1>1, <1>2 DEF QueuedOnce, QueueOrdered, QueuesApart, QueuedNotCancelled, QueuedNotHandled,
       QueuedNotDue, QueuedNotAnswered
<1>8. InPlace
    BY <1>1, <1>2 DEF InPlace, AnsweredBeforeDue, AnsweredBeforeHandled, AnsweredBeforeQueued,
       DueBeforeQueued, HandledBeforeQueued
<1>9. AnsweredOrdered /\ CancelledStaysSilent /\ UrbsHaveWakeup
    BY <1>1, <1>2 DEF AnsweredOrdered, CancelledStaysSilent, UrbsHaveWakeup
<1> QED
    BY <1>3, <1>4, <1>5, <1>6, <1>7, <1>8, <1>9 DEF SchedInv

\* What the invariant says of the type invariant of the component.
LEMMA SchedInvTypes == SchedInv => SchedTypeOK
<1> SUFFICES ASSUME SchedInv PROVE SchedTypeOK
    OBVIOUS
<1>1. SchedTypes /\ HeadArmed /\ Numbered
    BY DEF SchedInv
<1>2. ASSUME NEW e \in SchedEps, NEW i \in 1..Len(queue[e])
      PROVE  queue[e][i].seq \in 1..nurbs /\ queue[e][i].at \in Nat
    <2>1. queue[e][i] \in Urb /\ nurbs \in Nat
        BY <1>1 DEF SchedTypes
    <2>2. queue[e][i].seq \in Nat \ {0} /\ queue[e][i].at \in Nat
        BY <2>1 DEF Urb
    <2>3. queue[e][i].seq <= nurbs
        BY <1>1 DEF Numbered, QueueNumbered
    <2> QED
        BY <2>1, <2>2, <2>3
<1>3. \A e \in SchedEps : processing[e] \in 0..nurbs /\ last_scheduled[e] \in Nat
    BY <1>1 DEF SchedTypes, Numbered, ProcessingNumbered
<1>4. ToSet(io_queue) \subseteq {"schedule", "timer", "aborted"}
    BY <1>1 DEF SchedTypes, IoHandler, ToSet
<1>5. \A h \in handling : h.ep \in SchedEps /\ h.seq \in 1..nurbs
    BY <1>1, Elements DEF Numbered, HandlingNumbered
<1>6. \A e \in SchedEps : \A i \in 1..Len(queue[e]) : i > 1 => queue[e][i].at = 0
    BY <1>1 DEF HeadArmed
<1>7. /\ now \in Nat \ {0} /\ started \in BOOLEAN /\ joining \in BOOLEAN
      /\ timer_pending \in BOOLEAN /\ expires \in {NoTimer} \cup Nat
      /\ cancelled_urbs \subseteq 1..nurbs /\ nstarts \in 0..MaxStarts
    BY <1>1 DEF SchedTypes
<1> QED
    BY <1>2, <1>3, <1>4, <1>5, <1>6, <1>7 DEF SchedTypeOK

------------------------------------------------------------------------------
\* The invariant holds in every state of TransferScheduler.
THEOREM SchedInductive == SchedSpec => []SchedInv
    BY SchedInitInv, SchedStep, PTL DEF SchedSpec

\* Every variable of TransferScheduler keeps its type, whatever the number of
\* connections, endpoints and URBs; only the head of a queue is armed.
THEOREM SchedTypeCorrect == SchedSpec => []SchedTypeOK
    BY SchedInductive, SchedInvTypes, PTL

\* submit(), on_timer, on_urb_done: an endpoint's URBs are answered in the
\* order in which they were submitted, each once, one on its way at a time,
\* over any number of stop() and start() and however late a handler reports.
THEOREM SchedAnswersInOrder == SchedSpec => []ServedInOrder
<1>1. SchedInv => ServedInOrder
    BY DEF SchedInv, ServedInOrder, OneAtATime, AnsweredOrdered
<1> QED
    BY <1>1, SchedInductive, PTL

\* cancel(): what it reported as cancelled is with no processor, not with the
\* scheduler's thread, and never answered.
THEOREM SchedCancelIsFinal == SchedSpec => []CancelledStaysSilent
<1>1. SchedInv => CancelledStaysSilent
    BY DEF SchedInv
<1> QED
    BY <1>1, SchedInductive, PTL

\* kick, schedule_next, on_timer: no URB waits on an idle endpoint without a
\* timer or a posted handler that will look at it.
THEOREM SchedNeverForgets == SchedSpec => []UrbsHaveWakeup
<1>1. SchedInv => UrbsHaveWakeup
    BY DEF SchedInv
<1> QED
    BY <1>1, SchedInductive, PTL

------------------------------------------------------------------------------
(***************************************************************************)
(* Proofs about VirtualDevice, for any interfaces and bounds.              *)
(*                                                                         *)
(* The answers of a connection matter only through three sets: the URBs    *)
(* that were answered (Done), those an unlink reported as cancelled        *)
(* (Reset), and those that wait (the domain of vd_pending).  They do not   *)
(* meet, and a control URB is in the first one from the start.             *)
(***************************************************************************)


VdAnswer == [kind : {"RET_SUBMIT", "RET_UNLINK"}, n : Nat,
             status : {"OK", "EPIPE", "ECONNRESET"}]

Done == {vd_answers[k].n : k \in {j \in DOMAIN vd_answers : vd_answers[j].kind = "RET_SUBMIT"}}
Reset == {vd_answers[k].n : k \in {j \in DOMAIN vd_answers :
              vd_answers[j].kind = "RET_UNLINK" /\ vd_answers[j].status = "ECONNRESET"}}
Waits == DOMAIN vd_pending

VdPlaces ==
    /\ vdpc \in {"down", "opening", "up", "closing"} /\ vdat \in 0..Len(Interfaces) + 1
    /\ vd_responder \in BOOLEAN /\ if_responder \subseteq If /\ vd_scheduler \in BOOLEAN
VdSettings ==
    /\ current_altsetting \in [If -> Nat]
    /\ \A i \in If : current_altsetting[i] \in DOMAIN Interfaces[i].alts
VdNumbers ==
    /\ nurb \in Nat /\ vd_unlinks \subseteq 1..nurb
    /\ Waits \subseteq 1..nurb /\ DOMAIN vd_control \subseteq 1..nurb
VdReplies ==
    /\ vd_answers \in Seq(VdAnswer)
    /\ \A k \in DOMAIN vd_answers : vd_answers[k].n \in 1..nurb

VdTypes == VdPlaces /\ VdSettings /\ VdNumbers /\ VdReplies

\* Which responders are set while the interfaces are opened and closed one
\* after the other, and who may still answer.
Handlers == {i \in If : Interfaces[i].handler}
Responders ==
    /\ vd_responder <=> vdpc # "down"
    /\ vd_scheduler <=> vdpc \in {"opening", "up"}
    /\ vdpc = "down" => if_responder = {}
    /\ vdpc = "opening" => vdat \in If /\ if_responder = {i \in Handlers : i < vdat}
    /\ vdpc = "up" => if_responder = Handlers
    /\ vdpc = "closing" => vdat > 0 /\ if_responder = {i \in Handlers : i >= vdat}
    /\ \A n \in Waits : \/ vd_pending[n] = Scheduler /\ vd_scheduler
                        \/ vd_pending[n] \in if_responder

\* The three sets do not meet.
OneAnswer ==
    \A j, k \in DOMAIN vd_answers :
        (vd_answers[j].kind = "RET_SUBMIT" /\ vd_answers[k].kind = "RET_SUBMIT"
            /\ vd_answers[j].n = vd_answers[k].n) => j = k
Settled == Done \cap Waits = {}
ControlSettled ==
    \A n \in DOMAIN vd_control : n \notin Waits /\ (vd_control[n].known <=> n \in Done)
ResetIsFinal == Reset \cap (Done \cup Waits) = {}

Outcomes == OneAnswer /\ Settled /\ ControlSettled /\ ResetIsFinal

VdInv == VdTypes /\ Responders /\ Outcomes

------------------------------------------------------------------------------
(* The answers.                                                              *)

\* A sequence's elements, by index
LEMMA Interface ==
    /\ Len(Interfaces) \in Nat \ {0} /\ If = 1..Len(Interfaces)
    /\ \A i \in If : /\ Interfaces[i].handler \in BOOLEAN /\ Interfaces[i].alts # <<>>
                     /\ DOMAIN Interfaces[i].alts = 1..Len(Interfaces[i].alts)
                     /\ Len(Interfaces[i].alts) \in Nat \ {0}
<1> DEFINE R == [alts : Seq(SUBSET (Nat \ {0})), handler : BOOLEAN, unlinks : BOOLEAN, hid : BOOLEAN]
<1>1. Interfaces \in Seq(R) /\ Interfaces # <<>> /\ \A i \in If : Interfaces[i].alts # <<>>
    BY VirtualDeviceAssumption DEF VirtualDeviceAssumption, If
<1>2. Len(Interfaces) \in Nat \ {0} /\ If = 1..Len(Interfaces) /\ \A i \in If : Interfaces[i] \in R
    <2> HIDE DEF R
    <2> QED
        BY <1>1 DEF If
<1>3. ASSUME NEW i \in If
      PROVE  Interfaces[i].handler \in BOOLEAN /\ Interfaces[i].alts \in Seq(SUBSET (Nat \ {0}))
    BY <1>2
<1>4. ASSUME NEW i \in If
      PROVE  /\ DOMAIN Interfaces[i].alts = 1..Len(Interfaces[i].alts)
             /\ Len(Interfaces[i].alts) \in Nat \ {0}
    <2>1. PICK a : a = Interfaces[i].alts
        BY Zenon
    <2>2. a \in Seq(SUBSET (Nat \ {0})) /\ a # <<>>
        BY <1>1, <1>3, <2>1
    <2>3. DOMAIN a = 1..Len(a) /\ Len(a) \in Nat \ {0}
        BY <2>2
    <2> QED
        BY <2>1, <2>3
<1> QED
    BY <1>1, <1>2, <1>3, <1>4

\* The answers are those given before and new ones about URB m.
OthersKept(m) ==
    \A k \in DOMAIN vd_answers' :
        vd_answers'[k].n = m \/ (k \in DOMAIN vd_answers /\ vd_answers'[k] = vd_answers[k])

\* A RET_SUBMIT for a URB that has none makes it answered and changes nothing else.
LEMMA AnswersSubmit ==
    ASSUME vd_answers \in Seq(VdAnswer), OneAnswer,
           NEW m \in Nat, NEW st \in {"OK", "EPIPE", "ECONNRESET"}, m \notin Done,
           vd_answers' = Append(vd_answers, Answer("RET_SUBMIT", m, st))
    PROVE  /\ vd_answers' \in Seq(VdAnswer) /\ OneAnswer'
           /\ Done' = Done \cup {m} /\ Reset' = Reset
           /\ OthersKept(m)
<1>1. Answer("RET_SUBMIT", m, st) \in VdAnswer
    BY DEF Answer, VdAnswer
<1>2. PICK a \in VdAnswer : a = Answer("RET_SUBMIT", m, st)
    BY <1>1, Zenon
<1>3. a.kind = "RET_SUBMIT" /\ a.n = m
    BY <1>2 DEF Answer
<1>4. vd_answers' = Append(vd_answers, a)
    BY <1>2
<1>5. /\ Len(vd_answers) \in Nat /\ DOMAIN vd_answers = 1..Len(vd_answers)
      /\ vd_answers' \in Seq(VdAnswer) /\ DOMAIN vd_answers' = 1..Len(vd_answers) + 1
      /\ \A k \in DOMAIN vd_answers : vd_answers'[k] = vd_answers[k]
      /\ vd_answers'[Len(vd_answers) + 1] = a
    BY <1>4
<1>6. DOMAIN vd_answers' = DOMAIN vd_answers \cup {Len(vd_answers) + 1}
      /\ Len(vd_answers) + 1 \notin DOMAIN vd_answers
    BY <1>5
<1>7. Done' = Done \cup {m}
    <2>1. m \in Done' /\ Done \subseteq Done'
        BY <1>3, <1>5, <1>6 DEF Done
    <2>2. Done' \subseteq Done \cup {m}
        BY <1>3, <1>5, <1>6 DEF Done
    <2> QED
        BY <2>1, <2>2
<1>8. Reset' = Reset
    <2>1. {j \in DOMAIN vd_answers' :
              vd_answers'[j].kind = "RET_UNLINK" /\ vd_answers'[j].status = "ECONNRESET"}
          = {j \in DOMAIN vd_answers :
              vd_answers[j].kind = "RET_UNLINK" /\ vd_answers[j].status = "ECONNRESET"}
        BY <1>3, <1>5, <1>6
    <2> QED
        BY <1>5, <2>1 DEF Reset
<1>9. OneAnswer'
    <2>1. \A j \in DOMAIN vd_answers : vd_answers[j].kind = "RET_SUBMIT" => vd_answers[j].n # m
        BY DEF Done
    <2> QED
        BY <1>3, <1>5, <1>6, <2>1 DEF OneAnswer
<1>10. OthersKept(m)
    BY <1>3, <1>5, <1>6 DEF OthersKept
<1> QED
    BY <1>5, <1>7, <1>8, <1>9, <1>10

\* Answers to an unlink of m, of which it is enough to know when they say ECONNRESET.
LEMMA AnswersUnlink ==
    ASSUME vd_answers \in Seq(VdAnswer), OneAnswer,
           NEW m \in Nat, NEW more \in Seq(VdAnswer),
           \A k \in 1..Len(more) : more[k].kind = "RET_UNLINK" /\ more[k].n = m,
           vd_answers' = vd_answers \o more
    PROVE  /\ vd_answers' \in Seq(VdAnswer) /\ OneAnswer'
           /\ Done' = Done
           /\ \/ Reset' = Reset
              \/ Reset' = Reset \cup {m} /\ \E k \in 1..Len(more) : more[k].status = "ECONNRESET"
           /\ OthersKept(m)
<1> DEFINE L == Len(vd_answers)
           M == Len(more)
<1>1. /\ L \in Nat /\ M \in Nat /\ DOMAIN vd_answers = 1..L
      /\ vd_answers' \in Seq(VdAnswer) /\ DOMAIN vd_answers' = 1..L + M
      /\ \A k \in 1..L : vd_answers'[k] = vd_answers[k]
      /\ \A k \in 1..L + M : k > L => vd_answers'[k] = more[k - L]
    OBVIOUS
<1> HIDE DEF L, M
<1>2. \A k \in DOMAIN vd_answers' : k \in DOMAIN vd_answers \/ (k > L /\ k - L \in 1..M)
    BY <1>1
<1>3. \A k \in DOMAIN vd_answers : k \in DOMAIN vd_answers' /\ vd_answers'[k] = vd_answers[k]
    BY <1>1
<1>4. \A k \in DOMAIN vd_answers' : k \notin DOMAIN vd_answers =>
          /\ k - L \in 1..M /\ vd_answers'[k] = more[k - L]
          /\ vd_answers'[k].kind = "RET_UNLINK" /\ vd_answers'[k].n = m
    BY <1>1, <1>2 DEF M
<1>5. \A k \in 1..M : k + L \in DOMAIN vd_answers' /\ k + L \notin DOMAIN vd_answers
                      /\ vd_answers'[k + L] = more[k]
    BY <1>1
<1>6. OneAnswer' /\ Done' = Done
    <2>1. {j \in DOMAIN vd_answers' : vd_answers'[j].kind = "RET_SUBMIT"}
          = {j \in DOMAIN vd_answers : vd_answers[j].kind = "RET_SUBMIT"}
        BY <1>3, <1>4
    <2>2. Done' = Done
        BY <1>3, <2>1 DEF Done
    <2>3. OneAnswer'
        BY <1>3, <1>4 DEF OneAnswer
    <2> QED
        BY <2>2, <2>3
<1>9. OthersKept(m)
    BY <1>3, <1>4 DEF OthersKept
<1>7. CASE \E k \in 1..M : more[k].status = "ECONNRESET"
    <2>1. PICK k \in 1..M : more[k].status = "ECONNRESET"
        BY <1>7
    <2>2. m \in Reset'
        <3>1. PICK j : j = k + L
            BY Zenon
        <3>2. j \in DOMAIN vd_answers' /\ vd_answers'[j] = more[k]
            BY <1>5, <3>1
        <3>3. /\ vd_answers'[j].kind = "RET_UNLINK" /\ vd_answers'[j].n = m
              /\ vd_answers'[j].status = "ECONNRESET"
            BY <2>1, <3>2 DEF M
        <3> QED
            BY <3>2, <3>3 DEF Reset
    <2>3. Reset \subseteq Reset'
        BY <1>3 DEF Reset
    <2>4. Reset' \subseteq Reset \cup {m}
        BY <1>3, <1>4 DEF Reset
    <2> QED
        BY <1>1, <1>6, <1>7, <1>9, <2>2, <2>3, <2>4 DEF M
<1>8. CASE ~\E k \in 1..M : more[k].status = "ECONNRESET"
    <2>1. {j \in DOMAIN vd_answers' :
              vd_answers'[j].kind = "RET_UNLINK" /\ vd_answers'[j].status = "ECONNRESET"}
          = {j \in DOMAIN vd_answers :
              vd_answers[j].kind = "RET_UNLINK" /\ vd_answers[j].status = "ECONNRESET"}
        BY <1>3, <1>4, <1>8
    <2>2. Reset' = Reset
        BY <1>3, <2>1 DEF Reset
    <2> QED
        BY <1>1, <1>6, <1>9, <2>2
<1> QED
    BY <1>7, <1>8

\* Without an answer nothing changes.
LEMMA AnswersKept ==
    ASSUME OneAnswer, vd_answers' = vd_answers
    PROVE  OneAnswer' /\ Done' = Done /\ Reset' = Reset
    BY DEF OneAnswer, Done, Reset

\* Only URBs that came are answered or cancelled.
LEMMA AnswersNumbered ==
    ASSUME VdTypes
    PROVE  /\ Done \subseteq 1..nurb /\ Reset \subseteq 1..nurb
           /\ nurb + 1 \in Nat /\ nurb + 1 \notin 1..nurb
    BY DEF VdTypes, VdNumbers, VdReplies, Done, Reset

------------------------------------------------------------------------------
(* Opening and closing.                                                      *)

LEMMA TypesKept ==
    ASSUME VdTypes, VdPlaces', Waits' \subseteq Waits,
           UNCHANGED <<nurb, current_altsetting, vd_answers, vd_control, vd_unlinks>>
    PROVE  VdTypes'
    BY DEF VdTypes, VdSettings, VdNumbers, VdReplies

\* A step that gives no answer and lets URBs go at most keeps the outcomes.
LEMMA OutcomesKept ==
    ASSUME Outcomes, vd_answers' = vd_answers, vd_control' = vd_control, Waits' \subseteq Waits
    PROVE  Outcomes'
<1>1. OneAnswer' /\ Done' = Done /\ Reset' = Reset
    BY AnswersKept DEF Outcomes
<1>2. Settled' /\ ResetIsFinal'
    BY <1>1 DEF Outcomes, Settled, ResetIsFinal
<1>3. ControlSettled'
    BY <1>1 DEF Outcomes, ControlSettled
<1> QED
    BY <1>1, <1>2, <1>3 DEF Outcomes

LEMMA OpenStep ==
    ASSUME VdInv, VdOpen
    PROVE  VdInv'
<1> USE DEF VdOpen
<1>1. Waits = {}
    <2>1. \A n \in Waits : FALSE
        BY DEF VdInv, Responders
    <2> QED
        BY <2>1
<1>2. vd_answers' = <<>> /\ DOMAIN vd_answers' = {} /\ Waits' = {}
      /\ vd_control' = <<>> /\ DOMAIN vd_control' = {}
    BY <1>1 DEF Waits
<1>3. VdTypes'
    <2>1. VdPlaces'
        BY Interface DEF VdInv, VdTypes, VdPlaces
    <2>2. VdSettings' /\ VdNumbers' /\ VdReplies'
        BY <1>2 DEF VdInv, VdTypes, VdSettings, VdNumbers, VdReplies
    <2> QED
        BY <2>1, <2>2 DEF VdTypes
<1>4. Responders'
    <2>1. vdat' \in If /\ if_responder' = {} /\ \A i \in Handlers : ~(i < 1)
        BY Interface DEF VdInv, Responders, Handlers
    <2>2. if_responder' = {i \in Handlers : i < vdat'}
        BY <2>1
    <2> QED
        BY <1>2, <2>1, <2>2 DEF Responders, Handlers
<1>5. Done' = {} /\ Reset' = {}
    BY <1>2 DEF Done, Reset
<1>6. Outcomes'
    BY <1>2, <1>5 DEF Outcomes, OneAnswer, Settled, ControlSettled, ResetIsFinal
<1> QED
    BY <1>3, <1>4, <1>6 DEF VdInv

LEMMA OpenInterfaceStep ==
    ASSUME VdInv, VdOpenInterface
    PROVE  VdInv'
<1> USE DEF VdOpenInterface
<1>1. vdat \in If /\ Waits' = Waits
    BY DEF VdInv, Responders, Waits
<1>2. if_responder = {i \in Handlers : i < vdat}
      /\ if_responder' = if_responder \cup ({vdat} \cap Handlers)
    BY DEF VdInv, Responders, Handlers
<1>3. VdTypes'
    <2>0. vdat' \in 0..Len(Interfaces) + 1 /\ vdpc' \in {"up", "opening"}
        BY <1>1, Interface
    <2>1. VdPlaces'
        BY <1>1, <1>2, <2>0 DEF VdInv, VdTypes, VdPlaces, Handlers
    <2> QED
        BY <1>1, <2>1, TypesKept DEF VdInv
<1>4. Responders'
    <2>1. CASE vdat = Len(Interfaces)
        <3>1. if_responder' = Handlers /\ vdpc' = "up"
            BY <1>1, <1>2, <2>1, Interface DEF Handlers
        <3> QED
            BY <1>1, <1>2, <3>1 DEF VdInv, Responders, Handlers, VdTypes, VdPlaces
    <2>2. CASE vdat # Len(Interfaces)
        <3>1. vdpc' = "opening" /\ vdat' = vdat + 1 /\ vdat' \in If
            BY <1>1, <2>2, Interface
        <3>2. if_responder' = {i \in Handlers : i < vdat + 1}
            BY <1>1, <1>2, Interface DEF Handlers
        <3> QED
            BY <1>1, <1>2, <3>1, <3>2 DEF VdInv, Responders, Handlers, VdTypes, VdPlaces
    <2> QED
        BY <2>1, <2>2
<1>5. Outcomes'
    BY <1>1, OutcomesKept DEF VdInv
<1> QED
    BY <1>3, <1>4, <1>5 DEF VdInv

LEMMA OpenFailsStep ==
    ASSUME VdInv, VdOpenFails
    PROVE  VdInv'
<1> USE DEF VdOpenFails
<1>1. Waits' = {}
    BY DEF Waits
<1>2. VdTypes'
    <2>0. 0 \in 0..Len(Interfaces) + 1
        BY Interface
    <2>1. VdPlaces'
        BY <1>1, <2>0 DEF VdInv, VdTypes, VdPlaces
    <2> QED
        BY <1>1, <2>1, TypesKept DEF VdInv
<1>3. Responders'
    BY <1>1 DEF VdInv, Responders
<1>4. Outcomes'
    BY <1>1, OutcomesKept DEF VdInv
<1> QED
    BY <1>2, <1>3, <1>4 DEF VdInv

\* Stopping the scheduler takes its URBs along; the others stay.
LEMMA StopsScheduler ==
    ASSUME VdInv, vdpc = "up", vdpc' = "closing", vdat' = 1,
           vd_scheduler' = FALSE, vd_pending' = Without(At(Scheduler)),
           if_responder' = if_responder, vd_responder' = vd_responder
    PROVE  Waits' \subseteq Waits /\ Responders' /\ vdat' \in 0..Len(Interfaces) + 1
<1>1. /\ Waits' = Waits \ At(Scheduler)
      /\ \A n \in Waits' : n \in Waits /\ vd_pending'[n] = vd_pending[n]
                          /\ vd_pending[n] # Scheduler
    BY DEF Without, At, Waits
<1>2. \A i \in Handlers : i >= 1
    BY Interface DEF Handlers
<1>3. if_responder' = {i \in Handlers : i >= vdat'}
    BY <1>2 DEF VdInv, Responders
<1>4. \A n \in Waits' : vd_pending'[n] \in if_responder'
    BY <1>1 DEF VdInv, Responders
<1>5. Responders'
    BY <1>3, <1>4 DEF VdInv, Responders, Handlers
<1> QED
    BY <1>1, <1>5, Interface

LEMMA CloseStep ==
    ASSUME VdInv, VdClose
    PROVE  VdInv'
<1> USE DEF VdClose
<1>1. Waits' \subseteq Waits /\ Responders' /\ vdat' \in 0..Len(Interfaces) + 1
    BY StopsScheduler
<1>2. VdTypes'
    <2>0. 0 \in 0..Len(Interfaces) + 1
        BY Interface
    <2>1. VdPlaces'
        BY <1>1, <2>0 DEF VdInv, VdTypes, VdPlaces
    <2> QED
        BY <1>1, <2>1, TypesKept DEF VdInv
<1>3. Outcomes'
    BY <1>1, OutcomesKept DEF VdInv
<1> QED
    BY <1>1, <1>2, <1>3 DEF VdInv

LEMMA CloseInterfaceStep ==
    ASSUME VdInv, VdCloseInterface
    PROVE  VdInv'
<1> USE DEF VdCloseInterface
<1>1. /\ Waits' = Waits \ At(vdat)
      /\ \A n \in Waits' : n \in Waits /\ vd_pending'[n] = vd_pending[n] /\ vd_pending[n] # vdat
    BY DEF Without, At, Waits
<1>2. vdat' = vdat + 1 /\ vdat \in 1..Len(Interfaces)
    BY Interface
<1>3. VdTypes'
    <2>1. VdPlaces'
        BY <1>1, <1>2, Interface DEF VdInv, VdTypes, VdPlaces
    <2> QED
        BY <1>1, <2>1, TypesKept DEF VdInv
<1>4. if_responder' = {i \in Handlers : i >= vdat'}
    <2>1. if_responder = {i \in Handlers : i >= vdat} /\ \A i \in Handlers : i \in Nat
        BY Interface DEF VdInv, Responders, Handlers
    <2> QED
        BY <1>2, <2>1
<1>5. \A n \in Waits' : vd_pending'[n] \in if_responder'
    BY <1>1 DEF VdInv, Responders
<1>6. Responders'
    BY <1>2, <1>4, <1>5 DEF VdInv, Responders, Handlers
<1>7. Outcomes'
    BY <1>1, OutcomesKept DEF VdInv
<1> QED
    BY <1>3, <1>6, <1>7 DEF VdInv

LEMMA ClosedStep ==
    ASSUME VdInv, VdClosed
    PROVE  VdInv'
<1> USE DEF VdClosed
<1>1. if_responder = {} /\ Waits = {} /\ Waits' = {}
    <2>1. vdat > Len(Interfaces) /\ \A i \in Handlers : i <= Len(Interfaces)
        BY Interface DEF VdInv, VdTypes, VdPlaces, Responders, Handlers
    <2>2. \A i \in Handlers : ~(i >= vdat)
        BY <2>1, Interface DEF VdInv, VdTypes, VdPlaces, Handlers
    <2>3. if_responder = {}
        BY <2>2 DEF VdInv, Responders
    <2>4. \A n \in Waits : FALSE
        BY <2>3 DEF VdInv, Responders
    <2> QED
        BY <2>3, <2>4 DEF Waits
<1>2. VdTypes'
    <2>0. 0 \in 0..Len(Interfaces) + 1
        BY Interface
    <2>1. VdPlaces'
        BY <1>1, <2>0 DEF VdInv, VdTypes, VdPlaces
    <2> QED
        BY <1>1, <2>1, TypesKept DEF VdInv
<1>3. Responders'
    BY <1>1 DEF VdInv, Responders
<1>4. Outcomes'
    BY <1>1, OutcomesKept DEF VdInv
<1> QED
    BY <1>2, <1>3, <1>4 DEF VdInv

------------------------------------------------------------------------------
(* URBs.                                                                     *)

\* A URB that comes has a new number.
LEMMA TypesGrow ==
    ASSUME VdTypes, VdPlaces', VdSettings', nurb' = nurb + 1, vd_unlinks' = vd_unlinks,
           Waits' \subseteq Waits \cup {nurb + 1},
           DOMAIN vd_control' \subseteq DOMAIN vd_control \cup {nurb + 1},
           vd_answers' \in Seq(VdAnswer),
           OthersKept(nurb + 1)
    PROVE  VdTypes'
<1>1. nurb \in Nat /\ nurb' \in Nat /\ 1..nurb \subseteq 1..nurb' /\ nurb + 1 \in 1..nurb'
    BY DEF VdTypes, VdNumbers
<1>2. VdNumbers'
    BY <1>1 DEF VdTypes, VdNumbers
<1>3. VdReplies'
    BY <1>1 DEF VdTypes, VdReplies, OthersKept
<1> QED
    BY <1>2, <1>3 DEF VdTypes

\* It is answered at once, ...
LEMMA RepliesAtOnce ==
    ASSUME VdInv, VdPlaces', VdSettings', nurb' = nurb + 1, vd_unlinks' = vd_unlinks,
           Waits' \subseteq Waits, NEW st \in {"OK", "EPIPE", "ECONNRESET"}, Replies(st),
           \A n \in DOMAIN vd_control' :
               \/ n \in DOMAIN vd_control /\ vd_control'[n] = vd_control[n]
               \/ n = nurb + 1 /\ vd_control'[n].known = TRUE
    PROVE  VdTypes' /\ Outcomes'
<1>1. VdTypes /\ Outcomes /\ vd_answers \in Seq(VdAnswer) /\ OneAnswer
    BY DEF VdInv, VdTypes, VdReplies, Outcomes
<1>2. /\ Done \subseteq 1..nurb /\ Reset \subseteq 1..nurb
      /\ nurb + 1 \in Nat /\ nurb + 1 \notin 1..nurb
    BY <1>1, AnswersNumbered
<1>3. PICK m \in Nat : m = nurb + 1
    BY <1>2, Zenon
<1>4. m \notin Done /\ vd_answers' = Append(vd_answers, Answer("RET_SUBMIT", m, st))
    BY <1>2, <1>3 DEF Replies
<1>5. /\ vd_answers' \in Seq(VdAnswer) /\ OneAnswer'
      /\ Done' = Done \cup {m} /\ Reset' = Reset
      /\ OthersKept(m)
    BY <1>1, <1>4, AnswersSubmit
<1>6. VdTypes'
    <2>1. /\ DOMAIN vd_control' \subseteq DOMAIN vd_control \cup {nurb + 1}
          /\ Waits' \subseteq Waits \cup {nurb + 1}
        OBVIOUS
    <2>2. OthersKept(nurb + 1)
        BY <1>3, <1>5, Zenon
    <2> QED
        BY <1>1, <1>5, <2>1, <2>2, TypesGrow, Zenon
<1>7. m \notin Waits /\ m \notin DOMAIN vd_control /\ m \notin Reset
    BY <1>1, <1>2, <1>3 DEF VdTypes, VdNumbers
<1>8. Settled' /\ ResetIsFinal'
    BY <1>1, <1>5, <1>7 DEF Outcomes, Settled, ResetIsFinal
<1>9. ControlSettled'
    BY <1>1, <1>3, <1>5, <1>7 DEF Outcomes, ControlSettled
<1> QED
    BY <1>5, <1>6, <1>8, <1>9 DEF Outcomes

\* ... waits, or is forgotten.
LEMMA AnswersLater ==
    ASSUME VdInv, VdPlaces', VdSettings', nurb' = nurb + 1, vd_unlinks' = vd_unlinks,
           vd_answers' = vd_answers,
           \/ Waits' \subseteq Waits \cup {nurb + 1} /\ vd_control' = vd_control
           \/ /\ Waits' \subseteq Waits
              /\ \A n \in DOMAIN vd_control' :
                     \/ n \in DOMAIN vd_control /\ vd_control'[n] = vd_control[n]
                     \/ n = nurb + 1 /\ vd_control'[n].known = FALSE
    PROVE  VdTypes' /\ Outcomes'
<1>1. VdTypes /\ Outcomes /\ vd_answers \in Seq(VdAnswer)
    BY DEF VdInv, VdTypes, VdReplies
<1>2. /\ Done \subseteq 1..nurb /\ Reset \subseteq 1..nurb
      /\ nurb + 1 \in Nat /\ nurb + 1 \notin 1..nurb
    BY <1>1, AnswersNumbered
<1>3. OneAnswer' /\ Done' = Done /\ Reset' = Reset
    BY <1>1, AnswersKept DEF Outcomes
<1>4. VdTypes'
    <2>1. OthersKept(nurb + 1)
        BY DEF OthersKept
    <2>2. /\ DOMAIN vd_control' \subseteq DOMAIN vd_control \cup {nurb + 1}
          /\ Waits' \subseteq Waits \cup {nurb + 1}
        OBVIOUS
    <2> QED
        BY <1>1, <2>1, <2>2, TypesGrow
<1>5. nurb + 1 \notin Done /\ nurb + 1 \notin Reset /\ nurb + 1 \notin Waits
      /\ nurb + 1 \notin DOMAIN vd_control
    BY <1>1, <1>2 DEF VdTypes, VdNumbers
<1>6. Settled' /\ ResetIsFinal'
    BY <1>1, <1>3, <1>5 DEF Outcomes, Settled, ResetIsFinal
<1>7. ControlSettled'
    BY <1>1, <1>3, <1>5 DEF Outcomes, ControlSettled
<1> QED
    BY <1>3, <1>4, <1>6, <1>7 DEF Outcomes

LEMMA TransferStep ==
    ASSUME VdInv, NEW e, NEW how, Transfer(e, how)
    PROVE  VdInv'
<1>1. /\ nurb' = nurb + 1 /\ vdpc = "up" /\ VdPlaces' /\ VdSettings'
      /\ vd_control' = vd_control /\ vd_unlinks' = vd_unlinks
      /\ UNCHANGED <<vdpc, vdat, vd_responder, if_responder, vd_scheduler>>
    BY DEF Transfer, Comes, VdInv, VdTypes, VdPlaces, VdSettings
<1>2. PICK i \in If :
          \/ (\E st \in {"OK", "EPIPE"} : Replies(st)) /\ vd_pending' = vd_pending
          \/ /\ Interfaces[i].handler
             /\ vd_pending' = [n \in DOMAIN vd_pending \cup {nurb + 1} |->
                                  IF n = nurb + 1 THEN (IF how = "keep" THEN i ELSE Scheduler)
                                  ELSE vd_pending[n]]
             /\ UNCHANGED vd_answers
    BY DEF Transfer, Found
<1>3. CASE (\E st \in {"OK", "EPIPE"} : Replies(st)) /\ vd_pending' = vd_pending
    <2>1. PICK st \in {"OK", "EPIPE", "ECONNRESET"} : Replies(st)
        BY <1>3
    <2>2. Waits' = Waits
        BY <1>3 DEF Waits
    <2>3. VdTypes' /\ Outcomes'
        BY <1>1, <2>1, <2>2, RepliesAtOnce
    <2>4. Responders'
        BY <1>1, <1>3, <2>2 DEF VdInv, Responders, Handlers
    <2> QED
        BY <2>3, <2>4 DEF VdInv
<1>4. CASE /\ Interfaces[i].handler
           /\ vd_pending' = [n \in DOMAIN vd_pending \cup {nurb + 1} |->
                                IF n = nurb + 1 THEN (IF how = "keep" THEN i ELSE Scheduler)
                                ELSE vd_pending[n]]
           /\ UNCHANGED vd_answers
    <2>1. Waits' = Waits \cup {nurb + 1}
        BY <1>4 DEF Waits
    <2>2. VdTypes' /\ Outcomes'
        BY <1>1, <1>4, <2>1, AnswersLater
    <2>3. i \in if_responder /\ vd_scheduler
        BY <1>1, <1>4 DEF VdInv, Responders, Handlers
    <2>4. ASSUME NEW n \in Waits'
          PROVE  \/ vd_pending'[n] = Scheduler /\ vd_scheduler'
                 \/ vd_pending'[n] \in if_responder'
        <3>1. CASE n = nurb + 1
            BY <1>1, <1>4, <2>1, <2>3, <3>1 DEF Waits
        <3>2. CASE n # nurb + 1
            <4>1. n \in Waits /\ vd_pending'[n] = vd_pending[n]
                BY <1>4, <2>1, <3>2 DEF Waits
            <4> QED
                BY <1>1, <4>1 DEF VdInv, Responders
        <3> QED
            BY <3>1, <3>2
    <2>5. Responders'
        BY <1>1, <2>4 DEF VdInv, Responders, Handlers
    <2> QED
        BY <2>2, <2>5 DEF VdInv
<1> QED
    BY <1>2, <1>3, <1>4

\* A device thread or the scheduler answers a URB that waits, and it waits no longer.
LEMMA CompleteStep ==
    ASSUME VdInv, NEW n \in 1..MaxUrb, Complete(n)
    PROVE  VdInv'
<1>1. n \in Waits /\ n \in Nat /\ n \in 1..nurb
    BY VirtualDeviceAssumption DEF Complete, Waits, VdInv, VdTypes, VdNumbers, VirtualDeviceAssumption
<1>2. /\ Waits' = Waits \ {n} /\ \A k \in Waits' : k \in Waits /\ vd_pending'[k] = vd_pending[k]
    BY DEF Complete, Without, Waits
<1>3. n \notin Done /\ n \notin Reset /\ n \notin DOMAIN vd_control
    BY <1>1 DEF VdInv, Outcomes, Settled, ResetIsFinal, ControlSettled
<1>4. /\ vd_answers \in Seq(VdAnswer) /\ OneAnswer
      /\ vd_answers' = Append(vd_answers, Answer("RET_SUBMIT", n, "OK"))
    BY DEF Complete, VdInv, VdTypes, VdReplies, Outcomes
<1>5. /\ vd_answers' \in Seq(VdAnswer) /\ OneAnswer'
      /\ Done' = Done \cup {n} /\ Reset' = Reset
      /\ OthersKept(n)
    BY <1>1, <1>3, <1>4, AnswersSubmit
<1>6. VdTypes'
    <2>1. VdPlaces' /\ VdSettings'
        BY DEF Complete, VdInv, VdTypes, VdPlaces, VdSettings
    <2>2. VdNumbers'
        BY <1>2 DEF Complete, VdInv, VdTypes, VdNumbers
    <2>3. VdReplies'
        BY <1>1, <1>5 DEF Complete, VdInv, VdTypes, VdReplies, OthersKept
    <2> QED
        BY <2>1, <2>2, <2>3 DEF VdTypes
<1>7. Responders'
    BY <1>2 DEF Complete, VdInv, Responders, Handlers
<1>8. Settled' /\ ResetIsFinal'
    BY <1>2, <1>3, <1>5 DEF VdInv, Outcomes, Settled, ResetIsFinal
<1>9. ControlSettled'
    BY <1>2, <1>3, <1>5 DEF Complete, VdInv, Outcomes, ControlSettled
<1> QED
    BY <1>5, <1>6, <1>7, <1>8, <1>9 DEF VdInv, Outcomes

------------------------------------------------------------------------------
(* Control requests and unlinking.                                           *)

\* What a control URB may do to the device: nothing, or end the session.
Ends == /\ vdpc = "up" /\ vdpc' = "closing" /\ vdat' = 1 /\ vd_scheduler' = FALSE
        /\ vd_pending' = Without(At(Scheduler))

LEMMA ControlPlaces ==
    ASSUME VdInv, vdpc = "up", UNCHANGED <<vd_responder, if_responder>>,
           Ends \/ UNCHANGED <<vdpc, vdat, vd_scheduler, vd_pending>>
    PROVE  Waits' \subseteq Waits /\ VdPlaces' /\ Responders'
<1>1. CASE Ends
    <2>1. Waits' \subseteq Waits /\ Responders' /\ vdat' \in 0..Len(Interfaces) + 1
        BY <1>1, StopsScheduler DEF Ends
    <2>2. VdPlaces'
        BY <1>1, <2>1 DEF Ends, VdInv, VdTypes, VdPlaces
    <2> QED
        BY <2>1, <2>2
<1>2. CASE UNCHANGED <<vdpc, vdat, vd_scheduler, vd_pending>>
    <2>1. Waits' = Waits
        BY <1>2 DEF Waits
    <2>2. VdPlaces'
        BY <1>2 DEF VdInv, VdTypes, VdPlaces
    <2>3. Responders'
        BY <1>2, <2>1 DEF VdInv, Responders, Handlers
    <2> QED
        BY <2>1, <2>2, <2>3
<1> QED
    BY <1>1, <1>2

\* request_set_interface changes to an alternate setting that exists.
LEMMA SettingsStay ==
    ASSUME VdSettings, NEW i \in If, NEW alt \in Nat,
           SetInterface(i, alt) \/ UNCHANGED current_altsetting
    PROVE  VdSettings'
<1>1. CASE UNCHANGED current_altsetting
    BY <1>1 DEF VdSettings
<1>2. CASE SetInterface(i, alt) /\ ~UNCHANGED current_altsetting
    <2>1. /\ alt \in DOMAIN Interfaces[i].alts
          /\ current_altsetting' = [current_altsetting EXCEPT ![i] = alt]
        BY <1>2 DEF SetInterface
    <2> QED
        BY <2>1 DEF VdSettings
<1> QED
    BY <1>1, <1>2

LEMMA RequestStatuses ==
    ASSUME NEW to, NEW req, NEW i, NEW alt, NEW st \in RequestStatus(to, req, i, alt)
    PROVE  st \in {"OK", "EPIPE", "ECONNRESET"}
    BY DEF RequestStatus, SetInterfaceStatus

LEMMA StandardStep ==
    ASSUME VdInv, NEW to \in Recipients, NEW req, NEW x, NEW alt \in Nat,
           StandardControl(to, req, x, alt)
    PROVE  VdInv'
<1>1. /\ nurb' = nurb + 1 /\ vdpc = "up" /\ vd_unlinks' = vd_unlinks
      /\ UNCHANGED <<vd_responder, if_responder>>
    BY DEF StandardControl, Comes
<1>2. ASSUME NEW n \in DOMAIN vd_control'
      PROVE  \/ n \in DOMAIN vd_control /\ vd_control'[n] = vd_control[n]
             \/ n = nurb + 1 /\ vd_control'[n].known = ~UnknownEndpoint(to, x)
    BY DEF StandardControl
<1>3. CASE /\ ~UnknownEndpoint(to, x) /\ \E st \in {"OK", "EPIPE", "ECONNRESET"} : Replies(st)
           /\ Ends \/ UNCHANGED <<vdpc, vdat, vd_scheduler, vd_pending>>
           /\ \/ \E i \in If : SetInterface(i, alt)
              \/ UNCHANGED current_altsetting
    <2>1. Waits' \subseteq Waits /\ VdPlaces' /\ Responders'
        BY <1>1, <1>3, ControlPlaces
    <2>2. VdSettings'
        <3>1. CASE UNCHANGED current_altsetting
            BY <3>1 DEF VdInv, VdTypes, VdSettings
        <3>2. CASE \E i \in If : SetInterface(i, alt)
            BY <3>2, SettingsStay DEF VdInv, VdTypes
        <3> QED
            BY <1>3, <3>1, <3>2
    <2>3. \A n \in DOMAIN vd_control' :
              \/ n \in DOMAIN vd_control /\ vd_control'[n] = vd_control[n]
              \/ n = nurb + 1 /\ vd_control'[n].known = TRUE
        BY <1>2, <1>3, Zenon
    <2>4. PICK st \in {"OK", "EPIPE", "ECONNRESET"} : Replies(st)
        BY <1>3
    <2>5. VdTypes' /\ Outcomes'
        BY <1>1, <2>1, <2>2, <2>3, <2>4, RepliesAtOnce
    <2> QED
        BY <2>1, <2>5 DEF VdInv
<1>4. CASE /\ UnknownEndpoint(to, x) /\ UNCHANGED vd_answers
           /\ Ends \/ UNCHANGED <<vdpc, vdat, vd_scheduler, vd_pending>>
           /\ UNCHANGED current_altsetting
    <2>1. Waits' \subseteq Waits /\ VdPlaces' /\ Responders'
        BY <1>1, <1>4, ControlPlaces
    <2>2. VdSettings'
        BY <1>4 DEF VdInv, VdTypes, VdSettings
    <2>3. \A n \in DOMAIN vd_control' :
              \/ n \in DOMAIN vd_control /\ vd_control'[n] = vd_control[n]
              \/ n = nurb + 1 /\ vd_control'[n].known = FALSE
        BY <1>2, <1>4, Zenon
    <2>5. VdTypes' /\ Outcomes'
        BY <1>1, <1>4, <2>1, <2>2, <2>3, AnswersLater
    <2> QED
        BY <2>1, <2>5 DEF VdInv
<1>5. CASE /\ to = "device"
           /\ \E st \in RequestStatus(to, req, 0, alt) : Replies(st)
           /\ UNCHANGED <<vdpc, vdat, vd_scheduler, vd_pending, current_altsetting>>
    <2>1. ~UnknownEndpoint(to, x)
        BY <1>5 DEF UnknownEndpoint
    <2>2. \E st \in {"OK", "EPIPE", "ECONNRESET"} : Replies(st)
        BY <1>5, RequestStatuses
    <2> QED
        BY <1>3, <1>5, <2>1, <2>2
<1>6. CASE \E i \in HandlerFor(to, x) :
              /\ to # "device"
              /\ \E st \in RequestStatus(to, req, i, alt) : Replies(st)
              /\ IF to = "interface" /\ req = "SetInterface" THEN SetInterface(i, alt)
                 ELSE UNCHANGED current_altsetting
              /\ UNCHANGED <<vdpc, vdat, vd_scheduler, vd_pending>>
    <2>1. PICK i \in HandlerFor(to, x) :
              /\ \E st \in RequestStatus(to, req, i, alt) : Replies(st)
              /\ SetInterface(i, alt) \/ UNCHANGED current_altsetting
              /\ UNCHANGED <<vdpc, vdat, vd_scheduler, vd_pending>>
        BY <1>6
    <2>2. i \in If /\ ~UnknownEndpoint(to, x)
        BY DEF HandlerFor, UnknownEndpoint, Found
    <2>3. \E st \in {"OK", "EPIPE", "ECONNRESET"} : Replies(st)
        BY <2>1, RequestStatuses
    <2> QED
        BY <1>3, <2>1, <2>2, <2>3
<1>7. CASE /\ to \in {"interface", "endpoint"} /\ HandlerFor(to, x) = {}
           /\ IF NotAnswered(to, x) THEN UNCHANGED vd_answers ELSE Replies("EPIPE")
           /\ IF EndsSession(to, x)
              THEN /\ vdpc' = "closing" /\ vdat' = 1
                   /\ vd_scheduler' = FALSE /\ vd_pending' = Without(At(Scheduler))
              ELSE UNCHANGED <<vdpc, vdat, vd_scheduler, vd_pending>>
           /\ UNCHANGED current_altsetting
    <2>1. Ends \/ UNCHANGED <<vdpc, vdat, vd_scheduler, vd_pending>>
        BY <1>1, <1>7 DEF Ends
    <2>2. CASE NotAnswered(to, x)
        BY <1>4, <1>7, <2>1, <2>2 DEF NotAnswered
    <2>3. CASE ~NotAnswered(to, x)
        BY <1>3, <1>7, <2>1, <2>3 DEF NotAnswered
    <2> QED
        BY <2>2, <2>3
<1>8. CASE /\ to = "other"
           /\ Replies("EPIPE")
           /\ UNCHANGED <<vdpc, vdat, vd_scheduler, vd_pending, current_altsetting>>
    <2>1. ~UnknownEndpoint(to, x)
        BY <1>8 DEF UnknownEndpoint
    <2> QED
        BY <1>3, <1>8, <2>1
<1> QED
    BY <1>5, <1>6, <1>7, <1>8 DEF StandardControl

LEMMA NonStandardStep ==
    ASSUME VdInv, NEW to \in Recipients, NEW x, NonStandardControl(to, x)
    PROVE  VdInv'
<1>1. /\ nurb' = nurb + 1 /\ vdpc = "up" /\ vd_unlinks' = vd_unlinks
      /\ UNCHANGED <<vd_responder, if_responder, current_altsetting>>
    BY DEF NonStandardControl, Comes
<1>2. \A n \in DOMAIN vd_control' :
          \/ n \in DOMAIN vd_control /\ vd_control'[n] = vd_control[n]
          \/ n = nurb + 1 /\ vd_control'[n].known = TRUE
    BY DEF NonStandardControl
<1>3. PICK st \in {"OK", "EPIPE", "ECONNRESET"} : Replies(st)
    BY DEF NonStandardControl
<1>4. Ends \/ UNCHANGED <<vdpc, vdat, vd_scheduler, vd_pending>>
    BY <1>1 DEF NonStandardControl, Ends
<1>5. Waits' \subseteq Waits /\ VdPlaces' /\ Responders'
    BY <1>1, <1>4, ControlPlaces
<1>6. VdSettings'
    BY <1>1 DEF VdInv, VdTypes, VdSettings
<1>7. VdTypes' /\ Outcomes'
    BY <1>1, <1>2, <1>3, <1>5, <1>6, RepliesAtOnce
<1> QED
    BY <1>5, <1>7 DEF VdInv

\* The interfaces that answer an unlink, each once
LEMMA UnlinkersListed == Unlinkers \in Seq(If)
<1> DEFINE S == {i \in If : Interfaces[i].handler /\ Interfaces[i].unlinks}
<1>1. IsFiniteSet(S)
    <2>0. /\ Len(Interfaces) \in Int /\ 1 \in Int
          /\ \A a, b \in Int : IsFiniteSet(a..b)
        BY Interface, FS_Interval
    <2>1. IsFiniteSet(1..Len(Interfaces))
        BY <2>0, Zenon
    <2>2. S \in SUBSET (1..Len(Interfaces))
        BY Interface
    <2> HIDE DEF S
    <2> QED
        BY <2>1, <2>2, FS_Subset, Zenon
<1> HIDE DEF S
<1>2. Cardinality(S) \in Nat /\ ExistsBijection(1..Cardinality(S), S)
    BY <1>1, FS_CardinalityType
<1>3. \E f \in [1..Cardinality(S) -> S] : IsInjective(f)
    BY <1>2 DEF ExistsBijection, Bijection, Injection
<1>4. SetToSeq(S) \in [1..Cardinality(S) -> S]
    BY <1>3 DEF SetToSeq
<1>5. SetToSeq(S) \in Seq(If)
    <2>1. PICK q : q = SetToSeq(S)
        BY Zenon
    <2>2. q \in [1..Cardinality(S) -> S] /\ S \subseteq If
        BY <1>4, <2>1 DEF S
    <2>3. q \in [1..Cardinality(S) -> If]
        BY <2>2
    <2>4. q \in Seq(If)
        BY <1>2, <2>3
    <2> QED
        BY <2>1, <2>4
<1> QED
    BY <1>5 DEF Unlinkers, S

\* An unlink that reports a URB as cancelled took it from where it waited.
LEMMA UnlinkOutcome ==
    ASSUME VdInv, NEW n \in 1..nurb, NEW more \in Seq(VdAnswer),
           \A k \in 1..Len(more) : more[k].kind = "RET_UNLINK" /\ more[k].n = n,
           vd_answers' = vd_answers \o more,
           Waits' \subseteq Waits, \A k \in Waits' : vd_pending'[k] = vd_pending[k],
           (\E k \in 1..Len(more) : more[k].status = "ECONNRESET") => n \in Waits /\ n \notin Waits',
           vd_unlinks' = vd_unlinks \cup {n},
           UNCHANGED <<vdpc, vdat, vd_responder, if_responder, vd_scheduler, current_altsetting,
                       vd_control, nurb>>
    PROVE  VdInv'
<1>1. n \in Nat /\ nurb \in Nat
    BY DEF VdInv, VdTypes, VdNumbers
<1>2. vd_answers \in Seq(VdAnswer) /\ OneAnswer
    BY DEF VdInv, VdTypes, VdReplies, Outcomes
<1>3. /\ vd_answers' \in Seq(VdAnswer) /\ OneAnswer'
      /\ Done' = Done
      /\ \/ Reset' = Reset
         \/ Reset' = Reset \cup {n} /\ \E k \in 1..Len(more) : more[k].status = "ECONNRESET"
      /\ OthersKept(n)
    BY <1>1, <1>2, AnswersUnlink
<1>4. VdTypes'
    <2>1. VdPlaces' /\ VdSettings'
        BY DEF VdInv, VdTypes, VdPlaces, VdSettings
    <2>2. VdNumbers'
        BY DEF VdInv, VdTypes, VdNumbers
    <2>3. VdReplies'
        BY <1>3 DEF VdInv, VdTypes, VdReplies, OthersKept
    <2> QED
        BY <2>1, <2>2, <2>3 DEF VdTypes
<1>5. Responders'
    <2>1. \A k \in Waits' : \/ vd_pending'[k] = Scheduler /\ vd_scheduler
                            \/ vd_pending'[k] \in if_responder
        BY DEF VdInv, Responders
    <2> QED
        BY <2>1 DEF VdInv, Responders, Handlers
<1>6. n \in Waits => n \notin Done
    BY DEF VdInv, Outcomes, Settled
<1>7. Settled' /\ ResetIsFinal'
    <2>0. Done' = Done /\ Reset \cap (Done \cup Waits) = {}
        BY <1>3 DEF VdInv, Outcomes, ResetIsFinal
    <2>1. Settled'
        BY <2>0 DEF VdInv, Outcomes, Settled
    <2>2. CASE Reset' = Reset
        <3>1. \A y \in Reset' : y \notin Done' /\ y \notin Waits'
            BY <2>0, <2>2
        <3> QED
            BY <2>1, <3>1 DEF ResetIsFinal
    <2>3. CASE Reset' = Reset \cup {n} /\ n \in Waits /\ n \notin Waits'
        <3>1. \A y \in Reset' : y \notin Done' /\ y \notin Waits'
            BY <1>6, <2>0, <2>3
        <3> QED
            BY <2>1, <3>1 DEF ResetIsFinal
    <2> QED
        BY <1>3, <2>1, <2>2, <2>3
<1>8. ControlSettled'
    BY <1>3 DEF VdInv, Outcomes, ControlSettled
<1> QED
    BY <1>3, <1>4, <1>5, <1>7, <1>8 DEF VdInv, Outcomes

LEMMA UnlinkStep ==
    ASSUME VdInv, NEW n \in 1..MaxUrb, HandleUnlinkSeqnum(n)
    PROVE  VdInv'
<1>1. /\ n \in 1..nurb /\ n \in Nat
      /\ vd_unlinks' = vd_unlinks \cup {n}
      /\ UNCHANGED <<vdpc, vdat, vd_responder, if_responder, vd_scheduler, current_altsetting,
                     vd_control, nurb>>
    BY VirtualDeviceAssumption DEF HandleUnlinkSeqnum, VirtualDeviceAssumption
<1>2. CASE n \in At(Scheduler)
    <2>1. /\ vd_pending' = Without({n})
          /\ vd_answers' = Append(vd_answers, Answer("RET_UNLINK", n, "ECONNRESET"))
        BY <1>2 DEF HandleUnlinkSeqnum
    <2>2. /\ n \in Waits /\ Waits' = Waits \ {n}
          /\ \A k \in Waits' : vd_pending'[k] = vd_pending[k]
        BY <1>2, <2>1 DEF At, Without, Waits
    <2>3. Answer("RET_UNLINK", n, "ECONNRESET") \in VdAnswer
        BY <1>1 DEF Answer, VdAnswer
    <2>4. PICK a \in VdAnswer : a = Answer("RET_UNLINK", n, "ECONNRESET")
        BY <2>3, Zenon
    <2>5. a.kind = "RET_UNLINK" /\ a.n = n
        BY <2>4 DEF Answer
    <2>6. PICK more \in Seq(VdAnswer) : more = <<a>>
        <3>1. <<a>> \in Seq(VdAnswer)
            OBVIOUS
        <3> QED
            BY <3>1, Zenon
    <2>7. Len(more) = 1 /\ more[1] = a
        BY <2>6
    <2>8. vd_answers' = vd_answers \o more
        BY <2>1, <2>4, <2>6 DEF VdInv, VdTypes, VdReplies
    <2>9. \A k \in 1..Len(more) : more[k].kind = "RET_UNLINK" /\ more[k].n = n
        BY <2>5, <2>7
    <2> QED
        BY <1>1, <2>2, <2>8, <2>9, UnlinkOutcome
<1>3. CASE n \notin At(Scheduler)
    <2> DEFINE more == [k \in 1..Len(Unlinkers) |->
                           Answer("RET_UNLINK", n, IF n \in At(Unlinkers[k]) THEN "ECONNRESET" ELSE "OK")]
    <2>1. /\ vd_pending' = Without({n} \cap UNION {At(i) : i \in ToSet(Unlinkers)})
          /\ vd_answers' = vd_answers \o more
        BY <1>3 DEF HandleUnlinkSeqnum
    <2>2. Len(Unlinkers) \in Nat /\ DOMAIN Unlinkers = 1..Len(Unlinkers)
        BY UnlinkersListed
    <2>3. ASSUME NEW k \in 1..Len(Unlinkers)
          PROVE  /\ more[k] \in VdAnswer /\ more[k].kind = "RET_UNLINK" /\ more[k].n = n
                 /\ more[k].status = "ECONNRESET" => n \in At(Unlinkers[k])
        BY <1>1 DEF Answer, VdAnswer
    <2>4. more \in Seq(VdAnswer) /\ Len(more) = Len(Unlinkers)
        <3>1. more \in [1..Len(Unlinkers) -> VdAnswer]
            BY <2>3
        <3> HIDE DEF more
        <3> QED
            BY <2>2, <3>1
    <2> HIDE DEF more
    <2>5. /\ Waits' \subseteq Waits
          /\ \A k \in Waits' : vd_pending'[k] = vd_pending[k]
        BY <2>1 DEF Without, Waits
    <2>6. ASSUME NEW k \in 1..Len(more), more[k].status = "ECONNRESET"
          PROVE  n \in Waits /\ n \notin Waits'
        <3>1. n \in At(Unlinkers[k]) /\ Unlinkers[k] \in ToSet(Unlinkers)
            BY <2>2, <2>3, <2>4, <2>6 DEF ToSet
        <3>2. n \in UNION {At(i) : i \in ToSet(Unlinkers)}
            BY <3>1
        <3> QED
            BY <2>1, <3>1, <3>2 DEF Without, Waits, At
    <2> QED
        BY <1>1, <2>1, <2>3, <2>4, <2>5, <2>6, UnlinkOutcome
<1> QED
    BY <1>2, <1>3

------------------------------------------------------------------------------
(* The invariant and what follows from it.                                   *)

LEMMA VdStep == VdInv /\ [VdNext]_vdVars => VdInv'
<1> SUFFICES ASSUME VdInv, [VdNext]_vdVars PROVE VdInv'
    OBVIOUS
<1>1. CASE UNCHANGED vdVars
    <2>1. Waits' = Waits /\ Done' = Done /\ Reset' = Reset
        BY <1>1 DEF vdVars, Waits, Done, Reset
    <2>2. VdPlaces' /\ VdSettings' /\ VdNumbers' /\ VdReplies'
        BY <1>1, <2>1 DEF vdVars, VdInv, VdTypes, VdPlaces, VdSettings, VdNumbers, VdReplies
    <2>3. Responders'
        BY <1>1, <2>1 DEF vdVars, VdInv, Responders, Handlers
    <2>4. Outcomes'
        BY <1>1, <2>1, OutcomesKept DEF vdVars, VdInv
    <2> QED
        BY <2>2, <2>3, <2>4 DEF VdInv, VdTypes
<1>2. ASSUME NEW to \in Recipients, NEW x \in Targets(to),
             NEW req \in OutRequests(to) \cup InRequests(to) \cup {"unknown"}, NEW alt \in 1..3,
             StandardControl(to, req, x, IF req = "SetInterface" THEN alt ELSE 1)
      PROVE  VdInv'
    <2>1. (IF req = "SetInterface" THEN alt ELSE 1) \in Nat
        OBVIOUS
    <2> QED
        BY <1>2, <2>1, StandardStep
<1> QED
    BY <1>1, <1>2, OpenStep, OpenInterfaceStep, OpenFailsStep, CloseStep, CloseInterfaceStep,
       ClosedStep, TransferStep, CompleteStep, UnlinkStep, NonStandardStep DEF VdNext

LEMMA VdInitInv == VdInit => VdInv
<1> SUFFICES ASSUME VdInit PROVE VdInv
    OBVIOUS
<1> USE DEF VdInit
<1>1. Waits = {} /\ DOMAIN vd_control = {} /\ DOMAIN vd_answers = {} /\ vd_answers \in Seq(VdAnswer)
    BY DEF Waits
<1>2. VdTypes
    <2>0. 0 \in 0..Len(Interfaces) + 1
        BY Interface
    <2>1. VdPlaces
        BY <2>0 DEF VdPlaces
    <2>2. VdSettings
        BY Interface DEF VdSettings
    <2>3. VdNumbers /\ VdReplies
        BY <1>1 DEF VdNumbers, VdReplies
    <2> QED
        BY <2>1, <2>2, <2>3 DEF VdTypes
<1>3. Responders
    BY <1>1 DEF Responders
<1>4. Done = {} /\ Reset = {}
    BY <1>1 DEF Done, Reset
<1>5. Outcomes
    BY <1>1, <1>4 DEF Outcomes, OneAnswer, Settled, ControlSettled, ResetIsFinal
<1> QED
    BY <1>2, <1>3, <1>5 DEF VdInv

\* In every reachable state the responders are those of the interfaces that are
\* open, and answered, cancelled and waiting URBs are disjoint.
THEOREM VdInductive == VdSpec => []VdInv
<1>1. VdInit => VdInv
    BY VdInitInv
<1>2. VdInv /\ [VdNext]_vdVars => VdInv'
    BY VdStep
<1> QED
    BY <1>1, <1>2, PTL DEF VdSpec

LEMMA VdInvTypes == VdInv => VdTypeOK
<1> SUFFICES ASSUME VdInv PROVE VdTypeOK
    OBVIOUS
<1>1. VdPlaces /\ VdSettings /\ VdNumbers /\ VdReplies
    BY DEF VdInv, VdTypes
<1>2. \A k \in DOMAIN vd_answers : vd_answers[k] \in VdAnswer
    BY <1>1 DEF VdReplies
<1>3. ASSUME NEW k \in DOMAIN vd_answers
      PROVE  vd_answers[k] \in [kind : {"RET_SUBMIT", "RET_UNLINK"}, n : 1..nurb,
                               status : {"OK", "EPIPE", "ECONNRESET"}]
    <2>1. vd_answers[k] \in VdAnswer /\ vd_answers[k].n \in 1..nurb
        BY <1>1, <1>2 DEF VdReplies
    <2> QED
        BY <2>1 DEF VdAnswer
<1>4. ToSet(vd_answers) \subseteq [kind : {"RET_SUBMIT", "RET_UNLINK"}, n : 1..nurb,
                                  status : {"OK", "EPIPE", "ECONNRESET"}]
    BY <1>3 DEF ToSet
<1> QED
    BY <1>1, <1>4 DEF VdTypeOK, VdPlaces, VdSettings, VdNumbers, Waits

\* A URB has one answer or none.
LEMMA VdInvAnswers == VdInv => ControlAnsweredOnce
<1> SUFFICES ASSUME VdInv PROVE ControlAnsweredOnce
    OBVIOUS
<1>1. ASSUME NEW n PROVE \/ n \in Done /\ Cardinality(Answered(n)) = 1
                         \/ n \notin Done /\ Cardinality(Answered(n)) = 0
    <2>1. CASE n \in Done
        <3>1. PICK k \in DOMAIN vd_answers : vd_answers[k].kind = "RET_SUBMIT" /\ vd_answers[k].n = n
            BY <2>1 DEF Done
        <3>2. Answered(n) = {k}
            BY <3>1 DEF Answered, VdInv, Outcomes, OneAnswer
        <3> QED
            BY <2>1, <3>2, FS_Singleton
    <2>2. CASE n \notin Done
        <3>1. Answered(n) = {}
            BY <2>2 DEF Answered, Done
        <3> QED
            BY <2>2, <3>1, FS_EmptySet
    <2> QED
        BY <2>1, <2>2
<1>2. \A n \in DOMAIN vd_control : vd_control[n].known <=> n \in Done
    BY DEF VdInv, Outcomes, ControlSettled
<1> QED
    BY <1>1, <1>2 DEF ControlAnsweredOnce

LEMMA VdInvUnlinks == VdInv => UnlinkIsTrue
<1> SUFFICES ASSUME VdInv, NEW n \in vd_unlinks, NEW k \in Unlinked(n),
                    vd_answers[k].status = "ECONNRESET"
             PROVE  Answered(n) = {} /\ n \notin DOMAIN vd_pending
    BY DEF UnlinkIsTrue
<1>1. n \in Reset
    BY DEF Unlinked, Reset
<1>2. n \notin Done /\ n \notin Waits
    BY <1>1 DEF VdInv, Outcomes, ResetIsFinal
<1> QED
    BY <1>2 DEF Answered, Done, Waits

LEMMA VdInvResponders == VdInv => AnswererHasResponder
<1> SUFFICES ASSUME VdInv PROVE AnswererHasResponder
    OBVIOUS
<1>1. vd_scheduler \/ if_responder # {} => vd_responder
    BY DEF VdInv, VdTypes, VdPlaces, Responders
<1>2. ASSUME NEW n \in DOMAIN vd_pending
      PROVE  IF vd_pending[n] = Scheduler THEN vd_scheduler ELSE vd_pending[n] \in if_responder
    <2>1. Scheduler \notin if_responder
        BY Interface DEF Scheduler, VdInv, VdTypes, VdPlaces
    <2> QED
        BY <2>1 DEF VdInv, Responders, Waits
<1>3. vdpc = "down" => ~vd_scheduler /\ if_responder = {}
    BY DEF VdInv, Responders
<1> QED
    BY <1>1, <1>2, <1>3 DEF AnswererHasResponder

\* The variables keep their types: an interface is always at an alternate setting it has.
THEOREM VdTypeCorrect == VdSpec => []VdTypeOK
    BY VdInductive, VdInvTypes, PTL

\* handle_control_urb answers every control URB once, save the one path that
\* forgets it; no URB is answered twice.
THEOREM VdAnswersOnce == VdSpec => []ControlAnsweredOnce
    BY VdInductive, VdInvAnswers, PTL

\* Whoever may still answer has a responder to answer through, however the
\* connection was opened, failed to open or was ended by a control request.
THEOREM VdRespondersLast == VdSpec => []AnswererHasResponder
    BY VdInductive, VdInvResponders, PTL

\* handle_unlink_seqnum: a URB reported as cancelled was not answered and never will be.
THEOREM VdUnlinkHolds == VdSpec => []UnlinkIsTrue
    BY VdInductive, VdInvUnlinks, PTL
==============================================================================
