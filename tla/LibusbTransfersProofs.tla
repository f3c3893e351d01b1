------------------------ MODULE LibusbTransfersProofs ------------------------
(***************************************************************************)
(* Proofs about LibusbTransfers, for any numbers, callback arguments and   *)
(* bounds.                                                                 *)
(*                                                                         *)
(* The inductive invariant is IInv: the types, who owns callback arguments *)
(* (Owned), that pending_count_ counts them (Counted), and what has been   *)
(* said about each number so far (Reported, Final).  AnsweredOnce is not   *)
(* inductive alone: Final counts the URB that is still outstanding, too.   *)
(***************************************************************************)
EXTENDS LibusbTransfers, FiniteSetTheorems, TLAPS

\* The callback of evcb runs and has not erased the entry yet.
Serving == ev \in {"status", "answer", "drop"}

\* The map leads to arguments in use that carry the number they are found
\* under, and arguments that a submit, libusb or a callback holds are in the
\* map until the callback erases them; the three never hold the same ones.
Owned ==
    /\ \A u \in Urb : transfers[u] # NoArgs => transfers[u] \in live /\ seqnum[transfers[u]] = u
    /\ \A a \in live : seqnum[a] \in Urb
    /\ \A a \in Args : trx[a] # "none" => a \in live /\ transfers[seqnum[a]] = a
    /\ rx = "submit" =>
           rxcb \in live /\ transfers[seqnum[rxcb]] = rxcb /\ trx[rxcb] = "none"
    /\ Serving => evcb \in live /\ transfers[seqnum[evcb]] = evcb /\ trx[evcb] = "none"
    /\ ev = "free" => evcb \in live /\ transfers[seqnum[evcb]] # evcb
    /\ rx = "submit" /\ Serving => rxcb # evcb

\* pending_count_ covers the arguments in use and the callback that has given
\* its own back but not yet counted down.
Counted ==
    /\ IsFiniteSet(live)
    /\ pending_count = Cardinality(live) + (IF ev = "count" THEN 1 ELSE 0)
    /\ rx = "closed" => pending_count = 0

\* What is said about a number, submitted as often as nsub says.
Reported ==
    \A u \in Urb :
        /\ nsub[u] <= ncmd
        /\ nsub[u] = 0 => transfers[u] = NoArgs /\ \A i \in 1..Len(out) : out[i].urb # u
        /\ nsub[u] = 1 /\ transfers[u] # NoArgs => \A i \in 1..Len(out) : out[i].urb # u

Submits(u) == Answers("RET_SUBMIT", u)
Cancels(u) == {i \in Answers("RET_UNLINK", u) : out[i].status = "ECONNRESET"}
Outstanding(u) == IF transfers[u] = NoArgs THEN 0 ELSE 1

\* Each CMD_SUBMIT is answered, outstanding or dropped.
Final ==
    \A u \in Urb :
        Cardinality(Submits(u)) + Cardinality(Cancels(u)) + Outstanding(u) <= nsub[u]

IInv == TypeOK /\ Owned /\ Counted /\ Reported /\ Final /\ SubmitBeforeUnlink

------------------------------------------------------------------------------
(* Lemmas on counting and on responses.                                      *)

\* The count of the arguments in use is zero only when none is.
LEMMA LiveCount ==
    ASSUME Counted
    PROVE  /\ Cardinality(live) \in Nat
           /\ Cardinality(live) = 0 <=> live = {}
BY FS_CardinalityType, FS_EmptySet DEF Counted

\* The responses that receive_urb, handle_unlink_seqnum and the callback build.
LEMMA Responses ==
    ASSUME NEW u \in Urb, NEW st \in Status
    PROVE  /\ RetSubmit(u, st) \in Response
           /\ \A n \in 0..MaxUnlinks : RetUnlink(u, n, st) \in Response
BY LibusbTransfersAssumption DEF LibusbTransfersAssumption, RetSubmit, RetUnlink, Response

\* The status of a transfer as the client is told: ECONNRESET if, and only
\* if, the transfer was cancelled.
LEMMA TransferStatus ==
    ASSUME NEW st \in TrxStatus
    PROVE  /\ Trxstat2Error(st) \in Status
           /\ Trxstat2Error(st) = "ECONNRESET" <=> st = "CANCELLED"
BY DEF TrxStatus, Trxstat2Error, Status

\* A response that is enqueued is the last one.
LEMMA Appended ==
    ASSUME TypeOK, NEW r \in Response, out' = Append(out, r)
    PROVE  /\ out' \in Seq(Response)
           /\ Len(out) \in Nat /\ Len(out') = Len(out) + 1
           /\ \A i \in 1..Len(out) : out'[i] = out[i]
           /\ out'[Len(out) + 1] = r
BY DEF TypeOK

\* The positions of a connection's responses are finitely many.
LEMMA AnswersFinite ==
    ASSUME TypeOK, NEW u \in Urb
    PROVE  /\ IsFiniteSet(Submits(u)) /\ Cardinality(Submits(u)) \in Nat
           /\ IsFiniteSet(Cancels(u)) /\ Cardinality(Cancels(u)) \in Nat
<1>1. IsFiniteSet(1..Len(out))
    BY FS_Interval DEF TypeOK
<1>2. Submits(u) \in SUBSET (1..Len(out)) /\ Cancels(u) \in SUBSET (1..Len(out))
    BY DEF Submits, Cancels, Answers
<1> QED
    BY <1>1, <1>2, FS_Subset, FS_CardinalityType

\* What a new response adds to the final answers of a number.
LEMMA FinalAnswers ==
    ASSUME TypeOK, NEW r \in Response, out' = Append(out, r), NEW u \in Urb
    PROVE  /\ Cardinality(Submits(u))' = Cardinality(Submits(u)) +
                  (IF r.kind = "RET_SUBMIT" /\ r.urb = u THEN 1 ELSE 0)
           /\ Cardinality(Cancels(u))' = Cardinality(Cancels(u)) +
                  (IF r.kind = "RET_UNLINK" /\ r.urb = u /\ r.status = "ECONNRESET"
                   THEN 1 ELSE 0)
<1> DEFINE last == Len(out) + 1
<1>1. /\ Len(out) \in Nat /\ Len(out') = last
      /\ \A i \in 1..Len(out) : out'[i] = out[i]
      /\ out'[last] = r
    BY Appended
<1>2. last \notin Submits(u) /\ last \notin Cancels(u)
    BY <1>1 DEF Submits, Cancels, Answers
<1>3. Submits(u)' = IF r.kind = "RET_SUBMIT" /\ r.urb = u
                    THEN Submits(u) \cup {last} ELSE Submits(u)
    BY <1>1 DEF Submits, Answers
<1>4. Cancels(u)' = IF r.kind = "RET_UNLINK" /\ r.urb = u /\ r.status = "ECONNRESET"
                    THEN Cancels(u) \cup {last} ELSE Cancels(u)
    BY <1>1 DEF Cancels, Answers
<1> HIDE DEF last
<1>5. /\ Cardinality(Submits(u) \cup {last}) = Cardinality(Submits(u)) + 1
      /\ Cardinality(Cancels(u) \cup {last}) = Cardinality(Cancels(u)) + 1
    BY <1>2, AnswersFinite, FS_AddElement
<1> QED
    BY <1>3, <1>4, <1>5, AnswersFinite

------------------------------------------------------------------------------
(* The invariant is inductive: one lemma per part, one step per action.      *)

\* Callback arguments change hands as Owned says.
LEMMA OwnedStep == IInv /\ [Next]_vars => Owned'
<1> SUFFICES ASSUME IInv, [Next]_vars PROVE Owned'
    OBVIOUS
<1> USE LibusbTransfersAssumption DEF LibusbTransfersAssumption, IInv, TypeOK, Owned, Serving, track, flags, event, receiver, Tracked, Erase, Cancelled, TrxStatus
<1>1. CASE OnNewConnection
    BY <1>1 DEF OnNewConnection
<1>2. CASE ReceiverEnds
    BY <1>2 DEF ReceiverEnds
<1>3. CASE Disconnect
    BY <1>3 DEF Disconnect
<1>4. CASE CancelAll
    BY <1>4 DEF CancelAll
<1>5. CASE AllDone
    BY <1>5, LiveCount DEF AllDone, Counted
<1>6. CASE LibusbSubmit
    BY <1>6 DEF LibusbSubmit
<1>7. CASE LibusbSubmitFails
    BY <1>7 DEF LibusbSubmitFails
<1>8. ASSUME NEW u \in Urb, AnswerDirectly(u) PROVE Owned'
    BY <1>8 DEF AnswerDirectly, Submitted
<1>9. ASSUME NEW u \in Urb, RejectDuplicate(u) PROVE Owned'
    BY <1>9 DEF RejectDuplicate, Submitted
<1>10. ASSUME NEW u \in Urb, Track(u) PROVE Owned'
    BY <1>10 DEF Track, Submitted
<1>11. ASSUME NEW u \in Urb, UrbAfterRemoval(u) PROVE Owned'
    BY <1>11 DEF UrbAfterRemoval, Submitted
<1>12. ASSUME NEW u \in Urb, HandleUnlink(u) PROVE Owned'
    BY <1>12 DEF HandleUnlink, Unlinked
<1>13. ASSUME NEW u \in Urb, UnlinkAfterRemoval(u) PROVE Owned'
    BY <1>13 DEF UnlinkAfterRemoval, Unlinked
<1>14. ASSUME NEW a \in Args, TransferEnds(a) PROVE Owned'
    BY <1>14 DEF TransferEnds
<1>15. CASE PullOut
    BY <1>15 DEF PullOut
<1>16. CASE DeviceLeft
    BY <1>16 DEF DeviceLeft
<1>17. ASSUME NEW a \in Args, CallbackStart(a) PROVE Owned'
    BY <1>17 DEF CallbackStart
<1>18. CASE CallbackStatus
    BY <1>18 DEF CallbackStatus
<1>19. CASE CallbackAnswer
    BY <1>19 DEF CallbackAnswer
<1>20. CASE CallbackDrop
    BY <1>20 DEF CallbackDrop
<1>21. CASE CallbackFree
    BY <1>21 DEF CallbackFree
<1>22. CASE CallbackCount
    BY <1>22 DEF CallbackCount
<1>23. CASE UNCHANGED vars
    BY <1>23 DEF vars
<1> QED
    BY <1>1, <1>2, <1>3, <1>4, <1>5, <1>6, <1>7, <1>8, <1>9, <1>10, <1>11, <1>12, <1>13, <1>14, <1>15, <1>16, <1>17, <1>18, <1>19, <1>20, <1>21, <1>22, <1>23 DEF Next, Receiver, EventThread

\* Every action keeps the types; a response that it enqueues is a Response.
LEMMA TypeStep == IInv /\ [Next]_vars => TypeOK'
<1> SUFFICES ASSUME IInv, [Next]_vars PROVE TypeOK'
    OBVIOUS
<1> USE LibusbTransfersAssumption DEF LibusbTransfersAssumption, IInv, TypeOK, Owned, Serving, track, flags, event, receiver, Tracked, Erase, Cancelled, TrxStatus, Reported
<1>1. CASE OnNewConnection
    <2>1. out' \in Seq(Response)
        BY <1>1 DEF OnNewConnection
    <2>2. /\ nsub' \in [Urb -> 0..MaxSubmits] /\ nunl' \in [Urb -> 0..MaxUnlinks]
          /\ nconn' \in 0..MaxConnections
        BY <1>1 DEF OnNewConnection
    <2> QED
        BY <1>1, <2>1, <2>2 DEF OnNewConnection
<1>2. CASE ReceiverEnds
    BY <1>2 DEF ReceiverEnds
<1>3. CASE Disconnect
    BY <1>3 DEF Disconnect
<1>4. CASE CancelAll
    BY <1>4 DEF CancelAll
<1>5. CASE AllDone
    <2>1. live = {}
        BY <1>5, LiveCount, SMTT(30) DEF AllDone, Counted
    <2> QED
        BY <1>5, <2>1 DEF AllDone
<1>6. CASE LibusbSubmit
    BY <1>6 DEF LibusbSubmit
<1>7. CASE LibusbSubmitFails
    <2>1. seqnum[rxcb] \in Urb
        BY <1>7 DEF LibusbSubmitFails
    <2>2. out' \in Seq(Response)
        BY <1>7, <2>1, Responses, Appended DEF LibusbSubmitFails, Status
    <2>3. Cardinality(live) \in Nat \ {0}
        BY <1>7, LiveCount DEF LibusbSubmitFails
    <2>4. pending_count - 1 \in Nat
        BY <2>3 DEF Counted
    <2> QED
        BY <1>7, <2>1, <2>2, <2>4 DEF LibusbSubmitFails
<1>8. ASSUME NEW u \in Urb, AnswerDirectly(u) PROVE TypeOK'
    <2>1. out' \in Seq(Response)
        BY <1>8, Responses, Appended DEF AnswerDirectly, Status
    <2> QED
        BY <1>8, <2>1 DEF AnswerDirectly, Submitted
<1>9. ASSUME NEW u \in Urb, RejectDuplicate(u) PROVE TypeOK'
    <2>1. out' \in Seq(Response)
        BY <1>9, Responses, Appended DEF RejectDuplicate, Status
    <2> QED
        BY <1>9, <2>1, SMTT(30) DEF RejectDuplicate, Submitted
<1>10. ASSUME NEW u \in Urb, Track(u) PROVE TypeOK'
    BY <1>10 DEF Track, Submitted
<1>11. ASSUME NEW u \in Urb, UrbAfterRemoval(u) PROVE TypeOK'
    BY <1>11 DEF UrbAfterRemoval, Submitted
<1>12. ASSUME NEW u \in Urb, HandleUnlink(u) PROVE TypeOK'
    <2>1. nunl[u] + 1 \in 0..MaxUnlinks
        BY <1>12 DEF HandleUnlink, Unlinked
    <2>2. out' \in Seq(Response)
        BY <1>12, <2>1, Responses, Appended DEF HandleUnlink, Status
    <2>3. CASE u \in Tracked
        <3>1. transfers[u] \in Args
            BY <2>3
        <3>2. /\ unlinking' = [unlinking EXCEPT ![transfers[u]] = nunl[u] + 1]
              /\ trx' = [trx EXCEPT ![transfers[u]] = Cancelled(transfers[u])]
            BY <1>12, <2>3 DEF HandleUnlink
        <3> QED
            BY <1>12, <2>1, <2>2, <3>1, <3>2, SMTT(30) DEF HandleUnlink, Unlinked
    <2>4. CASE u \notin Tracked
        BY <1>12, <2>2, <2>4, SMTT(30) DEF HandleUnlink, Unlinked
    <2> QED
        BY <2>3, <2>4
<1>13. ASSUME NEW u \in Urb, UnlinkAfterRemoval(u) PROVE TypeOK'
    BY <1>13 DEF UnlinkAfterRemoval, Unlinked
<1>14. ASSUME NEW a \in Args, TransferEnds(a) PROVE TypeOK'
    BY <1>14 DEF TransferEnds
<1>15. CASE PullOut
    BY <1>15 DEF PullOut
<1>16. CASE DeviceLeft
    BY <1>16 DEF DeviceLeft
<1>17. ASSUME NEW a \in Args, CallbackStart(a) PROVE TypeOK'
    BY <1>17 DEF CallbackStart
<1>18. CASE CallbackStatus
    BY <1>18 DEF CallbackStatus
<1>19. CASE CallbackAnswer
    <2>1. seqnum[evcb] \in Urb /\ unlinking[evcb] \in 0..MaxUnlinks
        BY <1>19 DEF CallbackAnswer
    <2>2. out' \in Seq(Response)
        BY <1>19, <2>1, Responses, TransferStatus, Appended DEF CallbackAnswer, CallbackResponse
    <2> QED
        BY <1>19, <2>1, <2>2 DEF CallbackAnswer
<1>20. CASE CallbackDrop
    BY <1>20 DEF CallbackDrop
<1>21. CASE CallbackFree
    BY <1>21 DEF CallbackFree
<1>22. CASE CallbackCount
    BY <1>22, LiveCount DEF CallbackCount, Counted
<1>23. CASE UNCHANGED vars
    BY <1>23 DEF vars
<1> QED
    BY <1>1, <1>2, <1>3, <1>4, <1>5, <1>6, <1>7, <1>8, <1>9, <1>10, <1>11, <1>12, <1>13, <1>14, <1>15, <1>16, <1>17, <1>18, <1>19, <1>20, <1>21, <1>22, <1>23 DEF Next, Receiver, EventThread

\* Arguments are counted when Track takes them, and counted down by the
\* submit that failed or by the callback, after they were given back.
LEMMA CountedStep == IInv /\ [Next]_vars => Counted'
<1> SUFFICES ASSUME IInv, [Next]_vars PROVE Counted'
    OBVIOUS
<1> USE LibusbTransfersAssumption DEF LibusbTransfersAssumption, IInv, TypeOK, Owned, Serving, Counted, track, flags, event, receiver
<1>1. CASE OnNewConnection
    BY <1>1 DEF OnNewConnection
<1>2. CASE ReceiverEnds
    BY <1>2 DEF ReceiverEnds
<1>3. CASE Disconnect
    BY <1>3 DEF Disconnect
<1>4. CASE CancelAll
    BY <1>4 DEF CancelAll
<1>5. CASE AllDone
    BY <1>5, LiveCount, FS_EmptySet DEF AllDone
<1>6. CASE LibusbSubmit
    BY <1>6 DEF LibusbSubmit
<1>7. CASE LibusbSubmitFails
    <2>1. rxcb \in live /\ live' = live \ {rxcb}
        BY <1>7 DEF LibusbSubmitFails
    <2>2. IsFiniteSet(live') /\ Cardinality(live') = Cardinality(live) - 1
        BY <2>1, FS_RemoveElement
    <2>3. rx' # "closed" /\ pending_count' = pending_count - 1 /\ ev' = ev
        BY <1>7 DEF LibusbSubmitFails
    <2> QED
        BY <2>2, <2>3, LiveCount, SMTT(30)
<1>8. ASSUME NEW u \in Urb, AnswerDirectly(u) PROVE Counted'
    BY <1>8 DEF AnswerDirectly, Submitted
<1>9. ASSUME NEW u \in Urb, RejectDuplicate(u) PROVE Counted'
    BY <1>9 DEF RejectDuplicate, Submitted
<1>10. ASSUME NEW u \in Urb, Track(u) PROVE Counted'
    <2> PICK a \in Args \ live : live' = live \cup {a}
        BY <1>10 DEF Track
    <2>1. IsFiniteSet(live') /\ Cardinality(live') = Cardinality(live) + 1
        BY FS_AddElement
    <2> QED
        BY <1>10, <2>1, LiveCount DEF Track, Submitted
<1>11. ASSUME NEW u \in Urb, UrbAfterRemoval(u) PROVE Counted'
    BY <1>11 DEF UrbAfterRemoval, Submitted
<1>12. ASSUME NEW u \in Urb, HandleUnlink(u) PROVE Counted'
    BY <1>12 DEF HandleUnlink, Unlinked
<1>13. ASSUME NEW u \in Urb, UnlinkAfterRemoval(u) PROVE Counted'
    BY <1>13 DEF UnlinkAfterRemoval, Unlinked
<1>14. ASSUME NEW a \in Args, TransferEnds(a) PROVE Counted'
    BY <1>14 DEF TransferEnds
<1>15. CASE PullOut
    BY <1>15 DEF PullOut
<1>16. CASE DeviceLeft
    BY <1>16 DEF DeviceLeft
<1>17. ASSUME NEW a \in Args, CallbackStart(a) PROVE Counted'
    BY <1>17 DEF CallbackStart
<1>18. CASE CallbackStatus
    BY <1>18 DEF CallbackStatus
<1>19. CASE CallbackAnswer
    BY <1>19 DEF CallbackAnswer
<1>20. CASE CallbackDrop
    BY <1>20 DEF CallbackDrop
<1>21. CASE CallbackFree
    <2>1. evcb \in live /\ live' = live \ {evcb}
        BY <1>21 DEF CallbackFree
    <2>2. IsFiniteSet(live') /\ Cardinality(live') = Cardinality(live) - 1
        BY <2>1, FS_RemoveElement
    <2> QED
        BY <1>21, <2>2, LiveCount DEF CallbackFree
<1>22. CASE CallbackCount
    BY <1>22, LiveCount DEF CallbackCount
<1>23. CASE UNCHANGED vars
    BY <1>23 DEF vars
<1> QED
    BY <1>1, <1>2, <1>3, <1>4, <1>5, <1>6, <1>7, <1>8, <1>9, <1>10, <1>11, <1>12, <1>13, <1>14, <1>15, <1>16, <1>17, <1>18, <1>19, <1>20, <1>21, <1>22, <1>23 DEF Next, Receiver, EventThread

Said == Reported /\ Final /\ SubmitBeforeUnlink

\* What was said stays true while nothing is said, submitted or erased.
LEMMA NothingSaid ==
    ASSUME IInv, UNCHANGED <<transfers, nsub, ncmd, out>>
    PROVE  Said'
BY DEF IInv, Said, Reported, Final, SubmitBeforeUnlink, Submits, Cancels, Answers, Outstanding

\* What is said of each number.  The actions fall into those that answer a new
\* CMD_SUBMIT at once, those that take one without an answer, an unlink that
\* comes too late, those that answer the outstanding URB and erase its entry,
\* and those that say nothing.
LEMMA SaidStep == IInv /\ [Next]_vars => Said'
<1> SUFFICES ASSUME IInv, [Next]_vars PROVE Said'
    OBVIOUS
<1> USE LibusbTransfersAssumption DEF LibusbTransfersAssumption, IInv, Owned, Reported, Serving
<1>1. CASE OnNewConnection
    <2>1. /\ transfers' = transfers /\ out' = <<>> /\ nsub' = [u \in Urb |-> 0]
          /\ live = {} /\ ncmd' \in Nat
        BY <1>1, LiveCount, SMTT(30) DEF OnNewConnection, TypeOK, Counted, track
    <2>2. \A u \in Urb : transfers[u] = NoArgs
        BY <2>1
    <2>3. ASSUME NEW u \in Urb
          PROVE  Submits(u)' = {} /\ Cancels(u)' = {} /\ Answers("RET_UNLINK", u)' = {}
        BY <2>1 DEF Submits, Cancels, Answers
    <2>4. Reported'
        BY <2>1, <2>2
    <2>5. Final'
        <3>1. ASSUME NEW u \in Urb
              PROVE  /\ Cardinality(Submits(u))' = 0 /\ Cardinality(Cancels(u))' = 0
                     /\ Outstanding(u)' = 0 /\ nsub'[u] = 0
            BY <2>1, <2>2, <2>3, FS_EmptySet DEF Outstanding
        <3> QED
            BY <3>1 DEF Final
    <2>6. SubmitBeforeUnlink'
        BY <2>1, <2>3 DEF SubmitBeforeUnlink
    <2> QED
        BY <2>4, <2>5, <2>6 DEF Said
<1>2. ASSUME NEW u \in Urb, AnswerDirectly(u) \/ RejectDuplicate(u) PROVE Said'
    <2>1. PICK st \in Status : out' = Append(out, RetSubmit(u, st))
        BY <1>2 DEF AnswerDirectly, RejectDuplicate, Status
    <2> DEFINE r == RetSubmit(u, st)
    <2>2. /\ r \in Response /\ r.kind = "RET_SUBMIT" /\ r.urb = u
        BY LibusbTransfersAssumption, Responses DEF RetSubmit
    <2> HIDE DEF r
    <2>3. /\ nsub' = [nsub EXCEPT ![u] = nsub[u] + 1] /\ ncmd' = ncmd + 1
          /\ transfers' = transfers
        BY <1>2 DEF AnswerDirectly, RejectDuplicate, Submitted, track
    <2>4. /\ Len(out) \in Nat /\ Len(out') = Len(out) + 1
          /\ \A i \in 1..Len(out) : out'[i] = out[i]
          /\ out'[Len(out) + 1] = r
        BY <2>1, <2>2, Appended DEF r
    <2> DEFINE more(v) == IF u = v THEN 1 ELSE 0
    <2>8. \A v \in Urb : nsub[v] \in Nat /\ nsub'[v] = nsub[v] + more(v)
        BY <2>3 DEF TypeOK
    <2>5. Reported'
        <3> SUFFICES ASSUME NEW v \in Urb
                     PROVE  /\ nsub'[v] <= ncmd'
                            /\ nsub'[v] = 0 => transfers[v] = NoArgs /\
                                               \A i \in 1..Len(out') : out'[i].urb # v
                            /\ nsub'[v] = 1 /\ transfers[v] # NoArgs =>
                                               \A i \in 1..Len(out') : out'[i].urb # v
            BY <2>3
        <3>1. CASE u = v
            BY <2>2, <2>3, <2>8, <3>1 DEF TypeOK
        <3>2. CASE u # v
            <4>1. nsub'[v] = nsub[v] /\ nsub[v] \in Nat /\ ncmd \in Nat
                BY <2>8, <3>2 DEF TypeOK
            <4>2. ASSUME NEW i \in 1..Len(out')
                  PROVE  out'[i].urb # v \/ (i \in 1..Len(out) /\ out'[i] = out[i])
                <5>1. i = Len(out) + 1 \/ i \in 1..Len(out)
                    BY <2>4
                <5> QED
                    BY <2>2, <2>4, <3>2, <5>1
            <4> QED
                BY <2>3, <4>1, <4>2
        <3> QED
            BY <3>1, <3>2
    <2>6. Final'
        <3> SUFFICES ASSUME NEW v \in Urb
                     PROVE  (Cardinality(Submits(v)) + Cardinality(Cancels(v)) + Outstanding(v)
                                <= nsub[v])'
            BY DEF Final
        <3>1. /\ Cardinality(Submits(v))' = Cardinality(Submits(v)) + (IF u = v THEN 1 ELSE 0)
              /\ Cardinality(Cancels(v))' = Cardinality(Cancels(v))
            BY <2>1, <2>2, FinalAnswers, AnswersFinite DEF r
        <3>2. Outstanding(v)' = Outstanding(v) /\ Outstanding(v) \in Nat
            BY <2>3 DEF Outstanding
        <3> QED
            BY <2>8, <3>1, <3>2, AnswersFinite DEF Final
    <2>7. SubmitBeforeUnlink'
        <3> SUFFICES ASSUME NEW v \in Urb, nsub'[v] = 1, NEW i \in Answers("RET_UNLINK", v)'
                     PROVE  /\ \A j \in Answers("RET_SUBMIT", v)' : j < i
                            /\ out'[i].status = "ECONNRESET" => Answers("RET_SUBMIT", v)' = {}
            BY DEF SubmitBeforeUnlink
        <3>1. i \in Answers("RET_UNLINK", v) /\ out'[i] = out[i]
            BY <2>2, <2>4 DEF Answers
        <3>2. u # v
            BY <2>8, <3>1 DEF Answers
        <3>3. Answers("RET_SUBMIT", v)' = Answers("RET_SUBMIT", v) /\ nsub[v] = 1
            BY <2>2, <2>4, <2>8, <3>2 DEF Answers
        <3> QED
            BY <3>1, <3>3 DEF SubmitBeforeUnlink
    <2> QED
        BY <2>5, <2>6, <2>7 DEF Said
<1>3. ASSUME NEW u \in Urb, Track(u) \/ UrbAfterRemoval(u) PROVE Said'
    <2>1. /\ nsub' = [nsub EXCEPT ![u] = nsub[u] + 1] /\ ncmd' = ncmd + 1
          /\ out' = out
          /\ \/ transfers' = transfers
             \/ transfers[u] = NoArgs /\ \E a \in Args : transfers' = [transfers EXCEPT ![u] = a]
        BY <1>3 DEF Track, UrbAfterRemoval, Submitted, track, Tracked
    <2>2. Reported'
        BY <2>1, SMTT(30) DEF TypeOK
    <2>3. Final'
        <3> SUFFICES ASSUME NEW v \in Urb
                     PROVE  (Cardinality(Submits(v)) + Cardinality(Cancels(v)) + Outstanding(v)
                                <= nsub[v])'
            BY DEF Final
        <3>1. Submits(v)' = Submits(v) /\ Cancels(v)' = Cancels(v)
            BY <2>1 DEF Submits, Cancels, Answers
        <3>2. Outstanding(v)' <= Outstanding(v) + (IF u = v THEN 1 ELSE 0)
            BY <2>1 DEF Outstanding, TypeOK
        <3>3. nsub'[v] = nsub[v] + (IF u = v THEN 1 ELSE 0) /\ nsub[v] \in Nat
            BY <2>1 DEF TypeOK
        <3> QED
            BY <3>1, <3>2, <3>3, AnswersFinite DEF Final, Outstanding
    <2>4. SubmitBeforeUnlink'
        <3> SUFFICES ASSUME NEW v \in Urb, nsub'[v] = 1, NEW i \in Answers("RET_UNLINK", v)
                     PROVE  /\ \A j \in Answers("RET_SUBMIT", v) : j < i
                            /\ out[i].status = "ECONNRESET" => Answers("RET_SUBMIT", v) = {}
            BY <2>1 DEF SubmitBeforeUnlink, Answers
        <3>1. nsub[v] # 0 /\ nsub[v] \in Nat
            BY DEF Answers, TypeOK
        <3>2. nsub[v] = 1
            BY <2>1, <3>1 DEF TypeOK
        <3> QED
            BY <3>2 DEF SubmitBeforeUnlink
    <2> QED
        BY <2>2, <2>3, <2>4 DEF Said
<1>4. ASSUME NEW u \in Urb, HandleUnlink(u) PROVE Said'
    <2>1. CASE u \in Tracked
        BY <1>4, <2>1, NothingSaid DEF HandleUnlink, Unlinked
    <2>2. CASE u \notin Tracked
        <3> DEFINE r == RetUnlink(u, nunl[u] + 1, "OK")
        <3>1. /\ out' = Append(out, r) /\ nsub' = nsub /\ ncmd' = ncmd /\ transfers' = transfers
              /\ nsub[u] > 0 /\ transfers[u] = NoArgs /\ nunl[u] + 1 \in 0..MaxUnlinks
            BY <1>4, <2>2 DEF HandleUnlink, Unlinked, Tracked, TypeOK
        <3>2. r \in Response /\ r.kind = "RET_UNLINK" /\ r.urb = u /\ r.status = "OK"
            BY <3>1, Responses DEF RetUnlink, Status
        <3> HIDE DEF r
        <3>3. /\ Len(out) \in Nat /\ Len(out') = Len(out) + 1
              /\ \A i \in 1..Len(out) : out'[i] = out[i]
              /\ out'[Len(out) + 1] = r
            BY <3>1, <3>2, Appended
        <3>4. Reported'
            <4>1. ASSUME NEW v \in Urb, v # u, NEW i \in 1..Len(out'), out'[i].urb = v
                  PROVE  \E j \in 1..Len(out) : out[j].urb = v
                BY <3>2, <3>3, <4>1
            <4> QED
                BY <3>1, <4>1, SMTT(30)
        <3>5. Final'
            <4> SUFFICES ASSUME NEW v \in Urb
                         PROVE  (Cardinality(Submits(v)) + Cardinality(Cancels(v))
                                    + Outstanding(v) <= nsub[v])'
                BY DEF Final
            <4>1. /\ Cardinality(Submits(v))' = Cardinality(Submits(v))
                  /\ Cardinality(Cancels(v))' = Cardinality(Cancels(v))
                BY <3>1, <3>2, FinalAnswers, AnswersFinite
            <4> QED
                BY <3>1, <4>1, AnswersFinite DEF Final, Outstanding
        <3>6. SubmitBeforeUnlink'
            BY <3>1, <3>2, <3>3 DEF SubmitBeforeUnlink, Answers
        <3> QED
            BY <3>4, <3>5, <3>6 DEF Said
    <2> QED
        BY <2>1, <2>2
<1>5. ASSUME LibusbSubmitFails \/ CallbackAnswer PROVE Said'
    <2>1. PICK u \in Urb : \E r \in Response :
              /\ transfers[u] # NoArgs /\ transfers' = [transfers EXCEPT ![u] = NoArgs]
              /\ nsub' = nsub /\ ncmd' = ncmd
              /\ out' = Append(out, r) /\ r.urb = u
        <3>1. CASE LibusbSubmitFails
            <4>1. seqnum[rxcb] \in Urb /\ transfers[seqnum[rxcb]] # NoArgs
                BY <3>1 DEF LibusbSubmitFails, TypeOK
            <4>2. /\ RetSubmit(seqnum[rxcb], "EPIPE") \in Response
                  /\ RetSubmit(seqnum[rxcb], "EPIPE").urb = seqnum[rxcb]
                BY <4>1, Responses DEF RetSubmit, Status
            <4> QED
                BY <3>1, <4>1, <4>2 DEF LibusbSubmitFails, Erase
        <3>2. CASE CallbackAnswer
            <4>1. seqnum[evcb] \in Urb /\ transfers[seqnum[evcb]] # NoArgs
                BY <3>2 DEF CallbackAnswer, TypeOK
            <4>2. unlinking[evcb] \in 0..MaxUnlinks /\ Trxstat2Error(evst) \in Status
                BY <3>2, TransferStatus DEF TypeOK, CallbackAnswer
            <4>3. CallbackResponse \in Response /\ CallbackResponse.urb = seqnum[evcb]
                BY <4>1, <4>2, Responses DEF CallbackResponse, RetSubmit, RetUnlink
            <4> QED
                BY <3>2, <4>1, <4>3 DEF CallbackAnswer, Erase, receiver
        <3> QED
            BY <1>5, <3>1, <3>2
    <2>2. PICK r \in Response : out' = Append(out, r) /\ r.urb = u
        BY <2>1
    <2>3. /\ Len(out) \in Nat /\ Len(out') = Len(out) + 1
          /\ \A i \in 1..Len(out) : out'[i] = out[i]
          /\ out'[Len(out) + 1] = r
        BY <2>2, Appended
    <2>4. Reported'
        <3>1. /\ transfers'[u] = NoArgs /\ nsub[u] # 0
              /\ \A v \in Urb : v # u => transfers'[v] = transfers[v]
            BY <2>1 DEF TypeOK
        <3>2. ASSUME NEW v \in Urb, v # u, NEW i \in 1..Len(out'), out'[i].urb = v
              PROVE  \E j \in 1..Len(out) : out[j].urb = v
            BY <2>2, <2>3, <3>2
        <3> QED
            BY <2>1, <3>1, <3>2, SMTT(30)
    <2>5. Final'
        <3> SUFFICES ASSUME NEW v \in Urb
                     PROVE  (Cardinality(Submits(v)) + Cardinality(Cancels(v)) + Outstanding(v)
                                <= nsub[v])'
            BY DEF Final
        <3>1. Cardinality(Submits(v))' + Cardinality(Cancels(v))' <=
                  Cardinality(Submits(v)) + Cardinality(Cancels(v)) + (IF u = v THEN 1 ELSE 0)
            BY <2>2, FinalAnswers, AnswersFinite, SMTT(30)
        <3>2. Outstanding(v)' = Outstanding(v) - (IF u = v THEN 1 ELSE 0)
            BY <2>1, SMTT(30) DEF Outstanding, TypeOK
        <3>3. nsub[v] \in Nat /\ Outstanding(v) \in Nat
            BY DEF Outstanding, TypeOK
        <3>4. Cardinality(Submits(v))' \in Nat /\ Cardinality(Cancels(v))' \in Nat
            BY <2>2, FinalAnswers, AnswersFinite
        <3>5. nsub'[v] = nsub[v]
            BY <2>1
        <3>6. Cardinality(Submits(v)) + Cardinality(Cancels(v)) + Outstanding(v) <= nsub[v]
            BY DEF Final
        <3>7. Cardinality(Submits(v)) \in Nat /\ Cardinality(Cancels(v)) \in Nat
            BY AnswersFinite
        <3>8. PICK t \in {0, 1} : t = IF u = v THEN 1 ELSE 0
            BY Zenon
        <3> HIDE DEF IInv, Owned, Reported, Serving
        <3> QED
            BY <3>1, <3>2, <3>3, <3>4, <3>5, <3>6, <3>7, <3>8
    <2>6. SubmitBeforeUnlink'
        <3> SUFFICES ASSUME NEW v \in Urb, nsub[v] = 1, NEW i \in Answers("RET_UNLINK", v)'
                     PROVE  /\ \A j \in Answers("RET_SUBMIT", v)' : j < i
                            /\ out'[i].status = "ECONNRESET" => Answers("RET_SUBMIT", v)' = {}
            BY <2>1 DEF SubmitBeforeUnlink
        <3>1. CASE u = v
            BY <2>1, <2>2, <2>3, <3>1 DEF Answers
        <3>2. CASE u # v
            <4>1. \A k : Answers(k, v)' = Answers(k, v)
                BY <2>2, <2>3, <3>2 DEF Answers
            <4>2. out'[i] = out[i]
                BY <2>3, <4>1 DEF Answers
            <4> QED
                BY <4>1, <4>2 DEF SubmitBeforeUnlink
        <3> QED
            BY <3>1, <3>2
    <2> QED
        BY <2>4, <2>5, <2>6 DEF Said
<1>6. CASE CallbackDrop
    <2>1. /\ seqnum[evcb] \in Urb /\ transfers' = [transfers EXCEPT ![seqnum[evcb]] = NoArgs]
          /\ nsub' = nsub /\ ncmd' = ncmd /\ out' = out
        BY <1>6 DEF CallbackDrop, Erase, receiver, TypeOK
    <2>2. Reported' /\ SubmitBeforeUnlink'
        BY <2>1 DEF SubmitBeforeUnlink, Answers, TypeOK
    <2>3. Final'
        <3> SUFFICES ASSUME NEW v \in Urb
                     PROVE  (Cardinality(Submits(v)) + Cardinality(Cancels(v)) + Outstanding(v)
                                <= nsub[v])'
            BY DEF Final
        <3>1. Submits(v)' = Submits(v) /\ Cancels(v)' = Cancels(v)
            BY <2>1 DEF Submits, Cancels, Answers
        <3>2. Outstanding(v)' <= Outstanding(v) /\ nsub[v] \in Nat
            BY <2>1 DEF Outstanding, TypeOK
        <3> QED
            BY <2>1, <3>1, <3>2, AnswersFinite DEF Final, Outstanding
    <2> QED
        BY <2>2, <2>3 DEF Said
<1>7. ASSUME \/ ReceiverEnds \/ Disconnect \/ CancelAll \/ AllDone \/ LibusbSubmit
             \/ PullOut \/ DeviceLeft \/ CallbackStatus \/ CallbackFree \/ CallbackCount
             \/ \E u \in Urb : UnlinkAfterRemoval(u)
             \/ \E a \in Args : TransferEnds(a) \/ CallbackStart(a)
             \/ UNCHANGED vars
      PROVE  Said'
    <2>1. UNCHANGED <<transfers, nsub, ncmd, out>>
        BY <1>7 DEF ReceiverEnds, Disconnect, CancelAll, AllDone, LibusbSubmit, PullOut,
            DeviceLeft, CallbackStatus, CallbackFree, CallbackCount, UnlinkAfterRemoval,
            TransferEnds, CallbackStart, Unlinked, receiver, track, vars
    <2> QED
        BY <2>1, NothingSaid
<1> QED
    BY <1>1, <1>2, <1>3, <1>4, <1>5, <1>6, <1>7 DEF Next, Receiver, EventThread

\* The handler of a device that was just imported for the first time.
LEMMA InitIInv == Init => IInv
<1> SUFFICES ASSUME Init PROVE IInv
    OBVIOUS
<1> USE LibusbTransfersAssumption DEF LibusbTransfersAssumption, Init
<1>1. TypeOK
    <2>1. out \in Seq(Response)
        OBVIOUS
    <2>2. /\ seqnum \in [Args -> Urb \cup {0}] /\ unlinking \in [Args -> 0..MaxUnlinks]
          /\ nsub \in [Urb -> 0..MaxSubmits] /\ nunl \in [Urb -> 0..MaxUnlinks]
        OBVIOUS
    <2>3. /\ transfers \in [Urb -> Args \cup {NoArgs}]
          /\ trx \in [Args -> {"none", "flying", "cancelling"} \cup TrxStatus]
        OBVIOUS
    <2>4. live \subseteq Args /\ pending_count \in Nat /\ ncmd \in 0..MaxSubmits
          /\ nconn \in 0..MaxConnections
        OBVIOUS
    <2>5. evst \in TrxStatus
        BY DEF TrxStatus
    <2> QED
        BY <2>1, <2>2, <2>3, <2>4, <2>5 DEF TypeOK
<1>2. Owned /\ Reported /\ SubmitBeforeUnlink
    BY DEF Owned, Serving, Reported, SubmitBeforeUnlink, Answers
<1>3. Counted
    BY FS_EmptySet DEF Counted
<1>4. Final
    <2>1. ASSUME NEW u \in Urb PROVE Submits(u) = {} /\ Cancels(u) = {}
        BY DEF Submits, Cancels, Answers
    <2>2. ASSUME NEW u \in Urb
          PROVE  /\ Cardinality(Submits(u)) = 0 /\ Cardinality(Cancels(u)) = 0
                 /\ Outstanding(u) = 0 /\ nsub[u] = 0
        BY <2>1, FS_EmptySet DEF Outstanding
    <2> QED
        BY <2>2 DEF Final
<1> QED
    BY <1>1, <1>2, <1>3, <1>4 DEF IInv

------------------------------------------------------------------------------
(* Theorems.                                                                 *)

\* IInv holds in every state of LibusbDeviceHandler, for any number of URBs,
\* of callback arguments and of connections.
THEOREM InductiveInvariant == Spec => []IInv
<1>1. IInv /\ [Next]_vars => IInv'
    BY TypeStep, OwnedStep, CountedStep, SaidStep DEF IInv, Said
<1> QED
    BY InitIInv, <1>1, PTL DEF Spec

\* The variables of LibusbDeviceHandler keep their types; in particular
\* pending_count_ is never counted below zero, and the arguments in the hands
\* of the receiver and of the event thread are in use.
THEOREM TypeCorrect == Spec => []TypeOK
<1>1. IInv => TypeOK
    BY DEF IInv
<1> QED
    BY InductiveInvariant, <1>1, PTL

\* transfer_callback, handle_unlink_seqnum and receive_urb together answer no
\* CMD_SUBMIT twice, however the callback and an unlink race.
THEOREM NoDoubleAnswer == Spec => []AnsweredOnce
<1>1. IInv => AnsweredOnce
    <2> SUFFICES ASSUME IInv, NEW u \in Urb
                 PROVE  Cardinality(Submits(u)) + Cardinality(Cancels(u)) <= nsub[u]
        BY DEF AnsweredOnce, Submits, Cancels
    <2>1. nsub[u] \in Nat /\ Outstanding(u) \in Nat
        BY DEF IInv, TypeOK, Outstanding
    <2> QED
        BY <2>1, AnswersFinite DEF IInv, Final
<1> QED
    BY InductiveInvariant, <1>1, PTL

\* DeviceHandler.h: "RET_SUBMIT must be sent before RET_UNLINK", and a URB
\* reported as cancelled has no RET_SUBMIT: the lock transfers_mutex_ around
\* "erase and enqueue" is enough.
THEOREM UnlinkAnsweredLast == Spec => []SubmitBeforeUnlink
<1>1. IInv => SubmitBeforeUnlink
    BY DEF IInv
<1> QED
    BY InductiveInvariant, <1>1, PTL

\* on_disconnection waits for pending_count_ to be zero, and then no transfer,
\* callback or map entry is left.
THEOREM ClosedIsQuiet == Spec => []QuietWhenClosed
<1>1. IInv => QuietWhenClosed
    <2> SUFFICES ASSUME IInv, rx = "closed"
                 PROVE  Tracked = {} /\ ev = "idle" /\ \A a \in Args : trx[a] = "none"
        BY DEF QuietWhenClosed
    <2>1. live = {} /\ ev # "count"
        BY LiveCount DEF IInv, Counted
    <2> QED
        BY <2>1 DEF IInv, Owned, TypeOK, Tracked, Serving
<1> QED
    BY InductiveInvariant, <1>1, PTL

\* What is found in transfers_ under the lock is alive and of that number, and
\* libusb holds no transfer whose arguments were given back.
THEOREM NoDanglingArguments == Spec => []TrackedIsAlive
<1>1. IInv => TrackedIsAlive
    BY DEF IInv, Owned, TrackedIsAlive, Tracked
<1> QED
    BY InductiveInvariant, <1>1, PTL
==============================================================================
