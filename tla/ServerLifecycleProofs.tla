------------------------ MODULE ServerLifecycleProofs ------------------------
(***************************************************************************)
(* Proofs about ServerLifecycle, for any number of sessions and of starts, *)
(* whether callbacks throw or not.                                         *)
(*                                                                         *)
(* The inductive invariant is IInv: the types, who holds a session         *)
(* (Holders), that active_sessions counts the live ones (Counted), why a   *)
(* session is in the table and what its observers were told (Table,        *)
(* Events), and how far the accept loop can be at each step of stop()      *)
(* (Shutdown).                                                             *)
(***************************************************************************)
EXTENDS ServerLifecycle, FiniteSetTheorems, TLAPS

\* The coroutine has a session that nobody else knows of, or not yet runs.
Fresh == {"precheck", "register", "await", "accepted", "emplace"}
Unstarted == Fresh \cup {"notify", "run"}

Holders ==
    /\ co \in {"none", "top"} => cur = 0
    /\ cur # 0 => "frame" \in held[cur]
    /\ co \in Unstarted => thread[cur] = "none"
    /\ \A i \in Id :
          /\ "frame" \in held[i] => i = cur
          /\ "thread" \in held[i] <=> thread[i] \in {"parse_op", "remove", "notify", "exit"}
          /\ "stop" \in held[i] <=> i \in conns
          /\ held[i] # {} => life[i] = "alive"
          /\ i >= next_session_id =>
                life[i] = "unborn" /\ thread[i] = "none" /\ started[i] = 0 /\ ended[i] = 0

Alive == {i \in Id : life[i] = "alive"}
Counted == active_sessions = Cardinality(Alive)

\* A session is in the table from before its thread exists until the thread,
\* or the coroutine after a failure, removes it.
Table ==
    /\ \A i \in sessions :
          \/ thread[i] \in {"parse_op", "remove"}
          \/ thread[i] = "none" /\ cur = i /\ co \in {"notify", "run", "undo"}
    /\ co = "notify" => cur \in sessions

\* The end of session i is still to be reported.
Owed(i) ==
    \/ i \in sessions /\ ~(co = "notify" /\ cur = i)
    \/ thread[i] = "notify"
    \/ co = "undo_notify" /\ cur = i

Events ==
    /\ \A i \in Id : IF Owed(i) THEN started[i] = 1 /\ ended[i] = 0 ELSE started[i] = ended[i]
    /\ co \in Fresh \cup {"notify"} => started[cur] = 0
    /\ co = "undo_notify" => thread[cur] # "notify" /\ cur \notin sessions

\* Nothing is left of the last run.
Nothing ==
    /\ \A i \in Id : life[i] # "alive" /\ held[i] = {}
    /\ sessions = {} /\ net # "run" /\ co = "none"

Shutdown ==
    /\ stopper # "idle" => ~running
    /\ stopper = "join_only" \/ (stopper = "idle" /\ ~running) => Nothing
    /\ accept # "none" <=> co = "await"
    /\ acceptor = "closed" => accept # "pending"
    /\ stopper = "poll" => acceptor = "closed"
    /\ stopper \in {"close", "poll", "snapshot", "stop_each", "wait"} => net = "none"
    /\ stopper \in {"snapshot", "stop_each", "wait"} => co = "none"
    /\ stopper = "stop_each" => sessions \subseteq conns
    /\ conns # {} => stopper = "stop_each"
    /\ stopper = "wait" => \A i \in sessions : should_immediately_stop[i]

IInv == TypeOK /\ Holders /\ Counted /\ Table /\ Events /\ Shutdown

------------------------------------------------------------------------------
(* Lemmas on counting.                                                       *)

\* The live sessions are finitely many: at most as many as were created.
LEMMA AliveFinite ==
    ASSUME NEW S \in SUBSET Id
    PROVE  /\ IsFiniteSet(S) /\ Cardinality(S) \in 0..MaxSessions
           /\ Cardinality(S) = 0 <=> S = {}
<1>1. IsFiniteSet(Id) /\ Cardinality(Id) = MaxSessions
    BY ServerLifecycleAssumption, FS_Interval DEF ServerLifecycleAssumption, Id
<1>2. IsFiniteSet(S) /\ Cardinality(S) \in Nat /\ Cardinality(S) <= MaxSessions
    BY <1>1, FS_Subset, FS_CardinalityType
<1> QED
    BY <1>2, FS_EmptySet, ServerLifecycleAssumption DEF ServerLifecycleAssumption

\* What stop() may conclude from active_sessions being zero.
LEMMA ZeroMeansNone ==
    ASSUME IInv, active_sessions = 0
    PROVE  /\ \A i \in Id : life[i] # "alive" /\ held[i] = {}
           /\ cur = 0 /\ sessions = {}
<1>1. Alive \in SUBSET Id
    BY DEF Alive
<1>2. \A i \in Id : life[i] # "alive" /\ held[i] = {}
    BY <1>1, AliveFinite DEF IInv, Counted, Alive, Holders
<1>3. cur = 0
    BY <1>2 DEF IInv, Holders, TypeOK
<1>4. sessions = {}
    BY <1>2, <1>3 DEF IInv, Table, Holders, TypeOK, Id
<1> QED
    BY <1>2, <1>3, <1>4

------------------------------------------------------------------------------
(* The invariant is inductive: one lemma per part, one step per action.      *)

\* active_sessions counts the live sessions: only accept_loop creates one, and
\* only ~Session counts down.
LEMMA CountedStep == IInv /\ [Next]_vars => Counted' /\ active_sessions' \in 0..MaxSessions
<1> SUFFICES ASSUME IInv, [Next]_vars PROVE Counted' /\ active_sessions' \in 0..MaxSessions
    OBVIOUS
<1>1. Alive \in SUBSET Id /\ Alive' \in SUBSET Id
    BY DEF Alive
<1>2. SUFFICES Counted'
    BY <1>1, AliveFinite DEF Counted
<1>3. CASE Create
    <2>1. /\ next_session_id \in Id /\ life' = [life EXCEPT ![next_session_id] = "alive"]
          /\ active_sessions' = active_sessions + 1
        BY <1>3, ServerLifecycleAssumption DEF Create, IInv, TypeOK, Id, ServerLifecycleAssumption
    <2>2. next_session_id \notin Alive /\ Alive' = Alive \cup {next_session_id}
        BY <2>1 DEF IInv, TypeOK, Holders, Alive, Id
    <2> QED
        BY <1>1, <2>1, <2>2, AliveFinite, FS_AddElement DEF IInv, Counted
<1>4. ASSUME NEW i \in Id, Destroy(i) PROVE Counted'
    <2>1. i \in Alive /\ Alive' = Alive \ {i} /\ active_sessions' = active_sessions - 1
        BY <1>4 DEF Destroy, IInv, TypeOK, Alive
    <2> QED
        BY <1>1, <2>1, AliveFinite, FS_RemoveElement DEF IInv, Counted
<1>5. CASE ~Create /\ \A i \in Id : ~Destroy(i)
    <2>1. UNCHANGED <<life, active_sessions>>
        BY <1>5 DEF Next, Stopper, Coroutine, SessionStep, Start, StartFails, StopBegin,
            StopJoinOnly, StopCancel, StopIo, StopJoin, StopClose, StopPolled, StopSnapshot,
            StopRelease, StopWaited, StopEach, SeeStopped, Precheck, AsyncAccept, Resume,
            Reject, Admit, Emplace, NotifySessionStarted, Run, RunThrows, Undo, UndoNotify,
            Return, NetworkExits, AcceptCompletes, ParseOpEnds, RemoveSession,
            NotifySessionEnded, ThreadExits, vars, sessionState
    <2> QED
        BY <2>1 DEF IInv, Counted, Alive
<1> QED
    BY <1>3, <1>4, <1>5

\* Every action keeps the types; the notifications stay at one each because of
\* Events, and the count within its bound because of Counted.
LEMMA TypeStep == IInv /\ [Next]_vars => TypeOK'
<1> SUFFICES ASSUME IInv, [Next]_vars PROVE TypeOK'
    OBVIOUS
<1> USE ServerLifecycleAssumption DEF ServerLifecycleAssumption, Id, IInv, TypeOK, CoPC, sessionState, coUnchanged, threadUnchanged, stopUnchanged
<1>1. CASE Start
    <2>1. starts' \in 0..MaxStarts
        BY <1>1 DEF Start
    <2> QED
        BY <1>1, <2>1 DEF Start
<1>2. CASE StartFails
    BY <1>2, ZenonT(60) DEF StartFails
<1>3. CASE StopBegin
    <2>1. stopper' \in {"cancel", "join_only"}
        BY <1>3 DEF StopBegin
    <2>2. running' \in BOOLEAN
        BY <1>3 DEF StopBegin
    <2>3. UNCHANGED <<stopUnchanged, io_stopped, acceptor, co, accept, conns, sessionState>>
        BY <1>3 DEF StopBegin
    <2> QED
        BY <2>1, <2>2, <2>3
<1>4. CASE StopJoinOnly
    BY <1>4 DEF StopJoinOnly
<1>5. CASE StopCancel
    BY <1>5 DEF StopCancel
<1>6. CASE StopIo
    BY <1>6 DEF StopIo
<1>7. CASE StopJoin
    BY <1>7 DEF StopJoin
<1>8. CASE StopClose
    BY <1>8 DEF StopClose
<1>9. CASE StopPolled
    BY <1>9 DEF StopPolled
<1>10. CASE StopSnapshot
    <2>1. conns' \subseteq Id
        BY <1>10 DEF StopSnapshot
    <2>2. held' \in [Id -> SUBSET {"frame", "thread", "stop"}]
        BY <1>10 DEF StopSnapshot
    <2> QED
        BY <1>10, <2>1, <2>2 DEF StopSnapshot
<1>11. CASE StopRelease
    BY <1>11 DEF StopRelease
<1>12. CASE StopWaited
    BY <1>12 DEF StopWaited
<1>13. ASSUME NEW i \in Id, StopEach(i) PROVE TypeOK'
    BY <1>13 DEF StopEach
<1>14. CASE Create
    <2>1. next_session_id \in Id /\ next_session_id + 1 \in 1..(MaxSessions + 1)
        BY <1>14 DEF Create
    <2> QED
        BY <1>14, <2>1, CountedStep DEF Create
<1>15. CASE SeeStopped
    BY <1>15 DEF SeeStopped
<1>16. CASE Precheck
    BY <1>16 DEF Precheck
<1>17. CASE AsyncAccept
    BY <1>17 DEF AsyncAccept
<1>18. CASE Resume
    <2>1. held' \in [Id -> SUBSET {"frame", "thread", "stop"}]
        BY <1>18 DEF Resume, DropFrame
    <2> QED
        BY <1>18, <2>1 DEF Resume, CoResumes
<1>19. CASE Reject
    BY <1>19 DEF Reject, DropFrame
<1>20. CASE Admit
    BY <1>20 DEF Admit
<1>21. CASE Emplace
    BY <1>21 DEF Emplace
<1>22. CASE NotifySessionStarted
    <2>1. cur \in Id /\ started[cur] = 0
        BY <1>22 DEF NotifySessionStarted, Events, Fresh
    <2> QED
        BY <1>22, <2>1 DEF NotifySessionStarted
<1>23. CASE Run
    BY <1>23 DEF Run
<1>24. CASE RunThrows
    BY <1>24 DEF RunThrows
<1>25. CASE Undo
    BY <1>25 DEF Undo, DropFrame
<1>26. CASE UndoNotify
    <2>1. cur \in Id /\ ended[cur] = 0
        BY <1>26 DEF UndoNotify, Events, Owed
    <2>2. held' \in [Id -> SUBSET {"frame", "thread", "stop"}]
        BY <1>26 DEF UndoNotify, DropFrame
    <2> QED
        BY <1>26, <2>1, <2>2 DEF UndoNotify
<1>27. CASE Return
    BY <1>27 DEF Return, DropFrame
<1>28. CASE NetworkExits
    BY <1>28 DEF NetworkExits
<1>29. CASE AcceptCompletes
    BY <1>29 DEF AcceptCompletes
<1>30. ASSUME NEW i \in Id, ParseOpEnds(i) PROVE TypeOK'
    BY <1>30 DEF ParseOpEnds
<1>31. ASSUME NEW i \in Id, RemoveSession(i) PROVE TypeOK'
    BY <1>31 DEF RemoveSession
<1>32. ASSUME NEW i \in Id, NotifySessionEnded(i) PROVE TypeOK'
    <2>1. ended[i] = 0
        BY <1>32 DEF NotifySessionEnded, Events, Owed
    <2> QED
        BY <1>32, <2>1 DEF NotifySessionEnded
<1>33. ASSUME NEW i \in Id, ThreadExits(i) PROVE TypeOK'
    BY <1>33 DEF ThreadExits
<1>34. ASSUME NEW i \in Id, Destroy(i) PROVE TypeOK'
    BY <1>34, CountedStep DEF Destroy
<1>35. CASE UNCHANGED vars
    BY <1>35 DEF vars
<1> QED
    BY <1>1, <1>2, <1>3, <1>4, <1>5, <1>6, <1>7, <1>8, <1>9, <1>10, <1>11, <1>12, <1>13, <1>14, <1>15, <1>16, <1>17, <1>18, <1>19, <1>20, <1>21, <1>22, <1>23, <1>24, <1>25, <1>26, <1>27, <1>28, <1>29, <1>30, <1>31, <1>32, <1>33, <1>34, <1>35
    DEF Next, Stopper, Coroutine, SessionStep

\* Holders come and go: the coroutine's frame, the session's thread, stop().
LEMMA HoldersStep == IInv /\ [Next]_vars => Holders'
<1> SUFFICES ASSUME IInv, [Next]_vars PROVE Holders'
    OBVIOUS
<1> USE ServerLifecycleAssumption DEF ServerLifecycleAssumption, Id, IInv, TypeOK, CoPC, Holders, Fresh, Unstarted, CoRuns, CoResumes, sessionState, coUnchanged, threadUnchanged, stopUnchanged
<1>1. CASE Start
    BY <1>1 DEF Start, Shutdown, Nothing
<1>2. CASE StartFails
    BY <1>2 DEF StartFails
<1>3. CASE StopBegin
    BY <1>3 DEF StopBegin
<1>4. CASE StopJoinOnly
    BY <1>4 DEF StopJoinOnly
<1>5. CASE StopCancel
    BY <1>5 DEF StopCancel
<1>6. CASE StopIo
    BY <1>6 DEF StopIo
<1>7. CASE StopJoin
    BY <1>7 DEF StopJoin
<1>8. CASE StopClose
    BY <1>8 DEF StopClose
<1>9. CASE StopPolled
    BY <1>9 DEF StopPolled
<1>10. CASE StopSnapshot
    <2>1. conns = {}
        BY <1>10 DEF StopSnapshot, Shutdown
    <2>2. \A i \in Id : held'[i] = IF i \in conns' THEN held[i] \cup {"stop"} ELSE held[i]
        BY <1>10 DEF StopSnapshot
    <2>3. \A i \in conns' : held[i] # {}
        BY <1>10 DEF StopSnapshot
    <2> QED
        BY <1>10, <2>1, <2>2, <2>3 DEF StopSnapshot
<1>11. CASE StopRelease
    BY <1>11 DEF StopRelease
<1>12. CASE StopWaited
    BY <1>12 DEF StopWaited
<1>13. ASSUME NEW i \in Id, StopEach(i) PROVE Holders'
    BY <1>13 DEF StopEach
<1>14. CASE Create
    BY <1>14 DEF Create
<1>15. CASE SeeStopped
    BY <1>15 DEF SeeStopped
<1>16. CASE Precheck
    BY <1>16 DEF Precheck
<1>17. CASE AsyncAccept
    BY <1>17 DEF AsyncAccept
<1>18. CASE Resume
    BY <1>18 DEF Resume, DropFrame
<1>19. CASE Reject
    BY <1>19 DEF Reject, DropFrame
<1>20. CASE Admit
    BY <1>20 DEF Admit
<1>21. CASE Emplace
    BY <1>21 DEF Emplace
<1>22. CASE NotifySessionStarted
    BY <1>22 DEF NotifySessionStarted
<1>23. CASE Run
    BY <1>23 DEF Run
<1>24. CASE RunThrows
    BY <1>24 DEF RunThrows
<1>25. CASE Undo
    BY <1>25 DEF Undo, DropFrame
<1>26. CASE UndoNotify
    BY <1>26 DEF UndoNotify, DropFrame
<1>27. CASE Return
    BY <1>27 DEF Return, DropFrame
<1>28. CASE NetworkExits
    BY <1>28 DEF NetworkExits
<1>29. CASE AcceptCompletes
    BY <1>29 DEF AcceptCompletes
<1>30. ASSUME NEW i \in Id, ParseOpEnds(i) PROVE Holders'
    BY <1>30 DEF ParseOpEnds
<1>31. ASSUME NEW i \in Id, RemoveSession(i) PROVE Holders'
    BY <1>31 DEF RemoveSession
<1>32. ASSUME NEW i \in Id, NotifySessionEnded(i) PROVE Holders'
    BY <1>32 DEF NotifySessionEnded
<1>33. ASSUME NEW i \in Id, ThreadExits(i) PROVE Holders'
    BY <1>33 DEF ThreadExits
<1>34. ASSUME NEW i \in Id, Destroy(i) PROVE Holders'
    BY <1>34 DEF Destroy
<1>35. CASE UNCHANGED vars
    BY <1>35 DEF vars
<1> QED
    BY <1>1, <1>2, <1>3, <1>4, <1>5, <1>6, <1>7, <1>8, <1>9, <1>10, <1>11, <1>12, <1>13, <1>14, <1>15, <1>16, <1>17, <1>18, <1>19, <1>20, <1>21, <1>22, <1>23, <1>24, <1>25, <1>26, <1>27, <1>28, <1>29, <1>30, <1>31, <1>32, <1>33, <1>34, <1>35
    DEF Next, Stopper, Coroutine, SessionStep

\* The table changes in Emplace, Undo, RemoveSession and at the end of stop().
LEMMA TableStep == IInv /\ [Next]_vars => Table'
<1> SUFFICES ASSUME IInv, [Next]_vars PROVE Table'
    OBVIOUS
<1> USE ServerLifecycleAssumption DEF ServerLifecycleAssumption, Id, IInv, TypeOK, CoPC, Holders, Table, Fresh, Unstarted, CoRuns, CoResumes, sessionState, coUnchanged, threadUnchanged, stopUnchanged
<1>1. CASE Start
    BY <1>1 DEF Start, Shutdown, Nothing
<1>2. CASE StartFails
    BY <1>2 DEF StartFails
<1>3. CASE StopBegin
    BY <1>3 DEF StopBegin
<1>4. CASE StopJoinOnly
    BY <1>4 DEF StopJoinOnly
<1>5. CASE StopCancel
    BY <1>5 DEF StopCancel
<1>6. CASE StopIo
    BY <1>6 DEF StopIo
<1>7. CASE StopJoin
    BY <1>7 DEF StopJoin
<1>8. CASE StopClose
    BY <1>8 DEF StopClose
<1>9. CASE StopPolled
    BY <1>9 DEF StopPolled
<1>10. CASE StopSnapshot
    BY <1>10 DEF StopSnapshot
<1>11. CASE StopRelease
    BY <1>11 DEF StopRelease
<1>12. CASE StopWaited
    BY <1>12, ZeroMeansNone DEF StopWaited
<1>13. ASSUME NEW i \in Id, StopEach(i) PROVE Table'
    BY <1>13 DEF StopEach
<1>14. CASE Create
    BY <1>14 DEF Create
<1>15. CASE SeeStopped
    BY <1>15 DEF SeeStopped
<1>16. CASE Precheck
    BY <1>16 DEF Precheck
<1>17. CASE AsyncAccept
    BY <1>17 DEF AsyncAccept
<1>18. CASE Resume
    BY <1>18 DEF Resume, DropFrame
<1>19. CASE Reject
    BY <1>19 DEF Reject, DropFrame
<1>20. CASE Admit
    BY <1>20 DEF Admit
<1>21. CASE Emplace
    BY <1>21 DEF Emplace
<1>22. CASE NotifySessionStarted
    BY <1>22 DEF NotifySessionStarted
<1>23. CASE Run
    BY <1>23 DEF Run
<1>24. CASE RunThrows
    BY <1>24 DEF RunThrows
<1>25. CASE Undo
    BY <1>25 DEF Undo, DropFrame
<1>26. CASE UndoNotify
    BY <1>26 DEF UndoNotify, DropFrame
<1>27. CASE Return
    BY <1>27 DEF Return, DropFrame
<1>28. CASE NetworkExits
    BY <1>28 DEF NetworkExits
<1>29. CASE AcceptCompletes
    BY <1>29 DEF AcceptCompletes
<1>30. ASSUME NEW i \in Id, ParseOpEnds(i) PROVE Table'
    BY <1>30 DEF ParseOpEnds
<1>31. ASSUME NEW i \in Id, RemoveSession(i) PROVE Table'
    BY <1>31 DEF RemoveSession
<1>32. ASSUME NEW i \in Id, NotifySessionEnded(i) PROVE Table'
    BY <1>32 DEF NotifySessionEnded
<1>33. ASSUME NEW i \in Id, ThreadExits(i) PROVE Table'
    BY <1>33 DEF ThreadExits
<1>34. ASSUME NEW i \in Id, Destroy(i) PROVE Table'
    BY <1>34 DEF Destroy
<1>35. CASE UNCHANGED vars
    BY <1>35 DEF vars
<1> QED
    BY <1>1, <1>2, <1>3, <1>4, <1>5, <1>6, <1>7, <1>8, <1>9, <1>10, <1>11, <1>12, <1>13, <1>14, <1>15, <1>16, <1>17, <1>18, <1>19, <1>20, <1>21, <1>22, <1>23, <1>24, <1>25, <1>26, <1>27, <1>28, <1>29, <1>30, <1>31, <1>32, <1>33, <1>34, <1>35
    DEF Next, Stopper, Coroutine, SessionStep

\* on_session_started and on_session_ended are paired while the coroutine and
\* the session's thread compete to remove the entry.
LEMMA EventsStep == IInv /\ [Next]_vars => Events'
<1> SUFFICES ASSUME IInv, [Next]_vars PROVE Events'
    OBVIOUS
<1> USE ServerLifecycleAssumption DEF ServerLifecycleAssumption, Id, IInv, TypeOK, CoPC, Holders, Table, Owed, Events, Fresh, Unstarted, CoRuns, CoResumes, sessionState, coUnchanged, threadUnchanged, stopUnchanged
<1>1. CASE Start
    BY <1>1 DEF Start, Shutdown, Nothing
<1>2. CASE StartFails
    BY <1>2 DEF StartFails
<1>3. CASE StopBegin
    BY <1>3 DEF StopBegin
<1>4. CASE StopJoinOnly
    BY <1>4 DEF StopJoinOnly
<1>5. CASE StopCancel
    BY <1>5 DEF StopCancel
<1>6. CASE StopIo
    BY <1>6 DEF StopIo
<1>7. CASE StopJoin
    BY <1>7 DEF StopJoin
<1>8. CASE StopClose
    BY <1>8 DEF StopClose
<1>9. CASE StopPolled
    BY <1>9 DEF StopPolled
<1>10. CASE StopSnapshot
    BY <1>10 DEF StopSnapshot
<1>11. CASE StopRelease
    BY <1>11 DEF StopRelease
<1>12. CASE StopWaited
    BY <1>12, ZeroMeansNone DEF StopWaited
<1>13. ASSUME NEW i \in Id, StopEach(i) PROVE Events'
    BY <1>13 DEF StopEach
<1>14. CASE Create
    BY <1>14 DEF Create
<1>15. CASE SeeStopped
    BY <1>15 DEF SeeStopped
<1>16. CASE Precheck
    BY <1>16 DEF Precheck
<1>17. CASE AsyncAccept
    BY <1>17 DEF AsyncAccept
<1>18. CASE Resume
    BY <1>18 DEF Resume, DropFrame
<1>19. CASE Reject
    BY <1>19 DEF Reject, DropFrame
<1>20. CASE Admit
    BY <1>20 DEF Admit
<1>21. CASE Emplace
    BY <1>21 DEF Emplace
<1>22. CASE NotifySessionStarted
    BY <1>22 DEF NotifySessionStarted
<1>23. CASE Run
    BY <1>23 DEF Run
<1>24. CASE RunThrows
    BY <1>24 DEF RunThrows
<1>25. CASE Undo
    <2> SUFFICES ASSUME NEW j \in Id
                 PROVE  (IF Owed(j) THEN started[j] = 1 /\ ended[j] = 0
                                    ELSE started[j] = ended[j])'
        <3>1. /\ co' \in Fresh \cup {"notify"} => started'[cur'] = 0
              /\ co' = "undo_notify" => thread'[cur'] # "notify" /\ cur' \notin sessions'
            BY <1>25 DEF Undo, DropFrame
        <3> QED
            BY <3>1
    <2>1. CASE j = cur
        BY <1>25, <2>1 DEF Undo, DropFrame
    <2>2. CASE j # cur
        BY <1>25, <2>2 DEF Undo, DropFrame
    <2> QED
        BY <2>1, <2>2
<1>26. CASE UndoNotify
    <2> SUFFICES ASSUME NEW j \in Id
                 PROVE  (IF Owed(j) THEN started[j] = 1 /\ ended[j] = 0
                                    ELSE started[j] = ended[j])'
        <3>1. /\ co' \in Fresh \cup {"notify"} => started'[cur'] = 0
              /\ co' = "undo_notify" => thread'[cur'] # "notify" /\ cur' \notin sessions'
            BY <1>26 DEF UndoNotify, DropFrame
        <3> QED
            BY <3>1
    <2>1. CASE j = cur
        BY <1>26, <2>1 DEF UndoNotify, DropFrame
    <2>2. CASE j # cur
        BY <1>26, <2>2 DEF UndoNotify, DropFrame
    <2> QED
        BY <2>1, <2>2
<1>27. CASE Return
    BY <1>27 DEF Return, DropFrame
<1>28. CASE NetworkExits
    BY <1>28 DEF NetworkExits
<1>29. CASE AcceptCompletes
    BY <1>29 DEF AcceptCompletes
<1>30. ASSUME NEW i \in Id, ParseOpEnds(i) PROVE Events'
    BY <1>30 DEF ParseOpEnds
<1>31. ASSUME NEW i \in Id, RemoveSession(i) PROVE Events'
    <2> SUFFICES ASSUME NEW j \in Id
                 PROVE  (IF Owed(j) THEN started[j] = 1 /\ ended[j] = 0
                                    ELSE started[j] = ended[j])'
        <3>1. /\ co' \in Fresh \cup {"notify"} => started'[cur'] = 0
              /\ co' = "undo_notify" => thread'[cur'] # "notify" /\ cur' \notin sessions'
            BY <1>31 DEF RemoveSession
        <3> QED
            BY <3>1
    <2>1. CASE j = i
        BY <1>31, <2>1 DEF RemoveSession
    <2>2. CASE j # i
        BY <1>31, <2>2 DEF RemoveSession
    <2> QED
        BY <2>1, <2>2
<1>32. ASSUME NEW i \in Id, NotifySessionEnded(i) PROVE Events'
    <2> SUFFICES ASSUME NEW j \in Id
                 PROVE  (IF Owed(j) THEN started[j] = 1 /\ ended[j] = 0
                                    ELSE started[j] = ended[j])'
        <3>1. /\ co' \in Fresh \cup {"notify"} => started'[cur'] = 0
              /\ co' = "undo_notify" => thread'[cur'] # "notify" /\ cur' \notin sessions'
            BY <1>32 DEF NotifySessionEnded
        <3> QED
            BY <3>1
    <2>1. CASE j = i
        BY <1>32, <2>1 DEF NotifySessionEnded
    <2>2. CASE j # i
        BY <1>32, <2>2 DEF NotifySessionEnded
    <2> QED
        BY <2>1, <2>2
<1>33. ASSUME NEW i \in Id, ThreadExits(i) PROVE Events'
    BY <1>33 DEF ThreadExits
<1>34. ASSUME NEW i \in Id, Destroy(i) PROVE Events'
    BY <1>34 DEF Destroy
<1>35. CASE UNCHANGED vars
    BY <1>35 DEF vars
<1> QED
    BY <1>1, <1>2, <1>3, <1>4, <1>5, <1>6, <1>7, <1>8, <1>9, <1>10, <1>11, <1>12, <1>13, <1>14, <1>15, <1>16, <1>17, <1>18, <1>19, <1>20, <1>21, <1>22, <1>23, <1>24, <1>25, <1>26, <1>27, <1>28, <1>29, <1>30, <1>31, <1>32, <1>33, <1>34, <1>35
    DEF Next, Stopper, Coroutine, SessionStep

\* How far the accept loop is at each step of stop().
LEMMA ShutdownStep == IInv /\ [Next]_vars => Shutdown'
<1> SUFFICES ASSUME IInv, [Next]_vars PROVE Shutdown'
    OBVIOUS
<1> USE ServerLifecycleAssumption DEF ServerLifecycleAssumption, Id, IInv, TypeOK, CoPC, Holders, Table, Fresh, Unstarted, Shutdown, Nothing, CoRuns, CoResumes, sessionState, coUnchanged, threadUnchanged, stopUnchanged
<1>1. CASE Start
    BY <1>1 DEF Start
<1>2. CASE StartFails
    BY <1>2 DEF StartFails
<1>3. CASE StopBegin
    BY <1>3 DEF StopBegin
<1>4. CASE StopJoinOnly
    BY <1>4 DEF StopJoinOnly
<1>5. CASE StopCancel
    BY <1>5 DEF StopCancel
<1>6. CASE StopIo
    BY <1>6 DEF StopIo
<1>7. CASE StopJoin
    BY <1>7 DEF StopJoin
<1>8. CASE StopClose
    BY <1>8 DEF StopClose
<1>9. CASE StopPolled
    BY <1>9 DEF StopPolled
<1>10. CASE StopSnapshot
    BY <1>10 DEF StopSnapshot
<1>11. CASE StopRelease
    BY <1>11 DEF StopRelease
<1>12. CASE StopWaited
    BY <1>12, ZeroMeansNone DEF StopWaited
<1>13. ASSUME NEW i \in Id, StopEach(i) PROVE Shutdown'
    BY <1>13 DEF StopEach
<1>14. CASE Create
    BY <1>14 DEF Create
<1>15. CASE SeeStopped
    BY <1>15 DEF SeeStopped
<1>16. CASE Precheck
    BY <1>16 DEF Precheck
<1>17. CASE AsyncAccept
    BY <1>17 DEF AsyncAccept
<1>18. CASE Resume
    BY <1>18 DEF Resume, DropFrame
<1>19. CASE Reject
    BY <1>19 DEF Reject, DropFrame
<1>20. CASE Admit
    BY <1>20 DEF Admit
<1>21. CASE Emplace
    BY <1>21 DEF Emplace
<1>22. CASE NotifySessionStarted
    BY <1>22 DEF NotifySessionStarted
<1>23. CASE Run
    BY <1>23 DEF Run
<1>24. CASE RunThrows
    BY <1>24 DEF RunThrows
<1>25. CASE Undo
    BY <1>25 DEF Undo, DropFrame
<1>26. CASE UndoNotify
    BY <1>26 DEF UndoNotify, DropFrame
<1>27. CASE Return
    BY <1>27 DEF Return, DropFrame
<1>28. CASE NetworkExits
    BY <1>28 DEF NetworkExits
<1>29. CASE AcceptCompletes
    BY <1>29 DEF AcceptCompletes
<1>30. ASSUME NEW i \in Id, ParseOpEnds(i) PROVE Shutdown'
    BY <1>30 DEF ParseOpEnds
<1>31. ASSUME NEW i \in Id, RemoveSession(i) PROVE Shutdown'
    BY <1>31 DEF RemoveSession
<1>32. ASSUME NEW i \in Id, NotifySessionEnded(i) PROVE Shutdown'
    BY <1>32 DEF NotifySessionEnded
<1>33. ASSUME NEW i \in Id, ThreadExits(i) PROVE Shutdown'
    BY <1>33 DEF ThreadExits
<1>34. ASSUME NEW i \in Id, Destroy(i) PROVE Shutdown'
    BY <1>34 DEF Destroy
<1>35. CASE UNCHANGED vars
    BY <1>35 DEF vars
<1> QED
    BY <1>1, <1>2, <1>3, <1>4, <1>5, <1>6, <1>7, <1>8, <1>9, <1>10, <1>11, <1>12, <1>13, <1>14, <1>15, <1>16, <1>17, <1>18, <1>19, <1>20, <1>21, <1>22, <1>23, <1>24, <1>25, <1>26, <1>27, <1>28, <1>29, <1>30, <1>31, <1>32, <1>33, <1>34, <1>35
    DEF Next, Stopper, Coroutine, SessionStep

\* A server that was not started yet.
LEMMA InitIInv == Init => IInv
<1> SUFFICES ASSUME Init PROVE IInv
    OBVIOUS
<1> USE ServerLifecycleAssumption DEF ServerLifecycleAssumption, Init, Id
<1>1. TypeOK
    <2>1. /\ held \in [Id -> SUBSET {"frame", "thread", "stop"}]
          /\ started \in [Id -> 0..1] /\ ended \in [Id -> 0..1]
        OBVIOUS
    <2>2. next_session_id \in 1..(MaxSessions + 1) /\ active_sessions \in 0..MaxSessions
          /\ starts \in 0..MaxStarts
        OBVIOUS
    <2> QED
        BY <2>1, <2>2 DEF TypeOK, CoPC
<1>2. Holders /\ Table /\ Events /\ Shutdown
    BY DEF Holders, Table, Events, Shutdown, Fresh, Unstarted, Owed, Nothing
<1>3. Counted
    <2>1. Alive = {}
        BY DEF Alive
    <2> QED
        BY <2>1, FS_EmptySet DEF Counted
<1> QED
    BY <1>1, <1>2, <1>3 DEF IInv

------------------------------------------------------------------------------
(* Theorems.                                                                 *)

\* IInv holds in every state of the Server, however start(), stop(), the
\* coroutine and the session threads interleave.
THEOREM InductiveInvariant == Spec => []IInv
<1>1. IInv /\ [Next]_vars => IInv'
    BY TypeStep, HoldersStep, CountedStep, TableStep, EventsStep, ShutdownStep DEF IInv
<1> QED
    BY InitIInv, <1>1, PTL DEF Spec

\* The variables keep their types: active_sessions is never counted below zero,
\* and each session is announced and reported ended at most once.
THEOREM TypeCorrect == Spec => []TypeOK
<1>1. IInv => TypeOK
    BY DEF IInv
<1> QED
    BY InductiveInvariant, <1>1, PTL

\* Server.h, stop: when stop() has returned, no Session object, no table entry,
\* no network thread and no coroutine is left.
THEOREM StopIsComplete == Spec => []StopLeavesNothing
<1>1. IInv => StopLeavesNothing
    BY DEF IInv, Shutdown, Nothing, StopLeavesNothing
<1> QED
    BY InductiveInvariant, <1>1, PTL

\* stop(): no session that is in the table escapes the snapshot, although the
\* accept loop may be anywhere when stop() is called.
THEOREM SnapshotIsComplete == Spec => []StopReachesEverySession
<1>1. IInv => StopReachesEverySession
    BY DEF IInv, Shutdown, StopReachesEverySession
<1> QED
    BY InductiveInvariant, <1>1, PTL

\* accept_loop and remove_session: on_session_started and on_session_ended
\* are strictly paired, also when Session::run throws after its thread exists.
THEOREM EventsPaired == Spec => []SessionEventsPaired
<1>1. IInv => SessionEventsPaired
    <2> SUFFICES ASSUME IInv, NEW i \in Id
                 PROVE  /\ ended[i] <= started[i]
                        /\ life[i] = "destroyed" => ended[i] = started[i]
        BY DEF SessionEventsPaired
    <2>1. started[i] \in 0..1 /\ ended[i] \in 0..1
        BY DEF IInv, TypeOK
    <2>2. ended[i] <= started[i]
        BY <2>1 DEF IInv, Events
    <2>3. ASSUME life[i] = "destroyed" PROVE ~Owed(i)
        <3>1. held[i] = {}
            BY <2>3 DEF IInv, Holders
        <3>2. thread[i] \notin {"parse_op", "remove", "notify"} /\ cur # i
            BY <3>1 DEF IInv, Holders, TypeOK, Id
        <3> QED
            BY <3>2 DEF IInv, Table, Owed
    <2> QED
        BY <2>2, <2>3 DEF IInv, Events
<1> QED
    BY InductiveInvariant, <1>1, PTL
==============================================================================
