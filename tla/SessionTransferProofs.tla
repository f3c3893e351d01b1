------------------------ MODULE SessionTransferProofs ------------------------
(***************************************************************************)
(* Proofs about SessionTransfer, for any threads and any bounds.           *)
(*                                                                         *)
(* The inductive invariant is IInv: the types, where the two buffers must  *)
(* be empty (Places), that every response which was enqueued and not yet   *)
(* delivered is in sender()'s hands, in read_buffer or in write_buffer, in *)
(* this order (Conservation), and what the tear-down may rely on           *)
(* (Teardown).                                                             *)
(***************************************************************************)
EXTENDS SessionTransfer, TLAPS

\* sender_get_data looks at write_buffer only when read_buffer is empty, and
\* pops only when the last response has been dealt with.
Places ==
    /\ tx \in {"locking", "checked", "wait", "swapping"} => read_buffer = <<>>
    /\ tx = "clearing" => write_buffer = <<>>
    /\ tx \in {"top", "locking", "checked", "wait", "swapping", "clearing", "pop"} =>
           sending = <<>>
    /\ tx = "send" => sending # <<>>

Conservation ==
    rx \notin {"close_socket", "done"} =>
        LET d == Len(delivered)
            s == Len(sending)
            r == Len(read_buffer)
            w == Len(write_buffer)
        IN  /\ Len(enqueued) = d + s + r + w
            /\ \A i \in 1..s : enqueued[d + i] = sending[i]
            /\ \A i \in 1..r : enqueued[d + s + i] = read_buffer[i]
            /\ \A i \in 1..w : enqueued[d + s + r + i] = write_buffer[i]

\* The main thread past on_disconnection, past setting the flag, past joining.
Quiet == {"setstop", "notify", "release", "wait_sender", "force_close", "join",
          "clear", "close_socket", "done"}
Flagged == Quiet \ {"setstop"}
Joined == {"clear", "close_socket", "done"}

Teardown ==
    /\ rx \in Quiet => \A p \in Submitters : prod[p] = "idle"
    /\ rx \in Flagged => should_immediately_stop /\ tx # "checked"
    /\ rx \in Flagged \ {"notify"} => tx # "wait"
    /\ rx \in Joined => tx = "done"

Flow == Places /\ Conservation /\ Teardown /\ InOrderDelivery /\ NoResponseUncovered

IInv == TypeOK /\ Flow

------------------------------------------------------------------------------

\* Appending and taking the head, element by element.
LEMMA AppendElements ==
    ASSUME NEW S, NEW q \in Seq(S), NEW e \in S
    PROVE  /\ Append(q, e) \in Seq(S)
           /\ Len(Append(q, e)) = Len(q) + 1
           /\ \A i \in 1..Len(q) : Append(q, e)[i] = q[i]
           /\ Append(q, e)[Len(q) + 1] = e
    OBVIOUS

LEMMA HeadTailElements ==
    ASSUME NEW S, NEW q \in Seq(S), q # <<>>
    PROVE  /\ Head(q) \in S /\ Tail(q) \in Seq(S)
           /\ Len(q) >= 1 /\ Len(Tail(q)) = Len(q) - 1
           /\ Head(q) = q[1]
           /\ \A i \in 1..Len(Tail(q)) : Tail(q)[i] = q[i + 1]
    OBVIOUS

\* The initial state satisfies the inductive invariant: a Session enters
\* transfer_loop with empty buffers and lowered flags.
LEMMA InitIInv == Init => IInv
<1> SUFFICES ASSUME Init PROVE IInv
    OBVIOUS
<1> USE SessionTransferAssumption DEF SessionTransferAssumption, Init
<1>1. BuffersOK
    BY DEF BuffersOK
<1>2. ControlOK
    BY DEF ControlOK, RxPC, TxPC
<1>3. ThreadsOK
    BY DEF ThreadsOK
<1>4. Places /\ Conservation
    BY DEF Places, Conservation
<1>5. Teardown
    BY DEF Teardown, Quiet, Flagged, Joined
<1>6. InOrderDelivery /\ NoResponseUncovered
    BY DEF InOrderDelivery, NoResponseUncovered
<1> QED
    BY <1>1, <1>2, <1>3, <1>4, <1>5, <1>6 DEF IInv, TypeOK, Flow

------------------------------------------------------------------------------

\* Every step preserves the types.  The buffers' types need Places: sender()
\* only sends what it has popped.
LEMMA TypeStep == IInv /\ [Next]_vars => TypeOK'
<1> SUFFICES ASSUME IInv, [Next]_vars PROVE TypeOK'
    OBVIOUS
<1> USE SessionTransferAssumption
    DEF SessionTransferAssumption, IInv, TypeOK, buffers, history
<1>1. ASSUME NEW p \in Submitters, EnqueueRet(p) PROVE TypeOK'
    <2>1. <<p, nresp[p] + 1>> \in Response
        BY <1>1 DEF EnqueueRet, ThreadsOK, Response
    <2>2. BuffersOK'
        BY <1>1, <2>1, AppendElements DEF EnqueueRet, BuffersOK
    <2>3. ControlOK'
        BY <1>1 DEF EnqueueRet, ControlOK
    <2>4. ThreadsOK'
        BY <1>1 DEF EnqueueRet, ThreadsOK
    <2> QED
        BY <2>2, <2>3, <2>4
<1>2. ASSUME NEW p \in Submitters, WakeupStore(p) PROVE TypeOK'
    <2>1. BuffersOK' /\ ControlOK'
        BY <1>2 DEF WakeupStore, BuffersOK, ControlOK
    <2>2. ThreadsOK'
        BY <1>2 DEF WakeupStore, ThreadsOK
    <2> QED
        BY <2>1, <2>2
<1>3. ASSUME NEW p \in Submitters, WakeupNotify(p) PROVE TypeOK'
    <2>1. BuffersOK' /\ ControlOK'
        BY <1>3 DEF WakeupNotify, NotifyAll, BuffersOK, ControlOK, TxPC
    <2>2. ThreadsOK'
        BY <1>3 DEF WakeupNotify, ThreadsOK
    <2> QED
        BY <2>1, <2>2
<1> USE DEF BuffersOK, ControlOK, ThreadsOK, RxPC, TxPC
<1>4. CASE SenderTop
    BY <1>4 DEF SenderTop, txUnchanged
<1>5. CASE SenderLock
    BY <1>5 DEF SenderLock, txUnchanged
<1>6. CASE SenderWait
    BY <1>6 DEF SenderWait, txUnchanged
<1>7. CASE SenderSwap
    BY <1>7 DEF SenderSwap, txUnchanged
<1>8. CASE SenderClearFlag
    BY <1>8 DEF SenderClearFlag, txUnchanged
<1>9. CASE SenderPop
    <2>1. read_buffer # <<>> =>
              /\ Head(read_buffer) \in Response
              /\ Tail(read_buffer) \in Seq(Response)
        BY HeadTailElements
    <2>2. CASE read_buffer = <<>>
        BY <1>9, <2>2 DEF SenderPop, txUnchanged
    <2>3. CASE read_buffer # <<>>
        <3>1. /\ sending' = <<Head(read_buffer)>>
              /\ read_buffer' = Tail(read_buffer)
              /\ UNCHANGED <<write_buffer, enqueued, delivered>>
            BY <1>9, <2>3 DEF SenderPop, txUnchanged
        <3>2. BuffersOK'
            BY <2>1, <2>3, <3>1
        <3> QED
            BY <1>9, <3>2 DEF SenderPop, txUnchanged
    <2> QED
        BY <2>2, <2>3
<1>10. CASE SenderCheck
    BY <1>10 DEF SenderCheck, txUnchanged
<1>11. CASE SenderShutdown
    BY <1>11 DEF SenderShutdown, Shutdown
<1>12. CASE SenderExit
    BY <1>12 DEF SenderExit
<1>13. CASE SenderSpuriousWakeup
    BY <1>13 DEF SenderSpuriousWakeup, txUnchanged
<1>14. CASE SenderSend
    <2>1. sending[1] \in Response
        BY <1>14 DEF SenderSend, Flow, Places
    <2> QED
        BY <1>14, <2>1, AppendElements DEF SenderSend
<1>15. CASE SenderSendFails
    BY <1>15 DEF SenderSendFails, txUnchanged
<1>16. CASE SenderThrows
    BY <1>16 DEF SenderThrows, txUnchanged
<1>17. CASE RxLoop
    BY <1>17 DEF RxLoop, rxUnchanged
<1>18. CASE RxHandled
    BY <1>18 DEF RxHandled, rxUnchanged
<1>19. CASE RxHandleError
    BY <1>19 DEF RxHandleError, rxUnchanged
<1>20. CASE RxThrows
    BY <1>20 DEF RxThrows, rxUnchanged
<1>21. CASE RxOnDisconnection
    BY <1>21 DEF RxOnDisconnection, rxUnchanged
<1>22. CASE RxSetStop
    BY <1>22 DEF RxSetStop, rxUnchanged
<1>23. CASE RxNotify
    BY <1>23 DEF RxNotify, NotifyAll
<1>24. CASE RxRelease
    BY <1>24, ZenonT(60) DEF RxRelease, rxUnchanged
<1>25. CASE WaitSender
    BY <1>25 DEF WaitSender, rxUnchanged
<1>26. CASE ForceClose
    BY <1>26 DEF ForceClose, rxUnchanged
<1>27. CASE JoinSender
    BY <1>27 DEF JoinSender, rxUnchanged
<1>28. CASE ClearBuffers
    BY <1>28 DEF ClearBuffers, rxUnchanged
<1>29. CASE CloseSocket
    BY <1>29 DEF CloseSocket, rxUnchanged
<1>30. CASE RxCommand
    BY <1>30 DEF RxCommand, rxUnchanged
<1>31. CASE RxReadFails
    BY <1>31 DEF RxReadFails, rxUnchanged
<1>32. ASSUME NEW s \in Stoppers, StopExchange(s) PROVE TypeOK'
    BY <1>32 DEF StopExchange, stpUnchanged
<1>33. ASSUME NEW s \in Stoppers, StopShutdown(s) PROVE TypeOK'
    BY <1>33 DEF StopShutdown, stpUnchanged, Shutdown
<1>34. ASSUME NEW s \in Stoppers, StopNotify(s) PROVE TypeOK'
    BY <1>34 DEF StopNotify, stpUnchanged, NotifyAll
<1>35. CASE UNCHANGED vars
    BY <1>35, SMTT(30) DEF vars
<1> QED
    BY <1>1, <1>2, <1>3, <1>4, <1>5, <1>6, <1>7, <1>8, <1>9, <1>10, <1>11, <1>12,
       <1>13, <1>14, <1>15, <1>16, <1>17, <1>18, <1>19, <1>20, <1>21, <1>22, <1>23, <1>24,
       <1>25, <1>26, <1>27, <1>28, <1>29, <1>30, <1>31, <1>32, <1>33, <1>34, <1>35
    DEF Next, Sender, Main

------------------------------------------------------------------------------

\* Every step preserves the rest of the inductive invariant.  Only four steps
\* move a response; the others leave the buffers and the history alone.
LEMMA FlowStep == IInv /\ [Next]_vars => Flow'
<1> SUFFICES ASSUME IInv, [Next]_vars PROVE Flow'
    OBVIOUS
<1>t. BuffersOK /\ ControlOK /\ ThreadsOK /\ TypeOK'
    BY TypeStep DEF IInv, TypeOK
<1> USE DEF IInv, Flow, buffers, history
<1>1. ASSUME NEW p \in Submitters, EnqueueRet(p) PROVE Flow'
    <2> DEFINE e == <<p, nresp[p] + 1>>
    <2>e. e \in Response
        BY <1>1, <1>t, SessionTransferAssumption
        DEF EnqueueRet, ThreadsOK, Response, SessionTransferAssumption
    <2>0. /\ write_buffer \in Seq(Response) /\ enqueued \in Seq(Response)
          /\ UNCHANGED <<read_buffer, sending, delivered, rx, tx, should_immediately_stop>>
          /\ write_buffer' = Append(write_buffer, e) /\ enqueued' = Append(enqueued, e)
          /\ prod'[p] = "enqueued"
          /\ rx \in {"loop", "read", "handle", "disconnect"}
          /\ tx \notin {"checked", "swapping", "clearing"}
        BY <1>1, <1>t DEF EnqueueRet, MaySubmit, SwapMutexFree, BuffersOK, ThreadsOK
    <2> HIDE DEF e
    <2>1. /\ Len(write_buffer') = Len(write_buffer) + 1
          /\ \A i \in 1..Len(write_buffer) : write_buffer'[i] = write_buffer[i]
          /\ write_buffer'[Len(write_buffer) + 1] = e
        BY <2>e, <2>0, AppendElements
    <2>2. /\ Len(enqueued') = Len(enqueued) + 1
          /\ \A i \in 1..Len(enqueued) : enqueued'[i] = enqueued[i]
          /\ enqueued'[Len(enqueued) + 1] = e
        BY <2>e, <2>0, AppendElements
    <2>3. Conservation'
        <3>1. /\ Len(delivered) \in Nat /\ Len(sending) \in Nat
              /\ Len(read_buffer) \in Nat /\ Len(write_buffer) \in Nat
              /\ Len(enqueued) = Len(delivered) + Len(sending) + Len(read_buffer)
                                 + Len(write_buffer)
              /\ \A i \in 1..Len(sending) : enqueued[Len(delivered) + i] = sending[i]
              /\ \A i \in 1..Len(read_buffer) :
                     enqueued[Len(delivered) + Len(sending) + i] = read_buffer[i]
              /\ \A i \in 1..Len(write_buffer) :
                     enqueued[Len(delivered) + Len(sending) + Len(read_buffer) + i]
                         = write_buffer[i]
            BY <1>t, <2>0 DEF Conservation, BuffersOK
        <3> HIDE DEF IInv, Flow
        <3>2. \A i \in 1..Len(sending) : enqueued'[Len(delivered) + i] = sending[i]
            BY <2>2, <3>1
        <3>3. \A i \in 1..Len(read_buffer) :
                  enqueued'[Len(delivered) + Len(sending) + i] = read_buffer[i]
            BY <2>2, <3>1
        <3>4. \A i \in 1..Len(write_buffer') :
                  enqueued'[Len(delivered) + Len(sending) + Len(read_buffer) + i]
                      = write_buffer'[i]
            <4> SUFFICES ASSUME NEW i \in 1..Len(write_buffer')
                         PROVE  enqueued'[Len(delivered) + Len(sending) + Len(read_buffer) + i]
                                    = write_buffer'[i]
                OBVIOUS
            <4>1. CASE i = Len(write_buffer) + 1
                BY <2>1, <2>2, <3>1, <4>1
            <4>2. CASE i \in 1..Len(write_buffer)
                BY <2>1, <2>2, <3>1, <4>2
            <4> QED
                BY <2>1, <3>1, <4>1, <4>2
        <3> QED
            <4>1. UNCHANGED <<delivered, sending, read_buffer>>
                BY <2>0
            <4>2. Len(enqueued') = Len(delivered) + Len(sending) + Len(read_buffer)
                                   + Len(write_buffer')
                BY <2>1, <2>2, <3>1
            <4> QED
                BY <4>1, <4>2, <3>2, <3>3, <3>4 DEF Conservation
    <2>4. InOrderDelivery'
        BY <1>t, <2>0, <2>2 DEF InOrderDelivery, BuffersOK
    <2>5. Places' /\ Teardown'
        BY <2>0 DEF Places, Teardown, Quiet, Flagged, Joined
    <2>6. NoResponseUncovered'
        BY <2>0 DEF NoResponseUncovered
    <2> QED
        BY <2>3, <2>4, <2>5, <2>6
<1>2. CASE SenderSwap
    <2>0. /\ tx = "swapping" /\ read_buffer = <<>> /\ sending = <<>>
          /\ UNCHANGED <<sending, enqueued, delivered, rx, prod, has_data,
                         should_immediately_stop>>
        BY <1>2 DEF SenderSwap, txUnchanged, Places
    <2>1. CASE write_buffer = <<>>
        <3>1. tx' = "pop" /\ UNCHANGED <<write_buffer, read_buffer>>
            BY <1>2, <2>1 DEF SenderSwap
        <3> QED
            BY <1>t, <2>0, <3>1 DEF Places, Conservation, Teardown, Quiet, Flagged,
               Joined, InOrderDelivery, NoResponseUncovered, BuffersOK
    <2>2. CASE write_buffer # <<>>
        <3>1. tx' = "clearing" /\ read_buffer' = write_buffer /\ write_buffer' = <<>>
            BY <1>2, <2>0, <2>2 DEF SenderSwap
        <3>2. Conservation'
            BY <1>t, <2>0, <3>1 DEF Conservation, BuffersOK
        <3>3. Places' /\ Teardown' /\ InOrderDelivery' /\ NoResponseUncovered'
            BY <2>0, <3>1 DEF Places, Teardown, Quiet, Flagged, Joined,
               InOrderDelivery, NoResponseUncovered
        <3> QED
            BY <3>2, <3>3
    <2> QED
        BY <2>1, <2>2
<1>3. CASE SenderPop
    <2>0. /\ tx = "pop" /\ tx' = "check" /\ sending = <<>>
          /\ UNCHANGED <<write_buffer, enqueued, delivered, rx, prod, has_data,
                         should_immediately_stop>>
        BY <1>3 DEF SenderPop, txUnchanged, Places
    <2>1. Places' /\ Teardown' /\ InOrderDelivery' /\ NoResponseUncovered'
        BY <2>0 DEF Places, Teardown, Quiet, Flagged, Joined, InOrderDelivery,
           NoResponseUncovered
    <2>2. CASE read_buffer = <<>>
        <3>1. sending' = <<>> /\ read_buffer' = <<>>
            BY <1>3, <2>2 DEF SenderPop
        <3> QED
            BY <1>t, <2>0, <2>1, <2>2, <3>1 DEF Conservation, BuffersOK
    <2>3. CASE read_buffer # <<>>
        <3>1. /\ sending' = <<Head(read_buffer)>> /\ Len(sending') = 1
              /\ sending'[1] = Head(read_buffer)
              /\ read_buffer' = Tail(read_buffer)
            BY <1>3, <2>3 DEF SenderPop
        <3>2. /\ Len(read_buffer) >= 1 /\ Len(read_buffer') = Len(read_buffer) - 1
              /\ sending'[1] = read_buffer[1]
              /\ \A i \in 1..Len(read_buffer') : read_buffer'[i] = read_buffer[i + 1]
            BY <1>t, <2>3, <3>1, HeadTailElements DEF BuffersOK
        <3>3. Conservation'
            <4> SUFFICES ASSUME rx \notin {"close_socket", "done"} PROVE Conservation'
                BY <2>0 DEF Conservation
            <4>1. /\ Len(enqueued) = Len(delivered) + Len(read_buffer) + Len(write_buffer)
                  /\ \A i \in 1..Len(read_buffer) :
                         enqueued[Len(delivered) + i] = read_buffer[i]
                  /\ \A i \in 1..Len(write_buffer) :
                         enqueued[Len(delivered) + Len(read_buffer) + i] = write_buffer[i]
                BY <1>t, <2>0 DEF Conservation, BuffersOK
            <4>2. /\ Len(delivered) \in Nat /\ Len(read_buffer) \in Nat
                  /\ Len(write_buffer) \in Nat
                BY <1>t DEF BuffersOK
            <4>3. enqueued[Len(delivered) + 1] = sending'[1]
                BY <3>2, <4>1, <4>2
            <4>4. \A i \in 1..Len(read_buffer') :
                      enqueued[Len(delivered) + 1 + i] = read_buffer'[i]
                BY <3>2, <4>1, <4>2
            <4>5. \A i \in 1..Len(write_buffer) :
                      enqueued[Len(delivered) + 1 + Len(read_buffer') + i] = write_buffer[i]
                BY <3>2, <4>1, <4>2
            <4>6. Len(enqueued) = Len(delivered) + 1 + Len(read_buffer') + Len(write_buffer)
                BY <3>2, <4>1, <4>2
            <4>7. Len(sending') = 1 /\ UNCHANGED <<write_buffer, enqueued, delivered>>
                BY <2>0, <3>1
            <4>8. \A i \in 1..Len(sending') : enqueued[Len(delivered) + i] = sending'[i]
                BY <4>3, <4>7
            <4> HIDE DEF IInv, Flow
            <4> QED
                BY <4>4, <4>5, <4>6, <4>7, <4>8 DEF Conservation
        <3> QED
            BY <2>1, <3>3
    <2> QED
        BY <2>2, <2>3
<1>4. CASE SenderSend
    <2>s. Len(sending) = 1 /\ sending[1] \in Response
        <3>1. sending # <<>>
            BY <1>4 DEF SenderSend, Places
        <3>2. sending \in Seq(Response) /\ Len(sending) <= 1
            BY <1>t DEF BuffersOK
        <3>3. Len(sending) >= 1
            BY <3>1, <3>2, HeadTailElements
        <3>4. Len(sending) = 1
            BY <3>2, <3>3
        <3> QED
            BY <3>2, <3>4
    <2>0. /\ tx = "send" /\ tx' = "top" /\ sending' = <<>>
          /\ delivered' = Append(delivered, sending[1])
          /\ UNCHANGED <<read_buffer, write_buffer, enqueued, rx, prod, has_data,
                         should_immediately_stop>>
        BY <1>4 DEF SenderSend
    <2>1. /\ Len(delivered') = Len(delivered) + 1
          /\ \A i \in 1..Len(delivered) : delivered'[i] = delivered[i]
          /\ delivered'[Len(delivered) + 1] = sending[1]
        BY <1>t, <2>s, <2>0, AppendElements DEF BuffersOK
    <2>2. rx \notin {"close_socket", "done"}
        BY <2>0 DEF Teardown, Joined
    <2>3. Conservation'
        BY <1>t, <2>s, <2>0, <2>1, <2>2 DEF Conservation, BuffersOK
    <2>4. enqueued[Len(delivered) + 1] = sending[1] /\ Len(delivered) + 1 <= Len(enqueued)
        BY <1>t, <2>s, <2>0, <2>2 DEF Conservation, BuffersOK
    <2>5. InOrderDelivery'
        BY <1>t, <2>0, <2>1, <2>4 DEF InOrderDelivery, BuffersOK
    <2>6. Places' /\ Teardown' /\ NoResponseUncovered'
        BY <2>0 DEF Places, Teardown, Quiet, Flagged, Joined, NoResponseUncovered
    <2> QED
        BY <2>3, <2>5, <2>6
<1> USE DEF BuffersOK, ControlOK, ThreadsOK, Places, Conservation, Teardown, Quiet,
           Flagged, Joined, InOrderDelivery, NoResponseUncovered
<1>5. ASSUME NEW p \in Submitters, WakeupStore(p) PROVE Flow'
    BY <1>5, <1>t DEF WakeupStore
<1>6. ASSUME NEW p \in Submitters, WakeupNotify(p) PROVE Flow'
    BY <1>6, <1>t DEF WakeupNotify, NotifyAll
<1>7. CASE SenderTop
    BY <1>7, <1>t DEF SenderTop, txUnchanged
<1>8. CASE SenderLock
    BY <1>8, <1>t DEF SenderLock, txUnchanged, WaitPredicate
<1>9. CASE SenderWait
    BY <1>9, <1>t DEF SenderWait, txUnchanged
<1>10. CASE SenderClearFlag
    BY <1>10, <1>t DEF SenderClearFlag, txUnchanged
<1>11. CASE SenderCheck
    BY <1>11, <1>t DEF SenderCheck, txUnchanged
<1>12. CASE SenderShutdown
    BY <1>12, <1>t DEF SenderShutdown, Shutdown
<1>13. CASE SenderExit
    BY <1>13, <1>t DEF SenderExit
<1>14. CASE SenderSpuriousWakeup
    BY <1>14, <1>t DEF SenderSpuriousWakeup, txUnchanged
<1>15. CASE SenderSendFails
    BY <1>15, <1>t DEF SenderSendFails, txUnchanged
<1>16. CASE SenderThrows
    BY <1>16, <1>t DEF SenderThrows, txUnchanged
<1>17. CASE RxLoop
    BY <1>17, <1>t DEF RxLoop, rxUnchanged
<1>18. CASE RxHandled
    BY <1>18, <1>t DEF RxHandled, rxUnchanged
<1>19. CASE RxHandleError
    BY <1>19, <1>t DEF RxHandleError, rxUnchanged
<1>20. CASE RxThrows
    BY <1>20, <1>t DEF RxThrows, rxUnchanged
<1>21. CASE RxOnDisconnection
    BY <1>21, <1>t DEF RxOnDisconnection, rxUnchanged
<1>22. CASE RxSetStop
    BY <1>22, <1>t DEF RxSetStop, rxUnchanged, SwapMutexFree
<1>23. CASE RxNotify
    BY <1>23, <1>t DEF RxNotify, NotifyAll
<1>24. CASE RxRelease
    BY <1>24, <1>t DEF RxRelease, rxUnchanged
<1>25. CASE WaitSender
    BY <1>25, <1>t DEF WaitSender, rxUnchanged
<1>26. CASE ForceClose
    BY <1>26, <1>t DEF ForceClose, rxUnchanged
<1>27. CASE JoinSender
    BY <1>27, <1>t DEF JoinSender, rxUnchanged
<1>28. CASE ClearBuffers
    BY <1>28, <1>t DEF ClearBuffers, rxUnchanged
<1>29. CASE CloseSocket
    BY <1>29, <1>t DEF CloseSocket, rxUnchanged
<1>30. CASE RxCommand
    BY <1>30, <1>t DEF RxCommand, rxUnchanged
<1>31. CASE RxReadFails
    BY <1>31, <1>t DEF RxReadFails, rxUnchanged
<1>32. ASSUME NEW s \in Stoppers, StopExchange(s) PROVE Flow'
    BY <1>32, <1>t DEF StopExchange, stpUnchanged, SwapMutexFree
<1>33. ASSUME NEW s \in Stoppers, StopShutdown(s) PROVE Flow'
    BY <1>33, <1>t DEF StopShutdown, stpUnchanged, Shutdown
<1>34. ASSUME NEW s \in Stoppers, StopNotify(s) PROVE Flow'
    BY <1>34, <1>t DEF StopNotify, stpUnchanged, NotifyAll
<1>35. CASE UNCHANGED vars
    BY <1>35, <1>t DEF vars
<1> QED
    BY <1>1, <1>2, <1>3, <1>4, <1>5, <1>6, <1>7, <1>8, <1>9, <1>10, <1>11, <1>12,
       <1>13, <1>14, <1>15, <1>16, <1>17, <1>18, <1>19, <1>20, <1>21, <1>22, <1>23, <1>24,
       <1>25, <1>26, <1>27, <1>28, <1>29, <1>30, <1>31, <1>32, <1>33, <1>34, <1>35
    DEF Next, Sender, Main

------------------------------------------------------------------------------

\* The inductive invariant holds in every state of every behaviour.
THEOREM InductiveInvariant == Spec => []IInv
<1>1. IInv /\ [Next]_vars => IInv'
    BY TypeStep, FlowStep DEF IInv
<1> QED
    BY InitIInv, <1>1, PTL DEF Spec

\* The types: in particular sender() never holds more than one response.
THEOREM TypeCorrect == Spec => []TypeOK
<1>1. IInv => TypeOK
    BY DEF IInv
<1> QED
    BY InductiveInvariant, <1>1, PTL

\* Whatever the number of device threads and responses, the client sees the
\* responses in the order in which Session::enqueue_ret_* took them, each at
\* most once and without a gap.
THEOREM DeliveryInOrder == Spec => []InOrderDelivery
<1>1. IInv => InOrderDelivery
    BY DEF IInv, Flow
<1> QED
    BY InductiveInvariant, <1>1, PTL

\* sender_get_data never lowers has_data over a response it leaves behind.
THEOREM ResponsesCovered == Spec => []NoResponseUncovered
<1>1. IInv => NoResponseUncovered
    BY DEF IInv, Flow
<1> QED
    BY InductiveInvariant, <1>1, PTL

\* transfer_loop clears the buffers, without a lock, when it is alone.
THEOREM TeardownExclusive == Spec => []ExclusiveTeardown
<1>1. IInv => ExclusiveTeardown
    BY DEF IInv, Flow, Teardown, Quiet, Joined, ExclusiveTeardown
<1> QED
    BY InductiveInvariant, <1>1, PTL

\* The flag set under swap_mutex and the notification after it cannot miss
\* the sender.
THEOREM StopNotLost == Spec => []StopReachesSender
<1>1. IInv => StopReachesSender
    BY DEF IInv, Flow, Teardown, Quiet, Flagged, StopReachesSender
<1> QED
    BY InductiveInvariant, <1>1, PTL
==============================================================================
