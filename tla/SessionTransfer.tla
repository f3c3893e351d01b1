--------------------------- MODULE SessionTransfer ---------------------------
(***************************************************************************)
(* One Session in its URB phase: Session::transfer_loop.  Four kinds of    *)
(* threads meet here.                                                      *)
(*   rx   - the session's main thread: receiver(), then the tail of        *)
(*          transfer_loop that waits for, joins and cleans up after sender *)
(*   tx   - the sender thread: sender() and sender_get_data()              *)
(*   prod - the threads that answer URBs (libusb event thread, scheduler   *)
(*          thread, device threads) and the receiver itself when a handler *)
(*          answers inside receive_urb / handle_unlink_seqnum              *)
(*   stp  - the callers of immediately_stop() (Server::stop, unplugging)   *)
(*                                                                         *)
(* A critical section of swap_mutex that touches nothing written without   *)
(* the mutex is one step.  The sender's is split, because wakeup_sender()  *)
(* writes has_data and notifies without the mutex: the sender evaluates    *)
(* the wait predicate ("locking"), holds the mutex ("checked"), and only   *)
(* then is on the condition variable's queue ("wait").                     *)
(***************************************************************************)
EXTENDS Naturals, Sequences

CONSTANTS
    Producers,     \* threads other than the receiver that submit responses
    Rx,            \* the receiver thread, as a producer
    Stoppers,      \* threads that call immediately_stop, once each
    MaxResp,       \* bound: responses submitted by each producer
    MaxCmd,        \* bound: commands the receiver reads
    SendMayThrow   \* whether to_socket may throw (allocation failure)

ASSUME SessionTransferAssumption ==
    /\ Rx \notin Producers
    /\ MaxResp \in Nat
    /\ MaxCmd \in Nat
    /\ SendMayThrow \in BOOLEAN

Submitters == Producers \cup {Rx}
Response == Submitters \X (1..MaxResp)

VARIABLES
    write_buffer, read_buffer,   \* the two queues of the double buffer
    has_data,                    \* atomic flag of the wait predicate
    should_immediately_stop,     \* atomic flag; never reset
    sender_done,                 \* atomic flag of transfer_loop's timed wait
    socket,                      \* "open", "shutdown" or "closed"
    imported,                    \* current_import_device is set
    rx, tx, prod, stp,           \* program counters
    sending,                     \* the response sender() has popped, if any
    nresp, ncmd,                 \* responses per producer, commands read
    enqueued, delivered          \* history: order of enqueues, of sends

buffers == <<write_buffer, read_buffer, sending>>
history == <<enqueued, delivered>>
vars == <<write_buffer, read_buffer, has_data, should_immediately_stop,
          sender_done, socket, imported, rx, tx, prod, stp, sending,
          nresp, ncmd, enqueued, delivered>>

RxPC == {"loop", "read", "handle", "disconnect", "setstop", "notify",
         "release", "wait_sender", "force_close", "join", "clear",
         "close_socket", "done"}
TxPC == {"top", "locking", "checked", "wait", "swapping", "clearing", "pop",
         "check", "send", "fail", "exit", "done"}

Init ==
    /\ write_buffer = <<>> /\ read_buffer = <<>> /\ sending = <<>>
    /\ has_data = FALSE
    /\ should_immediately_stop = FALSE
    /\ sender_done = FALSE
    /\ socket = "open"
    /\ imported = TRUE
    /\ rx = "loop" /\ tx = "top"
    /\ prod = [p \in Submitters |-> "idle"]
    /\ stp = [s \in Stoppers |-> "idle"]
    /\ nresp = [p \in Submitters |-> 0]
    /\ ncmd = 0
    /\ enqueued = <<>> /\ delivered = <<>>

\* Mutant: the flag is lowered after the mutex is released.
FlagLoweredUnlocked == tx \notin {"checked", "swapping"}

\* swap_mutex: every other critical section is a single step, so only the
\* sender can be seen holding it.
SwapMutexFree == tx \notin {"checked", "swapping", "clearing"}

\* data_available_cv.notify_all(): a sender on the queue goes to retake the
\* mutex; the main thread's timed wait needs no notification to return.
NotifyAll == tx' = IF tx = "wait" THEN "locking" ELSE tx

\* socket.shutdown(shutdown_both) + cancel/close, under socket_mutex.
Shutdown == socket' = IF socket = "closed" THEN "closed" ELSE "shutdown"

------------------------------------------------------------------------------
(* Producers: submit_ret_submit / submit_ret_unlink = enqueue + wakeup.      *)

\* A handler submits while it believes to be connected: until
\* on_disconnection has returned.  The receiver submits from inside a call.
MaySubmit(p) ==
    IF p = Rx THEN rx = "handle" ELSE rx \in {"loop", "read", "handle", "disconnect"}

\* enqueue_ret_submit, enqueue_ret_unlink; several may precede one wakeup
EnqueueRet(p) ==
    /\ prod[p] \in {"idle", "enqueued"} /\ MaySubmit(p) /\ nresp[p] < MaxResp
    /\ SwapMutexFree
    /\ nresp' = [nresp EXCEPT ![p] = @ + 1]
    /\ write_buffer' = Append(write_buffer, <<p, nresp[p] + 1>>)
    /\ enqueued' = Append(enqueued, <<p, nresp[p] + 1>>)
    /\ prod' = [prod EXCEPT ![p] = "enqueued"]
    /\ UNCHANGED <<read_buffer, has_data, should_immediately_stop, sender_done,
                   socket, imported, rx, tx, stp, sending, ncmd, delivered>>

\* wakeup_sender, first statement: the store, without swap_mutex
WakeupStore(p) ==
    /\ prod[p] = "enqueued"
    /\ has_data' = TRUE
    /\ prod' = [prod EXCEPT ![p] = "stored"]
    /\ UNCHANGED <<buffers, should_immediately_stop, sender_done, socket,
                   imported, rx, tx, stp, nresp, ncmd, history>>

\* wakeup_sender, second statement: the notification
WakeupNotify(p) ==
    /\ prod[p] = "stored"
    /\ NotifyAll
    /\ prod' = [prod EXCEPT ![p] = "idle"]
    /\ UNCHANGED <<buffers, has_data, should_immediately_stop, sender_done,
                   socket, imported, rx, stp, nresp, ncmd, history>>

------------------------------------------------------------------------------
(* The sender thread.                                                        *)

txUnchanged == <<sender_done, socket, imported, rx, prod, stp, nresp, ncmd, history>>

\* Mutant: the buffers are swapped without asking whether read_buffer is empty.
AlwaysSwap ==
    /\ tx = "top"
    /\ tx' = IF should_immediately_stop THEN "exit" ELSE "locking"
    /\ UNCHANGED <<buffers, has_data, should_immediately_stop, txUnchanged>>

\* while (!should_immediately_stop) { ... if (read_buffer.empty()) lock
SenderTop ==
    /\ tx = "top"
    /\ tx' = IF should_immediately_stop THEN "exit"
             ELSE IF read_buffer = <<>> THEN "locking" ELSE "pop"
    /\ UNCHANGED <<buffers, has_data, should_immediately_stop, txUnchanged>>

\* The mutex is taken and the wait predicate evaluated.
WaitPredicate == has_data \/ should_immediately_stop

SenderLock ==
    /\ tx = "locking"
    /\ tx' = IF WaitPredicate THEN "swapping" ELSE "checked"
    /\ UNCHANGED <<buffers, has_data, should_immediately_stop, txUnchanged>>

\* cond_wait queues the thread and releases the mutex, atomically.
SenderWait ==
    /\ tx = "checked"
    /\ tx' = "wait"
    /\ UNCHANGED <<buffers, has_data, should_immediately_stop, txUnchanged>>

\* The wait may also end without a notification.
SenderSpuriousWakeup ==
    /\ tx = "wait"
    /\ tx' = "locking"
    /\ UNCHANGED <<buffers, has_data, should_immediately_stop, txUnchanged>>

\* if (!write_buffer.empty()) swap; has_data is left alone when it is empty.
SenderSwap ==
    /\ tx = "swapping"
    /\ IF write_buffer = <<>>
       THEN tx' = "pop" /\ UNCHANGED <<write_buffer, read_buffer>>
       ELSE /\ read_buffer' = write_buffer
            /\ write_buffer' = read_buffer
            /\ tx' = "clearing"
    /\ UNCHANGED <<sending, has_data, should_immediately_stop, txUnchanged>>

SenderClearFlag ==
    /\ tx = "clearing"
    /\ has_data' = FALSE
    /\ tx' = "pop"
    /\ UNCHANGED <<buffers, should_immediately_stop, txUnchanged>>

\* Mutant: the whole of read_buffer is taken for one response.
PopAll ==
    /\ tx = "pop"
    /\ sending' = read_buffer /\ read_buffer' = <<>>
    /\ tx' = "check"
    /\ UNCHANGED <<write_buffer, has_data, should_immediately_stop, txUnchanged>>

\* The mutex is released; pop the front of read_buffer, or return nullopt.
SenderPop ==
    /\ tx = "pop"
    /\ IF read_buffer = <<>>
       THEN sending' = <<>> /\ UNCHANGED read_buffer
       ELSE sending' = <<Head(read_buffer)>> /\ read_buffer' = Tail(read_buffer)
    /\ tx' = "check"
    /\ UNCHANGED <<write_buffer, has_data, should_immediately_stop, txUnchanged>>

\* A stop drops the popped response; nullopt goes back to the loop.
SenderCheck ==
    /\ tx = "check"
    /\ tx' = IF should_immediately_stop THEN "exit"
             ELSE IF sending = <<>> THEN "top" ELSE "send"
    /\ UNCHANGED <<buffers, has_data, should_immediately_stop, txUnchanged>>

\* to_socket completes; it blocks while the peer does not read.
SenderSend ==
    /\ tx = "send" /\ socket = "open"
    /\ delivered' = Append(delivered, sending[1])
    /\ sending' = <<>>
    /\ tx' = "top"
    /\ UNCHANGED <<write_buffer, read_buffer, has_data, should_immediately_stop,
                   sender_done, socket, imported, rx, prod, stp, nresp, ncmd, enqueued>>

\* The write fails: the peer reset the connection, or the socket was shut
\* down or closed under it.  should_immediately_stop is set without the mutex.
SenderSendFails ==
    /\ tx = "send"
    /\ should_immediately_stop' = TRUE
    /\ tx' = "fail"
    /\ UNCHANGED <<buffers, has_data, txUnchanged>>

\* Mutant: the sender breaks off and leaves the receiver in its read.
SenderBreaks ==
    /\ tx = "fail"
    /\ tx' = "exit"
    /\ UNCHANGED <<buffers, has_data, should_immediately_stop, txUnchanged>>

\* socket shutdown and cancel, so that the receiver's read returns
SenderShutdown ==
    /\ tx = "fail"
    /\ Shutdown
    /\ tx' = "exit"
    /\ UNCHANGED <<buffers, has_data, should_immediately_stop, sender_done,
                   imported, rx, prod, stp, nresp, ncmd, history>>

\* An exception of to_socket ends the thread function through its catch.
SenderThrows ==
    /\ SendMayThrow
    /\ tx = "send"
    /\ tx' = "exit"
    /\ UNCHANGED <<buffers, has_data, should_immediately_stop, txUnchanged>>

SenderExit ==
    /\ tx = "exit"
    /\ sender_done' = TRUE
    /\ tx' = "done"
    /\ UNCHANGED <<buffers, has_data, should_immediately_stop, socket, imported,
                   rx, prod, stp, nresp, ncmd, history>>

Sender ==
    \/ SenderTop \/ SenderLock \/ SenderWait \/ SenderSwap \/ SenderClearFlag
    \/ SenderPop \/ SenderCheck \/ SenderShutdown \/ SenderExit

------------------------------------------------------------------------------
(* The main thread: receiver() and the tail of transfer_loop().              *)

rxUnchanged == <<has_data, tx, prod, stp, nresp, history>>

\* while (!should_immediately_stop)
RxLoop ==
    /\ rx = "loop"
    /\ rx' = IF should_immediately_stop THEN "disconnect" ELSE "read"
    /\ UNCHANGED <<buffers, should_immediately_stop, sender_done, socket,
                   imported, ncmd, rxUnchanged>>

\* get_cmd_from_socket returns a command; data that arrived before a
\* shutdown can still be read.  The flag is checked again before it is used.
RxCommand ==
    /\ rx = "read" /\ socket # "closed" /\ ncmd < MaxCmd
    /\ ncmd' = ncmd + 1
    /\ rx' = IF should_immediately_stop THEN "disconnect" ELSE "handle"
    /\ UNCHANGED <<buffers, should_immediately_stop, sender_done, socket,
                   imported, rxUnchanged>>

\* get_cmd_from_socket fails: EOF, reset, or the socket was shut down.
RxReadFails ==
    /\ rx = "read"
    /\ rx' = "disconnect"
    /\ UNCHANGED <<buffers, should_immediately_stop, sender_done, socket,
                   imported, ncmd, rxUnchanged>>

\* receive_urb / handle_unlink_seqnum returned without an error, or the
\* endpoint was unknown and the command dropped.
RxHandled ==
    /\ rx = "handle" /\ prod[Rx] = "idle"
    /\ rx' = "loop"
    /\ UNCHANGED <<buffers, should_immediately_stop, sender_done, socket,
                   imported, ncmd, rxUnchanged>>

\* receive_urb reported an error: the flag is set without the mutex.
RxHandleError ==
    /\ rx = "handle" /\ prod[Rx] = "idle"
    /\ should_immediately_stop' = TRUE
    /\ rx' = "loop"
    /\ UNCHANGED <<buffers, sender_done, socket, imported, ncmd, rxUnchanged>>

\* receiver() threw: transfer_loop catches and performs the same clean-up.
RxThrows ==
    /\ rx = "handle" /\ prod[Rx] = "idle"
    /\ rx' = "disconnect"
    /\ UNCHANGED <<buffers, should_immediately_stop, sender_done, socket,
                   imported, ncmd, rxUnchanged>>

\* on_disconnection: handlers finish what they are submitting before it
\* returns and submit nothing afterwards.
RxOnDisconnection ==
    /\ rx = "disconnect"
    /\ \A p \in Submitters : prod[p] = "idle"
    /\ rx' = "setstop"
    /\ UNCHANGED <<buffers, should_immediately_stop, sender_done, socket,
                   imported, ncmd, rxUnchanged>>

\* Mutant: the flag is set without swap_mutex.
SetStopUnlocked ==
    /\ rx = "setstop"
    /\ should_immediately_stop' = TRUE
    /\ rx' = "notify"
    /\ UNCHANGED <<buffers, sender_done, socket, imported, ncmd, rxUnchanged>>

RxSetStop ==
    /\ rx = "setstop" /\ SwapMutexFree
    /\ should_immediately_stop' = TRUE
    /\ rx' = "notify"
    /\ UNCHANGED <<buffers, sender_done, socket, imported, ncmd, rxUnchanged>>

RxNotify ==
    /\ rx = "notify"
    /\ NotifyAll
    /\ rx' = "release"
    /\ UNCHANGED <<buffers, has_data, should_immediately_stop, sender_done, socket,
                   imported, prod, stp, nresp, ncmd, history>>

\* server.release_device, current_import_device.reset()
RxRelease ==
    /\ rx = "release"
    /\ imported' = FALSE
    /\ rx' = "wait_sender"
    /\ UNCHANGED <<buffers, should_immediately_stop, sender_done, socket, ncmd,
                   rxUnchanged>>

\* wait_for(100 ms) returns by notification or by timeout; then sender_done
\* is tested again.
WaitSender ==
    /\ rx = "wait_sender" /\ SwapMutexFree
    /\ rx' = IF sender_done THEN "join" ELSE "force_close"
    /\ UNCHANGED <<buffers, should_immediately_stop, sender_done, socket,
                   imported, ncmd, rxUnchanged>>

ForceClose ==
    /\ rx = "force_close"
    /\ socket' = "closed"
    /\ rx' = "join"
    /\ UNCHANGED <<buffers, should_immediately_stop, sender_done, imported, ncmd,
                   rxUnchanged>>

\* Mutant: the sender is not joined.
NoJoin ==
    /\ rx = "join"
    /\ rx' = "clear"
    /\ UNCHANGED <<buffers, should_immediately_stop, sender_done, socket,
                   imported, ncmd, rxUnchanged>>

JoinSender ==
    /\ rx = "join" /\ tx = "done"
    /\ rx' = "clear"
    /\ UNCHANGED <<buffers, should_immediately_stop, sender_done, socket,
                   imported, ncmd, rxUnchanged>>

\* write_buffer.clear(); read_buffer.clear() - without the mutex
ClearBuffers ==
    /\ rx = "clear"
    /\ write_buffer' = <<>> /\ read_buffer' = <<>>
    /\ rx' = "close_socket"
    /\ UNCHANGED <<sending, should_immediately_stop, sender_done, socket,
                   imported, ncmd, rxUnchanged>>

\* The close_socket label of parse_op, where transfer_loop returns to.
CloseSocket ==
    /\ rx = "close_socket"
    /\ socket' = "closed"
    /\ rx' = "done"
    /\ UNCHANGED <<buffers, should_immediately_stop, sender_done, imported, ncmd,
                   rxUnchanged>>

\* The steps of the main thread that do not wait for the peer.
Main ==
    \/ RxLoop \/ RxHandled \/ RxHandleError \/ RxThrows \/ RxOnDisconnection
    \/ RxSetStop \/ RxNotify \/ RxRelease \/ WaitSender \/ ForceClose
    \/ JoinSender \/ ClearBuffers \/ CloseSocket

------------------------------------------------------------------------------
(* immediately_stop(), from any thread.                                      *)

stpUnchanged == <<buffers, has_data, sender_done, imported, rx, prod, nresp,
                  ncmd, history>>

\* The exchange under swap_mutex; the second caller returns at once.
StopExchange(s) ==
    /\ stp[s] = "idle" /\ SwapMutexFree
    /\ stp' = [stp EXCEPT ![s] = IF should_immediately_stop THEN "done" ELSE "shutdown"]
    /\ should_immediately_stop' = TRUE
    /\ UNCHANGED <<socket, tx, stpUnchanged>>

StopShutdown(s) ==
    /\ stp[s] = "shutdown"
    /\ Shutdown
    /\ stp' = [stp EXCEPT ![s] = "notify"]
    /\ UNCHANGED <<should_immediately_stop, tx, stpUnchanged>>

StopNotify(s) ==
    /\ stp[s] = "notify"
    /\ NotifyAll
    /\ stp' = [stp EXCEPT ![s] = "done"]
    /\ UNCHANGED <<should_immediately_stop, socket, stpUnchanged>>

------------------------------------------------------------------------------

Next ==
    \/ \E p \in Submitters : EnqueueRet(p) \/ WakeupStore(p) \/ WakeupNotify(p)
    \/ Sender \/ SenderSpuriousWakeup \/ SenderSend \/ SenderSendFails \/ SenderThrows
    \/ Main \/ RxCommand \/ RxReadFails
    \/ \E s \in Stoppers : StopExchange(s) \/ StopShutdown(s) \/ StopNotify(s)

(***************************************************************************)
(* Fairness: threads run, a mutex is granted to a thread that keeps asking *)
(* (SF where the sender may take and release it again and again), and I/O  *)
(* on a socket that was shut down or closed returns an error.  Nothing is  *)
(* assumed of the peer: a read need never return, a write may block.       *)
(***************************************************************************)
Fairness ==
    /\ WF_vars(Sender)
    /\ WF_vars(Main)
    /\ SF_vars(RxSetStop) /\ SF_vars(WaitSender)
    /\ WF_vars(socket # "open" /\ SenderSendFails)
    /\ WF_vars(socket # "open" /\ RxReadFails)
    /\ \A p \in Submitters : WF_vars(WakeupStore(p)) /\ WF_vars(WakeupNotify(p))
    /\ \A s \in Stoppers : WF_vars(StopShutdown(s)) /\ WF_vars(StopNotify(s))

Spec == Init /\ [][Next]_vars /\ Fairness

\* ... and additionally the peer keeps reading what is sent to it.
ReadingPeerSpec == Spec /\ WF_vars(SenderSend)

------------------------------------------------------------------------------
(* Properties.                                                               *)

BuffersOK ==
    /\ write_buffer \in Seq(Response) /\ read_buffer \in Seq(Response)
    /\ sending \in Seq(Response) /\ Len(sending) <= 1
    /\ enqueued \in Seq(Response) /\ delivered \in Seq(Response)

ControlOK ==
    /\ has_data \in BOOLEAN /\ should_immediately_stop \in BOOLEAN
    /\ sender_done \in BOOLEAN /\ imported \in BOOLEAN
    /\ socket \in {"open", "shutdown", "closed"}
    /\ rx \in RxPC /\ tx \in TxPC

ThreadsOK ==
    /\ prod \in [Submitters -> {"idle", "enqueued", "stored"}]
    /\ stp \in [Stoppers -> {"idle", "shutdown", "notify", "done"}]
    /\ nresp \in [Submitters -> 0..MaxResp] /\ ncmd \in 0..MaxCmd

TypeOK == BuffersOK /\ ControlOK /\ ThreadsOK

\* The client sees the responses in the order in which they were enqueued,
\* none twice and none skipped (sender: "FIFO").  Order is what makes a
\* RET_SUBMIT enqueued before its RET_UNLINK arrive before it.
InOrderDelivery ==
    /\ Len(delivered) <= Len(enqueued)
    /\ \A i \in 1..Len(delivered) : delivered[i] = enqueued[i]

\* sender_get_data lowers has_data only when it takes everything: a response
\* left in write_buffer is covered by the flag, or by a producer that is
\* still to raise it.  A sender that looks at the flag cannot miss it.
NoResponseUncovered ==
    rx \notin {"close_socket", "done"} =>
        (write_buffer # <<>> => has_data \/ \E p \in Submitters : prod[p] = "enqueued")

\* transfer_loop clears the buffers without swap_mutex: by then the sender
\* has ended and no producer is inside enqueue or wakeup_sender.
ExclusiveTeardown ==
    rx \in {"clear", "close_socket", "done"} =>
        tx = "done" /\ \A p \in Submitters : prod[p] = "idle"

\* receiver() sets the flag under swap_mutex, so that its notification cannot
\* fall between the sender's test and its wait.  Once the main thread has
\* notified, the sender is neither on its way into the wait nor in it.
StopReachesSender ==
    rx \in {"release", "wait_sender", "force_close", "join", "clear", "close_socket", "done"} =>
        tx \notin {"checked", "wait"}

\* Session.cpp, immediately_stop: there is no path that sets the flag and
\* leaves the socket alone, so a set flag always ends the session - also
\* with the peer silent, the receiver blocked in a read and the sender
\* blocked in a write.
StopEndsSession == should_immediately_stop ~> (rx = "done" /\ tx = "done")

\* A sender whose write failed takes the session with it, although the
\* receiver is blocked in a read that the silent peer never completes.
\* (After an exception of to_socket this does not hold: SenderThrows.)
SenderEndEndsSession == (tx = "fail") ~> (rx = "done")

\* Session.h, submit_ret_submit / submit_ret_unlink: "put the response in
\* write_buffer and wake the sender thread".  A submitted response is sent,
\* unless the session is being stopped.
SubmittedIsSent ==
    \A r \in Response :
        (\E i \in 1..Len(enqueued) : enqueued[i] = r) ~>
            \/ \E i \in 1..Len(delivered) : delivered[i] = r
            \/ should_immediately_stop
==============================================================================
