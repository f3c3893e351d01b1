----------------------------- MODULE MCTransport -----------------------------
(***************************************************************************)
(* The parts that carry URBs inside a virtual device, side by side: the IN  *)
(* channel, the pipe device, the scheduler, the device handler's dispatch   *)
(* and the input devices.  They share no state; the first state says which  *)
(* one runs, and the others stay as they were constructed.                  *)
(***************************************************************************)
EXTENDS InChannel, PipeDevice, TransferScheduler, VirtualDevice, InputDevice

VARIABLE part

transportVars == <<part, chVars, pipeVars, schedVars, vdVars, inputVars>>

\* OUT endpoints of the pipe device, endpoint 0 first
OutOrder == <<0, 1>>

\* A CDC data interface, a HID interface, a mass storage interface and one
\* without a handler.
Composite ==
    << [alts |-> <<{}, {1, 129}>>, handler |-> TRUE, unlinks |-> TRUE, hid |-> FALSE],
       [alts |-> <<{130}>>, handler |-> TRUE, unlinks |-> TRUE, hid |-> TRUE],
       [alts |-> <<{3}>>, handler |-> TRUE, unlinks |-> FALSE, hid |-> FALSE],
       [alts |-> <<{4}>>, handler |-> FALSE, unlinks |-> FALSE, hid |-> FALSE] >>

TransportInit ==
    /\ part \in {"channel", "pipe", "scheduler", "dispatch", "input"}
    /\ ChInit /\ PipeInit /\ SchedInit /\ VdInit /\ InputInit
    /\ part = "channel" \/ mode = "message"
    /\ part = "input" \/ hid = "keyboard"

TransportNext ==
    \/ part = "channel" /\ ChNext /\ UNCHANGED <<part, pipeVars, schedVars, vdVars, inputVars>>
    \/ part = "pipe" /\ PipeNext /\ UNCHANGED <<part, chVars, schedVars, vdVars, inputVars>>
    \/ part = "scheduler" /\ SchedNext /\ UNCHANGED <<part, chVars, pipeVars, vdVars, inputVars>>
    \/ part = "dispatch" /\ VdNext /\ UNCHANGED <<part, chVars, pipeVars, schedVars, inputVars>>
    \/ part = "input" /\ InputNext /\ UNCHANGED <<part, chVars, pipeVars, schedVars, vdVars>>

TransportSpec ==
    /\ TransportInit /\ [][TransportNext]_transportVars
    /\ ChFairness /\ PipeFairness /\ SchedFairness /\ InputFairness

------------------------------------------------------------------------------
(* Properties.  Each gathers what the modules say of one thing.              *)

TransportTypeOK == ChTypeOK /\ PipeTypeOK /\ SchedTypeOK /\ VdTypeOK /\ InputTypeOK

\* What device threads write into an IN channel reaches the host as it was
\* written, no byte lost, repeated or overtaken; requests are answered oldest
\* first, and each is pending, answered or evicted with an answer, also at the
\* limit of pending requests (InEndpointChannel.h: on_in_request, push_locked).
ChannelKeepsOrder == StreamIntact /\ AnsweredInOrder /\ RequestsAccounted

\* No thread sleeps on what has already happened: a request and data are not
\* both waiting in a channel, a writer does not wait for room that is there, a
\* reader for data that arrived, a URB for a scheduler without a timer, an
\* input device's sender for a change that was already made.
NoLostWakeup == NoMissedMatch /\ NoStall /\ NoSleepingReader /\ UrbsHaveWakeup /\ NoSleepingSender

\* Transfers of one endpoint are served in the order they came, although their
\* sequence numbers wrap (PipeDeviceHandler::read) and although they fall due
\* in any order (TransferScheduler::on_timer).
ServedInArrivalOrder == ReadInArrivalOrder /\ ServedInOrder

\* A URB has one outcome: a control request one answer, an unlinked URB none
\* after the unlink, and RET_UNLINK says ECONNRESET for exactly the URBs it
\* caught, for the scheduler, the interface handlers and the pipe device, which
\* says it of a control IN that was answered as well (PipeUnlinkIsTrue).
AnswersTrue ==
    /\ ControlAnsweredOnce /\ AnswererHasResponder
    /\ UnlinkTellsTruth /\ UnlinkIsTrue /\ CancelledStaysSilent

\* The reports of keyboards, mice, pads and touch screens show the host what
\* the device's user did: the last report is the present state once nothing is
\* left to send, relative motion adds up, and reports are as long as described.
HidFaithful == HostSeesDevice /\ MotionConserved /\ ReportsAsDescribed

\* After a disconnection the writers of a channel whose owner keeps it return,
\* and the readers of the pipe device; the sender thread of an input device ends
\* and on_disconnection with it; each URB handed to the scheduler is served,
\* cancelled or dropped.  The writers of the pipe device are not among them: its
\* channels are destroyed under them (PipeDeviceHandler.cpp:321).
Released == DisconnectReleasesWriters /\ DisconnectReleasesReaders /\ StopCompletes /\ EveryUrbServed
==============================================================================
