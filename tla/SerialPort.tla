------------------------------ MODULE SerialPort -----------------------------
(***************************************************************************)
(* CDC ACM: the communication interface (line coding, control lines,       *)
(* serial state notifications) and the data interface's OUT direction.     *)
(* The IN direction of the data interface is the byte stream of InChannel. *)
(*                                                                         *)
(* Handlers run on the session's receiver; the device thread sets CTS and  *)
(* takes suspended OUT data.                                               *)
(***************************************************************************)
EXTENDS Naturals, Sequences, SequencesExt

CONSTANTS
    Codings,        \* line codings other than the default
    NoteRoom,       \* set_max_pending_messages of the notification channel
    MaxAcmReqs,     \* bound: control requests and calls of set_cts in a connection
    MaxAcmOuts,     \* bound: OUT transfers in a connection
    MaxAcmConns     \* bound: connections

ASSUME SerialAssumption ==
    /\ Codings \subseteq Nat \ {0} /\ NoteRoom \in Nat \ {0}
    /\ {MaxAcmReqs, MaxAcmOuts, MaxAcmConns} \subseteq Nat

VARIABLES
    acm_up,
    line_coding,    \* line_coding_; 0 is the default, 115200 8N1
    coding_set,     \* history: what the host set last
    lines,          \* control_signal_state_: [dtr, rts]
    rts_told,       \* the RTS that the data interface was told of last
    cts, notes, cts_seen, \* what the device set, the channel, what the host saw
    out_waiting,    \* out_channel: suspended OUT transfers, by number
    out_done,       \* history: transfers answered, in order
    port_received,       \* history: transfers whose data the device has, in order
    given_up,       \* history: transfers cancelled
    nacm, nout, naconn

acmVars == <<acm_up, line_coding, coding_set, lines, rts_told, cts, notes, cts_seen,
             out_waiting, out_done, port_received, given_up, nacm, nout, naconn>>

acmControl == <<line_coding, coding_set, lines, rts_told, cts, notes, cts_seen>>
acmOut == <<out_waiting, out_done, port_received, given_up>>

NoSignal == 2   \* no serial state was sent

------------------------------------------------------------------------------
(* Connections.                                                              *)

\* on_new_connection of both interfaces; the line coding and the control
\* lines are those of the client before.
AcmConnect ==
    /\ ~acm_up /\ acm_up' = TRUE
    /\ naconn < MaxAcmConns /\ naconn' = naconn + 1
    /\ nacm' = 0 /\ nout' = 0
    /\ coding_set' = line_coding /\ cts' = NoSignal /\ cts_seen' = NoSignal
    /\ out_done' = <<>> /\ port_received' = <<>> /\ given_up' = {}
    /\ UNCHANGED <<line_coding, lines, rts_told, notes, out_waiting>>

\* Mutant: the suspended transfers stay.
AcmDisconnectKeeps ==
    /\ acm_up /\ acm_up' = FALSE /\ notes' = <<>>
    /\ UNCHANGED <<line_coding, coding_set, lines, rts_told, cts, cts_seen, acmOut,
                   nacm, nout, naconn>>

\* on_disconnection of both interfaces: the channels are cleared.
AcmDisconnect ==
    /\ acm_up /\ acm_up' = FALSE
    /\ notes' = <<>> /\ out_waiting' = <<>>
    /\ UNCHANGED <<line_coding, coding_set, lines, rts_told, cts, cts_seen, out_done,
                   port_received, given_up, nacm, nout, naconn>>

------------------------------------------------------------------------------
(* The communication interface.                                              *)

AcmRequest == acm_up /\ nacm < MaxAcmReqs /\ nacm' = nacm + 1

\* LineCoding::from_bytes: fewer than seven bytes give the default.
FromBytes(coding, whole) == IF whole THEN coding ELSE 0

SetLineCoding(coding, whole) ==
    /\ AcmRequest
    /\ line_coding' = FromBytes(coding, whole) /\ coding_set' = FromBytes(coding, whole)
    /\ UNCHANGED <<acm_up, lines, rts_told, cts, notes, cts_seen, acmOut, nout, naconn>>

\* Mutant: the data interface is not told.
SetLinesSilently(dtr, rts) ==
    /\ AcmRequest /\ lines' = [dtr |-> dtr, rts |-> rts]
    /\ UNCHANGED <<acm_up, line_coding, coding_set, rts_told, cts, notes, cts_seen, acmOut,
                   nout, naconn>>

\* SET_CONTROL_LINE_STATE, which tells the data interface of RTS
SetControlLineState(dtr, rts) ==
    /\ AcmRequest
    /\ lines' = [dtr |-> dtr, rts |-> rts] /\ rts_told' = rts
    /\ UNCHANGED <<acm_up, line_coding, coding_set, cts, notes, cts_seen, acmOut, nout, naconn>>

\* GET_LINE_CODING, SEND_BREAK, and what is answered with EPIPE change nothing.
AcmOtherRequest ==
    /\ AcmRequest
    /\ UNCHANGED <<acm_up, acmControl, acmOut, nout, naconn>>

\* Mutant: at the limit the new notification is dropped.
PushNoteRefused(n) == notes' = IF Len(notes) < NoteRoom THEN Append(notes, n) ELSE notes

\* notification_channel.push: at the limit the oldest is dropped.
PushNote(n) ==
    notes' = Append(IF Len(notes) < NoteRoom THEN notes ELSE Tail(notes), n)

\* set_cts of the data interface, through send_serial_state_notification; the
\* channel refuses when there is no connection.
SetCts(c) ==
    /\ AcmRequest /\ cts' = c /\ PushNote(c)
    /\ UNCHANGED <<acm_up, line_coding, coding_set, lines, rts_told, cts_seen, acmOut, nout, naconn>>

\* handle_interrupt_transfer: the host reads the next notification.
HostReadsNote ==
    /\ acm_up /\ notes # <<>>
    /\ cts_seen' = Head(notes) /\ notes' = Tail(notes)
    /\ UNCHANGED <<acm_up, line_coding, coding_set, lines, rts_told, cts, acmOut, nacm, nout, naconn>>

------------------------------------------------------------------------------
(* The data interface.                                                       *)

\* handle_bulk_transfer, OUT: on_data_received takes the data and the host is
\* answered, or the transfer waits in out_channel.  (The device takes data in
\* place only when no earlier data wait; the class leaves that to it.)
AcmBulkOut ==
    /\ acm_up /\ nout < MaxAcmOuts /\ nout' = nout + 1
    /\ \/ /\ out_waiting = <<>>
          /\ port_received' = Append(port_received, nout + 1) /\ out_done' = Append(out_done, nout + 1)
          /\ UNCHANGED out_waiting
       \/ out_waiting' = Append(out_waiting, nout + 1) /\ UNCHANGED <<port_received, out_done>>
    /\ UNCHANGED <<acm_up, acmControl, given_up, nacm, naconn>>

\* take_out or try_take_out on the device thread: data and answer
TakeOut ==
    /\ acm_up /\ out_waiting # <<>>
    /\ port_received' = Append(port_received, Head(out_waiting)) /\ out_done' = Append(out_done, Head(out_waiting))
    /\ out_waiting' = Tail(out_waiting)
    /\ UNCHANGED <<acm_up, acmControl, given_up, nacm, nout, naconn>>

\* handle_unlink_seqnum: the suspended transfer, if it still waits
AcmUnlink(n) ==
    /\ acm_up
    /\ \E i \in DOMAIN out_waiting : out_waiting[i] = n /\ out_waiting' = RemoveAt(out_waiting, i)
    /\ given_up' = given_up \cup {n}
    /\ UNCHANGED <<acm_up, acmControl, port_received, out_done, nacm, nout, naconn>>

------------------------------------------------------------------------------
AcmInit ==
    /\ acm_up = FALSE /\ line_coding = 0 /\ coding_set = 0
    /\ lines = [dtr |-> FALSE, rts |-> FALSE] /\ rts_told = FALSE
    /\ cts = NoSignal /\ notes = <<>> /\ cts_seen = NoSignal
    /\ out_waiting = <<>> /\ out_done = <<>> /\ port_received = <<>> /\ given_up = {}
    /\ nacm = 0 /\ nout = 0 /\ naconn = 0

AcmNext ==
    \/ AcmConnect \/ AcmDisconnect
    \/ \E coding \in Codings, whole \in BOOLEAN : SetLineCoding(coding, whole)
    \/ \E dtr, rts \in BOOLEAN : SetControlLineState(dtr, rts)
    \/ AcmOtherRequest
    \/ \E c \in {0, 1} : SetCts(c)
    \/ HostReadsNote
    \/ AcmBulkOut \/ TakeOut
    \/ \E n \in 1..MaxAcmOuts : AcmUnlink(n)

AcmSpec == AcmInit /\ [][AcmNext]_acmVars

------------------------------------------------------------------------------
(* Properties.                                                               *)

AcmTypeOK ==
    /\ acm_up \in BOOLEAN /\ rts_told \in BOOLEAN /\ lines \in [dtr : BOOLEAN, rts : BOOLEAN]
    /\ line_coding \in Codings \cup {0} /\ cts \in 0..2 /\ cts_seen \in 0..2
    /\ Len(notes) <= NoteRoom
    /\ ~acm_up => notes = <<>> /\ out_waiting = <<>>
    /\ nacm \in 0..MaxAcmReqs /\ nout \in 0..MaxAcmOuts /\ naconn \in 0..MaxAcmConns

\* Both interfaces and the host agree on the port: the data interface knows
\* the host's RTS, GET_LINE_CODING gives what was set last, and the newest
\* notification that the host read or will read is the CTS of the device.
PortAgrees ==
    /\ rts_told = lines.rts
    /\ line_coding = coding_set
    /\ acm_up => cts = (IF notes = <<>> THEN cts_seen ELSE Last(notes))

\* OUT data: the device gets each transfer's data once and in the order of the
\* host, and the host is told of exactly those that the device has.
OutDataOnce ==
    /\ port_received = out_done
    /\ \A i, j \in DOMAIN port_received : i < j => port_received[i] < port_received[j]
    /\ acm_up => 1..nout = ToSet(port_received) \cup ToSet(out_waiting) \cup given_up

=============================================================================
