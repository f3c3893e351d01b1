----------------------------- MODULE InputDevice -----------------------------
(***************************************************************************)
(* The HID input devices: keyboard, gamepad, touch digitizer, relative and *)
(* absolute mouse.  User threads change the state of the device, a sender  *)
(* thread turns changes into input reports, the session's receiver starts  *)
(* and stops the sender.                                                   *)
(*                                                                         *)
(* Every method is one critical section of state_mutex, and so is a turn   *)
(* of the sender's loop.  The channel is that of InEndpointChannel, here a *)
(* queue that the host empties.                                            *)
(***************************************************************************)
EXTENDS Integers, Sequences, SequencesExt

CONSTANTS
    Keys, MaxKeys,      \* key codes, and how many can be down at once
    Codes,              \* other codes: media keys, buttons, axis values, places
    MotionLimit,        \* logical maximum of a relative axis
    MaxReports,         \* MAX_PENDING_INPUT_REPORTS
    MaxInputs,          \* bound: calls of user threads
    MaxInputConns       \* bound: connections

ASSUME InputAssumption ==
    /\ Keys \subseteq Nat \ {0} /\ Codes \subseteq Nat \ {0}
    /\ {MaxKeys, MotionLimit, MaxReports} \subseteq Nat \ {0}
    /\ {MaxInputs, MaxInputConns} \subseteq Nat

VARIABLES
    hid,          \* which device
    state_now, state_last,    \* current_state_ and last_state_ (what the last report told)
    touched,      \* state_changed_ of the absolute mouse
    sender,       \* the send thread: "none", "running", "asleep", "ended"
    should_stop,
    hconn,        \* "off", "announced" (client_connected_ set), "on", "stopping"
    reports,      \* the input channel
    user,         \* a user thread in wait_for_client, or past it
    screen,       \* history: what the host knows
    moved,        \* history: relative motion entered in this connection
    evicted,      \* history: a report of this connection was dropped
    ninputs, nhconn

inputVars == <<hid, state_now, state_last, touched, sender, should_stop, hconn, reports, user,
               screen, moved, evicted, ninputs, nhconn>>

Axes == {"x", "wheel"}
Still == [a \in Axes |-> 0]

\* The default-constructed state of each device
Blank(d) ==
    CASE d = "keyboard"  -> [keys |-> <<>>, modifier |-> {}, media |-> 0]
      [] d = "gamepad"   -> [buttons |-> {}, hat |-> 0, axis |-> 0]
      [] d = "digitizer" -> [touching |-> FALSE, at |-> 0]
      [] d = "relative"  -> [buttons |-> {}, rel |-> Still]
      [] d = "absolute"  -> [buttons |-> {}, at |-> 0, wheel |-> 0]

------------------------------------------------------------------------------
(* Reports.                                                                  *)

\* What a report of the device shows of state s: report 1 of the keyboard
KeyReport(s) == [id |-> 1, keys |-> s.keys, modifier |-> s.modifier]
\* and its report 2, Consumer Control
MediaReport(s) == [id |-> 2, media |-> s.media]
\* gamepad
PadReport(s) == [id |-> 0, buttons |-> s.buttons, hat |-> s.hat, axis |-> s.axis]
\* digitizer: all zero when nothing touches it
TouchReport(s) == [id |-> 0, touching |-> s.touching, at |-> IF s.touching THEN s.at ELSE 0]
\* the mice
RelativeReport(s) == [id |-> 0, buttons |-> s.buttons, rel |-> s.rel]
AbsoluteReport(s) == [id |-> 0, buttons |-> s.buttons, at |-> s.at, wheel |-> s.wheel]

\* Bytes of the array that is sent
ReportBytes(d, id) ==
    CASE d = "keyboard"  -> IF id = 1 THEN 9 ELSE 3
      [] d = "gamepad"   -> 2 + 1 + 4 * 2
      [] OTHER           -> 6

\* The report descriptors: count and size in bits of each Input item, the
\* report identifier included.
KeyboardDescriptor(id) ==
    IF id = 1 THEN <<<<1, 8>>, <<8, 1>>, <<1, 8>>, <<6, 8>>>> ELSE <<<<1, 8>>, <<1, 16>>>>
GamepadDescriptor == <<<<16, 1>>, <<1, 8>>, <<4, 16>>>>
DigitizerDescriptor == <<<<1, 1>>, <<1, 1>>, <<1, 6>>, <<1, 16>>, <<1, 16>>, <<1, 8>>>>
RelativeDescriptor == <<<<5, 1>>, <<1, 3>>, <<2, 16>>, <<1, 8>>>>
AbsoluteDescriptor == <<<<3, 1>>, <<5, 1>>, <<2, 16>>, <<1, 8>>>>

Descriptor(d, id) ==
    CASE d = "keyboard"  -> KeyboardDescriptor(id)
      [] d = "gamepad"   -> GamepadDescriptor
      [] d = "digitizer" -> DigitizerDescriptor
      [] d = "relative"  -> RelativeDescriptor
      [] d = "absolute"  -> AbsoluteDescriptor

\* The sum of a sequence of integers
SumOf(w) ==
    LET sum[n \in 0..Len(w)] == IF n = 0 THEN 0 ELSE sum[n - 1] + w[n]
    IN  sum[Len(w)]

DescribedBits(d, id) ==
    LET items == Descriptor(d, id)
    IN  SumOf([i \in 1..Len(items) |-> items[i][1] * items[i][2]])

\* The reports that tell the change from l to s
KeyboardReports(s, l) ==
    (IF s.modifier # l.modifier \/ s.keys # l.keys THEN <<KeyReport(s)>> ELSE <<>>)
    \o (IF s.media # 0 THEN <<MediaReport(s)>> ELSE <<>>)

ReportsOf(d, s, l) ==
    CASE d = "keyboard"  -> KeyboardReports(s, l)
      [] d = "gamepad"   -> <<PadReport(s)>>
      [] d = "digitizer" -> <<TouchReport(s)>>
      [] d = "relative"  -> <<RelativeReport(s)>>
      [] d = "absolute"  -> <<AbsoluteReport(s)>>

\* Mutant: the wheel and the motion stay after the report.
AfterReportKeeps(d, s) == s

\* What is sent once is cleared when it is sent.
AfterReport(d, s) ==
    CASE d = "keyboard" -> [s EXCEPT !.media = 0]
      [] d = "relative" -> [s EXCEPT !.rel = Still]
      [] d = "absolute" -> [s EXCEPT !.wheel = 0]
      [] OTHER          -> s

\* send_input_report for each report; at the limit the oldest is dropped.
SendInputReports(rs) ==
    LET all  == reports \o rs
        drop == IF Len(all) > MaxReports THEN Len(all) - MaxReports ELSE 0
    IN  /\ reports' = SubSeq(all, drop + 1, Len(all))
        /\ evicted' = (evicted \/ drop > 0)

------------------------------------------------------------------------------
(* The sender thread.                                                        *)

Changed == IF hid = "absolute" THEN touched ELSE state_now # state_last

\* A turn of the loop: the wait, the stop, or the reports.
SenderTurn ==
    /\ sender = "running"
    /\ \/ /\ should_stop
          /\ sender' = "ended" /\ UNCHANGED <<state_now, state_last, touched, reports, evicted>>
       \/ /\ ~should_stop /\ ~Changed
          /\ sender' = "asleep" /\ UNCHANGED <<state_now, state_last, touched, reports, evicted>>
       \/ /\ ~should_stop /\ Changed
          /\ SendInputReports(ReportsOf(hid, state_now, state_last))
          /\ state_now' = AfterReport(hid, state_now) /\ state_last' = AfterReport(hid, state_now)
          /\ touched' = FALSE
          /\ UNCHANGED sender
    /\ UNCHANGED <<hid, should_stop, hconn, user, screen, moved, ninputs, nhconn>>

\* state_cv_.notify_one or notify_all: the sender is the only waiter.
WakeSender == sender' = IF sender = "asleep" THEN "running" ELSE sender

------------------------------------------------------------------------------
(* Connections.                                                              *)

\* on_new_connection up to the wake-up of wait_for_client
InputAnnounce ==
    /\ hconn = "off" /\ nhconn < MaxInputConns
    /\ hconn' = "announced" /\ nhconn' = nhconn + 1
    /\ UNCHANGED <<hid, state_now, state_last, touched, sender, should_stop, reports, user, screen,
                   moved, evicted, ninputs>>

\* The rest: the state is reset (the absolute mouse keeps its own and reports
\* it), the sender starts.  What a user entered since the announcement is lost.
InputStart ==
    /\ hconn = "announced" /\ hconn' = "on"
    /\ should_stop' = FALSE /\ sender' = "running"
    /\ IF hid = "absolute"
       THEN touched' = TRUE /\ UNCHANGED <<state_now, state_last>>
       ELSE touched' = FALSE /\ state_now' = Blank(hid) /\ state_last' = Blank(hid)
    /\ screen' = [shown |-> <<>>, motion |-> Still]
    /\ moved' = Still /\ evicted' = FALSE
    /\ UNCHANGED <<hid, reports, user, ninputs, nhconn>>

\* Mutant: should_stop_ set and nobody woken.
StopQuietly ==
    /\ hconn = "on" /\ hconn' = "stopping" /\ should_stop' = TRUE
    /\ UNCHANGED <<hid, state_now, state_last, touched, sender, reports, user, screen, moved, evicted,
                   ninputs, nhconn>>

\* on_disconnection: stop the sender
InputStop ==
    /\ hconn = "on" /\ hconn' = "stopping"
    /\ should_stop' = TRUE /\ WakeSender
    /\ UNCHANGED <<hid, state_now, state_last, touched, reports, user, screen, moved, evicted,
                   ninputs, nhconn>>

\* and, after join, clear the channel.
InputJoined ==
    /\ hconn = "stopping" /\ sender = "ended"
    /\ hconn' = "off" /\ sender' = "none" /\ reports' = <<>>
    /\ UNCHANGED <<hid, state_now, state_last, touched, should_stop, user, screen, moved, evicted,
                   ninputs, nhconn>>

\* wait_for_client returns: a client is there, or the timeout passed.
WaitForClient ==
    /\ user = "waiting" /\ user' = "ready"
    /\ UNCHANGED <<hid, state_now, state_last, touched, sender, should_stop, hconn, reports, screen,
                   moved, evicted, ninputs, nhconn>>

\* The host takes the oldest report and shows it in place of the last one with
\* that identifier (External: the host's driver).
Shown(old, r) == [k \in DOMAIN old \cup {r.id} |-> IF k = r.id THEN r ELSE old[k]]

HostReads ==
    /\ hconn \in {"on", "stopping"} /\ reports # <<>>
    /\ reports' = Tail(reports)
    /\ LET r == Head(reports)
       IN  screen' = [shown  |-> Shown(screen.shown, r),
                      motion |-> IF hid = "relative"
                                 THEN [a \in Axes |-> screen.motion[a] + r.rel[a]]
                                 ELSE screen.motion]
    /\ UNCHANGED <<hid, state_now, state_last, touched, sender, should_stop, hconn, user, moved,
                   evicted, ninputs, nhconn>>

------------------------------------------------------------------------------
(* The methods of each device: the state after the call.                     *)

PressKey(s, k) ==
    IF (\E i \in DOMAIN s.keys : s.keys[i] = k) \/ Len(s.keys) = MaxKeys THEN s
    ELSE [s EXCEPT !.keys = Append(@, k)]
\* The first slot that holds k is freed, and the others close up.
ReleaseKey(s, k) ==
    LET at == {i \in DOMAIN s.keys : s.keys[i] = k}
    IN  IF at = {} THEN s
        ELSE [s EXCEPT !.keys = RemoveAt(@, CHOOSE i \in at : \A j \in at : i <= j)]
ReleaseAll(s) == [s EXCEPT !.keys = <<>>, !.modifier = {}]
PressKeys(s, ks) == [s EXCEPT !.keys = SubSeq(ks, 1, IF Len(ks) < MaxKeys THEN Len(ks) ELSE MaxKeys)]
SetModifier(s, m) == [s EXCEPT !.modifier = @ \cup {m}]
ClearModifier(s, m) == [s EXCEPT !.modifier = @ \ {m}]
PressMediaKey(s, u) == [s EXCEPT !.media = u]

SetButton(s, b, down) == [s EXCEPT !.buttons = IF down THEN @ \cup {b} ELSE @ \ {b}]
PressButtons(s, bs) == [s EXCEPT !.buttons = bs]
SetHat(s, h) == [s EXCEPT !.hat = h]
SetAxis(s, v) == [s EXCEPT !.axis = v]

Touch(s, p) == [s EXCEPT !.touching = TRUE, !.at = p]
Release(s) == [s EXCEPT !.touching = FALSE]

\* move and set_wheel of the relative mouse add up, and saturate.
Saturate(n) == IF n > MotionLimit THEN MotionLimit ELSE IF n < -MotionLimit THEN -MotionLimit ELSE n
Move(s, a, n) == [s EXCEPT !.rel[a] = Saturate(@ + n)]

\* set_position_raw and set_wheel of the absolute mouse overwrite.
SetPosition(s, p) == [s EXCEPT !.at = p]
SetWheel(s, n) == [s EXCEPT !.wheel = n]

KeyboardInputs(s) ==
    (UNION {{PressKey(s, k), ReleaseKey(s, k), PressKeys(s, <<k, k>>)} : k \in Keys})
    \cup {ReleaseAll(s)}
    \cup (UNION {{SetModifier(s, m), ClearModifier(s, m), PressMediaKey(s, m)} : m \in Codes})
GamepadInputs(s) ==
    (UNION {{SetButton(s, b, TRUE), SetButton(s, b, FALSE), PressButtons(s, {b}),
             SetHat(s, b), SetAxis(s, b)} : b \in Codes})
    \cup {PressButtons(s, {})}
DigitizerInputs(s) == {Touch(s, p) : p \in Codes} \cup {Release(s)}
RelativeInputs(s) ==
    (UNION {{SetButton(s, b, TRUE), SetButton(s, b, FALSE)} : b \in Codes})
    \cup {Move(s, a, n) : a \in Axes, n \in Codes \cup {-c : c \in Codes}}
AbsoluteInputs(s) ==
    UNION {{SetButton(s, b, TRUE), SetButton(s, b, FALSE), SetPosition(s, b), SetWheel(s, b)}
           : b \in Codes}

InputsOf(d, s) ==
    CASE d = "keyboard"  -> KeyboardInputs(s)
      [] d = "gamepad"   -> GamepadInputs(s)
      [] d = "digitizer" -> DigitizerInputs(s)
      [] d = "relative"  -> RelativeInputs(s)
      [] d = "absolute"  -> AbsoluteInputs(s)

\* Mutant: the state changes and the sender is not notified.
InputUnnoticed(s) ==
    /\ user = "ready" /\ ninputs < MaxInputs /\ ninputs' = ninputs + 1
    /\ state_now' = s /\ touched' = (hid = "absolute")
    /\ moved' = IF hid = "relative" THEN [a \in Axes |-> moved[a] + s.rel[a] - state_now.rel[a]]
                ELSE moved
    /\ UNCHANGED <<hid, state_last, sender, should_stop, hconn, reports, user, screen, evicted, nhconn>>

\* A user thread calls a method: the state becomes s and the sender is
\* notified; when nothing changes some methods notify and some do not.
Input(s) ==
    /\ user = "ready" /\ ninputs < MaxInputs /\ ninputs' = ninputs + 1
    /\ state_now' = s /\ touched' = (touched \/ hid = "absolute")
    /\ WakeSender \/ (s = state_now /\ hid # "absolute" /\ UNCHANGED sender)
    /\ moved' = IF hid = "relative" THEN [a \in Axes |-> moved[a] + s.rel[a] - state_now.rel[a]]
                ELSE moved
    /\ UNCHANGED <<hid, state_last, should_stop, hconn, reports, user, screen, evicted, nhconn>>

------------------------------------------------------------------------------
InputInit ==
    /\ hid \in {"keyboard", "gamepad", "digitizer", "relative", "absolute"}
    /\ state_now = Blank(hid) /\ state_last = Blank(hid) /\ touched = FALSE
    /\ sender = "none" /\ should_stop = FALSE /\ hconn = "off" /\ reports = <<>>
    /\ user = "waiting"
    /\ screen = [shown |-> <<>>, motion |-> Still] /\ moved = Still /\ evicted = FALSE
    /\ ninputs = 0 /\ nhconn = 0

InputNext ==
    \/ InputAnnounce \/ InputStart \/ InputStop \/ InputJoined
    \/ SenderTurn \/ WaitForClient \/ HostReads
    \/ \E s \in InputsOf(hid, state_now) : Input(s)

\* The sender thread keeps running and join is waited for; the host and the
\* users promise nothing.
InputFairness == WF_inputVars(SenderTurn) /\ WF_inputVars(InputJoined)

InputSpec == InputInit /\ [][InputNext]_inputVars /\ InputFairness

------------------------------------------------------------------------------
(* Properties.                                                               *)

InputTypeOK ==
    /\ sender \in {"none", "running", "asleep", "ended"}
    /\ hconn \in {"off", "announced", "on", "stopping"}
    /\ user \in {"waiting", "ready"}
    /\ should_stop \in BOOLEAN /\ touched \in BOOLEAN /\ evicted \in BOOLEAN
    /\ DOMAIN state_now = DOMAIN Blank(hid) /\ DOMAIN state_last = DOMAIN Blank(hid)
    /\ Len(reports) <= MaxReports
    /\ hconn \in {"off", "announced"} => reports = <<>> /\ sender = "none"
    /\ ninputs \in 0..MaxInputs /\ nhconn \in 0..MaxInputConns

\* The sender never sleeps over work: while it waits on state_cv_ there is no
\* change to report and no order to stop.
NoSleepingSender == sender = "asleep" => ~Changed /\ ~should_stop

\* What the last reports show: nothing at all is the blank state.
Shows(r) == \E k \in DOMAIN screen.shown : screen.shown[k] = r
Unseen(id) == id \notin DOMAIN screen.shown

\* When the sender waits and the channel is empty, the host's picture of keys,
\* buttons, axes and place is the device's: coalesced and dropped reports lose
\* no final state.  (The keyboard has two kinds of report, so there a drop at
\* the limit may take the last one of its kind.)
HostSeesDevice ==
    (sender = "asleep" /\ reports = <<>>) =>
        CASE hid = "keyboard" ->
                 ~evicted => /\ state_now.media = 0
                             /\ \/ Shows(KeyReport(state_now))
                                \/ Unseen(1) /\ state_now = Blank(hid)
          [] hid = "relative" ->
                 /\ state_now.rel = Still
                 /\ \/ \E k \in DOMAIN screen.shown : screen.shown[k].buttons = state_now.buttons
                    \/ Unseen(0) /\ state_now = Blank(hid)
          [] hid = "absolute" ->
                 state_now.wheel = 0 /\ \E k \in DOMAIN screen.shown :
                     screen.shown[k].buttons = state_now.buttons /\ screen.shown[k].at = state_now.at
          [] hid = "gamepad" -> Shows(PadReport(state_now)) \/ (Unseen(0) /\ state_now = Blank(hid))
          [] hid = "digitizer" -> Shows(TouchReport(state_now)) \/ (Unseen(0) /\ state_now = Blank(hid))

\* The motion along axis a that the reports rs tell
MotionIn(a, rs) == SumOf([i \in 1..Len(rs) |-> rs[i].rel[a]])

\* The relative mouse loses no motion and reports none twice: what the host
\* has seen, what is queued and what is not yet reported add up to what was
\* entered, short of what saturates, until a report is dropped at the limit.
MotionConserved ==
    (hid = "relative" /\ hconn \in {"on", "stopping"} /\ ~evicted) =>
        \A a \in Axes : screen.motion[a] + MotionIn(a, reports) + state_now.rel[a] = moved[a]

\* Every report has the length that the report descriptor announces.
ReportsAsDescribed ==
    \A i \in DOMAIN reports : DescribedBits(hid, reports[i].id) = 8 * ReportBytes(hid, reports[i].id)

\* on_disconnection returns: the sender thread it joins ends.
StopCompletes == (hconn = "stopping") ~> (hconn = "off")

=============================================================================
