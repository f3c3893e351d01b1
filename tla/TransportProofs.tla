--------------------------- MODULE TransportProofs ---------------------------
(***************************************************************************)
(* The parts of MCTransport share no state: a behaviour of the composition *)
(* is a behaviour of each part, fairness included, and what is proved of a *)
(* part holds in it.  The channel, the scheduler and the dispatch have     *)
(* proofs of their own; those of the input devices and of the pipe device  *)
(* (which rest on the channel's lemmas) are here.                          *)
(***************************************************************************)
EXTENDS MCTransport, TransportPartsProofs, NaturalsInduction, WellFoundedInduction

------------------------------------------------------------------------------
(* The composition implements its parts.                                     *)

\* The IN channel, in the composition
THEOREM TransportHasChannel == TransportSpec => ChSpec
<1>1. TransportInit => ChInit
    BY DEF TransportInit
<1>2. [TransportNext]_transportVars => [ChNext]_chVars
    BY DEF TransportNext, transportVars
<1> QED
    BY <1>1, <1>2, PTL DEF TransportSpec, ChSpec

\* The scheduler, in the composition
THEOREM TransportHasScheduler == TransportSpec => SchedSpec
<1>1. TransportInit => SchedInit
    BY DEF TransportInit
<1>2. [TransportNext]_transportVars => [SchedNext]_schedVars
    BY DEF TransportNext, transportVars
<1> QED
    BY <1>1, <1>2, PTL DEF TransportSpec, SchedSpec

\* The device handler's dispatch, in the composition
THEOREM TransportHasDispatch == TransportSpec => VdSpec
<1>1. TransportInit => VdInit
    BY DEF TransportInit
<1>2. [TransportNext]_transportVars => [VdNext]_vdVars
    BY DEF TransportNext, transportVars
<1> QED
    BY <1>1, <1>2, PTL DEF TransportSpec, VdSpec

------------------------------------------------------------------------------

\* InEndpointChannel.h: what device threads write reaches the host in order,
\* and the requests of a connection are answered oldest first and all
\* accounted for, for any number of threads and requests and any limits.
THEOREM TransportKeepsOrder == TransportSpec => []ChannelKeepsOrder
<1>1. StreamIntact /\ AnsweredInOrder /\ RequestsAccounted => ChannelKeepsOrder
    BY DEF ChannelKeepsOrder
<1> QED
    BY <1>1, TransportHasChannel, ChStreamIntact, ChAnsweredInOrder, ChRequestsAccounted, PTL

------------------------------------------------------------------------------
(* The input devices.                                                        *)

Hids == {"keyboard", "gamepad", "digitizer", "relative", "absolute"}

\* A method of a device changes fields of its state.
LEMMA InputsKeepFields ==
    ASSUME NEW d \in Hids, NEW s, NEW t \in InputsOf(d, s)
    PROVE  DOMAIN t = DOMAIN s
<1>1. CASE d = "keyboard"
    <2>1. t \in KeyboardInputs(s)
        BY <1>1 DEF InputsOf
    <2>2. \A k : /\ DOMAIN PressKey(s, k) = DOMAIN s /\ DOMAIN ReleaseKey(s, k) = DOMAIN s
                 /\ DOMAIN PressKeys(s, <<k, k>>) = DOMAIN s
        BY DEF PressKey, ReleaseKey, PressKeys
    <2>3. \A k : /\ DOMAIN SetModifier(s, k) = DOMAIN s /\ DOMAIN ClearModifier(s, k) = DOMAIN s
                 /\ DOMAIN PressMediaKey(s, k) = DOMAIN s
        BY DEF SetModifier, ClearModifier, PressMediaKey
    <2>4. DOMAIN ReleaseAll(s) = DOMAIN s
        BY DEF ReleaseAll
    <2>5. \/ \E k \in Keys : t \in {PressKey(s, k), ReleaseKey(s, k), PressKeys(s, <<k, k>>)}
          \/ t = ReleaseAll(s)
          \/ \E m \in Codes : t \in {SetModifier(s, m), ClearModifier(s, m), PressMediaKey(s, m)}
        <3>1. PICK A : A = UNION {{PressKey(s, k), ReleaseKey(s, k), PressKeys(s, <<k, k>>)} : k \in Keys}
            BY Zenon
        <3>2. PICK B : B = UNION {{SetModifier(s, m), ClearModifier(s, m), PressMediaKey(s, m)} : m \in Codes}
            BY Zenon
        <3>3. KeyboardInputs(s) = A \cup {ReleaseAll(s)} \cup B
            BY <3>1, <3>2, Zenon DEF KeyboardInputs
        <3>4. t \in A \/ t = ReleaseAll(s) \/ t \in B
            BY <2>1, <3>3, Zenon
        <3>5. t \in A => \E k \in Keys : t \in {PressKey(s, k), ReleaseKey(s, k), PressKeys(s, <<k, k>>)}
            BY <3>1, Zenon
        <3>6. t \in B => \E m \in Codes : t \in {SetModifier(s, m), ClearModifier(s, m), PressMediaKey(s, m)}
            BY <3>2, Zenon
        <3> QED
            BY <3>4, <3>5, <3>6, Zenon
    <2> QED
        BY <2>2, <2>3, <2>4, <2>5, Zenon
<1>2. CASE d = "gamepad"
    <2>1. t \in GamepadInputs(s)
        BY <1>2 DEF InputsOf
    <2>2. \A b : /\ DOMAIN SetButton(s, b, TRUE) = DOMAIN s /\ DOMAIN SetButton(s, b, FALSE) = DOMAIN s
                 /\ DOMAIN PressButtons(s, b) = DOMAIN s /\ DOMAIN SetHat(s, b) = DOMAIN s
                 /\ DOMAIN SetAxis(s, b) = DOMAIN s
        BY DEF SetButton, PressButtons, SetHat, SetAxis
    <2>3. \/ \E b \in Codes : t \in {SetButton(s, b, TRUE), SetButton(s, b, FALSE),
                                     PressButtons(s, {b}), SetHat(s, b), SetAxis(s, b)}
          \/ t = PressButtons(s, {})
        <3>1. PICK A : A = UNION {{SetButton(s, b, TRUE), SetButton(s, b, FALSE), PressButtons(s, {b}),
                                   SetHat(s, b), SetAxis(s, b)} : b \in Codes}
            BY Zenon
        <3>2. GamepadInputs(s) = A \cup {PressButtons(s, {})}
            BY <3>1, Zenon DEF GamepadInputs
        <3>3. t \in A \/ t = PressButtons(s, {})
            BY <2>1, <3>2, Zenon
        <3>4. t \in A => \E b \in Codes : t \in {SetButton(s, b, TRUE), SetButton(s, b, FALSE),
                                                 PressButtons(s, {b}), SetHat(s, b), SetAxis(s, b)}
            BY <3>1, Zenon
        <3> QED
            BY <3>3, <3>4, Zenon
    <2> QED
        BY <2>2, <2>3, Zenon
<1>3. CASE d = "digitizer"
    <2>1. t \in DigitizerInputs(s)
        BY <1>3 DEF InputsOf
    <2>2. \A p : DOMAIN Touch(s, p) = DOMAIN s /\ DOMAIN Release(s) = DOMAIN s
        BY DEF Touch, Release
    <2> QED
        BY <2>1, <2>2, Zenon DEF DigitizerInputs
<1>4. CASE d = "relative"
    <2>1. t \in RelativeInputs(s)
        BY <1>4 DEF InputsOf
    <2>2. \A b : DOMAIN SetButton(s, b, TRUE) = DOMAIN s /\ DOMAIN SetButton(s, b, FALSE) = DOMAIN s
        BY DEF SetButton
    <2>3. \A a, n : DOMAIN Move(s, a, n) = DOMAIN s
        BY DEF Move
    <2>4. \/ \E b \in Codes : t \in {SetButton(s, b, TRUE), SetButton(s, b, FALSE)}
          \/ \E a, n : t = Move(s, a, n)
        <3>1. PICK A : A = UNION {{SetButton(s, b, TRUE), SetButton(s, b, FALSE)} : b \in Codes}
            BY Zenon
        <3> DEFINE B == {Move(s, a, n) : a \in Axes, n \in Codes \cup {-c : c \in Codes}}
        <3>2. RelativeInputs(s) = A \cup B
            BY <3>1 DEF RelativeInputs
        <3>3. t \in B => \E a, n : t = Move(s, a, n)
            OBVIOUS
        <3> HIDE DEF B
        <3>4. t \in A \/ t \in B
            BY <2>1, <3>2, Zenon
        <3>5. t \in A => \E b \in Codes : t \in {SetButton(s, b, TRUE), SetButton(s, b, FALSE)}
            BY <3>1, Zenon
        <3> QED
            BY <3>3, <3>4, <3>5, Zenon
    <2> QED
        BY <2>2, <2>3, <2>4, Zenon
<1>5. CASE d = "absolute"
    <2>1. t \in AbsoluteInputs(s)
        BY <1>5 DEF InputsOf
    <2>2. \A b : /\ DOMAIN SetButton(s, b, TRUE) = DOMAIN s /\ DOMAIN SetButton(s, b, FALSE) = DOMAIN s
                 /\ DOMAIN SetPosition(s, b) = DOMAIN s /\ DOMAIN SetWheel(s, b) = DOMAIN s
        BY DEF SetButton, SetPosition, SetWheel
    <2>3. \E b \in Codes : t \in {SetButton(s, b, TRUE), SetButton(s, b, FALSE), SetPosition(s, b),
                                  SetWheel(s, b)}
        BY <2>1, Zenon DEF AbsoluteInputs
    <2> QED
        BY <2>2, <2>3, Zenon
<1> QED
    BY <1>1, <1>2, <1>3, <1>4, <1>5 DEF Hids

LEMMA ReportKeepsFields ==
    ASSUME NEW d \in Hids, NEW s
    PROVE  DOMAIN AfterReport(d, s) = DOMAIN s
BY DEF Hids, AfterReport

\* The reports of a change are a sequence, and so are those that are left
\* when the oldest are dropped.
Listed(r) == \E S : r \in Seq(S)
LEMMA ReportsListed ==
    ASSUME NEW d \in Hids, NEW s, NEW l
    PROVE  Listed(ReportsOf(d, s, l))
<1>1. \A r : <<r>> \in Seq({r}) /\ <<>> \in Seq({r})
    OBVIOUS
<1>2. CASE d = "keyboard"
    <2>1. PICK a : a = IF s.modifier # l.modifier \/ s.keys # l.keys THEN <<KeyReport(s)>> ELSE <<>>
        BY Zenon
    <2>2. PICK b : b = IF s.media # 0 THEN <<MediaReport(s)>> ELSE <<>>
        BY Zenon
    <2>3. PICK k : k = KeyReport(s)
        BY Zenon
    <2>4. PICK m : m = MediaReport(s)
        BY Zenon
    <2>5. a \in Seq({k, m}) /\ b \in Seq({k, m})
        <3>1. <<>> \in Seq({k, m}) /\ <<k>> \in Seq({k, m}) /\ <<m>> \in Seq({k, m})
            OBVIOUS
        <3> QED
            BY <2>1, <2>2, <2>3, <2>4, <3>1, Zenon
    <2>6. a \o b \in Seq({k, m})
        BY <2>5, ConcatProperties
    <2>7. ReportsOf(d, s, l) = a \o b
        BY <1>2, <2>1, <2>2 DEF ReportsOf, KeyboardReports
    <2> QED
        BY <2>6, <2>7, Zenon DEF Listed
<1>3. CASE d # "keyboard"
    <2>1. \E r : ReportsOf(d, s, l) = <<r>>
        BY <1>3 DEF ReportsOf, Hids
    <2> QED
        BY <1>1, <2>1, Zenon DEF Listed
<1> QED
    BY <1>2, <1>3

LEMMA OldestReportsDropped ==
    ASSUME NEW rs, Listed(rs), Listed(reports), SendInputReports(rs), evicted \in BOOLEAN
    PROVE  Listed(reports') /\ Len(reports') <= MaxReports /\ evicted' \in BOOLEAN
<1>1. PICK S : reports \in Seq(S)
    BY DEF Listed
<1>2. PICK T : rs \in Seq(T)
    BY DEF Listed
<1>3. PICK U : U = S \cup T
    BY Zenon
<1>4. reports \in Seq(U) /\ rs \in Seq(U)
    BY <1>1, <1>2, <1>3
<1>5. PICK all : all = reports \o rs
    BY Zenon
<1>6. PICK n : n = Len(all)
    BY Zenon
<1>7. all \in Seq(U) /\ n \in Nat
    BY <1>4, <1>5, <1>6, ConcatProperties
<1>8. MaxReports \in Nat \ {0}
    BY InputAssumption DEF InputAssumption
<1>9. PICK drop : drop = IF n > MaxReports THEN n - MaxReports ELSE 0
    BY Zenon
<1>10. reports' = SubSeq(all, drop + 1, n) /\ evicted' = (evicted \/ drop > 0)
    BY <1>5, <1>6, <1>9, Zenon DEF SendInputReports
<1>11. drop \in Nat /\ drop <= n /\ n - drop <= MaxReports /\ n - drop \in Nat
    BY <1>7, <1>8, <1>9
<1>12. reports' \in Seq(U) /\ Len(reports') = n - drop
    <2>1. \A i \in (drop + 1)..n : all[i] \in U
        BY <1>6, <1>7, <1>11
    <2> QED
        BY <1>6, <1>7, <1>10, <1>11, <2>1
<1>13. evicted' \in BOOLEAN
    BY <1>10, Zenon
<1> QED
    BY <1>11, <1>12, <1>13 DEF Listed

\* The sender of an input device sleeps only with nothing to do, and the
\* input channel stays within MAX_PENDING_INPUT_REPORTS.
InputInv == InputTypeOK /\ NoSleepingSender /\ hid \in Hids /\ Listed(reports)

LEMMA InputInitInv == InputInit => InputInv
<1> SUFFICES ASSUME InputInit PROVE InputInv
    OBVIOUS
<1>1. InputTypeOK
    <2>1. MaxInputs \in Nat /\ MaxInputConns \in Nat /\ Len(<<>>) <= MaxReports
        BY InputAssumption DEF InputAssumption
    <2>2. /\ sender = "none" /\ should_stop = FALSE /\ touched = FALSE /\ evicted = FALSE
          /\ hconn = "off" /\ reports = <<>> /\ user = "waiting" /\ ninputs = 0 /\ nhconn = 0
          /\ DOMAIN state_now = DOMAIN Blank(hid) /\ DOMAIN state_last = DOMAIN Blank(hid)
        BY Zenon DEF InputInit
    <2>3. Len(reports) <= MaxReports /\ 0 \in 0..MaxInputs /\ 0 \in 0..MaxInputConns
        BY <2>1, <2>2
    <2> QED
        BY <2>2, <2>3, Zenon DEF InputTypeOK
<1>2. NoSleepingSender /\ hid \in Hids
    BY DEF InputInit, NoSleepingSender, Hids
<1>3. reports \in Seq({})
    BY DEF InputInit
<1> QED
    BY <1>1, <1>2, <1>3 DEF InputInv, Listed

LEMMA SenderTurnStep ==
    ASSUME InputInv, SenderTurn
    PROVE  InputInv'
<1>1. /\ sender = "running" /\ hid' = hid /\ should_stop' = should_stop /\ hconn' = hconn
      /\ user' = user /\ ninputs' = ninputs /\ nhconn' = nhconn
    BY DEF SenderTurn
<1>2. CASE /\ should_stop /\ sender' = "ended"
           /\ UNCHANGED <<state_now, state_last, touched, reports, evicted>>
    <2>1. hconn \notin {"off", "announced"}
        BY <1>1 DEF InputInv, InputTypeOK
    <2>2. InputTypeOK'
        BY <1>1, <1>2, <2>1 DEF InputInv, InputTypeOK
    <2>3. NoSleepingSender'
        BY <1>2 DEF NoSleepingSender
    <2> QED
        BY <1>1, <1>2, <2>2, <2>3 DEF InputInv
<1>3. CASE /\ ~should_stop /\ ~Changed /\ sender' = "asleep"
           /\ UNCHANGED <<state_now, state_last, touched, reports, evicted>>
    <2>1. hconn \notin {"off", "announced"}
        BY <1>1 DEF InputInv, InputTypeOK
    <2>2. InputTypeOK'
        BY <1>1, <1>3, <2>1 DEF InputInv, InputTypeOK
    <2>3. NoSleepingSender'
        BY <1>1, <1>3 DEF NoSleepingSender, Changed
    <2> QED
        BY <1>1, <1>3, <2>2, <2>3 DEF InputInv
<1>4. CASE /\ ~should_stop /\ Changed
           /\ SendInputReports(ReportsOf(hid, state_now, state_last))
           /\ state_now' = AfterReport(hid, state_now) /\ state_last' = AfterReport(hid, state_now)
           /\ touched' = FALSE /\ sender' = sender
    <2>1. hid \in Hids /\ Listed(reports) /\ evicted \in BOOLEAN
        BY DEF InputInv, InputTypeOK
    <2>2. PICK rs : rs = ReportsOf(hid, state_now, state_last)
        BY Zenon
    <2>3. Listed(rs)
        BY <2>1, <2>2, ReportsListed
    <2>4. Listed(reports') /\ Len(reports') <= MaxReports /\ evicted' \in BOOLEAN
        BY <1>4, <2>1, <2>2, <2>3, OldestReportsDropped
    <2>5. DOMAIN state_now' = DOMAIN Blank(hid) /\ DOMAIN state_last' = DOMAIN Blank(hid)
        BY <1>4, <2>1, ReportKeepsFields DEF InputInv, InputTypeOK
    <2>6. hconn \notin {"off", "announced"}
        BY <1>1 DEF InputInv, InputTypeOK
    <2>7. InputTypeOK'
        BY <1>1, <1>4, <2>4, <2>5, <2>6 DEF InputInv, InputTypeOK
    <2>8. NoSleepingSender'
        BY <1>1, <1>4 DEF NoSleepingSender
    <2> QED
        BY <1>1, <2>1, <2>4, <2>7, <2>8 DEF InputInv
<1> QED
    BY <1>2, <1>3, <1>4, Zenon DEF SenderTurn

LEMMA InputCallStep ==
    ASSUME InputInv, NEW s \in InputsOf(hid, state_now), Input(s)
    PROVE  InputInv'
<1>1. /\ ninputs < MaxInputs /\ ninputs' = ninputs + 1 /\ state_now' = s
      /\ touched' = (touched \/ hid = "absolute")
      /\ WakeSender \/ (s = state_now /\ hid # "absolute" /\ sender' = sender)
      /\ hid' = hid /\ state_last' = state_last /\ should_stop' = should_stop /\ hconn' = hconn
      /\ reports' = reports /\ user' = user /\ evicted' = evicted /\ nhconn' = nhconn
    BY DEF Input
<1>2. hid \in Hids
    BY DEF InputInv
<1>3. DOMAIN state_now' = DOMAIN Blank(hid)
    BY <1>1, <1>2, InputsKeepFields DEF InputInv, InputTypeOK
<1>4. touched' \in BOOLEAN
    BY <1>1, Zenon
<1>5. sender' \in {"none", "running", "asleep", "ended"} /\ (sender = "none" => sender' = "none")
    BY <1>1 DEF InputInv, InputTypeOK, WakeSender
<1>6. ninputs' \in 0..MaxInputs
    BY <1>1, InputAssumption DEF InputInv, InputTypeOK, InputAssumption
<1>7. InputTypeOK'
    BY <1>1, <1>3, <1>4, <1>5, <1>6 DEF InputInv, InputTypeOK
<1>8. NoSleepingSender'
    <2>1. CASE WakeSender
        <3>1. sender' # "asleep"
            BY <2>1 DEF WakeSender
        <3> QED
            BY <3>1 DEF NoSleepingSender
    <2>2. CASE s = state_now /\ hid # "absolute" /\ sender' = sender
        BY <1>1, <2>2 DEF InputInv, NoSleepingSender, Changed
    <2> QED
        BY <1>1, <2>1, <2>2
<1> QED
    BY <1>1, <1>2, <1>7, <1>8 DEF InputInv

LEMMA HostReadsStep ==
    ASSUME InputInv, HostReads
    PROVE  InputInv'
<1>1. /\ hconn \in {"on", "stopping"} /\ reports # <<>> /\ reports' = Tail(reports)
      /\ hid' = hid /\ state_now' = state_now /\ state_last' = state_last /\ touched' = touched
      /\ sender' = sender /\ should_stop' = should_stop /\ hconn' = hconn /\ user' = user
      /\ evicted' = evicted /\ ninputs' = ninputs /\ nhconn' = nhconn
    BY DEF HostReads
<1>2. PICK S : reports \in Seq(S)
    BY DEF InputInv, Listed
<1>3. reports' \in Seq(S) /\ Len(reports') = Len(reports) - 1 /\ Len(reports) \in Nat
    BY <1>1, <1>2, HeadTailProperties
<1>4. MaxReports \in Nat /\ Len(reports) <= MaxReports
    BY InputAssumption DEF InputAssumption, InputInv, InputTypeOK
<1>5. Len(reports') <= MaxReports
    BY <1>3, <1>4
<1>6. InputTypeOK'
    BY <1>1, <1>5 DEF InputInv, InputTypeOK
<1>7. NoSleepingSender'
    BY <1>1 DEF InputInv, NoSleepingSender, Changed
<1> QED
    BY <1>1, <1>3, <1>6, <1>7 DEF InputInv, Listed

LEMMA InputStep == InputInv /\ [InputNext]_inputVars => InputInv'
<1> SUFFICES ASSUME InputInv, [InputNext]_inputVars PROVE InputInv'
    OBVIOUS
<1>1. /\ MaxInputs \in Nat /\ MaxInputConns \in Nat
      /\ \A S : <<>> \in Seq(S) /\ Len(<<>>) <= MaxReports
    BY InputAssumption DEF InputAssumption
<1>2. CASE InputAnnounce
    <2>1. InputTypeOK'
        BY <1>1, <1>2 DEF InputAnnounce, InputInv, InputTypeOK
    <2>2. NoSleepingSender' /\ hid' \in Hids /\ Listed(reports)'
        BY <1>2 DEF InputAnnounce, InputInv, NoSleepingSender, Changed, Listed
    <2> QED
        BY <2>1, <2>2 DEF InputInv
<1>3. CASE InputStart
    <2>1. InputTypeOK'
        BY <1>3 DEF InputStart, InputInv, InputTypeOK
    <2>2. NoSleepingSender' /\ hid' \in Hids /\ Listed(reports)'
        BY <1>3 DEF InputStart, InputInv, NoSleepingSender, Listed
    <2> QED
        BY <2>1, <2>2 DEF InputInv
<1>4. CASE InputStop
    <2>1. InputTypeOK'
        BY <1>4 DEF InputStop, InputInv, InputTypeOK, WakeSender
    <2>2. NoSleepingSender' /\ hid' \in Hids /\ Listed(reports)'
        BY <1>4 DEF InputStop, InputInv, NoSleepingSender, WakeSender, Listed
    <2> QED
        BY <2>1, <2>2 DEF InputInv
<1>5. CASE InputJoined
    <2>1. InputTypeOK'
        BY <1>1, <1>5 DEF InputJoined, InputInv, InputTypeOK
    <2>2. NoSleepingSender' /\ hid' \in Hids /\ Listed(reports)'
        BY <1>1, <1>5 DEF InputJoined, InputInv, NoSleepingSender, Listed
    <2> QED
        BY <2>1, <2>2 DEF InputInv
<1>6. CASE SenderTurn
    BY <1>6, SenderTurnStep
<1>7. CASE WaitForClient \/ UNCHANGED inputVars
    <2>1. /\ hid' = hid /\ state_now' = state_now /\ state_last' = state_last /\ touched' = touched
          /\ sender' = sender /\ should_stop' = should_stop /\ hconn' = hconn /\ reports' = reports
          /\ evicted' = evicted /\ ninputs' = ninputs /\ nhconn' = nhconn
          /\ user' \in {"waiting", "ready"}
        BY <1>7 DEF WaitForClient, inputVars, InputInv, InputTypeOK
    <2>2. InputTypeOK'
        BY <2>1 DEF InputInv, InputTypeOK
    <2>3. NoSleepingSender'
        BY <2>1 DEF InputInv, NoSleepingSender, Changed
    <2> QED
        BY <2>1, <2>2, <2>3 DEF InputInv
<1>8. CASE HostReads
    BY <1>8, HostReadsStep
<1>9. CASE \E s \in InputsOf(hid, state_now) : Input(s)
    BY <1>9, InputCallStep
<1> QED
    BY <1>2, <1>3, <1>4, <1>5, <1>6, <1>7, <1>8, <1>9 DEF InputNext

\* The five input devices' state_cv_, should_stop_ and input channel: the sender
\* thread never sleeps over a change or an order to stop, and no report is
\* kept beyond the limit.
THEOREM InputInductive == InputSpec => []InputInv
<1>1. InputInit => InputInv
    BY InputInitInv
<1>2. InputInv /\ [InputNext]_inputVars => InputInv'
    BY InputStep
<1> QED
    BY <1>1, <1>2, PTL DEF InputSpec

------------------------------------------------------------------------------
(* The input devices: what the host is told.                                 *)

\* The sums of the first elements of a sequence
Sums(g, w, n) == g = [i \in 0..n |-> IF i = 0 THEN 0 ELSE g[i - 1] + w[i]]

\* There are such sums.
LEMMA SumsExist ==
    ASSUME NEW w, NEW n \in Nat
    PROVE  \E g : Sums(g, w, n)
<1> DEFINE Good(k) == \E g : Sums(g, w, k)
           Bad == {k \in Nat : ~Good(k)}
<1>1. Good(0)
    <2>1. PICK g : g = [i \in 0..0 |-> 0]
        BY Zenon
    <2>2. g = [i \in 0..0 |-> IF i = 0 THEN 0 ELSE g[i - 1] + w[i]]
        BY <2>1
    <2> QED
        BY <2>2, Zenon DEF Sums
<1>2. ASSUME NEW k \in Nat, Good(k)
      PROVE  Good(k + 1)
    <2>1. PICK g : g = [i \in 0..k |-> IF i = 0 THEN 0 ELSE g[i - 1] + w[i]]
        BY <1>2, Zenon DEF Sums
    <2>2. PICK h : h = [i \in 0..(k + 1) |-> IF i = k + 1 THEN g[k] + w[k + 1] ELSE g[i]]
        BY Zenon
    <2>3. \A i \in 0..(k + 1) : h[i] = IF i = 0 THEN 0 ELSE h[i - 1] + w[i]
        <3> TAKE i \in 0..(k + 1)
        <3>1. CASE i = 0
            <4>1. g[0] = 0 /\ h[0] = g[0]
                BY <2>1, <2>2
            <4> QED
                BY <3>1, <4>1
        <3>2. CASE i \in 1..k
            <4>1. h[i] = g[i] /\ h[i - 1] = g[i - 1]
                BY <2>2, <3>2
            <4>2. g[i] = g[i - 1] + w[i]
                BY <2>1, <3>2
            <4> QED
                BY <3>2, <4>1, <4>2
        <3>3. CASE i = k + 1
            <4>1. h[k + 1] = g[k] + w[k + 1] /\ h[k] = g[k] /\ i - 1 = k /\ i # 0
                BY <2>2, <3>3
            <4> QED
                BY <3>3, <4>1
        <3> QED
            BY <3>1, <3>2, <3>3
    <2>4. h = [i \in 0..(k + 1) |-> h[i]]
        BY <2>2
    <2>5. h = [i \in 0..(k + 1) |-> IF i = 0 THEN 0 ELSE h[i - 1] + w[i]]
        BY <2>3, <2>4, Zenon
    <2> QED
        BY <2>5, Zenon DEF Sums
<1> HIDE DEF Good
<1>3. Bad = {}
    <2> SUFFICES ASSUME Bad # {} PROVE FALSE
        OBVIOUS
    <2>1. PICK x \in Bad : \A y \in Bad : ~(<<y, x>> \in OpToRel(<, Nat))
        BY NatLessThanWellFounded, WFMin
    <2>2. \A y \in Bad : ~(y < x)
        BY <2>1, Zenon DEF OpToRel
    <2>3. x \in Nat /\ x # 0 /\ ~Good(x)
        BY <1>1
    <2>4. x - 1 \in Nat /\ (x - 1) + 1 = x /\ x - 1 < x
        BY <2>3
    <2>5. Good(x - 1)
        BY <2>2, <2>4
    <2> QED
        BY <1>2, <2>3, <2>4, <2>5
<1> QED
    BY <1>3 DEF Good

\* g adds up the first n elements of w.
Adds(g, w, n) == g[0] = 0 /\ \A i \in 1..n : g[i] = g[i - 1] + w[i]

\* The sum of a sequence is the last of them.
LEMMA SumIsLast ==
    ASSUME NEW w \in Seq(Int)
    PROVE  \E g : SumOf(w) = g[Len(w)] /\ Adds(g, w, Len(w))
<1>1. PICK g : g = CHOOSE h : Sums(h, w, Len(w))
    BY Zenon
<1>2. Len(w) \in Nat
    BY LenProperties
<1>3. Sums(g, w, Len(w))
    BY <1>1, <1>2, SumsExist, Zenon
<1>4. SumOf(w) = g[Len(w)]
    BY <1>1, Zenon DEF SumOf, Sums
<1>5. g = [i \in 0..Len(w) |-> IF i = 0 THEN 0 ELSE g[i - 1] + w[i]]
    BY <1>3 DEF Sums
<1>6. g[0] = 0
    BY <1>2, <1>5
<1>7. \A i \in 1..Len(w) : g[i] = g[i - 1] + w[i]
    BY <1>2, <1>5
<1> QED
    BY <1>4, <1>6, <1>7, Zenon DEF Adds

\* The m elements of v are those of w that follow the first s, among its first n.
PartOf(v, m, w, n, s) ==
    /\ n \in Nat /\ m \in Nat /\ s \in Nat /\ s + m <= n
    /\ \A i \in 1..n : w[i] \in Int
    /\ \A i \in 1..m : v[i] = w[i + s]

\* The sums of one sequence, from the place where the other begins in it, are
\* those of the other.
LEMMA SumsAgree ==
    ASSUME NEW n, NEW m, NEW s, NEW w, NEW v, PartOf(v, m, w, n, s),
           NEW g, Adds(g, w, n), g[s] \in Int, NEW h, Adds(h, v, m)
    PROVE  \A k \in 0..m : h[k] \in Int /\ g[k + s] = g[s] + h[k]
<1>0. /\ n \in Nat /\ m \in Nat /\ s \in Nat /\ s + m <= n
      /\ \A i \in 1..n : w[i] \in Int
      /\ \A i \in 1..m : v[i] = w[i + s]
    BY DEF PartOf
<1> DEFINE Good(k) == h[k] \in Int /\ g[k + s] = g[s] + h[k]
           Bad == {k \in 0..m : ~Good(k)}
<1>1. Good(0)
    BY <1>0 DEF Adds
<1>2. ASSUME NEW k \in 0..m - 1, Good(k)
      PROVE  Good(k + 1)
    <2>1. k + 1 \in 1..m /\ (k + 1) + s \in 1..n /\ ((k + 1) + s) - 1 = k + s /\ (k + 1) - 1 = k
        BY <1>0
    <2>2. v[k + 1] = w[(k + 1) + s] /\ v[k + 1] \in Int
        BY <1>0, <2>1
    <2>3. h[k + 1] = h[k] + v[k + 1]
        BY <2>1 DEF Adds
    <2>4. g[(k + 1) + s] = g[k + s] + w[(k + 1) + s]
        BY <2>1 DEF Adds
    <2>5. \A a, b, c, d, e, f : /\ a \in Int /\ b \in Int /\ c \in Int
                                /\ d = a + b /\ e = f + b /\ f = c + a
                                => d \in Int /\ e = c + d
        OBVIOUS
    <2> QED
        BY <1>2, <2>2, <2>3, <2>4, <2>5
<1> HIDE DEF Good
<1>3. Bad = {}
    <2> SUFFICES ASSUME Bad # {} PROVE FALSE
        OBVIOUS
    <2>0. Bad \subseteq Nat
        BY <1>0
    <2>1. PICK x \in Bad : \A y \in Bad : ~(<<y, x>> \in OpToRel(<, Nat))
        BY <2>0, NatLessThanWellFounded, WFMin
    <2>2. \A y \in Bad : ~(y < x)
        BY <2>0, <2>1, Zenon DEF OpToRel
    <2>3. x \in 0..m /\ x # 0 /\ ~Good(x)
        BY <1>1
    <2>4. x - 1 \in 0..m - 1 /\ x - 1 \in 0..m /\ (x - 1) + 1 = x /\ x - 1 < x
        BY <1>0, <2>3
    <2>5. Good(x - 1)
        BY <2>2, <2>4
    <2> QED
        BY <1>2, <2>3, <2>4, <2>5
<1> QED
    BY <1>3 DEF Good

\* Nothing adds up to nothing.
LEMMA SumOfNone ==
    ASSUME NEW w \in Seq(Int), Len(w) = 0
    PROVE  SumOf(w) = 0
BY SumIsLast DEF Adds

\* One more at the end
LEMMA SumOfMore ==
    ASSUME NEW w \in Seq(Int), NEW v \in Seq(Int), Len(w) = Len(v) + 1,
           \A i \in 1..Len(v) : v[i] = w[i]
    PROVE  SumOf(w) = SumOf(v) + w[Len(w)] /\ SumOf(v) \in Int
<1>0. PICK n, m : n = Len(w) /\ m = Len(v)
    BY Zenon
<1>1. PICK g : SumOf(w) = g[n] /\ Adds(g, w, n)
    BY <1>0, SumIsLast, Zenon
<1>2. PICK h : SumOf(v) = h[m] /\ Adds(h, v, m)
    BY <1>0, SumIsLast, Zenon
<1>3. /\ n \in Nat /\ m \in Nat /\ n = m + 1 /\ (\A i \in 1..n : w[i] \in Int) /\ 0 \in Nat
      /\ 0 + m <= n /\ m \in 0..m /\ n \in 1..n /\ n - 1 = m /\ m + 0 = m
    BY <1>0
<1>4. \A i \in 1..m : v[i] = w[i + 0]
    BY <1>0, <1>3
<1>5. g[0] \in Int /\ g[0] = 0
    BY <1>1 DEF Adds
<1>6. \A k \in 0..m : h[k] \in Int /\ g[k + 0] = g[0] + h[k]
    <2>1. PartOf(v, m, w, n, 0)
        BY <1>3, <1>4 DEF PartOf
    <2> QED
        BY <1>1, <1>2, <1>5, <2>1, SumsAgree
<1>7. h[m] \in Int /\ g[m + 0] = g[0] + h[m]
    BY <1>3, <1>6, Zenon
<1>8. g[n] = g[m] + w[n]
    BY <1>1, <1>3 DEF Adds
<1> QED
    BY <1>0, <1>1, <1>2, <1>3, <1>5, <1>7, <1>8

\* One less at the beginning
LEMMA SumOfFewer ==
    ASSUME NEW w \in Seq(Int), NEW v \in Seq(Int), Len(w) = Len(v) + 1,
           \A i \in 1..Len(v) : v[i] = w[i + 1]
    PROVE  SumOf(w) = w[1] + SumOf(v) /\ SumOf(v) \in Int
<1>0. PICK n, m : n = Len(w) /\ m = Len(v)
    BY Zenon
<1>1. PICK g : SumOf(w) = g[n] /\ Adds(g, w, n)
    BY <1>0, SumIsLast, Zenon
<1>2. PICK h : SumOf(v) = h[m] /\ Adds(h, v, m)
    BY <1>0, SumIsLast, Zenon
<1>3. /\ n \in Nat /\ m \in Nat /\ n = m + 1 /\ (\A i \in 1..n : w[i] \in Int) /\ 1 \in Nat
      /\ 1 + m <= n /\ m \in 0..m /\ 1 \in 1..n /\ 1 - 1 = 0 /\ w[1] \in Int
    BY <1>0
<1>4. \A i \in 1..m : v[i] = w[i + 1]
    BY <1>0
<1>5. g[1] = w[1] /\ g[1] \in Int
    BY <1>1, <1>3 DEF Adds
<1>6. \A k \in 0..m : h[k] \in Int /\ g[k + 1] = g[1] + h[k]
    <2>1. PartOf(v, m, w, n, 1)
        BY <1>3, <1>4 DEF PartOf
    <2> QED
        BY <1>1, <1>2, <1>5, <2>1, SumsAgree
<1>7. h[m] \in Int /\ g[m + 1] = g[1] + h[m]
    BY <1>3, <1>6, Zenon
<1> QED
    BY <1>1, <1>2, <1>3, <1>5, <1>7

\* The reports of a device have these identifiers.
IdsOf(d) == IF d = "keyboard" THEN {1, 2} ELSE {0}

\* Every report has as many bits as the descriptor of its device describes.
LEMMA LengthAsDescribed ==
    ASSUME NEW d \in Hids, NEW id \in IdsOf(d)
    PROVE  DescribedBits(d, id) = 8 * ReportBytes(d, id)
<1>1. ASSUME NEW w \in Seq(Int)
      PROVE  /\ Len(w) = 2 => SumOf(w) = w[1] + w[2]
             /\ Len(w) = 3 => SumOf(w) = w[1] + w[2] + w[3]
             /\ Len(w) = 4 => SumOf(w) = w[1] + w[2] + w[3] + w[4]
             /\ Len(w) = 6 => SumOf(w) = w[1] + w[2] + w[3] + w[4] + w[5] + w[6]
    <2>1. PICK g : SumOf(w) = g[Len(w)] /\ Adds(g, w, Len(w))
        BY SumIsLast
    <2>2. Len(w) >= 1 => g[1] = w[1]
        BY <2>1 DEF Adds
    <2>3. Len(w) >= 2 => g[2] = w[1] + w[2]
        BY <2>1, <2>2 DEF Adds
    <2>4. Len(w) >= 3 => g[3] = w[1] + w[2] + w[3]
        BY <2>1, <2>3 DEF Adds
    <2>5. Len(w) >= 4 => g[4] = w[1] + w[2] + w[3] + w[4]
        BY <2>1, <2>4 DEF Adds
    <2>6. Len(w) >= 5 => g[5] = w[1] + w[2] + w[3] + w[4] + w[5]
        BY <2>1, <2>5 DEF Adds
    <2>7. Len(w) >= 6 => g[6] = w[1] + w[2] + w[3] + w[4] + w[5] + w[6]
        BY <2>1, <2>6 DEF Adds
    <2>8. \A n \in {2, 3, 4, 6} : Len(w) = n => SumOf(w) = g[n] /\ Len(w) >= n
        BY <2>1
    <2> QED
        BY <2>3, <2>4, <2>5, <2>7, <2>8
<1>2. PICK items : items = Descriptor(d, id)
    BY Zenon
<1>3. PICK w : w = [i \in 1..Len(items) |-> items[i][1] * items[i][2]]
    BY Zenon
<1>4. DescribedBits(d, id) = SumOf(w)
    BY <1>2, <1>3, Zenon DEF DescribedBits
<1>5. CASE d = "keyboard" /\ id = 1
    <2>1. items = <<<<1, 8>>, <<8, 1>>, <<1, 8>>, <<6, 8>>>>
        BY <1>2, <1>5 DEF Descriptor, KeyboardDescriptor
    <2>2. Len(items) = 4 /\ items[1] = <<1, 8>> /\ items[2] = <<8, 1>> /\ items[3] = <<1, 8>> /\ items[4] = <<6, 8>>
        BY <2>1
    <2>3. w[1] = 8 /\ w[2] = 8 /\ w[3] = 8 /\ w[4] = 48 /\ w \in Seq(Int) /\ Len(w) = 4
        BY <1>3, <2>2
    <2> QED
        BY <1>1, <1>4, <1>5, <2>3 DEF ReportBytes
<1>6. CASE d = "keyboard" /\ id = 2
    <2>1. items = <<<<1, 8>>, <<1, 16>>>>
        BY <1>2, <1>6 DEF Descriptor, KeyboardDescriptor
    <2>2. Len(items) = 2 /\ items[1] = <<1, 8>> /\ items[2] = <<1, 16>>
        BY <2>1
    <2>3. w[1] = 8 /\ w[2] = 16 /\ w \in Seq(Int) /\ Len(w) = 2
        BY <1>3, <2>2
    <2> QED
        BY <1>1, <1>4, <1>6, <2>3 DEF ReportBytes
<1>7. CASE d = "gamepad"
    <2>1. items = <<<<16, 1>>, <<1, 8>>, <<4, 16>>>>
        BY <1>2, <1>7 DEF Descriptor, GamepadDescriptor
    <2>2. Len(items) = 3 /\ items[1] = <<16, 1>> /\ items[2] = <<1, 8>> /\ items[3] = <<4, 16>>
        BY <2>1
    <2>3. w[1] = 16 /\ w[2] = 8 /\ w[3] = 64 /\ w \in Seq(Int) /\ Len(w) = 3
        BY <1>3, <2>2
    <2> QED
        BY <1>1, <1>4, <1>7, <2>3 DEF ReportBytes
<1>8. CASE d = "digitizer"
    <2>1. items = <<<<1, 1>>, <<1, 1>>, <<1, 6>>, <<1, 16>>, <<1, 16>>, <<1, 8>>>>
        BY <1>2, <1>8 DEF Descriptor, DigitizerDescriptor
    <2>2. /\ Len(items) = 6 /\ items[1] = <<1, 1>> /\ items[2] = <<1, 1>> /\ items[3] = <<1, 6>>
          /\ items[4] = <<1, 16>> /\ items[5] = <<1, 16>> /\ items[6] = <<1, 8>>
        BY <2>1
    <2>3. /\ w[1] = 1 /\ w[2] = 1 /\ w[3] = 6 /\ w[4] = 16 /\ w[5] = 16 /\ w[6] = 8
          /\ w \in Seq(Int) /\ Len(w) = 6
        BY <1>3, <2>2
    <2> QED
        BY <1>1, <1>4, <1>8, <2>3 DEF ReportBytes
<1>9. CASE d = "relative"
    <2>1. items = <<<<5, 1>>, <<1, 3>>, <<2, 16>>, <<1, 8>>>>
        BY <1>2, <1>9 DEF Descriptor, RelativeDescriptor
    <2>2. Len(items) = 4 /\ items[1] = <<5, 1>> /\ items[2] = <<1, 3>> /\ items[3] = <<2, 16>> /\ items[4] = <<1, 8>>
        BY <2>1
    <2>3. w[1] = 5 /\ w[2] = 3 /\ w[3] = 32 /\ w[4] = 8 /\ w \in Seq(Int) /\ Len(w) = 4
        BY <1>3, <2>2
    <2> QED
        BY <1>1, <1>4, <1>9, <2>3 DEF ReportBytes
<1>10. CASE d = "absolute"
    <2>1. items = <<<<3, 1>>, <<5, 1>>, <<2, 16>>, <<1, 8>>>>
        BY <1>2, <1>10 DEF Descriptor, AbsoluteDescriptor
    <2>2. Len(items) = 4 /\ items[1] = <<3, 1>> /\ items[2] = <<5, 1>> /\ items[3] = <<2, 16>> /\ items[4] = <<1, 8>>
        BY <2>1
    <2>3. w[1] = 3 /\ w[2] = 5 /\ w[3] = 32 /\ w[4] = 8 /\ w \in Seq(Int) /\ Len(w) = 4
        BY <1>3, <2>2
    <2> QED
        BY <1>1, <1>4, <1>10, <2>3 DEF ReportBytes
<1> QED
    BY <1>5, <1>6, <1>7, <1>8, <1>9, <1>10 DEF Hids, IdsOf

\* Of the reports q none, or i as the last one, has identifier k.
NoneQueued(q, k) == \A i \in 1..Len(q) : q[i].id # k
LastQueued(q, k, i) == i \in 1..Len(q) /\ q[i].id = k /\ \A j \in i + 1..Len(q) : q[j].id # k

\* When the host has read q, the report with identifier k that it shows is r;
\* or it has seen none.
Told(q, shown, k, r) ==
    \/ \E i \in 1..Len(q) : LastQueued(q, k, i) /\ q[i] = r
    \/ NoneQueued(q, k) /\ k \in DOMAIN shown /\ shown[k] = r
Untold(q, shown, k) == NoneQueued(q, k) /\ k \notin DOMAIN shown

\* Reading a report changes nothing of that.
LEMMA ReadingTells ==
    ASSUME NEW S, NEW q \in Seq(S), q # <<>>, NEW shown, NEW k, NEW r
    PROVE  /\ Told(q, shown, k, r) => Told(Tail(q), Shown(shown, Head(q)), k, r)
           /\ Untold(q, shown, k) => Untold(Tail(q), Shown(shown, Head(q)), k)
<1>1. PICK t : t = Tail(q)
    BY Zenon
<1>2. PICK h : h = Head(q)
    BY Zenon
<1>3. /\ h = q[1] /\ Len(q) \in Nat \ {0} /\ Len(t) = Len(q) - 1 /\ Len(t) \in Nat
      /\ \A i \in 1..Len(t) : t[i] = q[i + 1]
    BY <1>1, <1>2
<1>4. PICK s : s = Shown(shown, h)
    BY Zenon
<1>5. /\ DOMAIN s = DOMAIN shown \cup {h.id} /\ s[h.id] = h
      /\ \A j \in DOMAIN shown : j # h.id => s[j] = shown[j]
    BY <1>4 DEF Shown
<1>6. ASSUME NoneQueued(q, k) PROVE NoneQueued(t, k) /\ h.id # k
    BY <1>3, <1>6 DEF NoneQueued
<1>7. ASSUME NEW i \in 1..Len(q), LastQueued(q, k, i), q[i] = r PROVE Told(t, s, k, r)
    <2>1. CASE i = 1
        <3>1. NoneQueued(t, k)
            <4>1. ASSUME NEW j \in 1..Len(t) PROVE t[j].id # k
                <5>1. j + 1 \in i + 1..Len(q) /\ t[j] = q[j + 1]
                    BY <1>3, <2>1
                <5> QED
                    BY <1>7, <5>1 DEF LastQueued
            <4> QED
                BY <4>1 DEF NoneQueued
        <3>2. h = r /\ h.id = k
            BY <1>3, <1>7, <2>1 DEF LastQueued
        <3> QED
            BY <1>5, <3>1, <3>2 DEF Told
    <2>2. CASE i # 1
        <3>1. i - 1 \in 1..Len(t) /\ t[i - 1] = q[i]
            BY <1>3, <2>2
        <3>2. ASSUME NEW j \in (i - 1) + 1..Len(t) PROVE t[j].id # k
            <4>1. j + 1 \in i + 1..Len(q) /\ t[j] = q[j + 1]
                BY <1>3, <2>2
            <4> QED
                BY <1>7, <4>1 DEF LastQueued
        <3>3. LastQueued(t, k, i - 1)
            BY <1>7, <3>1, <3>2 DEF LastQueued
        <3> QED
            BY <1>7, <3>1, <3>3 DEF Told
    <2> QED
        BY <2>1, <2>2
<1>8. Told(q, shown, k, r) => Told(t, s, k, r)
    BY <1>5, <1>6, <1>7 DEF Told
<1>9. Untold(q, shown, k) => Untold(t, s, k)
    BY <1>5, <1>6 DEF Untold
<1> QED
    BY <1>1, <1>2, <1>4, <1>8, <1>9

\* The last report queued is what the host will show.
LEMMA LastTells ==
    ASSUME NEW q, NEW n \in Nat \ {0}, Len(q) = n, NEW shown
    PROVE  Told(q, shown, q[n].id, q[n])
<1>1. n \in 1..Len(q) /\ LastQueued(q, q[n].id, n)
    BY DEF LastQueued
<1> QED
    BY <1>1 DEF Told

\* A report with another identifier changes nothing.
LEMMA OtherTells ==
    ASSUME NEW S, NEW q \in Seq(S), NEW x, NEW k, x.id # k, NEW shown, NEW r,
           NEW p, Len(p) = Len(q) + 1, p[Len(p)] = x, \A i \in 1..Len(q) : p[i] = q[i]
    PROVE  /\ Told(q, shown, k, r) => Told(p, shown, k, r)
           /\ Untold(q, shown, k) => Untold(p, shown, k)
<1>0. PICK n : n = Len(q)
    BY Zenon
<1>1. n \in Nat /\ Len(p) = n + 1 /\ p[n + 1] = x /\ \A i \in 1..n : p[i] = q[i]
    BY <1>0
<1>2. NoneQueued(q, k) => NoneQueued(p, k)
    BY <1>0, <1>1 DEF NoneQueued
<1>3. ASSUME NEW i \in 1..n, LastQueued(q, k, i)
      PROVE  i \in 1..Len(p) /\ LastQueued(p, k, i) /\ p[i] = q[i]
    BY <1>0, <1>1, <1>3 DEF LastQueued
<1> QED
    BY <1>0, <1>2, <1>3 DEF Told, Untold

\* send_input_report for the reports rs: the last of them is the last in the
\* channel, whatever is dropped, and if nothing is dropped they follow the others.
LEMMA ReportsJoin ==
    ASSUME NEW S, reports \in Seq(S), NEW rs \in Seq(S), SendInputReports(rs)
    PROVE  /\ Len(reports') \in Nat
           /\ Len(rs) > 0 => Len(reports') > 0 /\ reports'[Len(reports')] = rs[Len(rs)]
           /\ ~evicted' => ~evicted /\ reports' = reports \o rs
           /\ \A i \in 1..Len(reports') : \/ \E j \in 1..Len(rs) : reports'[i] = rs[j]
                                          \/ \E j \in 1..Len(reports) : reports'[i] = reports[j]
<1>1. PICK all : all = reports \o rs
    BY Zenon
<1>2. PICK n, m : n = Len(reports) /\ m = Len(rs)
    BY Zenon
<1>3. /\ n \in Nat /\ m \in Nat /\ Len(all) = n + m /\ all \in Seq(S)
      /\ \A i \in 1..n : all[i] = reports[i]
      /\ \A i \in n + 1..n + m : all[i] = rs[i - n]
    BY <1>1, <1>2
<1>4. MaxReports \in Nat \ {0}
    BY InputAssumption DEF InputAssumption
<1>5. PICK k : k = Len(all)
    BY Zenon
<1>6. PICK drop : drop = IF k > MaxReports THEN k - MaxReports ELSE 0
    BY Zenon
<1>7. reports' = SubSeq(all, drop + 1, k) /\ (evicted => evicted') /\ (drop > 0 => evicted')
    <2>1. evicted' = (evicted \/ drop > 0) /\ reports' = SubSeq(all, drop + 1, k)
        BY <1>1, <1>5, <1>6, Zenon DEF SendInputReports
    <2> QED
        BY <2>1, Zenon
<1>8. k = n + m /\ drop \in 0..k /\ (m > 0 => drop < k)
    BY <1>3, <1>4, <1>5, <1>6
<1>9. PICK p : p = reports'
    BY Zenon
<1>10. p = [i \in 1..(k - drop) |-> all[i + drop]]
    BY <1>3, <1>5, <1>7, <1>8, <1>9
<1>11. Len(p) = k - drop /\ \A i \in 1..k - drop : p[i] = all[i + drop]
    BY <1>3, <1>8, <1>10
<1>12. Len(p) \in Nat /\ (m > 0 => Len(p) > 0 /\ p[Len(p)] = rs[m])
    <2>1. ASSUME m > 0 PROVE Len(p) > 0 /\ p[Len(p)] = rs[m]
        <3>1. k - drop \in 1..k - drop /\ (k - drop) + drop = k /\ k \in n + 1..n + m /\ k - n = m
            BY <1>3, <1>8, <2>1
        <3> QED
            BY <1>3, <1>11, <3>1
    <2> QED
        BY <1>3, <1>8, <1>11, <2>1
<1>13. drop = 0 => p = all
    BY <1>3, <1>5, <1>8, <1>10
<1>14. \A i \in 1..Len(p) : \/ \E j \in 1..m : p[i] = rs[j]
                            \/ \E j \in 1..n : p[i] = reports[j]
    <2> TAKE i \in 1..Len(p)
    <2>0. i \in 1..k - drop /\ p[i] = all[i + drop]
        BY <1>11
    <2>1. i + drop \in 1..n + m /\ p[i] = all[i + drop]
        BY <1>3, <1>8, <2>0
    <2>2. CASE i + drop \in 1..n
        BY <1>3, <2>1, <2>2
    <2>3. CASE i + drop \in n + 1..n + m
        <3>1. (i + drop) - n \in 1..m /\ p[i] = rs[(i + drop) - n]
            BY <1>3, <1>8, <2>1, <2>3
        <3> QED
            BY <3>1
    <2> QED
        BY <1>3, <2>1, <2>2, <2>3
<1>15. ~evicted' => ~evicted /\ drop = 0
    BY <1>7, <1>8
<1> QED
    BY <1>1, <1>2, <1>9, <1>12, <1>13, <1>14, <1>15

\* No report tells no motion.
LEMMA NoMotion ==
    ASSUME NEW a
    PROVE  MotionIn(a, <<>>) = 0
<1>1. PICK w : w = [i \in 1..Len(<<>>) |-> <<>>[i].rel[a]]
    BY Zenon
<1>2. w \in Seq(Int) /\ Len(w) = 0
    BY <1>1
<1> QED
    BY <1>1, <1>2, SumOfNone DEF MotionIn

\* One more report at the end adds its motion.
LEMMA MotionJoins ==
    ASSUME NEW a, NEW n \in Nat, NEW q, Len(q) = n, NEW p, Len(p) = n + 1,
           \A i \in 1..n + 1 : p[i].rel[a] \in Int, \A i \in 1..n : p[i] = q[i]
    PROVE  /\ MotionIn(a, q) \in Int
           /\ MotionIn(a, p) = MotionIn(a, q) + p[n + 1].rel[a]
<1>1. PICK w : w = [i \in 1..Len(p) |-> p[i].rel[a]]
    BY Zenon
<1>2. PICK v : v = [i \in 1..Len(q) |-> q[i].rel[a]]
    BY Zenon
<1>3. MotionIn(a, p) = SumOf(w) /\ MotionIn(a, q) = SumOf(v)
    BY <1>1, <1>2, Zenon DEF MotionIn
<1>4. w \in Seq(Int) /\ Len(w) = n + 1 /\ w[n + 1] = p[n + 1].rel[a]
    BY <1>1
<1>5. v \in Seq(Int) /\ Len(v) = n
    BY <1>2
<1>6. \A i \in 1..Len(v) : v[i] = w[i]
    BY <1>1, <1>2, <1>5
<1> QED
    BY <1>3, <1>4, <1>5, <1>6, SumOfMore

\* One less at the beginning takes its motion away.
LEMMA MotionLeaves ==
    ASSUME NEW a, NEW n \in Nat, NEW q, Len(q) = n, NEW p, Len(p) = n + 1,
           \A i \in 1..n + 1 : p[i].rel[a] \in Int, \A i \in 1..n : q[i] = p[i + 1]
    PROVE  /\ MotionIn(a, q) \in Int
           /\ MotionIn(a, p) = p[1].rel[a] + MotionIn(a, q)
<1>1. PICK w : w = [i \in 1..Len(p) |-> p[i].rel[a]]
    BY Zenon
<1>2. PICK v : v = [i \in 1..Len(q) |-> q[i].rel[a]]
    BY Zenon
<1>3. MotionIn(a, p) = SumOf(w) /\ MotionIn(a, q) = SumOf(v)
    BY <1>1, <1>2, Zenon DEF MotionIn
<1>4. w \in Seq(Int) /\ Len(w) = n + 1 /\ w[1] = p[1].rel[a]
    BY <1>1
<1>5. v \in Seq(Int) /\ Len(v) = n
    BY <1>2
<1>6. \A i \in 1..Len(v) : v[i] = w[i + 1]
  <2> SUFFICES ASSUME NEW i \in 1..n PROVE v[i] = w[i + 1]
      BY <1>5
  <2>1. v[i] = q[i].rel[a]
      BY <1>2
  <2>2. i + 1 \in 1..Len(p)
      OBVIOUS
  <2>3. w[i + 1] = p[i + 1].rel[a]
      BY <1>1, <2>2, Zenon
  <2> QED
      BY <2>1, <2>3
<1> QED
    BY <1>3, <1>4, <1>5, <1>6, SumOfFewer

\* The report that shows the state, what it shows of state s, and what is
\* cleared in s when it is sent.
MainId(d) == IF d = "keyboard" THEN 1 ELSE 0
Depicts(d, s, r) ==
    CASE d = "keyboard"  -> r = KeyReport(s)
      [] d = "gamepad"   -> r = PadReport(s)
      [] d = "digitizer" -> r = TouchReport(s)
      [] d = "relative"  -> r.buttons = s.buttons
      [] d = "absolute"  -> r.buttons = s.buttons /\ r.at = s.at
Cleared(d, s) ==
    CASE d = "keyboard" -> s.media = 0
      [] d = "relative" -> s.rel = Still
      [] d = "absolute" -> s.wheel = 0
      [] OTHER          -> TRUE

\* The state that was reported last; the absolute mouse keeps no copy of it.
Reported == IF hid = "absolute" THEN state_now ELSE state_last
Knows ==
    \/ \E r : Told(reports, screen.shown, MainId(hid), r) /\ Depicts(hid, Reported, r)
    \/ /\ hid # "absolute" /\ state_last = Blank(hid)
       /\ Untold(reports, screen.shown, MainId(hid))

\* While a client is there the host has been told, or will be by what is
\* queued, of the state reported last, unless a keyboard report was dropped.
HidTold ==
    (hconn \in {"on", "stopping"} /\ (hid = "absolute" => ~touched)) =>
        Cleared(hid, Reported) /\ ((hid = "keyboard" => ~evicted) => Knows)
HidMotion ==
    hid = "relative" =>
        /\ state_now.rel \in [Axes -> Int] /\ screen.motion \in [Axes -> Int] /\ moved \in [Axes -> Int]
        /\ \A i \in 1..Len(reports) : reports[i].rel \in [Axes -> Int]
HidIds == \A i \in 1..Len(reports) : reports[i].id \in IdsOf(hid)
HidInv == HidTold /\ HidMotion /\ HidIds /\ MotionConserved

\* A turn of a device with one report
LEMMA OneReport ==
    ASSUME NEW d \in Hids, d # "keyboard", NEW s, DOMAIN s = DOMAIN Blank(d), NEW l
    PROVE  \E x : /\ ReportsOf(d, s, l) = <<x>> /\ x.id = 0
                  /\ Depicts(d, AfterReport(d, s), x) /\ Cleared(d, AfterReport(d, s))
                  /\ d = "relative" => x.rel = s.rel /\ AfterReport(d, s).rel = Still
<1>1. CASE d = "gamepad"
    <2>1. ReportsOf(d, s, l) = <<PadReport(s)>> /\ AfterReport(d, s) = s
        BY <1>1 DEF ReportsOf, AfterReport
    <2>2. PadReport(s).id = 0
        BY DEF PadReport
    <2> QED
        BY <1>1, <2>1, <2>2 DEF Depicts, Cleared
<1>2. CASE d = "digitizer"
    <2>1. ReportsOf(d, s, l) = <<TouchReport(s)>> /\ AfterReport(d, s) = s
        BY <1>2 DEF ReportsOf, AfterReport
    <2>2. TouchReport(s).id = 0
        BY DEF TouchReport
    <2> QED
        BY <1>2, <2>1, <2>2 DEF Depicts, Cleared
<1>3. CASE d = "relative"
    <2>1. ReportsOf(d, s, l) = <<RelativeReport(s)>> /\ AfterReport(d, s) = [s EXCEPT !.rel = Still]
        BY <1>3 DEF ReportsOf, AfterReport
    <2>2. DOMAIN s = {"buttons", "rel"}
        BY <1>3 DEF Blank
    <2>3. AfterReport(d, s).rel = Still /\ AfterReport(d, s).buttons = s.buttons
        BY <2>1, <2>2
    <2>4. RelativeReport(s).id = 0 /\ RelativeReport(s).buttons = s.buttons /\ RelativeReport(s).rel = s.rel
        BY DEF RelativeReport
    <2> QED
        BY <1>3, <2>1, <2>3, <2>4 DEF Depicts, Cleared
<1>4. CASE d = "absolute"
    <2>1. ReportsOf(d, s, l) = <<AbsoluteReport(s)>> /\ AfterReport(d, s) = [s EXCEPT !.wheel = 0]
        BY <1>4 DEF ReportsOf, AfterReport
    <2>2. DOMAIN s = {"buttons", "at", "wheel"}
        BY <1>4 DEF Blank
    <2>3. AfterReport(d, s).wheel = 0 /\ AfterReport(d, s).buttons = s.buttons /\ AfterReport(d, s).at = s.at
        BY <2>1, <2>2
    <2>4. AbsoluteReport(s).id = 0 /\ AbsoluteReport(s).buttons = s.buttons /\ AbsoluteReport(s).at = s.at
        BY DEF AbsoluteReport
    <2> QED
        BY <1>4, <2>1, <2>3, <2>4 DEF Depicts, Cleared
<1> QED
    BY <1>1, <1>2, <1>3, <1>4 DEF Hids

\* The host has at the end what holds when the sender sleeps.
LEMMA SleepingTells == InputInv /\ HidInv => HostSeesDevice
<1> SUFFICES ASSUME InputInv, HidInv, sender = "asleep", reports = <<>> PROVE HostSeesDevice
    BY DEF HostSeesDevice
<1>1. hconn \in {"on", "stopping"} /\ ~Changed /\ hid \in Hids /\ DOMAIN state_now = DOMAIN Blank(hid)
    BY DEF InputInv, InputTypeOK, NoSleepingSender
<1>2. (hid = "absolute" => ~touched) /\ Reported = state_now /\ (hid # "absolute" => state_last = state_now)
    BY <1>1 DEF Changed, Reported
<1>3. Cleared(hid, state_now) /\ ((hid = "keyboard" => ~evicted) => Knows)
    BY <1>1, <1>2 DEF HidInv, HidTold
<1>4. \A k, r : Told(reports, screen.shown, k, r) => k \in DOMAIN screen.shown /\ screen.shown[k] = r
    BY DEF Told
<1>5. \A k : Untold(reports, screen.shown, k) => Unseen(k)
    BY DEF Untold, Unseen
<1>6. (hid = "keyboard" => ~evicted) =>
          \/ \E k \in DOMAIN screen.shown : Depicts(hid, state_now, screen.shown[k])
          \/ hid # "absolute" /\ state_now = Blank(hid) /\ Unseen(MainId(hid))
    BY <1>2, <1>3, <1>4, <1>5 DEF Knows
<1>7. CASE hid = "keyboard"
    <2>1. state_now.media = 0
        BY <1>3, <1>7 DEF Cleared
    <2>2. ~evicted => Shows(KeyReport(state_now)) \/ (Unseen(1) /\ state_now = Blank(hid))
        BY <1>6, <1>7 DEF Depicts, Shows, MainId
    <2> QED
        BY <1>7, <2>1, <2>2 DEF HostSeesDevice
<1>8. CASE hid = "gamepad"
    BY <1>6, <1>8 DEF Depicts, Shows, MainId, HostSeesDevice
<1>9. CASE hid = "digitizer"
    BY <1>6, <1>9 DEF Depicts, Shows, MainId, HostSeesDevice
<1>10. CASE hid = "relative"
    BY <1>3, <1>6, <1>10 DEF Depicts, Cleared, MainId, HostSeesDevice
<1>11. CASE hid = "absolute"
    BY <1>3, <1>6, <1>11 DEF Depicts, Cleared, MainId, HostSeesDevice
<1> QED
    BY <1>1, <1>7, <1>8, <1>9, <1>10, <1>11 DEF Hids

\* The lengths
LEMMA IdsDescribe == InputInv /\ HidInv => ReportsAsDescribed
<1> SUFFICES ASSUME InputInv, HidInv, NEW i \in DOMAIN reports
             PROVE  DescribedBits(hid, reports[i].id) = 8 * ReportBytes(hid, reports[i].id)
    BY DEF ReportsAsDescribed
<1>1. PICK S : reports \in Seq(S)
    BY DEF InputInv, Listed
<1>2. reports[i].id \in IdsOf(hid)
    BY <1>1 DEF HidInv, HidIds
<1> QED
    BY <1>2, LengthAsDescribed DEF InputInv

\* No report, no motion, and the host knows the state it starts from.
LEMMA HidInit == InputInit => HidInv
<1> SUFFICES ASSUME InputInit PROVE HidInv
    OBVIOUS
<1>1. hconn = "off" /\ reports = <<>> /\ state_now = Blank(hid) /\ screen.motion = Still /\ moved = Still
    BY DEF InputInit
<1>2. HidTold /\ MotionConserved
    BY <1>1 DEF HidTold, MotionConserved
<1>3. HidIds
    BY <1>1 DEF HidIds
<1>4. HidMotion
    <2>1. Still \in [Axes -> Int]
        BY DEF Still
    <2>2. hid = "relative" => state_now.rel = Still
        BY <1>1 DEF Blank
    <2> QED
        BY <1>1, <2>1, <2>2 DEF HidMotion
<1> QED
    BY <1>2, <1>3, <1>4 DEF HidInv

\* on_new_connection starts with a host that has seen nothing.
LEMMA HidStarts ==
    ASSUME InputInv, HidInv, InputStart
    PROVE  HidInv'
<1>1. /\ hconn = "announced" /\ hconn' = "on" /\ hid' = hid /\ reports' = reports
      /\ screen' = [shown |-> <<>>, motion |-> Still] /\ moved' = Still
      /\ hid = "absolute" => touched' = TRUE
      /\ hid # "absolute" => state_now' = Blank(hid) /\ state_last' = Blank(hid)
    BY DEF InputStart
<1>2. reports = <<>> /\ hid \in Hids
    BY <1>1 DEF InputInv, InputTypeOK
<1>3. Still \in [Axes -> Int] /\ \A a \in Axes : Still[a] = 0
    BY DEF Still
<1>4. hid = "relative" => state_now'.rel = Still
    BY <1>1 DEF Blank
<1>5. HidIds' /\ HidMotion'
    BY <1>1, <1>2, <1>3, <1>4 DEF HidIds, HidMotion
<1>6. HidTold'
    <2>1. CASE hid = "absolute"
        BY <1>1, <2>1, Zenon DEF HidTold
    <2>2. CASE hid # "absolute"
        <3>1. Cleared(hid, Blank(hid))
            BY <1>2 DEF Cleared, Blank, Hids
        <3>2. Reported' = Blank(hid)
            BY <1>1, <2>2, Zenon DEF Reported
        <3>3. Untold(reports', screen'.shown, MainId(hid'))
            BY <1>1, <1>2 DEF Untold, NoneQueued
        <3>4. Knows'
            BY <1>1, <2>2, <3>3, Zenon DEF Knows
        <3> QED
            BY <1>1, <3>1, <3>2, <3>4, Zenon DEF HidTold
    <2> QED
        BY <2>1, <2>2
<1>7. MotionConserved'
    <2>1. ASSUME hid = "relative", NEW a \in Axes
          PROVE  screen'.motion[a] + MotionIn(a, reports') + state_now'.rel[a] = moved'[a]
        <3>1. MotionIn(a, reports') = 0
            BY <1>1, <1>2, NoMotion
        <3>2. screen'.motion = Still /\ moved' = Still /\ state_now'.rel = Still
            BY <1>1, <1>4, <2>1
        <3>3. screen'.motion[a] = 0 /\ moved'[a] = 0 /\ state_now'.rel[a] = 0
            BY <1>3, <2>1, <3>2, Zenon
        <3> QED
            BY <3>1, <3>3
    <2> QED
        BY <1>1, <2>1, Zenon DEF MotionConserved
<1> QED
    BY <1>5, <1>6, <1>7, Zenon DEF HidInv

\* What the host reads it shows, and it has been told the same.
LEMMA HidReads ==
    ASSUME InputInv, HidInv, HostReads
    PROVE  HidInv'
<1>1. /\ reports # <<>> /\ reports' = Tail(reports) /\ hid' = hid /\ hconn' = hconn
      /\ touched' = touched /\ state_now' = state_now /\ state_last' = state_last
      /\ moved' = moved /\ evicted' = evicted
      /\ screen'.shown = Shown(screen.shown, Head(reports))
      /\ hid = "relative" => screen'.motion = [a \in Axes |-> screen.motion[a] + Head(reports).rel[a]]
    BY DEF HostReads
<1>2. PICK S : reports \in Seq(S)
    BY DEF InputInv, Listed
<1>3. PICK q, t : q = reports /\ t = Tail(reports)
    BY Zenon
<1>4. PICK n : n = Len(t)
    BY Zenon
<1>5. /\ q \in Seq(S) /\ n \in Nat /\ Len(q) = n + 1 /\ Head(q) = q[1]
      /\ \A i \in 1..n : t[i] = q[i + 1]
    BY <1>1, <1>2, <1>3, <1>4
<1>6. HidIds'
    BY <1>1, <1>3, <1>4, <1>5 DEF HidInv, HidIds
<1>7. HidTold'
    <2>1. Knows => Knows'
        <3>1. \A k, r : /\ Told(q, screen.shown, k, r) => Told(t, Shown(screen.shown, Head(q)), k, r)
                        /\ Untold(q, screen.shown, k) => Untold(t, Shown(screen.shown, Head(q)), k)
            BY <1>1, <1>2, <1>3, ReadingTells
        <3>2. Reported' = Reported
            BY <1>1, Zenon DEF Reported
        <3> QED
            BY <1>1, <1>3, <3>1, <3>2, Zenon DEF Knows
    <2>2. Reported' = Reported
        BY <1>1, Zenon DEF Reported
    <2> QED
        BY <1>1, <2>1, <2>2, Zenon DEF HidInv, HidTold
<1>8. ASSUME hid = "relative"
      PROVE  /\ \A i \in 1..n + 1 : q[i].rel \in [Axes -> Int]
             /\ screen.motion \in [Axes -> Int] /\ state_now.rel \in [Axes -> Int]
             /\ moved \in [Axes -> Int]
    BY <1>3, <1>5, <1>8 DEF HidInv, HidMotion
<1>9. HidMotion'
    <2>1. ASSUME hid = "relative" PROVE screen'.motion \in [Axes -> Int]
        <3>1. q[1].rel \in [Axes -> Int]
            BY <1>5, <1>8, <2>1
        <3> QED
            BY <1>1, <1>3, <1>5, <1>8, <2>1, <3>1
    <2>2. ASSUME hid = "relative", NEW i \in 1..n PROVE t[i].rel \in [Axes -> Int]
        BY <1>5, <1>8, <2>2
    <2> QED
        BY <1>1, <1>3, <1>4, <1>8, <2>1, <2>2 DEF HidMotion
<1>10. MotionConserved'
    <2>1. ASSUME hid = "relative", hconn \in {"on", "stopping"}, ~evicted, NEW a \in Axes
          PROVE  screen'.motion[a] + MotionIn(a, t) + state_now.rel[a] = moved[a]
        <3>1. screen.motion[a] + MotionIn(a, q) + state_now.rel[a] = moved[a]
            BY <1>3, <2>1 DEF HidInv, MotionConserved
        <3>2. \A i \in 1..n + 1 : q[i].rel[a] \in Int
            BY <1>8, <2>1
        <3>3. MotionIn(a, t) \in Int /\ MotionIn(a, q) = q[1].rel[a] + MotionIn(a, t)
            BY <1>4, <1>5, <3>2, MotionLeaves
        <3>4. screen'.motion[a] = screen.motion[a] + q[1].rel[a]
            BY <1>1, <1>3, <1>5, <2>1
        <3>5. screen.motion[a] \in Int /\ state_now.rel[a] \in Int /\ q[1].rel[a] \in Int
            BY <1>5, <1>8, <2>1, <3>2
        <3> QED
            BY <3>1, <3>3, <3>4, <3>5
    <2> QED
        BY <1>1, <1>3, <2>1, Zenon DEF MotionConserved
<1> QED
    BY <1>6, <1>7, <1>9, <1>10, Zenon DEF HidInv

\* p is q with x added at the end.
OneMore(p, q, x) == p = q \o <<x>> /\ \E S : q \in Seq(S) /\ x \in S

\* A report that has only been added to the channel leaves what the host has
\* been told by the others.
LEMMA OneMoreTells ==
    ASSUME NEW p, NEW q, NEW x, OneMore(p, q, x), NEW k, NEW shown
    PROVE  /\ x.id = k => Told(p, shown, k, x)
           /\ \A r : x.id # k /\ Told(q, shown, k, r) => Told(p, shown, k, r)
           /\ x.id # k /\ Untold(q, shown, k) => Untold(p, shown, k)
<1>1. PICK S : p = q \o <<x>> /\ q \in Seq(S) /\ x \in S
    BY DEF OneMore
<1>2. PICK n : n = Len(q)
    BY Zenon
<1>3. n \in Nat /\ Len(p) = n + 1 /\ p[n + 1] = x /\ \A i \in 1..n : p[i] = q[i]
    BY <1>1, <1>2
<1>4. x.id = k => Told(p, shown, k, x)
    BY <1>3, LastTells
<1>5. ASSUME NEW r, x.id # k
      PROVE  /\ Told(q, shown, k, r) => Told(p, shown, k, r)
             /\ Untold(q, shown, k) => Untold(p, shown, k)
    <2>1. Len(p) = Len(q) + 1 /\ p[Len(p)] = x /\ \A i \in 1..Len(q) : p[i] = q[i]
        BY <1>2, <1>3
    <2> QED
        BY <1>1, <1>5, <2>1, OtherTells
<1> QED
    BY <1>1, <1>4, <1>5

\* Report 1 has something new to tell.
KeysChange(s, l) == s.modifier # l.modifier \/ s.keys # l.keys

\* The reports of the keyboard: of the keys, of the media key, of both or none
LEMMA KeyboardTells ==
    ASSUME NEW s, NEW l
    PROVE  \E K, M : /\ K = KeyReport(s) /\ M = MediaReport(s) /\ K.id = 1 /\ M.id = 2
                     /\ KeysChange(s, l) /\ s.media # 0 => ReportsOf("keyboard", s, l) = <<K, M>>
                     /\ KeysChange(s, l) /\ s.media = 0 => ReportsOf("keyboard", s, l) = <<K>>
                     /\ ~KeysChange(s, l) /\ s.media # 0 => ReportsOf("keyboard", s, l) = <<M>>
                     /\ ~KeysChange(s, l) /\ s.media = 0 => ReportsOf("keyboard", s, l) = <<>>
<1>1. PICK K, M : K = KeyReport(s) /\ M = MediaReport(s)
    BY Zenon
<1>2. K.id = 1 /\ M.id = 2
    BY <1>1 DEF KeyReport, MediaReport
<1>3. ReportsOf("keyboard", s, l) = KeyboardReports(s, l)
    BY DEF ReportsOf
<1>4. /\ <<K>> \o <<M>> = <<K, M>> /\ <<K>> \o <<>> = <<K>>
      /\ <<>> \o <<M>> = <<M>> /\ <<>> \o <<>> = <<>>
    <2>1. <<K>> \in Seq({K, M}) /\ <<M>> \in Seq({K, M}) /\ <<>> \in Seq({K, M})
        OBVIOUS
    <2>2. <<K>> \o <<M>> = <<K, M>>
        <3>1. PICK a, b, c : a = <<K>> /\ b = <<M>> /\ c = <<K>> \o <<M>>
            BY Zenon
        <3>2. Len(a) = 1 /\ a[1] = K /\ Len(b) = 1 /\ b[1] = M
            BY <3>1
        <3>3. /\ c \in Seq({K, M}) /\ Len(c) = Len(a) + Len(b)
              /\ \A i \in 1..Len(a) + Len(b) : c[i] = IF i <= Len(a) THEN a[i] ELSE b[i - Len(a)]
            BY <2>1, <3>1, ConcatProperties
        <3>4. Len(c) = 2 /\ c[1] = K /\ c[2] = M
            BY <3>2, <3>3
        <3>5. c = <<K, M>>
            <4>1. PICK d : d = <<K, M>>
                BY Zenon
            <4>2. d \in Seq({K, M}) /\ Len(d) = 2 /\ d[1] = K /\ d[2] = M
                BY <4>1
            <4>3. \A i \in 1..Len(c) : c[i] = d[i]
                BY <3>4, <4>2
            <4> QED
                BY <3>3, <3>4, <4>1, <4>2, <4>3, SeqEqual
        <3> QED
            BY <3>1, <3>5
    <2> QED
        BY <2>1, <2>2, ConcatEmptySeq
<1> QED
    BY <1>1, <1>2, <1>3, <1>4 DEF KeyboardReports, KeysChange

\* What a turn of the keyboard's sender makes of the state
LEMMA KeyboardCleared ==
    ASSUME NEW s, DOMAIN s = DOMAIN Blank("keyboard"), NEW l, NEW t, t = AfterReport("keyboard", s)
    PROVE  /\ Cleared("keyboard", t) /\ KeyReport(t) = KeyReport(s)
           /\ ~KeysChange(s, l) => KeyReport(t) = KeyReport(l)
           /\ (~KeysChange(s, l) /\ l = Blank("keyboard")) => t = Blank("keyboard")
<1>1. t = [s EXCEPT !.media = 0] /\ DOMAIN s = {"keys", "modifier", "media"}
    BY DEF AfterReport, Blank
<1>2. t.media = 0 /\ t.keys = s.keys /\ t.modifier = s.modifier
    BY <1>1
<1>3. Cleared("keyboard", t)
    BY <1>2 DEF Cleared
<1>4. KeyReport(t) = KeyReport(s)
    BY <1>2 DEF KeyReport
<1>5. ~KeysChange(s, l) => KeyReport(t) = KeyReport(l)
    BY <1>2 DEF KeyReport, KeysChange
<1>6. t = [keys |-> s.keys, modifier |-> s.modifier, media |-> 0]
    BY <1>1
<1>7. (~KeysChange(s, l) /\ l = Blank("keyboard")) => t = Blank("keyboard")
    <2>1. Blank("keyboard").keys = <<>> /\ Blank("keyboard").modifier = {}
        BY DEF Blank
    <2>2. Blank("keyboard") = [keys |-> <<>>, modifier |-> {}, media |-> 0]
        BY DEF Blank
    <2> QED
        BY <1>6, <2>1, <2>2 DEF KeysChange
<1> QED
    BY <1>3, <1>4, <1>5, <1>7

\* A turn of the keyboard's sender that drops nothing tells the host of the keys.
LEMMA KeyboardKnows ==
    ASSUME InputInv, HidInv, hid = "keyboard", NEW rs, rs = ReportsOf(hid, state_now, state_last),
           NEW t, t = AfterReport(hid, state_now), Knows
    PROVE  \/ \E r : Told(reports \o rs, screen.shown, 1, r) /\ r = KeyReport(t)
           \/ t = Blank(hid) /\ Untold(reports \o rs, screen.shown, 1)
<1>1. DOMAIN state_now = DOMAIN Blank("keyboard")
    BY DEF InputInv, InputTypeOK
<1>2. PICK q : q = reports
    BY Zenon
<1>3. PICK S0 : q \in Seq(S0)
    BY <1>2 DEF InputInv, Listed
<1>4. PICK s, l, shown : s = state_now /\ l = state_last /\ shown = screen.shown
    BY Zenon
<1>6. PICK K, M :
          /\ K = KeyReport(s) /\ K.id = 1 /\ M.id = 2
          /\ KeysChange(s, l) /\ s.media # 0 => rs = <<K, M>>
          /\ KeysChange(s, l) /\ s.media = 0 => rs = <<K>>
          /\ ~KeysChange(s, l) /\ s.media # 0 => rs = <<M>>
          /\ ~KeysChange(s, l) /\ s.media = 0 => rs = <<>>
    <2>1. rs = ReportsOf("keyboard", s, l)
        BY <1>4
    <2>2. /\ KeyReport(s).id = 1 /\ MediaReport(s).id = 2
          /\ KeysChange(s, l) /\ s.media # 0 => rs = <<KeyReport(s), MediaReport(s)>>
          /\ KeysChange(s, l) /\ s.media = 0 => rs = <<KeyReport(s)>>
          /\ ~KeysChange(s, l) /\ s.media # 0 => rs = <<MediaReport(s)>>
          /\ ~KeysChange(s, l) /\ s.media = 0 => rs = <<>>
        BY <2>1, KeyboardTells, Zenon
    <2> QED
        BY <2>2, Zenon
<1>7. PICK S : q \in Seq(S) /\ K \in S /\ M \in S
    <2>1. q \in Seq(S0 \cup {K, M})
        BY <1>3
    <2> QED
        BY <2>1
<1>8. KeyReport(t) = K /\ (~KeysChange(s, l) => KeyReport(t) = KeyReport(l) /\ (l = Blank(hid) => t = Blank(hid)))
    <2>1. t = AfterReport("keyboard", s) /\ DOMAIN s = DOMAIN Blank("keyboard")
        BY <1>1, <1>4
    <2>2. /\ KeyReport(t) = KeyReport(s)
          /\ ~KeysChange(s, l) => KeyReport(t) = KeyReport(l)
          /\ (~KeysChange(s, l) /\ l = Blank("keyboard")) => t = Blank("keyboard")
        BY <2>1, KeyboardCleared, Zenon
    <2> QED
        BY <1>6, <2>2
<1>9. PICK p : p = q \o <<K>>
    BY Zenon
<1>10. Told(p, shown, 1, K) /\ p \in Seq(S)
    <2>1. OneMore(p, q, K) /\ p \in Seq(S)
        BY <1>7, <1>9 DEF OneMore
    <2> QED
        BY <1>6, <2>1, OneMoreTells, Zenon
<1>11. CASE KeysChange(s, l) /\ s.media = 0
    BY <1>2, <1>4, <1>6, <1>8, <1>9, <1>10, <1>11, Zenon
<1>12. CASE KeysChange(s, l) /\ s.media # 0
    <2>1. Told(p \o <<M>>, shown, 1, K)
        <3>1. OneMore(p \o <<M>>, p, M) /\ M.id # 1
            BY <1>6, <1>7, <1>10 DEF OneMore
        <3> QED
            BY <1>10, <3>1, OneMoreTells, Zenon
    <2>2. p \o <<M>> = q \o <<K, M>>
        <3>1. /\ <<K>> \in Seq(S) /\ <<M>> \in Seq(S) /\ <<K, M>> \in Seq(S)
              /\ Len(<<K, M>>) = 2 /\ <<K, M>>[1] = K /\ <<K, M>>[2] = M
              /\ Len(<<K>>) = 1 /\ <<K>>[1] = K /\ Len(<<M>>) = 1 /\ <<M>>[1] = M
            BY <1>7
        <3>2. PICK a, b, c, d : a = <<K>> /\ b = <<M>> /\ c = <<K, M>> /\ d = q \o c
            BY Zenon
        <3>3. PICK e : e = p \o b
            BY Zenon
        <3>4. PICK n : n = Len(q)
            BY Zenon
        <3>5. n \in Nat /\ Len(p) = n + 1 /\ (\A i \in 1..n : p[i] = q[i]) /\ p[n + 1] = K
            BY <1>7, <1>9, <3>4
        <3>6. e \in Seq(S) /\ Len(e) = n + 2 /\ (\A i \in 1..n + 1 : e[i] = p[i]) /\ e[n + 2] = M
            BY <1>7, <1>10, <3>1, <3>2, <3>3, <3>5
        <3>7. d \in Seq(S) /\ Len(d) = n + 2 /\ (\A i \in 1..n : d[i] = q[i]) /\ d[n + 1] = K /\ d[n + 2] = M
            BY <1>7, <3>1, <3>2, <3>4
        <3>8. \A i \in 1..n + 2 : e[i] = d[i]
            BY <3>5, <3>6, <3>7
        <3>9. e = d
            BY <3>6, <3>7, <3>8, SeqEqual
        <3> QED
            BY <3>2, <3>3, <3>9, Zenon
    <2> QED
        BY <1>2, <1>4, <1>6, <1>8, <1>12, <2>1, <2>2, Zenon
<1>13. Knows => \/ \E r : Told(q, shown, 1, r) /\ r = KeyReport(l)
                \/ l = Blank(hid) /\ Untold(q, shown, 1)
    BY <1>2, <1>4 DEF Knows, Reported, MainId, Depicts
<1>14. CASE ~KeysChange(s, l) /\ s.media = 0
    <2>1. q \o <<>> = q
        BY <1>7, ConcatEmptySeq
    <2> QED
        BY <1>2, <1>4, <1>6, <1>8, <1>13, <1>14, <2>1
<1>15. CASE ~KeysChange(s, l) /\ s.media # 0
    <2>1. OneMore(q \o <<M>>, q, M) /\ M.id # 1
        BY <1>6, <1>7 DEF OneMore
    <2>2. /\ \A r : Told(q, shown, 1, r) => Told(q \o <<M>>, shown, 1, r)
          /\ Untold(q, shown, 1) => Untold(q \o <<M>>, shown, 1)
        BY <2>1, OneMoreTells, Zenon
    <2> QED
        BY <1>2, <1>4, <1>6, <1>8, <1>13, <1>15, <2>2
<1> QED
    BY <1>11, <1>12, <1>14, <1>15

\* A turn that sends nothing changes nothing of what is told.
LEMMA HidRests ==
    ASSUME HidInv, hid' = hid, hconn' = hconn, touched' = touched, state_now' = state_now,
           state_last' = state_last, screen' = screen, moved' = moved, evicted' = evicted,
           reports' = reports
    PROVE  HidInv'
<1>1. Reported' = Reported
    BY Zenon DEF Reported
<1>2. Knows' = Knows
    BY <1>1, Zenon DEF Knows
<1>3. HidTold'
    BY <1>1, <1>2, Zenon DEF HidInv, HidTold
<1>4. HidMotion' /\ HidIds'
    BY Zenon DEF HidInv, HidMotion, HidIds
<1>5. MotionConserved'
    BY Zenon DEF HidInv, MotionConserved
<1> QED
    BY <1>3, <1>4, <1>5, Zenon DEF HidInv

\* A turn of the sender of a device with one report
LEMMA OneReportSent ==
    ASSUME InputInv, HidInv, hid # "keyboard",
           SendInputReports(ReportsOf(hid, state_now, state_last)),
           state_now' = AfterReport(hid, state_now), state_last' = AfterReport(hid, state_now),
           touched' = FALSE, hid' = hid, hconn' = hconn, screen' = screen, moved' = moved
    PROVE  HidInv'
<1>1. hid \in Hids /\ DOMAIN state_now = DOMAIN Blank(hid)
    BY DEF InputInv, InputTypeOK
<1>2. PICK x : /\ ReportsOf(hid, state_now, state_last) = <<x>> /\ x.id = 0
               /\ Depicts(hid, AfterReport(hid, state_now), x) /\ Cleared(hid, AfterReport(hid, state_now))
               /\ hid = "relative" => x.rel = state_now.rel /\ AfterReport(hid, state_now).rel = Still
    <2>1. PICK d, s : d = hid /\ s = state_now
        BY Zenon
    <2>2. d \in Hids /\ d # "keyboard" /\ DOMAIN s = DOMAIN Blank(d)
        BY <1>1, <2>1
    <2>3. \E x : /\ ReportsOf(d, s, state_last) = <<x>> /\ x.id = 0
                 /\ Depicts(d, AfterReport(d, s), x) /\ Cleared(d, AfterReport(d, s))
                 /\ d = "relative" => x.rel = s.rel /\ AfterReport(d, s).rel = Still
        BY <2>2, OneReport
    <2> QED
        BY <2>1, <2>3, Zenon
<1>3. PICK S0 : reports \in Seq(S0)
    BY DEF InputInv, Listed
<1>4. PICK S : S = S0 \cup {x}
    BY Zenon
<1>5. reports \in Seq(S) /\ <<x>> \in Seq(S)
    BY <1>3, <1>4
<1>6. Len(<<x>>) = 1 /\ <<x>>[1] = x
    OBVIOUS
<1>7. /\ Len(reports') \in Nat /\ Len(reports') > 0 /\ reports'[Len(reports')] = x
      /\ ~evicted' => ~evicted /\ reports' = reports \o <<x>>
      /\ \A i \in 1..Len(reports') : reports'[i] = x \/ \E j \in 1..Len(reports) : reports'[i] = reports[j]
    <2>1. SendInputReports(<<x>>)
        BY <1>2, Zenon
    <2>2. /\ Len(reports') \in Nat
          /\ Len(<<x>>) > 0 => Len(reports') > 0 /\ reports'[Len(reports')] = <<x>>[Len(<<x>>)]
          /\ ~evicted' => ~evicted /\ reports' = reports \o <<x>>
          /\ \A i \in 1..Len(reports') : \/ \E j \in 1..Len(<<x>>) : reports'[i] = <<x>>[j]
                                         \/ \E j \in 1..Len(reports) : reports'[i] = reports[j]
        BY <1>5, <2>1, ReportsJoin
    <2>3. \A j \in 1..Len(<<x>>) : <<x>>[j] = x
        BY <1>6
    <2>4. Len(reports') > 0 /\ reports'[Len(reports')] = x
        BY <1>6, <2>2
    <2> QED
        BY <2>2, <2>3, <2>4, Zenon
<1>8. HidIds'
    <2>1. x.id \in IdsOf(hid)
        BY <1>2 DEF IdsOf
    <2> QED
        BY <1>7, <2>1, Zenon DEF HidInv, HidIds
<1>9. HidTold'
    <2>1. Told(reports', screen.shown, 0, x)
        BY <1>2, <1>7, LastTells
    <2>2. Reported' = AfterReport(hid, state_now) /\ MainId(hid') = 0
        BY Zenon DEF Reported, MainId
    <2>3. Knows'
        BY <1>2, <2>1, <2>2, Zenon DEF Knows
    <2> QED
        BY <1>2, <2>2, <2>3, Zenon DEF HidTold
<1>10. ASSUME hid = "relative"
       PROVE  /\ state_now.rel \in [Axes -> Int] /\ screen.motion \in [Axes -> Int]
              /\ moved \in [Axes -> Int] /\ x.rel = state_now.rel /\ state_now'.rel = Still
              /\ \A i \in 1..Len(reports) : reports[i].rel \in [Axes -> Int]
              /\ \A i \in 1..Len(reports') : reports'[i].rel \in [Axes -> Int]
    BY <1>2, <1>7, <1>10, Zenon DEF HidInv, HidMotion
<1>11. Still \in [Axes -> Int] /\ \A a \in Axes : Still[a] = 0
    BY DEF Still
<1>12. HidMotion'
    BY <1>10, <1>11, Zenon DEF HidMotion
<1>13. MotionConserved'
    <2>1. ASSUME hid = "relative", hconn \in {"on", "stopping"}, ~evicted', NEW a \in Axes
          PROVE  screen.motion[a] + MotionIn(a, reports') + state_now'.rel[a] = moved[a]
        <3>1. ~evicted /\ reports' = reports \o <<x>>
            BY <1>7, <2>1, Zenon
        <3>2. screen.motion[a] + MotionIn(a, reports) + state_now.rel[a] = moved[a]
            BY <2>1, <3>1 DEF HidInv, MotionConserved
        <3>3. PICK n, p : n = Len(reports) /\ p = reports'
            BY Zenon
        <3>4. /\ n \in Nat /\ Len(p) = n + 1 /\ p[n + 1] = x
              /\ \A i \in 1..n : p[i] = reports[i]
            BY <1>5, <3>1, <3>3
        <3>5. \A i \in 1..n + 1 : p[i].rel[a] \in Int
            BY <1>10, <2>1, <3>3, <3>4
        <3>6. MotionIn(a, reports) \in Int /\ MotionIn(a, p) = MotionIn(a, reports) + p[n + 1].rel[a]
            <4>1. PICK q : q = reports
                BY Zenon
            <4>2. Len(q) = n /\ Len(p) = n + 1 /\ \A i \in 1..n : p[i] = q[i]
                BY <3>3, <3>4, <4>1
            <4>3. MotionIn(a, q) \in Int /\ MotionIn(a, p) = MotionIn(a, q) + p[n + 1].rel[a]
                BY <3>4, <3>5, <4>2, MotionJoins
            <4> QED
                BY <4>1, <4>3, Zenon
        <3>7. p[n + 1].rel[a] = state_now.rel[a]
            BY <1>10, <2>1, <3>4, Zenon
        <3>8. state_now'.rel[a] = 0
            BY <1>10, <1>11, <2>1, Zenon
        <3>9. screen.motion[a] \in Int /\ state_now.rel[a] \in Int
            BY <1>10, <2>1
        <3> QED
            BY <3>2, <3>3, <3>6, <3>7, <3>8, <3>9
    <2> QED
        BY <2>1, Zenon DEF MotionConserved
<1> QED
    BY <1>8, <1>9, <1>12, <1>13, Zenon DEF HidInv

\* A turn of the keyboard's sender
LEMMA KeyboardSent ==
    ASSUME InputInv, HidInv, hid = "keyboard",
           SendInputReports(ReportsOf(hid, state_now, state_last)),
           state_now' = AfterReport(hid, state_now), state_last' = AfterReport(hid, state_now),
           hid' = hid, hconn' = hconn, screen' = screen
    PROVE  HidInv'
<1>1. DOMAIN state_now = DOMAIN Blank(hid)
    BY DEF InputInv, InputTypeOK
<1>2. PICK rs : rs = ReportsOf(hid, state_now, state_last)
    BY Zenon
<1>3. PICK K, M : K = KeyReport(state_now) /\ M = MediaReport(state_now)
    BY Zenon
<1>4. K.id = 1 /\ M.id = 2 /\ rs \in {<<K, M>>, <<K>>, <<M>>, <<>>}
    <2>1. rs = ReportsOf("keyboard", state_now, state_last)
        BY <1>2
    <2>2. \/ rs = <<K, M>> \/ rs = <<K>> \/ rs = <<M>> \/ rs = <<>>
        BY <1>3, <2>1, KeyboardTells, Zenon
    <2>3. K.id = 1 /\ M.id = 2
        BY <1>3 DEF KeyReport, MediaReport
    <2> QED
        BY <2>2, <2>3
<1>5. PICK S0 : reports \in Seq(S0)
    BY DEF InputInv, Listed
<1>6. PICK S : S = S0 \cup {K, M}
    BY Zenon
<1>7. reports \in Seq(S) /\ rs \in Seq(S) /\ \A j \in 1..Len(rs) : rs[j] = K \/ rs[j] = M
    <2>1. reports \in Seq(S)
        BY <1>5, <1>6
    <2>2. K \in S /\ M \in S
        BY <1>6
    <2>3. CASE rs = <<K, M>>
        BY <2>1, <2>2, <2>3
    <2>4. CASE rs = <<K>>
        BY <2>1, <2>2, <2>4
    <2>5. CASE rs = <<M>>
        BY <2>1, <2>2, <2>5
    <2>6. CASE rs = <<>>
        BY <2>1, <2>6
    <2> QED
        BY <1>4, <2>3, <2>4, <2>5, <2>6
<1>8. /\ ~evicted' => ~evicted /\ reports' = reports \o rs
      /\ \A i \in 1..Len(reports') : \/ \E j \in 1..Len(rs) : reports'[i] = rs[j]
                                     \/ \E j \in 1..Len(reports) : reports'[i] = reports[j]
    BY <1>2, <1>7, ReportsJoin
<1>9. HidIds'
    <2>1. K.id \in IdsOf(hid) /\ M.id \in IdsOf(hid)
        BY <1>4 DEF IdsOf
    <2> QED
        BY <1>7, <1>8, <2>1, Zenon DEF HidInv, HidIds
<1>10. HidMotion' /\ MotionConserved'
    BY DEF HidMotion, MotionConserved
<1>11. HidTold'
    <2>1. PICK t : t = AfterReport(hid, state_now)
        BY Zenon
    <2>2. Cleared(hid, t)
        BY <1>1, <2>1, KeyboardCleared
    <2>3. Reported' = t /\ state_last' = t /\ MainId(hid') = 1 /\ hid # "absolute"
        BY <2>1 DEF Reported, MainId
    <2>4. ASSUME ~evicted', hconn \in {"on", "stopping"} PROVE Knows'
        <3>1. ~evicted /\ reports' = reports \o rs
            BY <1>8, <2>4, Zenon
        <3>2. Knows
            BY <2>3, <2>4, <3>1, Zenon DEF HidInv, HidTold
        <3>3. \/ \E r : Told(reports \o rs, screen.shown, 1, r) /\ r = KeyReport(t)
              \/ t = Blank(hid) /\ Untold(reports \o rs, screen.shown, 1)
            BY <1>2, <2>1, <3>2, KeyboardKnows, Zenon
        <3>4. \/ \E r : Told(reports', screen'.shown, MainId(hid'), r) /\ r = KeyReport(t)
              \/ t = Blank(hid) /\ Untold(reports', screen'.shown, MainId(hid'))
            BY <2>3, <3>1, <3>3, Zenon
        <3>5. \A r : r = KeyReport(t) => Depicts(hid', Reported', r)
            BY <2>3 DEF Depicts
        <3> QED
            BY <2>3, <3>4, <3>5, Zenon DEF Knows
    <2> QED
        BY <2>2, <2>3, <2>4, Zenon DEF HidTold
<1> QED
    BY <1>9, <1>10, <1>11, Zenon DEF HidInv

\* The motion queued is a whole number.
LEMMA MotionTold ==
    ASSUME Listed(reports), \A i \in 1..Len(reports) : reports[i].rel \in [Axes -> Int],
           NEW a \in Axes
    PROVE  MotionIn(a, reports) \in Int
<1>1. PICK S : reports \in Seq(S)
    BY DEF Listed
<1>2. PICK v : v = [i \in 1..Len(reports) |-> reports[i].rel[a]]
    BY Zenon
<1>3. v \in Seq(Int)
    BY <1>1, <1>2
<1>4. PICK w : w = Append(v, 0)
    BY Zenon
<1>5. w \in Seq(Int) /\ Len(w) = Len(v) + 1 /\ \A i \in 1..Len(v) : v[i] = w[i]
    BY <1>3, <1>4
<1>6. SumOf(v) \in Int
    BY <1>3, <1>5, SumOfMore
<1> QED
    BY <1>2, <1>6, Zenon DEF MotionIn

\* The methods of the relative mouse leave whole numbers.
LEMMA MotionTyped ==
    ASSUME NEW s, DOMAIN s = {"buttons", "rel"}, s.rel \in [Axes -> Int], NEW t \in RelativeInputs(s)
    PROVE  t.rel \in [Axes -> Int]
<1>1. \A b : SetButton(s, b, TRUE).rel = s.rel /\ SetButton(s, b, FALSE).rel = s.rel
    BY DEF SetButton
<1>2. ASSUME NEW a \in Axes, NEW n \in Int
      PROVE  Move(s, a, n).rel \in [Axes -> Int]
    <2>1. PICK v : v = Saturate(s.rel[a] + n)
        BY Zenon
    <2>2. v \in Int
        <3>1. MotionLimit \in Int
            BY InputAssumption DEF InputAssumption
        <3>2. s.rel[a] + n \in Int
            OBVIOUS
        <3> QED
            BY <2>1, <3>1, <3>2 DEF Saturate
    <2>3. Move(s, a, n).rel = [s.rel EXCEPT ![a] = v]
        BY <2>1 DEF Move
    <2> QED
        BY <2>2, <2>3
<1>3. \/ \E b \in Codes : t \in {SetButton(s, b, TRUE), SetButton(s, b, FALSE)}
      \/ \E a \in Axes, n \in Int : t = Move(s, a, n)
    <2>1. PICK A : A = UNION {{SetButton(s, b, TRUE), SetButton(s, b, FALSE)} : b \in Codes}
        BY Zenon
    <2> DEFINE B == {Move(s, a, n) : a \in Axes, n \in Codes \cup {-c : c \in Codes}}
    <2>2. RelativeInputs(s) = A \cup B
        BY <2>1 DEF RelativeInputs
    <2>3. t \in B => \E a \in Axes, n \in Int : t = Move(s, a, n)
        <3>1. ASSUME NEW n \in Codes \cup {-c : c \in Codes} PROVE n \in Int
            <4>1. \A c \in Codes : c \in Int /\ -c \in Int
                <5>1. Codes \subseteq Nat
                    BY InputAssumption DEF InputAssumption
                <5>2. \A c \in Nat : c \in Int /\ -c \in Int
                    OBVIOUS
                <5> QED
                    BY <5>1, <5>2
            <4>2. n \in Codes \/ \E c \in Codes : n = -c
                OBVIOUS
            <4> QED
                BY <4>1, <4>2
        <3> QED
            BY <3>1
    <2> HIDE DEF B
    <2>4. t \in A \/ t \in B
        BY <2>2, Zenon
    <2>5. t \in A => \E b \in Codes : t \in {SetButton(s, b, TRUE), SetButton(s, b, FALSE)}
        BY <2>1, Zenon
    <2> QED
        BY <2>3, <2>4, <2>5, Zenon
<1> QED
    BY <1>1, <1>2, <1>3

\* A user's call changes the state, of which nothing has been reported yet.
LEMMA HidInput ==
    ASSUME InputInv, HidInv, NEW s \in InputsOf(hid, state_now), Input(s)
    PROVE  HidInv'
<1>1. /\ state_now' = s /\ hid' = hid /\ state_last' = state_last /\ hconn' = hconn
      /\ reports' = reports /\ screen' = screen /\ evicted' = evicted
      /\ hid = "absolute" => touched' = TRUE
      /\ hid = "relative" => moved' = [a \in Axes |-> moved[a] + s.rel[a] - state_now.rel[a]]
    BY DEF Input
<1>2. HidIds'
    BY <1>1, Zenon DEF HidInv, HidIds
<1>3. HidTold'
    <2>1. CASE hid = "absolute"
        BY <1>1, <2>1, Zenon DEF HidTold
    <2>2. CASE hid # "absolute"
        <3>1. Reported' = Reported
            BY <1>1, <2>2, Zenon DEF Reported
        <3>2. Knows' = Knows
            BY <1>1, <3>1, Zenon DEF Knows
        <3> QED
            BY <1>1, <2>2, <3>1, <3>2, Zenon DEF HidInv, HidTold
    <2> QED
        BY <2>1, <2>2
<1>4. ASSUME hid = "relative"
      PROVE  /\ state_now.rel \in [Axes -> Int] /\ moved \in [Axes -> Int] /\ s.rel \in [Axes -> Int]
             /\ screen.motion \in [Axes -> Int]
             /\ \A i \in 1..Len(reports) : reports[i].rel \in [Axes -> Int]
    <2>1. DOMAIN state_now = {"buttons", "rel"}
        BY <1>4 DEF InputInv, InputTypeOK, Blank
    <2>2. s \in RelativeInputs(state_now)
        BY <1>4 DEF InputsOf
    <2>3. state_now.rel \in [Axes -> Int]
        BY <1>4, Zenon DEF HidInv, HidMotion
    <2>4. s.rel \in [Axes -> Int]
        BY <2>1, <2>2, <2>3, MotionTyped, Zenon
    <2> QED
        BY <1>4, <2>4, Zenon DEF HidInv, HidMotion
<1>5. HidMotion'
    <2>1. ASSUME hid = "relative" PROVE moved' \in [Axes -> Int]
        BY <1>1, <1>4, <2>1
    <2> QED
        BY <1>1, <1>4, <2>1, Zenon DEF HidMotion
<1>6. MotionConserved'
    <2>1. ASSUME hid = "relative", hconn \in {"on", "stopping"}, ~evicted, NEW a \in Axes
          PROVE  screen.motion[a] + MotionIn(a, reports) + s.rel[a] = moved'[a]
        <3>1. screen.motion[a] + MotionIn(a, reports) + state_now.rel[a] = moved[a]
            BY <2>1 DEF HidInv, MotionConserved
        <3>2. moved'[a] = moved[a] + s.rel[a] - state_now.rel[a]
            BY <1>1, <2>1
        <3>3. /\ screen.motion[a] \in Int /\ s.rel[a] \in Int /\ state_now.rel[a] \in Int
              /\ moved[a] \in Int
            BY <1>4, <2>1
        <3>4. MotionIn(a, reports) \in Int
            BY <1>4, <2>1, MotionTold DEF InputInv
        <3> QED
            BY <3>1, <3>2, <3>3, <3>4
    <2> QED
        BY <1>1, <2>1, Zenon DEF MotionConserved
<1> QED
    BY <1>2, <1>3, <1>5, <1>6, Zenon DEF HidInv

\* Every step keeps what the host is told.
LEMMA HidStep == InputInv /\ HidInv /\ [InputNext]_inputVars => HidInv'
<1> SUFFICES ASSUME InputInv, HidInv, [InputNext]_inputVars PROVE HidInv'
    OBVIOUS
<1>1. CASE InputAnnounce \/ InputJoined
    <2>1. /\ hconn' \notin {"on", "stopping"} /\ hid' = hid /\ state_now' = state_now
          /\ screen' = screen /\ moved' = moved /\ (reports' = reports \/ reports' = <<>>)
        BY <1>1 DEF InputAnnounce, InputJoined
    <2>2. HidTold' /\ MotionConserved'
        BY <2>1, Zenon DEF HidTold, MotionConserved
    <2>3. HidIds' /\ HidMotion'
        <3>1. CASE reports' = reports
            BY <2>1, <3>1, Zenon DEF HidInv, HidIds, HidMotion
        <3>2. CASE reports' = <<>>
            BY <2>1, <3>2 DEF HidInv, HidIds, HidMotion
        <3> QED
            BY <2>1, <3>1, <3>2
    <2> QED
        BY <2>2, <2>3, Zenon DEF HidInv
<1>2. CASE InputStart
    BY <1>2, HidStarts
<1>3. CASE InputStop
    <2>1. /\ hconn = "on" /\ hconn' = "stopping" /\ hid' = hid /\ touched' = touched
          /\ state_now' = state_now /\ state_last' = state_last /\ screen' = screen
          /\ moved' = moved /\ evicted' = evicted /\ reports' = reports
        BY <1>3 DEF InputStop
    <2>2. Reported' = Reported
        BY <2>1, Zenon DEF Reported
    <2>3. Knows' = Knows
        BY <2>1, <2>2, Zenon DEF Knows
    <2>4. hconn \in {"on", "stopping"}
        BY <2>1
    <2>5. HidTold'
        BY <2>1, <2>2, <2>3, <2>4, Zenon DEF HidInv, HidTold
    <2>6. HidMotion' /\ HidIds'
        BY <2>1, Zenon DEF HidInv, HidMotion, HidIds
    <2>7. MotionConserved'
        BY <2>1, <2>4, Zenon DEF HidInv, MotionConserved
    <2> QED
        BY <2>5, <2>6, <2>7, Zenon DEF HidInv
<1>4. CASE SenderTurn
    <2>1. /\ hid' = hid /\ hconn' = hconn /\ screen' = screen /\ moved' = moved
          /\ \/ UNCHANGED <<state_now, state_last, touched, reports, evicted>>
             \/ /\ SendInputReports(ReportsOf(hid, state_now, state_last))
                /\ state_now' = AfterReport(hid, state_now) /\ state_last' = AfterReport(hid, state_now)
                /\ touched' = FALSE
        BY <1>4, Zenon DEF SenderTurn
    <2>2. CASE UNCHANGED <<state_now, state_last, touched, reports, evicted>>
        BY <2>1, <2>2, HidRests
    <2>3. CASE /\ SendInputReports(ReportsOf(hid, state_now, state_last))
               /\ state_now' = AfterReport(hid, state_now) /\ state_last' = AfterReport(hid, state_now)
               /\ touched' = FALSE
        BY <2>1, <2>3, OneReportSent, KeyboardSent, Zenon
    <2> QED
        BY <2>1, <2>2, <2>3
<1>5. CASE HostReads
    BY <1>5, HidReads
<1>6. CASE \E s \in InputsOf(hid, state_now) : Input(s)
    BY <1>6, HidInput
<1>7. CASE WaitForClient \/ UNCHANGED inputVars
    <2>1. /\ hid' = hid /\ hconn' = hconn /\ touched' = touched /\ state_now' = state_now
          /\ state_last' = state_last /\ screen' = screen /\ moved' = moved /\ evicted' = evicted
          /\ reports' = reports
        BY <1>7 DEF WaitForClient, inputVars
    <2> QED
        BY <2>1, HidRests
<1> QED
    BY <1>1, <1>2, <1>3, <1>4, <1>5, <1>6, <1>7 DEF InputNext

\* The sender threads of the five devices, send_input_report, the host and the
\* user threads: at every moment the host has been told, or will be by what is
\* queued, the state reported last, and relative motion adds up.
THEOREM HidInductive == InputSpec => [](InputInv /\ HidInv)
<1>1. InputInit => InputInv /\ HidInv
    BY InputInitInv, HidInit
<1>2. InputInv /\ HidInv /\ [InputNext]_inputVars => InputInv' /\ HidInv'
    BY InputStep, HidStep
<1> QED
    BY <1>1, <1>2, PTL DEF InputSpec

------------------------------------------------------------------------------
(* The pipe device: what an IN channel does to its requests.                 *)

\* An IN channel of the pipe device: it has handed on its answers, and p
\* requests have come to the device.
Fits(c, p) ==
    /\ c \in ChannelOf(PipeMaxReqs, PipeLengths)
    /\ c.capacity = FifoCapacity /\ c.limit = 0 /\ Len(c.buffer) <= FifoCapacity
    /\ c.out = <<>> /\ InLine(Line(c), p)

\* Request n has been answered; n stands in line s.
Sent(d, n) == \E i \in 1..Len(d.out) : d.out[i].seq = n
Stands(s, n) == \E k \in 1..Len(s) : s[k] = n

\* c became d: of the requests that waited, and of those that came, each waits
\* or was answered once.
Turned(c, d, p, q) ==
    /\ d \in ChannelOf(PipeMaxReqs, PipeLengths) /\ SameLimits(c, d)
    /\ d.capacity = FifoCapacity /\ d.limit = 0 /\ Len(d.buffer) <= FifoCapacity
    /\ InLine(Line(d), q)
    /\ \A n : Stands(Line(d), n) <=> Pends(c, n) \/ n \in (p + 1)..q

LEMMA PipeConstants ==
    /\ PipeMaxReqs \in Nat /\ PipeLengths \in SUBSET Nat /\ FifoCapacity \in Nat \ {0}
    /\ PipeMaxConns \in Nat /\ PipeMaxWrites \in Nat /\ InEps \subseteq Nat /\ 0 \in InEps
    /\ OutEps \in Seq(Nat) /\ Len(OutEps) \in Nat \ {0} /\ OutEps[1] = 0 /\ PipeSizes \subseteq Nat
<1>1. OutEps \in Seq(Nat) /\ OutEps # <<>>
    BY PipeDeviceAssumption
<1>2. Len(OutEps) \in Nat /\ Len(OutEps) # 0
    BY <1>1, EmptySeq
<1> QED
    BY <1>1, <1>2, PipeDeviceAssumption

\* The line is the answers, then the requests that wait.
PartsOf(d, s, a, b) ==
    /\ a \in Nat /\ b \in Nat /\ Len(s) = a + b
    /\ \A i \in 1..a : d.out[i].seq = s[i]
    /\ \A i \in 1..b : d.queue[i].seq = s[a + i]
LEMMA LineParts ==
    ASSUME NEW M \in Nat, NEW L, NEW d \in ChannelOf(M, L), NEW n \in Nat, InLine(Line(d), n)
    PROVE  PartsOf(d, Line(d), Len(d.out), Len(d.queue))
<1>1. PICK o : o = d.out
    BY Zenon
<1>2. PICK q : q = d.queue
    BY Zenon
<1>3. PICK a : a = Len(o)
    BY Zenon
<1>4. PICK b : b = Len(q)
    BY Zenon
<1>5. PICK s : s = Line(d)
    BY Zenon
<1>6. a \in Nat /\ b \in Nat
    BY <1>1, <1>2, <1>3, <1>4, ChannelLengths
<1>7. s = [i \in 1..(a + b) |-> IF i <= a THEN o[i].seq ELSE q[i - a].seq]
    BY <1>1, <1>2, <1>3, <1>4, <1>5, Zenon DEF Line, LineOf
<1>8. \A i \in 1..a : o[i].seq = s[i]
    BY <1>6, <1>7
<1>9. \A i \in 1..b : q[i].seq = s[a + i]
    <2> SUFFICES ASSUME NEW i \in 1..b PROVE q[i].seq = s[a + i]
        OBVIOUS
    <2>1. PICK j : j = a + i
        BY Zenon
    <2>2. j \in 1..(a + b) /\ ~(j <= a) /\ j - a = i
        BY <1>6, <2>1
    <2> QED
        BY <1>7, <2>1, <2>2
<1>10. s \in Seq(Nat)
    BY <1>5 DEF InLine
<1>11. Len(s) = a + b
    <2>1. DOMAIN s = 1..(a + b)
        BY <1>7
    <2>2. DOMAIN s = 1..Len(s) /\ Len(s) \in Nat
        BY <1>10
    <2> QED
        BY <1>6, <2>1, <2>2
<1> QED
    BY <1>1, <1>2, <1>3, <1>4, <1>5, <1>6, <1>8, <1>9, <1>11, Zenon DEF PartsOf

\* A request in line was answered, once, or waits.
LEMMA LineSplit ==
    ASSUME NEW M \in Nat, NEW L, NEW d \in ChannelOf(M, L), NEW n \in Nat, InLine(Line(d), n)
    PROVE  /\ \A i, j \in 1..Len(d.out) : d.out[i].seq = d.out[j].seq => i = j
           /\ \A x : ~(Pends(d, x) /\ Sent(d, x))
           /\ \A x : Stands(Line(d), x) <=> Pends(d, x) \/ Sent(d, x)
           /\ \A x : Stands(Line(d), x) => x \in 1..n
<1>1. PICK s : s = Line(d)
    BY Zenon
<1>2. PICK a : a = Len(d.out)
    BY Zenon
<1>3. PICK b : b = Len(d.queue)
    BY Zenon
<1>4. /\ a \in Nat /\ b \in Nat /\ Len(s) = a + b
      /\ \A i \in 1..a : d.out[i].seq = s[i]
      /\ \A i \in 1..b : d.queue[i].seq = s[a + i]
    <2>1. PartsOf(d, s, a, b)
        BY <1>1, <1>2, <1>3, LineParts
    <2> QED
        BY <2>1 DEF PartsOf
<1>5. /\ \A i \in 1..(a + b) : s[i] \in 1..n
      /\ \A i, j \in 1..(a + b) : i < j => s[i] < s[j]
    BY <1>1, <1>4 DEF InLine, Increasing
<1>6. \A i, j \in 1..(a + b) : s[i] = s[j] => i = j
    <2> SUFFICES ASSUME NEW i \in 1..(a + b), NEW j \in 1..(a + b), s[i] = s[j], i # j PROVE FALSE
        OBVIOUS
    <2>1. i < j \/ j < i
        BY <1>4
    <2>2. s[i] \in Nat /\ s[j] \in Nat
        BY <1>5
    <2> QED
        BY <1>5, <2>1, <2>2
<1>7. /\ \A i \in 1..a : i \in 1..(a + b)
      /\ \A i \in 1..b : a + i \in 1..(a + b) /\ a + i \notin 1..a
    BY <1>4
<1>8. \A i, j \in 1..a : d.out[i].seq = d.out[j].seq => i = j
    BY <1>4, <1>6, <1>7
<1>9. ASSUME NEW x, Pends(d, x), Sent(d, x)
      PROVE  FALSE
    <2>1. PICK i \in 1..b : d.queue[i].seq = x
        BY <1>3, <1>9 DEF Pends
    <2>2. PICK j \in 1..a : d.out[j].seq = x
        BY <1>2, <1>9 DEF Sent
    <2>3. a + i = j
        BY <1>4, <1>6, <1>7, <2>1, <2>2
    <2> QED
        BY <1>7, <2>3
<1>10. ASSUME NEW x
       PROVE  Stands(s, x) <=> Pends(d, x) \/ Sent(d, x)
    <2>1. ASSUME Stands(s, x)
          PROVE  Pends(d, x) \/ Sent(d, x)
        <3>1. PICK k \in 1..(a + b) : s[k] = x
            BY <1>4, <2>1 DEF Stands
        <3>2. CASE k \in 1..a
            BY <1>2, <1>4, <3>1, <3>2 DEF Sent
        <3>3. CASE k \notin 1..a
            <4>1. PICK i : i = k - a
                BY Zenon
            <4>2. i \in 1..b /\ a + i = k
                BY <1>4, <3>3, <4>1
            <4>3. d.queue[i].seq = x
                BY <1>4, <3>1, <4>2
            <4> QED
                BY <1>3, <4>2, <4>3 DEF Pends
        <3> QED
            BY <3>2, <3>3
    <2>2. ASSUME Pends(d, x)
          PROVE  Stands(s, x)
        <3>1. PICK i \in 1..b : d.queue[i].seq = x
            BY <1>3, <2>2 DEF Pends
        <3>2. s[a + i] = x /\ a + i \in 1..Len(s)
            BY <1>4, <1>7, <3>1
        <3> QED
            BY <3>2 DEF Stands
    <2>3. ASSUME Sent(d, x)
          PROVE  Stands(s, x)
        <3>1. PICK i \in 1..a : d.out[i].seq = x
            BY <1>2, <2>3 DEF Sent
        <3>2. s[i] = x /\ i \in 1..Len(s)
            BY <1>4, <1>7, <3>1
        <3> QED
            BY <3>2 DEF Stands
    <2> QED
        BY <2>1, <2>2, <2>3
<1>11. \A x : Stands(s, x) => x \in 1..n
    BY <1>4, <1>5 DEF Stands
<1> QED
    BY <1>1, <1>2, <1>8, <1>9, <1>10, <1>11

\* In a channel that has handed on its answers the line is the queue.
LEMMA FitsLine ==
    ASSUME NEW c, NEW p \in Nat, Fits(c, p)
    PROVE  \A n : (Stands(Line(c), n) <=> Pends(c, n)) /\ (Pends(c, n) => n \in 1..p)
<1>1. /\ \A n : Stands(Line(c), n) <=> Pends(c, n) \/ Sent(c, n)
      /\ \A n : Stands(Line(c), n) => n \in 1..p
    BY PipeConstants, LineSplit DEF Fits
<1>2. \A n : ~Sent(c, n)
    <2>1. Len(c.out) = 0 /\ 1..0 = {}
        BY DEF Fits
    <2> QED
        BY <2>1 DEF Sent
<1> QED
    BY <1>1, <1>2

LEMMA StandsLast ==
    ASSUME NEW s \in Seq(Nat), NEW x \in Nat
    PROVE  \A n : Stands(Append(s, x), n) <=> Stands(s, n) \/ n = x
<1>1. PICK t : t = Append(s, x)
    BY Zenon
<1>2. PICK k : k = Len(s)
    BY Zenon
<1>3. k \in Nat /\ Len(t) = k + 1 /\ t[k + 1] = x /\ \A i \in 1..k : t[i] = s[i]
    BY <1>1, <1>2, AppendProperties
<1>4. \A i \in 1..(k + 1) : i \in 1..k \/ i = k + 1
    BY <1>3
<1>5. k + 1 \in 1..(k + 1) /\ \A i \in 1..k : i \in 1..(k + 1)
    BY <1>3
<1> QED
    BY <1>1, <1>2, <1>3, <1>4, <1>5, Zenon DEF Stands

\* Nothing happens;
LEMMA RestTurns ==
    ASSUME NEW c, NEW p \in Nat, Fits(c, p)
    PROVE  Turned(c, c, p, p)
<1>1. (p + 1)..p = {}
    OBVIOUS
<1> QED
    BY <1>1, FitsLine DEF Turned, Fits, SameLimits

\* on_in_request: the request waits, or is answered, and others may be before it;
LEMMA RequestTurns ==
    ASSUME NEW c, NEW p \in Nat, Fits(c, p), ~c.disconnected, p < PipeMaxReqs, NEW len \in PipeLengths
    PROVE  Turned(c, OnInRequest("stream", c, [seq |-> p + 1, len |-> len], <<>>), p, p + 1)
<1>1. PICK r : r = [seq |-> p + 1, len |-> len]
    BY Zenon
<1>2. PICK d : d = OnInRequest("stream", c, r, <<>>)
    BY Zenon
<1>3. r \in ChannelRequest(PipeMaxReqs, PipeLengths) /\ r.seq = p + 1
    BY <1>1, PipeConstants DEF ChannelRequest
<1>4. /\ c \in ChannelOf(PipeMaxReqs, PipeLengths) /\ c.capacity = FifoCapacity /\ c.limit = 0
      /\ Len(c.buffer) <= c.capacity /\ InLine(Line(c), p)
    BY DEF Fits
<1>5. Takes(PipeMaxReqs, PipeLengths, c, OnInRequest("stream", c, r, RunOf(0, 0)), r,
            Whole(c) \o RunOf(0, Lesser(0, r.len + c.capacity)))
    <2>1. 0 \in Nat /\ ~(0 > 0) /\ ~(c.limit # 0)
        BY <1>4
    <2> QED
        BY <1>3, <1>4, <2>1, PipeConstants, RequestJoins
<1>6. RunOf(0, 0) = <<>>
    BY RunEmpty
<1>7. d \in ChannelOf(PipeMaxReqs, PipeLengths) /\ Joined(c, d, r)
    BY <1>2, <1>5, <1>6 DEF Takes
<1>8. /\ SameLimits(c, d) /\ Line(d) = Append(Line(c), p + 1)
      /\ d.capacity = FifoCapacity /\ d.limit = 0 /\ Len(d.buffer) <= FifoCapacity
    BY <1>3, <1>4, <1>7 DEF Joined, SameLimits
<1>9. InLine(Line(d), p + 1)
    BY <1>4, <1>8, NewestLast
<1>10. \A n : Stands(Line(d), n) <=> Stands(Line(c), n) \/ n = p + 1
    <2>1. Line(c) \in Seq(Nat) /\ p + 1 \in Nat
        BY <1>4 DEF InLine
    <2> QED
        BY <1>8, <2>1, StandsLast
<1>11. \A n : n \in (p + 1)..(p + 1) <=> n = p + 1
    OBVIOUS
<1>12. \A n : Stands(Line(d), n) <=> Pends(c, n) \/ n \in (p + 1)..(p + 1)
    BY <1>10, <1>11, FitsLine
<1>13. Turned(c, d, p, p + 1)
    BY <1>7, <1>8, <1>9, <1>12 DEF Turned
<1> QED
    BY <1>1, <1>2, <1>13

\* try_send_pending_locked: some are answered;
LEMMA DrainTurns ==
    ASSUME NEW c, NEW p \in Nat, Fits(c, p)
    PROVE  Turned(c, Drain("stream", c), p, p)
<1>1. PICK d : d = Drain("stream", c)
    BY Zenon
<1>2. c \in ChannelOf(PipeMaxReqs, PipeLengths)
    BY DEF Fits
<1>3. d \in ChannelOf(PipeMaxReqs, PipeLengths) /\ Served(c, d)
    BY <1>1, <1>2, PipeConstants, DrainServes
<1>4. SameLimits(c, d) /\ Line(d) = Line(c) /\ Len(d.buffer) <= Len(c.buffer)
    BY <1>3 DEF Served, Shorter
<1>5. Len(d.buffer) \in Nat /\ Len(c.buffer) \in Nat
    BY <1>2, <1>3, ChannelLengths
<1>6. d.capacity = FifoCapacity /\ d.limit = 0 /\ Len(d.buffer) <= FifoCapacity /\ InLine(Line(d), p)
    BY <1>4, <1>5, PipeConstants DEF Fits, SameLimits
<1>7. (p + 1)..p = {}
    OBVIOUS
<1>8. \A n : Stands(Line(d), n) <=> Pends(c, n) \/ n \in (p + 1)..p
    BY <1>4, <1>7, FitsLine
<1> QED
    BY <1>1, <1>3, <1>4, <1>6, <1>8 DEF Turned

\* push_locked: requests are not touched.
LEMMA PushTurns ==
    ASSUME NEW c, NEW d, NEW p, NEW q, Turned(c, d, p, q), NEW a \in Nat
    PROVE  Turned(c, PushLocked("stream", d, [i \in 1..a |-> 0]), p, q)
<1>1. PICK f : f = [i \in 1..a |-> 0]
    BY Zenon
<1>2. f \in [1..a -> Nat]
    BY <1>1
<1>3. f \in Seq(Nat) /\ Len(f) = a
    BY <1>2
<1>4. d \in ChannelOf(PipeMaxReqs, PipeLengths) /\ d.capacity = FifoCapacity /\ Len(d.buffer) <= FifoCapacity
    BY DEF Turned
<1>5. d.buffer \in Seq(Nat) /\ Len(d.buffer) \in Nat
    BY <1>4, ChannelFields
<1>6. PICK k : k = Lesser(a, Room(d))
    BY Zenon
<1>7. k \in 0..a /\ Len(d.buffer) + k <= FifoCapacity
    <2>1. PICK l : l = Len(d.buffer)
        BY Zenon
    <2>2. l \in Nat /\ l <= FifoCapacity /\ FifoCapacity \in Nat
        BY <1>4, <1>5, <2>1, PipeConstants
    <2>3. Room(d) = FifoCapacity - l
        BY <1>4, <2>1 DEF Room
    <2>4. k = IF a < FifoCapacity - l THEN a ELSE FifoCapacity - l
        BY <1>6, <2>3 DEF Lesser
    <2>5. k \in 0..a /\ l + k <= FifoCapacity
        BY <2>2, <2>4
    <2> QED
        BY <2>1, <2>5, Zenon
<1>8. PICK g : g = SubSeq(f, 1, k)
    BY Zenon
<1>9. g \in Seq(Nat) /\ Len(g) = k
    BY <1>3, <1>7, <1>8
<1>10. PICK b : b = d.buffer \o g
    BY Zenon
<1>11. b \in Seq(Nat) /\ Len(b) = Len(d.buffer) + k
    BY <1>5, <1>9, <1>10, ConcatProperties
<1>12. PICK h : h = PushLocked("stream", d, f)
    BY Zenon
<1>13. h = [d EXCEPT !.buffer = b]
    BY <1>3, <1>6, <1>8, <1>10, <1>12 DEF PushLocked
<1>14. /\ h \in ChannelOf(PipeMaxReqs, PipeLengths) /\ SameLimits(d, h)
       /\ h.queue = d.queue /\ h.buffer = b /\ h.out = d.out
    BY <1>4, <1>11, <1>13, PipeConstants, OtherBuffer
<1>15. Line(h) = Line(d)
    BY <1>14 DEF Line
<1>16. Len(h.buffer) <= FifoCapacity
    BY <1>7, <1>11, <1>14
<1> QED
    BY <1>1, <1>12, <1>14, <1>15, <1>16, Zenon DEF Turned, SameLimits

\* What the channel is when its answers have gone out
HandedOn(d) == [d EXCEPT !.out = <<>>, !.sent = <<>>]
LEMMA TurnedFits ==
    ASSUME NEW c, NEW d, NEW p \in Nat, NEW q \in Nat, Turned(c, d, p, q)
    PROVE  /\ Fits(HandedOn(d), q) /\ SameLimits(c, HandedOn(d))
           /\ \A n : Pends(HandedOn(d), n) <=> Pends(d, n)
           /\ d.out \in Seq(ChannelReply(PipeMaxReqs))
           /\ \A i, j \in 1..Len(d.out) : d.out[i].seq = d.out[j].seq => i = j
           /\ \A n : ~(Pends(d, n) /\ Sent(d, n))
           /\ \A n : Pends(d, n) \/ Sent(d, n) <=> Pends(c, n) \/ n \in (p + 1)..q
           /\ \A n : Sent(d, n) => n \in 1..q
<1>1. d \in ChannelOf(PipeMaxReqs, PipeLengths) /\ InLine(Line(d), q)
    BY DEF Turned
<1>2. /\ \A i, j \in 1..Len(d.out) : d.out[i].seq = d.out[j].seq => i = j
      /\ \A x : ~(Pends(d, x) /\ Sent(d, x))
      /\ \A x : Stands(Line(d), x) <=> Pends(d, x) \/ Sent(d, x)
      /\ \A x : Stands(Line(d), x) => x \in 1..q
    BY <1>1, PipeConstants, LineSplit
<1>3. PICK h : h = HandedOn(d)
    BY Zenon
<1>4. d.out \in Seq(ChannelReply(PipeMaxReqs)) /\ d.queue \in Seq(ChannelRequest(PipeMaxReqs, PipeLengths))
    BY <1>1, ChannelFields
<1> HIDE DEF ChannelRequest, ChannelReply
<1>5. /\ h \in ChannelOf(PipeMaxReqs, PipeLengths) /\ h.capacity = d.capacity /\ h.limit = d.limit
      /\ h.disconnected = d.disconnected /\ h.buffer = d.buffer /\ h.queue = d.queue /\ h.out = <<>>
    <2>1. <<>> \in Seq(ChannelReply(PipeMaxReqs)) /\ <<>> \in Seq(Nat)
        OBVIOUS
    <2> QED
        BY <1>1, <1>3, <2>1 DEF ChannelOf, HandedOn
<1>6. InLine(Line(h), q)
    <2>1. PICK s : s = Line(d)
        BY Zenon
    <2>2. PICK b : b = Len(d.queue)
        BY Zenon
    <2>3. PICK a : a = Len(d.out)
        BY Zenon
    <2>4. /\ a \in Nat /\ b \in Nat /\ Len(s) = a + b
          /\ \A i \in 1..b : d.queue[i].seq = s[a + i]
        <3>1. PartsOf(d, s, a, b)
            BY <1>1, <2>1, <2>2, <2>3, PipeConstants, LineParts
        <3> QED
            BY <3>1 DEF PartsOf
    <2>5. /\ \A i \in 1..(a + b) : s[i] \in 1..q
          /\ \A i, j \in 1..(a + b) : i < j => s[i] < s[j]
        BY <1>1, <2>1, <2>4 DEF InLine, Increasing
    <2>6. PICK t : t = Line(h)
        BY Zenon
    <2>7. PICK r : r = d.queue
        BY Zenon
    <2>8. t = [i \in 1..b |-> r[i].seq]
        <3>1. t = LineOf(<<>>, r)
            BY <1>5, <2>6, <2>7 DEF Line
        <3>2. Len(<<>>) = 0 /\ 0 + b = b /\ \A i \in 1..b : ~(i <= 0) /\ i - 0 = i
            BY <2>4
        <3>3. PICK o : o = <<>>
            BY Zenon
        <3>4. t = [i \in 1..(0 + b) |-> IF i <= 0 THEN o[i].seq ELSE r[i - 0].seq]
            <4>1. Len(o) = 0 /\ Len(r) = b
                BY <2>2, <2>7, <3>2, <3>3
            <4>2. t = LineOf(o, r)
                BY <3>1, <3>3, Zenon
            <4> QED
                BY <4>1, <4>2, Zenon DEF LineOf
        <3> QED
            BY <3>2, <3>4
    <2>9. \A i \in 1..b : a + i \in 1..(a + b) /\ t[i] = s[a + i]
        BY <2>4, <2>7, <2>8
    <2>10. \A i \in 1..b : t[i] \in 1..q
        BY <2>5, <2>9
    <2>11. t \in [1..b -> Nat]
        BY <2>8, <2>10
    <2>12. t \in Seq(Nat) /\ Len(t) = b
        BY <2>4, <2>11
    <2>13. \A i, j \in 1..b : i < j => t[i] < t[j]
        <3> SUFFICES ASSUME NEW i \in 1..b, NEW j \in 1..b, i < j PROVE t[i] < t[j]
            OBVIOUS
        <3>1. a + i < a + j /\ a + i \in 1..(a + b) /\ a + j \in 1..(a + b)
            BY <2>4
        <3> QED
            BY <2>5, <2>9, <3>1
    <2> QED
        BY <2>6, <2>10, <2>12, <2>13 DEF InLine, Increasing
<1>7. Fits(h, q)
    BY <1>5, <1>6 DEF Fits, Turned
<1>8. SameLimits(c, h)
    BY <1>5, Zenon DEF SameLimits, Turned
<1>9. \A n : Pends(h, n) <=> Pends(d, n)
    BY <1>5 DEF Pends
<1>10. \A n : Pends(d, n) \/ Sent(d, n) <=> Pends(c, n) \/ n \in (p + 1)..q
    BY <1>2 DEF Turned
<1> QED
    BY <1>2, <1>3, <1>4, <1>7, <1>8, <1>9, <1>10

------------------------------------------------------------------------------
(* The pipe device: its responses.                                           *)

PipeResponse == [kind : {"RET_SUBMIT", "RET_UNLINK"}, n : 1..PipeMaxReqs,
                 status : {"OK", "ECONNRESET"}]

\* a holds the answer to request n.
Tells(a, n) == \E i \in 1..Len(a) : a[i].kind = "RET_SUBMIT" /\ a[i].n = n

\* The responses a of a connection with p requests, of which u were unlinked:
\* one answer per request, none after its RET_UNLINK, and one before a
\* RET_UNLINK that says OK
LogOf(a, p, u) ==
    /\ a \in Seq(PipeResponse)
    /\ \A i \in 1..Len(a) :
          a[i].n \in 1..p /\ (a[i].kind = "RET_UNLINK" => a[i].n \in u)
    /\ \A i, j \in 1..Len(a) :
          a[i].kind = "RET_SUBMIT" /\ a[j].kind = "RET_SUBMIT" /\ a[i].n = a[j].n => i = j
    /\ \A i, j \in 1..Len(a) :
          a[i].kind = "RET_UNLINK" /\ a[j].kind = "RET_SUBMIT" /\ a[i].n = a[j].n => j < i
    /\ \A i \in 1..Len(a) :
          a[i].kind = "RET_UNLINK" /\ a[i].status = "OK" => Tells(a, a[i].n)

\* Responses b that may follow: answers to requests that were neither answered
\* nor unlinked, or what an unlink found out
Follows(a, p, u, b, q, v) ==
    /\ b \in Seq(PipeResponse) /\ p <= q /\ u \subseteq v
    /\ \A k \in 1..Len(b) :
          /\ b[k].n \in 1..q
          /\ b[k].kind = "RET_UNLINK" =>
                b[k].n \in v /\ (b[k].status = "OK" => Tells(a, b[k].n))
          /\ b[k].kind = "RET_SUBMIT" => ~Tells(a, b[k].n) /\ b[k].n \notin u
    /\ \A k, l \in 1..Len(b) :
          /\ b[k].kind = b[l].kind
          /\ b[k].kind = "RET_SUBMIT" /\ b[k].n = b[l].n => k = l

LEMMA LogGrows ==
    ASSUME NEW a, NEW p \in Nat, NEW u, LogOf(a, p, u), NEW b, NEW q \in Nat, NEW v,
           Follows(a, p, u, b, q, v)
    PROVE  /\ LogOf(a \o b, q, v)
           /\ \A n : Tells(a \o b, n) <=> Tells(a, n) \/ Tells(b, n)
<1>1. PICK c : c = a \o b
    BY Zenon
<1>2. PICK la : la = Len(a)
    BY Zenon
<1>3. PICK lb : lb = Len(b)
    BY Zenon
<1>4. a \in Seq(PipeResponse) /\ b \in Seq(PipeResponse) /\ la \in Nat /\ lb \in Nat
    BY <1>2, <1>3 DEF LogOf, Follows
<1>5. JointOf(PipeResponse, a, la, b, lb, c)
    BY <1>1, <1>2, <1>3, <1>4, Joint
<1>6. c \in Seq(PipeResponse) /\ Len(c) = la + lb
    BY <1>5 DEF JointOf
<1>7. \A i \in 1..la : i \in 1..(la + lb) /\ c[i] = a[i]
    BY <1>4, <1>5 DEF JointOf
<1>8. \A k \in 1..lb : la + k \in 1..(la + lb) /\ c[la + k] = b[k]
    <2> SUFFICES ASSUME NEW k \in 1..lb PROVE la + k \in 1..(la + lb) /\ c[la + k] = b[k]
        OBVIOUS
    <2>1. PICK i : i = la + k
        BY Zenon
    <2>2. i \in 1..(la + lb) /\ ~(i <= la) /\ i - la = k
        BY <1>4, <2>1
    <2> QED
        BY <1>5, <2>1, <2>2 DEF JointOf
<1>9. \A i \in 1..(la + lb) : i \in 1..la \/ \E k \in 1..lb : i = la + k
    <2> SUFFICES ASSUME NEW i \in 1..(la + lb), i \notin 1..la PROVE \E k \in 1..lb : i = la + k
        OBVIOUS
    <2>1. i - la \in 1..lb /\ i = la + (i - la)
        BY <1>4
    <2> QED
        BY <2>1
<1>10. ASSUME NEW n
       PROVE  Tells(c, n) <=> Tells(a, n) \/ Tells(b, n)
    <2>1. Tells(c, n) => Tells(a, n) \/ Tells(b, n)
        <3> SUFFICES ASSUME Tells(c, n) PROVE Tells(a, n) \/ Tells(b, n)
            OBVIOUS
        <3>1. PICK i \in 1..(la + lb) : c[i].kind = "RET_SUBMIT" /\ c[i].n = n
            BY <1>6, Zenon DEF Tells
        <3>2. CASE i \in 1..la
            BY <1>2, <1>7, <3>1, <3>2, Zenon DEF Tells
        <3>3. ASSUME NEW k \in 1..lb, i = la + k
              PROVE  Tells(b, n)
            BY <1>3, <1>8, <3>1, <3>3, Zenon DEF Tells
        <3> QED
            BY <1>9, <3>2, <3>3
    <2>2. Tells(a, n) => Tells(c, n)
        BY <1>2, <1>6, <1>7, Zenon DEF Tells
    <2>3. Tells(b, n) => Tells(c, n)
        BY <1>3, <1>6, <1>8, Zenon DEF Tells
    <2> QED
        BY <2>1, <2>2, <2>3
<1>11. \A i \in 1..(la + lb) :
           c[i].n \in 1..q /\ (c[i].kind = "RET_UNLINK" => c[i].n \in v)
    <2> SUFFICES ASSUME NEW i \in 1..(la + lb)
                 PROVE  c[i].n \in 1..q /\ (c[i].kind = "RET_UNLINK" => c[i].n \in v)
        OBVIOUS
    <2>1. CASE i \in 1..la
        <3>1. a[i].n \in 1..p /\ (a[i].kind = "RET_UNLINK" => a[i].n \in u)
            BY <1>2, <2>1 DEF LogOf
        <3>2. p <= q /\ u \subseteq v
            BY DEF Follows
        <3>3. a[i].n \in 1..q
            BY <3>1, <3>2
        <3> QED
            BY <1>7, <2>1, <3>1, <3>2, <3>3
    <2>2. ASSUME NEW k \in 1..lb, i = la + k
          PROVE  c[i].n \in 1..q /\ (c[i].kind = "RET_UNLINK" => c[i].n \in v)
        <3>1. b[k].n \in 1..q /\ (b[k].kind = "RET_UNLINK" => b[k].n \in v)
            BY <1>3 DEF Follows
        <3> QED
            BY <1>8, <2>2, <3>1
    <2> QED
        BY <1>9, <2>1, <2>2
<1>12. \A i \in 1..la, k \in 1..lb : a[i].n = b[k].n =>
           /\ b[k].kind = "RET_SUBMIT" => a[i].kind # "RET_SUBMIT" /\ a[i].kind # "RET_UNLINK"
    <2> SUFFICES ASSUME NEW i \in 1..la, NEW k \in 1..lb, a[i].n = b[k].n, b[k].kind = "RET_SUBMIT"
                 PROVE  a[i].kind # "RET_SUBMIT" /\ a[i].kind # "RET_UNLINK"
        OBVIOUS
    <2>1. ~Tells(a, b[k].n) /\ b[k].n \notin u
        BY <1>3 DEF Follows
    <2>2. a[i].kind # "RET_SUBMIT"
        BY <1>2, <2>1 DEF Tells
    <2>3. a[i].kind # "RET_UNLINK"
        BY <1>2, <2>1 DEF LogOf
    <2> QED
        BY <2>2, <2>3
<1>13. \A i, j \in 1..(la + lb) :
           c[i].kind = "RET_SUBMIT" /\ c[j].kind = "RET_SUBMIT" /\ c[i].n = c[j].n => i = j
    <2> SUFFICES ASSUME NEW i \in 1..(la + lb), NEW j \in 1..(la + lb),
                        c[i].kind = "RET_SUBMIT", c[j].kind = "RET_SUBMIT", c[i].n = c[j].n
                 PROVE  i = j
        OBVIOUS
    <2>1. CASE i \in 1..la /\ j \in 1..la
        <3>1. a[i] = c[i] /\ a[j] = c[j]
            BY <1>7, <2>1
        <3> QED
            BY <1>2, <2>1, <3>1 DEF LogOf
    <2>2. ASSUME NEW k \in 1..lb, NEW l \in 1..lb, i = la + k, j = la + l
          PROVE  i = j
        <3>1. b[k] = c[i] /\ b[l] = c[j]
            BY <1>8, <2>2
        <3>2. k = l
            BY <1>3, <3>1 DEF Follows
        <3> QED
            BY <2>2, <3>2
    <2>3. ASSUME i \in 1..la, NEW k \in 1..lb, j = la + k
          PROVE  i = j
        <3>1. a[i] = c[i] /\ b[k] = c[j]
            BY <1>7, <1>8, <2>3
        <3> QED
            BY <1>12, <2>3, <3>1
    <2>4. ASSUME j \in 1..la, NEW k \in 1..lb, i = la + k
          PROVE  i = j
        <3>1. a[j] = c[j] /\ b[k] = c[i]
            BY <1>7, <1>8, <2>4
        <3> QED
            BY <1>12, <2>4, <3>1
    <2> QED
        BY <1>9, <2>1, <2>2, <2>3, <2>4
<1>14. \A i, j \in 1..(la + lb) :
           c[i].kind = "RET_UNLINK" /\ c[j].kind = "RET_SUBMIT" /\ c[i].n = c[j].n => j < i
    <2> SUFFICES ASSUME NEW i \in 1..(la + lb), NEW j \in 1..(la + lb),
                        c[i].kind = "RET_UNLINK", c[j].kind = "RET_SUBMIT", c[i].n = c[j].n
                 PROVE  j < i
        OBVIOUS
    <2>1. CASE i \in 1..la /\ j \in 1..la
        <3>1. a[i] = c[i] /\ a[j] = c[j]
            BY <1>7, <2>1
        <3> QED
            BY <1>2, <2>1, <3>1 DEF LogOf
    <2>2. ASSUME NEW k \in 1..lb, NEW l \in 1..lb, i = la + k, j = la + l
          PROVE  j < i
        <3>1. b[k] = c[i] /\ b[l] = c[j]
            BY <1>8, <2>2
        <3>2. b[k].kind = b[l].kind
            BY <1>3 DEF Follows
        <3> QED
            BY <3>1, <3>2
    <2>3. ASSUME i \in 1..la, NEW k \in 1..lb, j = la + k
          PROVE  j < i
        <3>1. a[i] = c[i] /\ b[k] = c[j]
            BY <1>7, <1>8, <2>3
        <3> QED
            BY <1>12, <2>3, <3>1
    <2>4. ASSUME j \in 1..la, NEW k \in 1..lb, i = la + k
          PROVE  j < i
        BY <1>4, <2>4
    <2> QED
        BY <1>9, <2>1, <2>2, <2>3, <2>4
<1>15. \A i \in 1..(la + lb) :
           c[i].kind = "RET_UNLINK" /\ c[i].status = "OK" => Tells(c, c[i].n)
    <2> SUFFICES ASSUME NEW i \in 1..(la + lb), c[i].kind = "RET_UNLINK", c[i].status = "OK"
                 PROVE  Tells(c, c[i].n)
        OBVIOUS
    <2>1. CASE i \in 1..la
        <3>1. a[i] = c[i]
            BY <1>7, <2>1
        <3>2. Tells(a, a[i].n)
            BY <1>2, <2>1, <3>1 DEF LogOf
        <3> QED
            BY <1>10, <3>1, <3>2
    <2>2. ASSUME NEW k \in 1..lb, i = la + k
          PROVE  Tells(c, c[i].n)
        <3>1. b[k] = c[i]
            BY <1>8, <2>2
        <3>2. Tells(a, b[k].n)
            BY <1>3, <3>1 DEF Follows
        <3> QED
            BY <1>10, <3>1, <3>2
    <2> QED
        BY <1>9, <2>1, <2>2
<1>16. LogOf(c, q, v)
    BY <1>6, <1>11, <1>13, <1>14, <1>15 DEF LogOf
<1> QED
    BY <1>1, <1>10, <1>16

\* One more response
LEMMA LogAppends ==
    ASSUME NEW a, NEW p \in Nat, NEW u, LogOf(a, p, u), NEW x \in PipeResponse, NEW v, u \subseteq v,
           x.n \in 1..p,
           x.kind = "RET_UNLINK" => x.n \in v /\ (x.status = "OK" => Tells(a, x.n)),
           x.kind = "RET_SUBMIT" => ~Tells(a, x.n) /\ x.n \notin u
    PROVE  /\ LogOf(Append(a, x), p, v)
           /\ \A n : Tells(Append(a, x), n) <=> Tells(a, n) \/ (x.kind = "RET_SUBMIT" /\ n = x.n)
<1>1. PICK b : b = <<x>>
    BY Zenon
<1>2. b \in Seq(PipeResponse) /\ Len(b) = 1 /\ b[1] = x
    BY <1>1
<1>3. a \in Seq(PipeResponse)
    BY DEF LogOf
<1>4. Append(a, x) = a \o b
    BY <1>1, <1>3, AppendIsConcat
<1>5. \A k \in 1..1 : k = 1
    OBVIOUS
<1>6. Follows(a, p, u, b, p, v)
    BY <1>2, <1>5 DEF Follows
<1>7. /\ LogOf(a \o b, p, v)
      /\ \A n : Tells(a \o b, n) <=> Tells(a, n) \/ Tells(b, n)
    BY <1>6, LogGrows
<1>8. \A n : Tells(b, n) <=> x.kind = "RET_SUBMIT" /\ n = x.n
    BY <1>2, <1>5 DEF Tells
<1> QED
    BY <1>4, <1>7, <1>8

\* The answers an IN channel gives
Answers(d) == [i \in 1..Len(d.out) |-> RetSubmit(d.out[i].seq, "OK")]
LEMMA AnswersOfTurn ==
    ASSUME NEW o, NEW d, o = d.out, o \in Seq(ChannelReply(PipeMaxReqs)),
           NEW q \in Nat, \A n : Sent(d, n) => n \in 1..q
    PROVE  /\ Answers(d) \in Seq(PipeResponse) /\ Len(Answers(d)) = Len(o)
           /\ \A i \in 1..Len(o) : /\ Answers(d)[i].kind = "RET_SUBMIT"
                                   /\ Answers(d)[i].n = o[i].seq /\ o[i].seq \in 1..q
           /\ \A n : Tells(Answers(d), n) <=> Sent(d, n)
<1>1. PICK l : l = Len(o)
    BY Zenon
<1>2. l \in Nat
    BY <1>1
<1>3. PICK b : b = Answers(d)
    BY Zenon
<1>4. b = [i \in 1..l |-> RetSubmit(o[i].seq, "OK")]
    BY <1>1, <1>3, Zenon DEF Answers
<1>5. \A i \in 1..l : o[i].seq \in 1..PipeMaxReqs
    <2>1. \A i \in 1..l : o[i] \in ChannelReply(PipeMaxReqs)
        BY <1>1, <1>2
    <2> QED
        BY <2>1 DEF ChannelReply
<1>6. \A i \in 1..l : RetSubmit(o[i].seq, "OK") \in PipeResponse
    BY <1>5 DEF RetSubmit, PipeResponse
<1>7. b \in [1..l -> PipeResponse]
    BY <1>4, <1>6, Zenon
<1> HIDE DEF PipeResponse
<1>8. b \in Seq(PipeResponse) /\ Len(b) = l
    BY <1>2, <1>7
<1>9. \A i \in 1..l : b[i].kind = "RET_SUBMIT" /\ b[i].n = o[i].seq
    BY <1>4 DEF RetSubmit
<1>10. \A i \in 1..l : o[i].seq \in 1..q
    BY <1>1 DEF Sent
<1>11. \A n : Tells(b, n) <=> Sent(d, n)
    BY <1>1, <1>8, <1>9, Zenon DEF Tells, Sent
<1> QED
    BY <1>1, <1>3, <1>8, <1>9, <1>10, <1>11

------------------------------------------------------------------------------
(* The pipe device: the OUT channels.                                        *)

Outs == ToSet(OutEps)
OutRequest == [n : 1..PipeMaxReqs, answer : BOOLEAN]

\* Requests in the order of arrival, numbered up to p
QueueOf(q, p) ==
    /\ q \in Seq(OutRequest)
    /\ \A i \in 1..Len(q) : q[i].n \in 1..p
    /\ \A i, j \in 1..Len(q) : i < j => q[i].n < q[j].n

\* n waits in q for read(), and read() will answer it.
HasOut(q, n) == \E i \in 1..Len(q) : q[i].n = n
Owes(q, n) == \E i \in 1..Len(q) : q[i].n = n /\ q[i].answer = TRUE

\* on_out_request
QueueGrew(q, p, ans, r) ==
    /\ QueueOf(r, p + 1)
    /\ \A n : HasOut(r, n) <=> HasOut(q, n) \/ n = p + 1
    /\ \A n : Owes(r, n) <=> Owes(q, n) \/ (n = p + 1 /\ ans)
LEMMA QueueAppends ==
    ASSUME NEW q, NEW p \in Nat, QueueOf(q, p), p < PipeMaxReqs, NEW ans \in BOOLEAN
    PROVE  QueueGrew(q, p, ans, Append(q, [n |-> p + 1, answer |-> ans]))
<1> SUFFICES ASSUME NEW r, r = Append(q, [n |-> p + 1, answer |-> ans]) PROVE QueueGrew(q, p, ans, r)
    BY Zenon
<1>1. PICK x : x = [n |-> p + 1, answer |-> ans]
    BY Zenon
<1>2. x \in OutRequest /\ x.n = p + 1 /\ x.answer = ans
    BY <1>1, PipeConstants DEF OutRequest
<1>3. PICK k : k = Len(q)
    BY Zenon
<1>4. q \in Seq(OutRequest) /\ k \in Nat
    BY <1>3 DEF QueueOf
<1> HIDE DEF OutRequest
<1>5. r \in Seq(OutRequest) /\ Len(r) = k + 1 /\ r[k + 1] = x /\ \A i \in 1..k : r[i] = q[i]
    BY <1>1, <1>2, <1>3, <1>4, AppendProperties
<1>6. /\ \A i \in 1..k : q[i].n \in 1..p
      /\ \A i, j \in 1..k : i < j => q[i].n < q[j].n
    BY <1>3 DEF QueueOf
<1>7. \A i \in 1..(k + 1) : i \in 1..k \/ i = k + 1
    BY <1>4
<1>8. k + 1 \in 1..(k + 1) /\ \A i \in 1..k : i \in 1..(k + 1)
    BY <1>4
<1>9. \A i \in 1..(k + 1) : r[i].n \in 1..(p + 1)
    <2> SUFFICES ASSUME NEW i \in 1..(k + 1) PROVE r[i].n \in 1..(p + 1)
        OBVIOUS
    <2>1. CASE i \in 1..k
        <3>1. PICK m : m = r[i].n
            BY Zenon
        <3>2. m \in 1..p
            BY <1>5, <1>6, <2>1, <3>1
        <3>3. m \in 1..(p + 1)
            BY <3>2
        <3> QED
            BY <3>1, <3>3, Zenon
    <2>2. CASE i = k + 1
        BY <1>2, <1>5, <2>2
    <2> QED
        BY <1>7, <2>1, <2>2
<1>10. \A i, j \in 1..(k + 1) : i < j => r[i].n < r[j].n
    <2> SUFFICES ASSUME NEW i \in 1..(k + 1), NEW j \in 1..(k + 1), i < j PROVE r[i].n < r[j].n
        OBVIOUS
    <2>1. i \in 1..k
        BY <1>4
    <2>2. r[i] = q[i] /\ q[i].n \in 1..p
        BY <1>5, <1>6, <2>1
    <2>3. CASE j \in 1..k
        BY <1>5, <1>6, <2>1, <2>3
    <2>4. CASE j = k + 1
        <3>1. r[j].n = p + 1
            BY <1>2, <1>5, <2>4
        <3>2. PICK m : m = q[i].n
            BY Zenon
        <3>3. m \in 1..p /\ m < p + 1
            BY <2>2, <3>2
        <3> QED
            BY <2>2, <3>1, <3>2, <3>3, Zenon
    <2> QED
        BY <1>7, <2>3, <2>4
<1>11. \A n : HasOut(r, n) <=> HasOut(q, n) \/ n = p + 1
    BY <1>2, <1>3, <1>5, <1>7, <1>8, Zenon DEF HasOut
<1>12. \A n : Owes(r, n) <=> Owes(q, n) \/ (n = p + 1 /\ ans)
    <2>1. \A n : Owes(r, n) => Owes(q, n) \/ (n = p + 1 /\ ans = TRUE)
        BY <1>2, <1>3, <1>5, <1>7 DEF Owes
    <2>2. \A n : Owes(q, n) \/ (n = p + 1 /\ ans = TRUE) => Owes(r, n)
        BY <1>2, <1>3, <1>5, <1>8 DEF Owes
    <2> QED
        BY <2>1, <2>2, Zenon
<1> QED
    BY <1>5, <1>9, <1>10, <1>11, <1>12 DEF QueueOf, QueueGrew

\* Requests of a queue have different numbers.
LEMMA QueueDistinct ==
    ASSUME NEW q, NEW p \in Nat, QueueOf(q, p)
    PROVE  \A i, j \in 1..Len(q) : q[i].n = q[j].n => i = j
<1> SUFFICES ASSUME NEW i \in 1..Len(q), NEW j \in 1..Len(q), q[i].n = q[j].n, i # j PROVE FALSE
    OBVIOUS
<1>1. Len(q) \in Nat /\ q[i].n \in Nat
    BY DEF QueueOf
<1>2. i < j \/ j < i
    BY <1>1
<1> QED
    BY <1>1, <1>2 DEF QueueOf

\* take_locked: the oldest request leaves.
LEMMA QueueTail ==
    ASSUME NEW q, NEW p \in Nat, QueueOf(q, p), q # <<>>, NEW r, r = Tail(q)
    PROVE  /\ QueueOf(r, p) /\ Head(q) \in OutRequest /\ HasOut(q, Head(q).n)
           /\ \A n : HasOut(r, n) <=> HasOut(q, n) /\ n # Head(q).n
           /\ \A n : Owes(r, n) <=> Owes(q, n) /\ n # Head(q).n
           /\ Owes(q, Head(q).n) <=> Head(q).answer
           /\ \A n : HasOut(q, n) => Head(q).n <= n
<1> HIDE DEF OutRequest
<1>1. q \in Seq(OutRequest)
    BY DEF QueueOf
<1>2. PICK k : k = Len(r)
    BY Zenon
<1>3. PICK h : h = Head(q)
    BY Zenon
<1>4. /\ r \in Seq(OutRequest) /\ k \in Nat /\ Len(q) = k + 1 /\ q[1] = h
      /\ \A i \in 1..k : r[i] = q[i + 1]
    <2>1. Len(q) \in Nat /\ Len(q) # 0
        BY <1>1, EmptySeq
    <2>2. /\ Head(q) = q[1] /\ Tail(q) \in Seq(OutRequest) /\ Len(Tail(q)) = Len(q) - 1
          /\ \A i \in 1..Len(Tail(q)) : Tail(q)[i] = q[i + 1]
        BY <1>1, HeadTailProperties
    <2> QED
        BY <1>2, <1>3, <2>1, <2>2
<1>5. /\ \A i \in 1..(k + 1) : q[i].n \in 1..p
      /\ \A i, j \in 1..(k + 1) : i < j => q[i].n < q[j].n
    BY <1>4 DEF QueueOf
<1>6. /\ \A i \in 1..k : i + 1 \in 1..(k + 1) /\ i + 1 # 1
      /\ \A i \in 1..(k + 1) : i = 1 \/ \E j \in 1..k : i = j + 1
      /\ 1 \in 1..(k + 1)
    <2>1. \A i \in 1..(k + 1) : i = 1 \/ (i - 1 \in 1..k /\ i = (i - 1) + 1)
        BY <1>4
    <2>2. /\ \A i \in 1..k : i + 1 \in 1..(k + 1) /\ i + 1 # 1
          /\ 1 \in 1..(k + 1)
        BY <1>4
    <2> QED
        BY <2>1, <2>2
<1>7. h \in OutRequest
    <2>1. \A i \in 1..(k + 1) : q[i] \in OutRequest
        BY <1>1, <1>4
    <2> QED
        BY <1>4, <1>6, <2>1
<1>8. QueueOf(r, p)
    <2>1. \A i \in 1..k : r[i].n \in 1..p
        BY <1>4, <1>5, <1>6
    <2>2. ASSUME NEW i \in 1..k, NEW j \in 1..k, i < j
          PROVE  r[i].n < r[j].n
        <3>1. i + 1 < j + 1
            BY <1>4, <2>2
        <3> QED
            BY <1>4, <1>5, <1>6, <3>1
    <2> QED
        BY <1>2, <1>4, <2>1, <2>2 DEF QueueOf
<1>9. \A i, j \in 1..(k + 1) : q[i].n = q[j].n => i = j
    BY <1>4, QueueDistinct
<1>10. \A i \in 1..k : r[i].n # h.n
    <2> SUFFICES ASSUME NEW i \in 1..k, r[i].n = h.n PROVE FALSE
        OBVIOUS
    <2>1. q[i + 1].n = q[1].n /\ i + 1 \in 1..(k + 1)
        BY <1>4, <1>6
    <2>2. i + 1 = 1
        BY <1>6, <1>9, <2>1
    <2> QED
        BY <1>6, <2>2
<1>11. \A i \in 1..(k + 1) : q[i].n # h.n => \E j \in 1..k : r[j] = q[i]
    BY <1>4, <1>6
<1>12. \A n : HasOut(r, n) <=> HasOut(q, n) /\ n # h.n
    <2>1. \A n : HasOut(r, n) => HasOut(q, n) /\ n # h.n
        BY <1>2, <1>4, <1>6, <1>10 DEF HasOut
    <2>2. \A n : HasOut(q, n) /\ n # h.n => HasOut(r, n)
        BY <1>2, <1>4, <1>11 DEF HasOut
    <2> QED
        BY <2>1, <2>2
<1>13. \A n : Owes(r, n) <=> Owes(q, n) /\ n # h.n
    <2>1. \A n : Owes(r, n) => Owes(q, n) /\ n # h.n
        BY <1>2, <1>4, <1>6, <1>10 DEF Owes
    <2>2. \A n : Owes(q, n) /\ n # h.n => Owes(r, n)
        BY <1>2, <1>4, <1>11 DEF Owes
    <2> QED
        BY <2>1, <2>2
<1>14. HasOut(q, h.n)
    BY <1>4, <1>6 DEF HasOut
<1>15. Owes(q, h.n) <=> h.answer
    <2>1. ASSUME Owes(q, h.n)
          PROVE  h.answer
        <3>1. PICK i \in 1..(k + 1) : q[i].n = h.n /\ q[i].answer = TRUE
            BY <1>4, <2>1 DEF Owes
        <3>2. i = 1
            BY <1>4, <1>6, <1>9, <3>1
        <3> QED
            BY <1>4, <3>1, <3>2, Zenon
    <2>2. h.answer = TRUE => Owes(q, h.n)
        BY <1>4, <1>6 DEF Owes
    <2>3. h.answer \in BOOLEAN
        BY <1>7 DEF OutRequest
    <2> QED
        BY <2>1, <2>2, <2>3, Zenon
<1>16. \A n : HasOut(q, n) => h.n <= n
    <2> SUFFICES ASSUME NEW i \in 1..(k + 1) PROVE h.n <= q[i].n
        BY <1>4 DEF HasOut
    <2>1. h.n \in Nat /\ q[i].n \in Nat
        BY <1>4, <1>5, <1>6
    <2>2. CASE i = 1
        BY <1>4, <2>1, <2>2
    <2>3. CASE 1 < i
        <3>1. h.n < q[i].n
            BY <1>4, <1>5, <1>6, <2>3
        <3> QED
            BY <2>1, <3>1
    <2> QED
        BY <1>4, <2>2, <2>3
<1> QED
    BY <1>3, <1>7, <1>8, <1>12, <1>13, <1>14, <1>15, <1>16, Zenon

\* cancel_pending: the request leaves, wherever it is.
LEMMA QueueCancels ==
    ASSUME NEW q, NEW p \in Nat, QueueOf(q, p), NEW x, NEW r, r = CancelOut(q, x)
    PROVE  /\ QueueOf(r, p)
           /\ \A n : HasOut(r, n) <=> HasOut(q, n) /\ n # x
           /\ \A n : Owes(r, n) <=> Owes(q, n) /\ n # x
<1> HIDE DEF OutRequest
<1>1. CASE ~HasOut(q, x)
    <2>1. r = q
        BY <1>1 DEF CancelOut, HasOut
    <2>2. \A n : Owes(q, n) => HasOut(q, n)
        BY Zenon DEF Owes, HasOut
    <2> QED
        BY <1>1, <2>1, <2>2
<1>2. CASE HasOut(q, x)
    <2>1. q \in Seq(OutRequest)
        BY DEF QueueOf
    <2>2. PICK j : j = CHOOSE i \in 1..Len(q) : q[i].n = x
        BY Zenon
    <2>3. j \in 1..Len(q) /\ q[j].n = x
        BY <1>2, <2>2, Zenon DEF HasOut
    <2>4. r = RemoveAt(q, j)
        BY <1>2, <2>2, Zenon DEF CancelOut, HasOut
    <2>5. PICK k : k = Len(q) - 1
        BY Zenon
    <2>6. k \in Nat /\ Len(q) = k + 1 /\ j \in 1..(k + 1)
        <3>1. Len(q) \in Nat
            BY <2>1
        <3> QED
            BY <2>3, <2>5, <3>1
    <2>7. /\ r \in Seq(OutRequest) /\ Len(r) = k
          /\ \A i \in 1..k : r[i] = IF i < j THEN q[i] ELSE q[i + 1]
        BY <2>1, <2>3, <2>4, <2>5, Removed, ZenonT(60)
    <2>8. PICK at : at = [i \in 1..k |-> IF i < j THEN i ELSE i + 1]
        BY Zenon
    <2>9. /\ \A i \in 1..k : at[i] \in 1..(k + 1) /\ r[i] = q[at[i]] /\ at[i] # j
          /\ \A i, l \in 1..k : i < l => at[i] < at[l]
        BY <2>6, <2>7, <2>8
    <2>10. \A l \in 1..(k + 1) : l # j => \E i \in 1..k : at[i] = l
        <3> SUFFICES ASSUME NEW l \in 1..(k + 1), l # j PROVE \E i \in 1..k : at[i] = l
            OBVIOUS
        <3>1. CASE l < j
            <4>1. l \in 1..k /\ at[l] = l
                BY <2>6, <2>8, <3>1
            <4> QED
                BY <4>1
        <3>2. CASE ~(l < j)
            <4>1. PICK i : i = l - 1
                BY Zenon
            <4>2. i \in 1..k /\ ~(i < j) /\ i + 1 = l
                BY <2>6, <3>2, <4>1
            <4>3. at[i] = l
                BY <2>8, <4>2
            <4> QED
                BY <4>2, <4>3
        <3> QED
            BY <3>1, <3>2
    <2>11. /\ \A i \in 1..(k + 1) : q[i].n \in 1..p
           /\ \A i, l \in 1..(k + 1) : i < l => q[i].n < q[l].n
        BY <2>6 DEF QueueOf
    <2>12. \A i, l \in 1..(k + 1) : q[i].n = q[l].n => i = l
        BY <2>6, QueueDistinct
    <2>13. QueueOf(r, p)
        BY <2>7, <2>9, <2>11, ZenonT(60) DEF QueueOf
    <2>14. \A i \in 1..k : r[i].n # x
        BY <2>3, <2>6, <2>9, <2>12
    <2>15. \A l \in 1..(k + 1) : q[l].n # x => \E i \in 1..k : r[i] = q[l]
        BY <2>3, <2>9, <2>10
    <2>16. \A n : HasOut(r, n) <=> HasOut(q, n) /\ n # x
        <3>1. \A n : HasOut(r, n) => HasOut(q, n) /\ n # x
            BY <2>6, <2>7, <2>9, <2>14 DEF HasOut
        <3>2. \A n : HasOut(q, n) /\ n # x => HasOut(r, n)
            BY <2>6, <2>7, <2>15, ZenonT(60) DEF HasOut
        <3> QED
            BY <3>1, <3>2
    <2>17. \A n : Owes(r, n) <=> Owes(q, n) /\ n # x
        <3>1. \A n : Owes(r, n) => Owes(q, n) /\ n # x
            BY <2>6, <2>7, <2>9, <2>14 DEF Owes
        <3>2. \A n : Owes(q, n) /\ n # x => Owes(r, n)
            BY <2>6, <2>7, <2>15 DEF Owes
        <3> QED
            BY <3>1, <3>2
    <2> QED
        BY <2>13, <2>16, <2>17
<1> QED
    BY <1>1, <1>2

------------------------------------------------------------------------------
(* The pipe device: which OUT channel read() takes from.                     *)

\* The remainder of a number less than twice the divisor
RemainderOf(x, s, r) ==
    /\ 0 <= x /\ x < s => r = x
    /\ s <= x /\ x < s + s => r = x - s
    /\ -s <= x /\ x < 0 => r = x + s
LEMMA RemainderOnce ==
    ASSUME NEW s \in Nat \ {0}, NEW x \in Int
    PROVE  RemainderOf(x, s, x % s)
<1>1. PICK k : k = x \div s
    BY Zenon
<1>2. PICK r : r = x % s
    BY Zenon
<1>3. k \in Int /\ r \in 0..(s - 1) /\ x = s * k + r
    BY <1>1, <1>2
<1>4. CASE k = 0
    BY <1>2, <1>3, <1>4 DEF RemainderOf
<1>5. CASE k = 1
    BY <1>2, <1>3, <1>5 DEF RemainderOf
<1>6. CASE k = -1
    BY <1>2, <1>3, <1>6 DEF RemainderOf
<1>7. CASE k >= 2
    <2>1. s * k >= s + s
        BY <1>3, <1>7
    <2> QED
        BY <1>3, <2>1 DEF RemainderOf
<1>8. CASE k <= -2
    <2>1. s * k <= -s - s
        BY <1>3, <1>8
    <2> QED
        BY <1>3, <2>1 DEF RemainderOf
<1> QED
    BY <1>3, <1>4, <1>5, <1>6, <1>7, <1>8

\* seqnum_newer: fewer requests than half of the sequence numbers are compared
\* by their arrival, also where the numbers wrap around.
LEMMA NewerIsLater ==
    ASSUME NEW m \in 1..PipeMaxReqs, NEW n \in 1..PipeMaxReqs
    PROVE  SeqnumNewer(m, n) <=> n < m
<1>1. PICK h : h = SeqSpace \div 2
    BY Zenon
<1>2. /\ SeqSpace \in Nat \ {0} /\ SeqBase \in 0..(SeqSpace - 1) /\ PipeMaxReqs \in Nat
      /\ PipeMaxReqs < h
    BY <1>1, PipeDeviceAssumption
<1>3. h \in Nat /\ h + h <= SeqSpace
    BY <1>1, <1>2
<1>4. PICK wm : wm = Wire(m)
    BY Zenon
<1>5. PICK wn : wn = Wire(n)
    BY Zenon
<1>6. /\ SeqBase + m < SeqSpace => wm = SeqBase + m
      /\ SeqBase + m >= SeqSpace => wm = SeqBase + m - SeqSpace
    <2>1. SeqBase + m \in Int /\ 0 <= SeqBase + m /\ SeqBase + m < SeqSpace + SeqSpace
        BY <1>2, <1>3
    <2>2. PICK x : x = SeqBase + m
        BY Zenon
    <2>3. RemainderOf(x, SeqSpace, x % SeqSpace)
        BY <1>2, <2>1, <2>2, RemainderOnce
    <2>4. x % SeqSpace = wm
        BY <1>4, <2>2, Zenon DEF Wire
    <2>5. RemainderOf(x, SeqSpace, wm)
        BY <2>3, <2>4, Zenon
    <2> QED
        BY <1>2, <2>1, <2>2, <2>5 DEF RemainderOf
<1>7. /\ SeqBase + n < SeqSpace => wn = SeqBase + n
      /\ SeqBase + n >= SeqSpace => wn = SeqBase + n - SeqSpace
    <2>1. SeqBase + n \in Int /\ 0 <= SeqBase + n /\ SeqBase + n < SeqSpace + SeqSpace
        BY <1>2, <1>3
    <2>2. PICK x : x = SeqBase + n
        BY Zenon
    <2>3. RemainderOf(x, SeqSpace, x % SeqSpace)
        BY <1>2, <2>1, <2>2, RemainderOnce
    <2>4. x % SeqSpace = wn
        BY <1>5, <2>2, Zenon DEF Wire
    <2>5. RemainderOf(x, SeqSpace, wn)
        BY <2>3, <2>4, Zenon
    <2> QED
        BY <1>2, <2>1, <2>2, <2>5 DEF RemainderOf
<1>8. wm \in Int /\ wn \in Int
    BY <1>2, <1>6, <1>7
<1>9. PICK d : d = wm - wn
    BY Zenon
<1>10. d = m - n \/ d = m - n - SeqSpace \/ d = m - n + SeqSpace
    BY <1>2, <1>6, <1>7, <1>8, <1>9
<1>11. d < SeqSpace /\ -SeqSpace < d
    BY <1>2, <1>3, <1>6, <1>7, <1>8, <1>9
<1>12. PICK r : r = d % SeqSpace
    BY Zenon
<1>13. r = IF 0 <= d THEN d ELSE d + SeqSpace
    <2>1. d \in Int
        BY <1>8, <1>9
    <2>2. RemainderOf(d, SeqSpace, d % SeqSpace)
        BY <1>2, <2>1, RemainderOnce
    <2>3. RemainderOf(d, SeqSpace, r)
        BY <1>12, <2>2, Zenon
    <2> QED
        BY <1>2, <1>11, <2>1, <2>3 DEF RemainderOf
<1>14. r \in 1..(h - 1) <=> n < m
    BY <1>2, <1>3, <1>8, <1>9, <1>10, <1>11, <1>13
<1>15. SeqnumNewer(m, n) <=> r \in 1..(h - 1)
    BY <1>1, <1>4, <1>5, <1>9, <1>12, Zenon DEF SeqnumNewer
<1> QED
    BY <1>14, <1>15

\* The loop of take_one
OldestTo(f, n) == f = [i \in 0..n |-> IF i = 0 THEN -1 ELSE Older(f[i - 1], OutEps[i])]
LEMMA OldestExists ==
    ASSUME NEW n \in Nat
    PROVE  \E f : OldestTo(f, n)
<1> DEFINE Good(k) == \E f : OldestTo(f, k)
           Bad == {k \in Nat : ~Good(k)}
<1>1. Good(0)
    <2>1. PICK f : f = [i \in 0..0 |-> -1]
        BY Zenon
    <2>2. f = [i \in 0..0 |-> IF i = 0 THEN -1 ELSE Older(f[i - 1], OutEps[i])]
        BY <2>1
    <2> QED
        BY <2>2, Zenon DEF OldestTo
<1>2. ASSUME NEW k \in Nat, Good(k)
      PROVE  Good(k + 1)
    <2>1. PICK f : f = [i \in 0..k |-> IF i = 0 THEN -1 ELSE Older(f[i - 1], OutEps[i])]
        BY <1>2, Zenon DEF OldestTo
    <2>2. PICK g : g = [i \in 0..(k + 1) |-> IF i = k + 1 THEN Older(f[k], OutEps[k + 1]) ELSE f[i]]
        BY Zenon
    <2>3. \A i \in 0..(k + 1) : g[i] = IF i = 0 THEN -1 ELSE Older(g[i - 1], OutEps[i])
        <3> TAKE i \in 0..(k + 1)
        <3>1. CASE i = 0
            <4>1. f[0] = -1 /\ g[0] = f[0]
                BY <2>1, <2>2
            <4> QED
                BY <3>1, <4>1
        <3>2. CASE i \in 1..k
            <4>1. g[i] = f[i] /\ g[i - 1] = f[i - 1]
                BY <2>2, <3>2
            <4>2. f[i] = Older(f[i - 1], OutEps[i])
                BY <2>1, <3>2
            <4> QED
                BY <3>2, <4>1, <4>2
        <3>3. CASE i = k + 1
            <4>1. g[k + 1] = Older(f[k], OutEps[k + 1]) /\ g[k] = f[k] /\ i - 1 = k /\ i # 0
                BY <2>2, <3>3
            <4> QED
                BY <3>3, <4>1
        <3> QED
            BY <3>1, <3>2, <3>3
    <2>4. g = [i \in 0..(k + 1) |-> g[i]]
        BY <2>2
    <2>5. g = [i \in 0..(k + 1) |-> IF i = 0 THEN -1 ELSE Older(g[i - 1], OutEps[i])]
        BY <2>3, <2>4, Zenon
    <2> QED
        BY <2>5, Zenon DEF OldestTo
<1> HIDE DEF Good
<1>3. Bad = {}
    <2> SUFFICES ASSUME Bad # {} PROVE FALSE
        OBVIOUS
    <2>1. PICK x \in Bad : \A y \in Bad : ~(<<y, x>> \in OpToRel(<, Nat))
        BY NatLessThanWellFounded, WFMin, Zenon
    <2>2. \A y \in Bad : ~(y < x)
        BY <2>1, Zenon DEF OpToRel
    <2>3. x \in Nat /\ x # 0 /\ ~Good(x)
        BY <1>1
    <2>4. x - 1 \in Nat /\ (x - 1) + 1 = x /\ x - 1 < x
        BY <2>3
    <2>5. Good(x - 1)
        BY <2>2, <2>4
    <2> QED
        BY <1>2, <2>3, <2>4, <2>5
<1>4. Good(n)
    BY <1>3
<1> QED
    BY <1>4 DEF Good

\* The front of an OUT channel, and what the first k channels leave as oldest
OutFront(e) == Head(out_channels[e]).n
Best(b, k) ==
    \/ b = -1 /\ \A i \in 1..k : out_channels[OutEps[i]] = <<>>
    \/ /\ b \in Outs /\ out_channels[b] # <<>>
       /\ \A i \in 1..k : out_channels[OutEps[i]] # <<>> => OutFront(b) <= OutFront(OutEps[i])

OutsQueued == /\ out_channels \in [Outs -> Seq(OutRequest)] /\ preq \in 0..PipeMaxReqs
              /\ \A e \in Outs : QueueOf(out_channels[e], preq)

LEMMA OutsNumbered ==
    /\ \A i \in 1..Len(OutEps) : OutEps[i] \in Outs /\ OutEps[i] # -1
    /\ \A e \in Outs : e \in Nat /\ \E i \in 1..Len(OutEps) : e = OutEps[i]
    /\ 0 \in Outs
<1>1. Outs = {OutEps[i] : i \in DOMAIN OutEps}
    BY DEF Outs, ToSet
<1>2. DOMAIN OutEps = 1..Len(OutEps) /\ \A i \in 1..Len(OutEps) : OutEps[i] \in Nat
    BY PipeConstants
<1>3. \A i \in 1..Len(OutEps) : OutEps[i] # -1
    BY <1>2
<1>4. 1 \in 1..Len(OutEps) /\ OutEps[1] = 0
    BY PipeConstants
<1> QED
    BY <1>1, <1>2, <1>3, <1>4

LEMMA FrontNumbered ==
    ASSUME OutsQueued, NEW e \in Outs, out_channels[e] # <<>>
    PROVE  OutFront(e) \in 1..PipeMaxReqs
<1>1. PICK q : q = out_channels[e]
    BY Zenon
<1>2. PICK p : p = preq
    BY Zenon
<1>3. p \in 0..PipeMaxReqs /\ PipeMaxReqs \in Nat /\ QueueOf(q, p) /\ q # <<>>
    BY <1>1, <1>2, PipeConstants DEF OutsQueued
<1>4. HasOut(q, Head(q).n)
    <2>1. p \in Nat /\ QueueOf(q, p) /\ q # <<>>
        BY <1>3
    <2> QED
        BY <2>1, QueueTail, Zenon
<1>5. Head(q).n \in 1..p
    BY <1>3, <1>4 DEF HasOut, QueueOf
<1>6. Head(q).n \in 1..PipeMaxReqs
    <2>1. PICK m : m = Head(q).n
        BY Zenon
    <2>2. m \in 1..PipeMaxReqs
        BY <1>3, <1>5, <2>1
    <2> QED
        BY <2>1, <2>2, Zenon
<1> QED
    BY <1>1, <1>6 DEF OutFront

LEMMA OlderIsBest ==
    ASSUME OutsQueued, NEW k \in Nat, k + 1 \in 1..Len(OutEps), NEW b, Best(b, k)
    PROVE  Best(Older(b, OutEps[k + 1]), k + 1)
<1>1. PICK e : e = OutEps[k + 1]
    BY Zenon
<1>2. e \in Outs /\ -1 \notin Outs
    BY <1>1, OutsNumbered
<1>3. \A i \in 1..(k + 1) : i \in 1..k \/ i = k + 1
    OBVIOUS
<1>4. CASE out_channels[e] = <<>>
    <2>1. Older(b, e) = b
        BY <1>4 DEF Older
    <2> QED
        BY <1>1, <1>3, <1>4, <2>1 DEF Best
<1>5. CASE out_channels[e] # <<>> /\ b = -1
    <2>1. Older(b, e) = e
        BY <1>5 DEF Older
    <2>2. \A i \in 1..k : out_channels[OutEps[i]] = <<>>
        BY <1>2, <1>5 DEF Best
    <2>3. OutFront(e) <= OutFront(e)
        <3>1. OutFront(e) \in 1..PipeMaxReqs
            BY <1>2, <1>5, FrontNumbered
        <3> QED
            BY <3>1
    <2> QED
        BY <1>1, <1>2, <1>3, <1>5, <2>1, <2>2, <2>3 DEF Best
<1>6. CASE out_channels[e] # <<>> /\ b # -1
    <2>1. b \in Outs /\ out_channels[b] # <<>>
        BY <1>6 DEF Best
    <2>2. \A i \in 1..k : out_channels[OutEps[i]] # <<>> => OutFront(b) <= OutFront(OutEps[i])
        BY <1>6 DEF Best
    <2>3. PICK x : x = OutFront(b)
        BY Zenon
    <2>4. PICK y : y = OutFront(e)
        BY Zenon
    <2>5. x \in 1..PipeMaxReqs /\ y \in 1..PipeMaxReqs
        BY <1>2, <1>6, <2>1, <2>3, <2>4, FrontNumbered
    <2>6. SeqnumNewer(x, y) <=> y < x
        BY <2>5, NewerIsLater
    <2>7. Older(b, e) = IF SeqnumNewer(x, y) THEN e ELSE b
        BY <1>6, <2>3, <2>4, Zenon DEF Older, OutFront
    <2>8. CASE y < x
        <3>1. Older(b, e) = e
            BY <2>6, <2>7, <2>8
        <3>2. ASSUME NEW i \in 1..k, out_channels[OutEps[i]] # <<>>
              PROVE  y <= OutFront(OutEps[i])
            <4>1. PICK z : z = OutFront(OutEps[i])
                BY Zenon
            <4>2. OutEps[i] \in Outs
                <5>1. i \in 1..Len(OutEps)
                    BY PipeConstants
                <5> QED
                    BY <5>1, OutsNumbered
            <4>3. z \in 1..PipeMaxReqs /\ x <= z
                BY <2>2, <2>3, <3>2, <4>1, <4>2, FrontNumbered
            <4>4. y <= z
                BY <2>5, <2>8, <4>3
            <4> QED
                BY <4>1, <4>4, Zenon
        <3>3. y <= y
            BY <2>5
        <3>4. \A i \in 1..(k + 1) : out_channels[OutEps[i]] # <<>> => y <= OutFront(OutEps[i])
            BY <1>1, <1>3, <2>4, <3>2, <3>3
        <3> QED
            BY <1>1, <1>2, <1>6, <2>4, <3>1, <3>4, Zenon DEF Best
    <2>9. CASE ~(y < x)
        <3>1. Older(b, e) = b /\ x <= y
            BY <2>5, <2>6, <2>7, <2>9
        <3>2. \A i \in 1..(k + 1) : out_channels[OutEps[i]] # <<>> => x <= OutFront(OutEps[i])
            BY <1>1, <1>3, <2>2, <2>3, <2>4, <3>1
        <3> QED
            BY <1>1, <2>1, <2>3, <3>1, <3>2, Zenon DEF Best
    <2> QED
        BY <2>8, <2>9
<1> QED
    BY <1>4, <1>5, <1>6

\* take_one finds the oldest request of all OUT channels.
LEMMA OldestIsBest ==
    ASSUME OutsQueued
    PROVE  \/ Oldest = -1 /\ \A e \in Outs : out_channels[e] = <<>>
           \/ /\ Oldest \in Outs /\ out_channels[Oldest] # <<>>
              /\ \A e \in Outs : out_channels[e] # <<>> => OutFront(Oldest) <= OutFront(e)
<1>1. PICK l : l = Len(OutEps)
    BY Zenon
<1>2. l \in Nat
    BY <1>1, PipeConstants
<1>3. PICK f : f = CHOOSE g : OldestTo(g, l)
    BY Zenon
<1>4. f = [i \in 0..l |-> IF i = 0 THEN -1 ELSE Older(f[i - 1], OutEps[i])]
    <2>1. OldestTo(f, l)
        BY <1>2, <1>3, OldestExists, Zenon
    <2> QED
        BY <2>1 DEF OldestTo
<1>5. Oldest = f[l]
    BY <1>1, <1>3, Zenon DEF Oldest, OldestTo
<1> DEFINE Good(k) == Best(f[k], k)
           Bad == {k \in 0..l : ~Good(k)}
<1>6. Good(0)
    <2>1. f[0] = -1 /\ 1..0 = {}
        BY <1>2, <1>4
    <2> QED
        BY <2>1 DEF Best
<1>7. ASSUME NEW k \in 0..l, k + 1 \in 0..l, Good(k)
      PROVE  Good(k + 1)
    <2>1. f[k + 1] = Older(f[k], OutEps[k + 1])
        BY <1>2, <1>4, <1>7
    <2>2. k \in Nat /\ k + 1 \in 1..Len(OutEps)
        BY <1>1, <1>2, <1>7
    <2>3. Best(Older(f[k], OutEps[k + 1]), k + 1)
        BY <1>7, <2>2, OlderIsBest
    <2> QED
        BY <2>1, <2>3
<1> HIDE DEF Good
<1>8. Bad = {}
    <2> SUFFICES ASSUME Bad # {} PROVE FALSE
        OBVIOUS
    <2>1. Bad \subseteq Nat
        OBVIOUS
    <2>2. PICK x \in Bad : \A y \in Bad : ~(<<y, x>> \in OpToRel(<, Nat))
        BY <2>1, NatLessThanWellFounded, WFMin, Zenon
    <2>3. x \in 0..l /\ x # 0 /\ ~Good(x)
        BY <1>6, <2>2, Zenon
    <2>4. x - 1 \in 0..l /\ (x - 1) + 1 = x /\ x - 1 < x /\ x \in Nat /\ x - 1 \in Nat
        BY <1>2, <2>3
    <2>5. \A y \in Bad : ~(y < x)
        BY <2>1, <2>2, <2>4, Zenon DEF OpToRel
    <2>6. Good(x - 1)
        BY <2>4, <2>5
    <2> QED
        BY <1>7, <2>3, <2>4, <2>6
<1>9. Best(Oldest, l)
    <2>1. Good(l)
        BY <1>2, <1>8
    <2> QED
        BY <1>5, <2>1 DEF Good
<1> QED
    BY <1>1, <1>9, OutsNumbered, ZenonT(60) DEF Best

------------------------------------------------------------------------------
(* The pipe device: where a request is.                                      *)

\* Request n waits for data in an IN channel, or for read(), which answers it.
InWaits(I, n) == \E e \in DOMAIN I : Pends(I[e], n)
Owed(Q, n) == \E e \in Outs : Owes(Q[e], n)

\* What is open has been neither answered nor unlinked, and is in one place;
\* and everything else has been one of the two.
OpenOf(I, Q, a, u, p) ==
    /\ \A e, f \in DOMAIN I : \A n : Pends(I[e], n) /\ Pends(I[f], n) => e = f
    /\ \A n : InWaits(I, n) \/ Owed(Q, n) =>
                  n \in 1..p /\ ~(InWaits(I, n) /\ Owed(Q, n)) /\ ~Tells(a, n) /\ n \notin u
ClosedOf(I, Q, a, u, p) ==
    \A n \in 1..p : Tells(a, n) \/ n \in u \/ InWaits(I, n) \/ Owed(Q, n)

\* Channel e of the channels I, which was c, is now d, and has given answers.
TurnsAt(I, J, Q, R, a, b, u, p, q, e, c, d) ==
    /\ p \in Nat /\ q \in {p, p + 1} /\ u \subseteq 1..p /\ \A n : Tells(a, n) => n \in 1..p
    /\ DOMAIN J = DOMAIN I \cup {e} /\ \A f \in DOMAIN I : f # e => J[f] = I[f]
    /\ \A n : Pends(J[e], n) <=> Pends(d, n)
    /\ e \in DOMAIN I => c = I[e]
    /\ e \notin DOMAIN I => \A n : ~Pends(c, n)
    /\ \A n : Pends(d, n) \/ Sent(d, n) <=> Pends(c, n) \/ n \in (p + 1)..q
    /\ \A n : ~(Pends(d, n) /\ Sent(d, n))
    /\ \A n : Owed(R, n) <=> Owed(Q, n)
    /\ \A n : Tells(b, n) <=> Tells(a, n) \/ Sent(d, n)
LEMMA OpenTurns ==
    ASSUME NEW I, NEW J, NEW Q, NEW R, NEW a, NEW b, NEW u, NEW p, NEW q,
           NEW e, NEW c, NEW d, TurnsAt(I, J, Q, R, a, b, u, p, q, e, c, d), OpenOf(I, Q, a, u, p)
    PROVE  OpenOf(J, R, b, u, q) /\ (ClosedOf(I, Q, a, u, p) => ClosedOf(J, R, b, u, q))
<1> SUFFICES ASSUME p \in Nat, q \in {p, p + 1}, u \subseteq 1..p, \A n : Tells(a, n) => n \in 1..p,
                    DOMAIN J = DOMAIN I \cup {e}, \A f \in DOMAIN I : f # e => J[f] = I[f],
                    \A n : Pends(J[e], n) <=> Pends(d, n),
                    e \in DOMAIN I => c = I[e], e \notin DOMAIN I => \A n : ~Pends(c, n),
                    \A n : Pends(d, n) \/ Sent(d, n) <=> Pends(c, n) \/ n \in (p + 1)..q,
                    \A n : ~(Pends(d, n) /\ Sent(d, n)),
                    \A n : Owed(R, n) <=> Owed(Q, n),
                    \A n : Tells(b, n) <=> Tells(a, n) \/ Sent(d, n)
             PROVE  OpenOf(J, R, b, u, q) /\ (ClosedOf(I, Q, a, u, p) => ClosedOf(J, R, b, u, q))
    BY Zenon DEF TurnsAt
<1>1. /\ \A n : n \in (p + 1)..q => n \notin 1..p /\ n \in 1..q
      /\ \A n : n \in 1..p => n \in 1..q
      /\ \A n : n \in 1..q => n \in 1..p \/ n \in (p + 1)..q
    OBVIOUS
<1>2. \A n : Pends(c, n) => e \in DOMAIN I /\ Pends(I[e], n)
    OBVIOUS
<1>3. \A n : InWaits(J, n) <=> Pends(d, n) \/ \E f \in DOMAIN I : f # e /\ Pends(I[f], n)
    <2>1. ASSUME NEW n, InWaits(J, n)
          PROVE  Pends(d, n) \/ \E f \in DOMAIN I : f # e /\ Pends(I[f], n)
        <3>1. PICK f \in DOMAIN J : Pends(J[f], n)
            BY <2>1, Zenon DEF InWaits
        <3>2. CASE f = e
            BY <3>1, <3>2, Zenon
        <3>3. CASE f # e
            BY <3>1, <3>3, Zenon
        <3> QED
            BY <3>2, <3>3, Zenon
    <2>2. ASSUME NEW n, Pends(d, n)
          PROVE  InWaits(J, n)
        BY <2>2, Zenon DEF InWaits
    <2>3. ASSUME NEW n, NEW f \in DOMAIN I, f # e, Pends(I[f], n)
          PROVE  InWaits(J, n)
        BY <2>3, Zenon DEF InWaits
    <2> QED
        BY <2>1, <2>2, <2>3, Zenon
<1>4. \A x, y \in DOMAIN I : \A n : Pends(I[x], n) /\ Pends(I[y], n) => x = y
    BY Zenon DEF OpenOf
<1>5. \A n : InWaits(I, n) \/ Owed(Q, n) =>
                 n \in 1..p /\ ~(InWaits(I, n) /\ Owed(Q, n)) /\ ~Tells(a, n) /\ n \notin u
    BY Zenon DEF OpenOf
<1>6. \A n : \A f \in DOMAIN I : Pends(I[f], n) => InWaits(I, n)
    BY Zenon DEF InWaits
\* What channel e holds or answered is not elsewhere.
<1>7. ASSUME NEW n, Pends(c, n) \/ n \in (p + 1)..q
      PROVE  /\ n \in 1..q /\ ~Owed(Q, n) /\ ~Tells(a, n) /\ n \notin u
             /\ \A f \in DOMAIN I : f # e => ~Pends(I[f], n)
    <2>1. CASE Pends(c, n)
        BY <1>1, <1>2, <1>4, <1>5, <1>6, <2>1, Zenon
    <2>2. CASE n \in (p + 1)..q
        BY <1>1, <1>5, <1>6, <2>2
    <2> QED
        BY <1>7, <2>1, <2>2, Zenon
<1>8. ASSUME NEW x \in DOMAIN J, NEW y \in DOMAIN J, NEW n, Pends(J[x], n), Pends(J[y], n)
      PROVE  x = y
    <2>1. CASE x = e /\ y # e
        BY <1>7, <1>8, <2>1, Zenon
    <2>2. CASE y = e /\ x # e
        BY <1>7, <1>8, <2>2, Zenon
    <2>3. CASE x # e /\ y # e
        BY <1>4, <1>8, <2>3, Zenon
    <2> QED
        BY <2>1, <2>2, <2>3, Zenon
<1>9. ASSUME NEW n, InWaits(J, n) \/ Owed(R, n)
      PROVE  n \in 1..q /\ ~(InWaits(J, n) /\ Owed(R, n)) /\ ~Tells(b, n) /\ n \notin u
    <2>1. CASE Pends(d, n)
        BY <1>7, <2>1, Zenon
    <2>2. CASE ~Pends(d, n) /\ InWaits(J, n)
        <3>1. PICK f \in DOMAIN I : f # e /\ Pends(I[f], n)
            BY <1>3, <2>2, Zenon
        <3>2. ~Sent(d, n)
            BY <1>7, <3>1, Zenon
        <3> QED
            BY <1>1, <1>5, <1>6, <3>1, <3>2, Zenon
    <2>3. CASE ~InWaits(J, n) /\ Owed(R, n)
        <3>1. ~Sent(d, n)
            BY <1>7, <2>3, Zenon
        <3> QED
            BY <1>1, <1>5, <2>3, <3>1, Zenon
    <2> QED
        BY <1>9, <2>1, <2>2, <2>3, Zenon
<1>10. ASSUME ClosedOf(I, Q, a, u, p), NEW n \in 1..q
       PROVE  Tells(b, n) \/ n \in u \/ InWaits(J, n) \/ Owed(R, n)
    <2>1. CASE n \in (p + 1)..q
        BY <1>3, <2>1, Zenon
    <2>2. CASE n \in 1..p
        <3>1. Tells(a, n) \/ n \in u \/ InWaits(I, n) \/ Owed(Q, n)
            BY <1>10, <2>2, Zenon DEF ClosedOf
        <3>2. CASE InWaits(I, n)
            <4>1. PICK f \in DOMAIN I : Pends(I[f], n)
                BY <3>2, Zenon DEF InWaits
            <4> QED
                BY <1>3, <4>1, Zenon
        <3> QED
            BY <3>1, <3>2, Zenon
    <2> QED
        BY <1>1, <2>1, <2>2, Zenon
<1>11. OpenOf(J, R, b, u, q)
    BY <1>8, <1>9, Zenon DEF OpenOf
<1> QED
    BY <1>10, <1>11, Zenon DEF ClosedOf

\* Requests are answered, unlinked or dropped.
Shrinks(I, J, Q, R, a, b, u, v) ==
    /\ DOMAIN J \subseteq DOMAIN I
    /\ \A e \in DOMAIN J : \A n : Pends(J[e], n) => Pends(I[e], n)
    /\ \A n : Owed(R, n) => Owed(Q, n)
    /\ \A n : InWaits(J, n) \/ Owed(R, n) => (Tells(b, n) => Tells(a, n)) /\ (n \in v => n \in u)
LEMMA OpenShrinks ==
    ASSUME NEW I, NEW J, NEW Q, NEW R, NEW a, NEW b, NEW u, NEW v, NEW p,
           Shrinks(I, J, Q, R, a, b, u, v), OpenOf(I, Q, a, u, p)
    PROVE  OpenOf(J, R, b, v, p)
<1> SUFFICES ASSUME DOMAIN J \subseteq DOMAIN I,
                    \A e \in DOMAIN J : \A n : Pends(J[e], n) => Pends(I[e], n),
                    \A n : Owed(R, n) => Owed(Q, n),
                    \A n : InWaits(J, n) \/ Owed(R, n) =>
                               (Tells(b, n) => Tells(a, n)) /\ (n \in v => n \in u)
             PROVE  OpenOf(J, R, b, v, p)
    BY Zenon DEF Shrinks
<1>1. \A n : InWaits(J, n) => InWaits(I, n)
    BY Zenon DEF InWaits
<1>2. \A e, f \in DOMAIN J : \A n : Pends(J[e], n) /\ Pends(J[f], n) => e = f
    BY Zenon DEF OpenOf
<1>3. \A n : InWaits(J, n) \/ Owed(R, n) =>
                 n \in 1..p /\ ~(InWaits(J, n) /\ Owed(R, n)) /\ ~Tells(b, n) /\ n \notin v
    BY <1>1, Zenon DEF OpenOf
<1> QED
    BY <1>2, <1>3, Zenon DEF OpenOf

\* A request comes that read() will answer.
LEMMA OpenQueues ==
    ASSUME NEW I, NEW Q, NEW R, NEW a, NEW u, NEW p \in Nat,
           OpenOf(I, Q, a, u, p), u \subseteq 1..p, \A n : Tells(a, n) => n \in 1..p,
           \A n : Owed(R, n) <=> Owed(Q, n) \/ n = p + 1
    PROVE  OpenOf(I, R, a, u, p + 1) /\ (ClosedOf(I, Q, a, u, p) => ClosedOf(I, R, a, u, p + 1))
<1>1. /\ p + 1 \notin 1..p /\ p + 1 \in 1..(p + 1)
      /\ \A n : n \in 1..p => n \in 1..(p + 1)
      /\ \A n : n \in 1..(p + 1) => n \in 1..p \/ n = p + 1
    OBVIOUS
<1>2. \A n : InWaits(I, n) \/ Owed(Q, n) =>
                 n \in 1..p /\ ~(InWaits(I, n) /\ Owed(Q, n)) /\ ~Tells(a, n) /\ n \notin u
    BY Zenon DEF OpenOf
<1>3. \A n : InWaits(I, n) \/ Owed(R, n) =>
                 n \in 1..(p + 1) /\ ~(InWaits(I, n) /\ Owed(R, n)) /\ ~Tells(a, n) /\ n \notin u
    <2>1. ASSUME NEW n, n = p + 1
          PROVE  n \in 1..(p + 1) /\ ~InWaits(I, n) /\ ~Tells(a, n) /\ n \notin u
        BY <1>1, <1>2, <2>1, Zenon
    <2> QED
        BY <1>1, <1>2, <2>1, Zenon
<1>4. OpenOf(I, R, a, u, p + 1)
    BY <1>3, Zenon DEF OpenOf
<1> QED
    BY <1>1, <1>4, Zenon DEF ClosedOf

------------------------------------------------------------------------------
(* The inductive invariant of the pipe device.                               *)

\* The IN channels, open as long as the device is connected
PipeChannels ==
    /\ DOMAIN in_channels \subseteq InEps
    /\ \A e \in DOMAIN in_channels :
          Fits(in_channels[e], preq) /\ (pup = "up" => ~in_channels[e].disconnected)

\* The OUT channels: no request is in two of them.
PipeOuts ==
    /\ OutsQueued
    /\ pup # "up" => out_channels = NoOut
    /\ \A e, f \in Outs : \A n : HasOut(out_channels[e], n) /\ HasOut(out_channels[f], n) => e = f

\* read() has taken requests in the order of arrival, and none younger than
\* one that still waits.
PipeTaken ==
    /\ taken \in Seq(1..PipeMaxReqs) /\ Increasing(taken)
    /\ \A i \in 1..Len(taken) : taken[i] <= preq
    /\ \A i \in 1..Len(taken), e \in Outs : \A n : HasOut(out_channels[e], n) => taken[i] < n

PipeOpen ==
    /\ OpenOf(in_channels, out_channels, answers, unlinked, preq)
    /\ pup = "up" => ClosedOf(in_channels, out_channels, answers, unlinked, preq)

PipeWriter == [pc : {"idle", "begin", "wait", "notified", "flush", "lost"},
               ep : InEps, left : Nat, conn : 0..PipeMaxConns]
PipeThreads == pw \in [PipeWriters -> PipeWriter] /\ pr \in [PipeReaders -> {"idle", "wait", "notified"}]
PipeCounts ==
    /\ pup \in {"down", "up", "clear"} /\ pconn \in 0..PipeMaxConns
    /\ preq \in 0..PipeMaxReqs /\ pwrites \in 0..PipeMaxWrites /\ unlinked \subseteq 1..preq

PipeInv == /\ PipeChannels /\ PipeOuts /\ PipeTaken /\ PipeOpen /\ LogOf(answers, preq, unlinked)
           /\ PipeThreads /\ PipeCounts /\ NoSleepingReader

\* Only the requests C may have an answer and a RET_UNLINK that says
\* "cancelled", and only they show themselves in an OUT channel that does not
\* answer them.
CaughtOf(a, C) ==
    \A i, j \in 1..Len(a) :
        a[i].kind = "RET_UNLINK" /\ a[i].status = "ECONNRESET" /\ a[j].kind = "RET_SUBMIT"
            /\ a[i].n = a[j].n => a[i].n \in C
NoticesOf(Q, C) == \A e \in Outs : \A n : HasOut(Q[e], n) => Owed(Q, n) \/ n \in C
CaughtInv == /\ CaughtOf(answers, control_ins) /\ NoticesOf(out_channels, control_ins)
             /\ control_ins \subseteq 1..preq

LEMMA CaughtAppends ==
    ASSUME NEW a \in Seq(PipeResponse), NEW y \in PipeResponse, NEW C, CaughtOf(a, C),
           y.kind = "RET_UNLINK", y.status = "ECONNRESET" => ~Tells(a, y.n) \/ y.n \in C
    PROVE  CaughtOf(Append(a, y), C)
<1>1. PICK c : c = Append(a, y)
    BY Zenon
<1>2. PICK la : la = Len(a)
    BY Zenon
<1> HIDE DEF PipeResponse
<1>3. la \in Nat /\ Len(c) = la + 1 /\ c[la + 1] = y /\ \A i \in 1..la : c[i] = a[i]
    BY <1>1, <1>2
<1>4. \A i \in 1..(la + 1) : i \in 1..la \/ i = la + 1
    BY <1>3
<1> SUFFICES ASSUME NEW i \in 1..Len(c), NEW j \in 1..Len(c), c[i].kind = "RET_UNLINK",
                    c[i].status = "ECONNRESET", c[j].kind = "RET_SUBMIT", c[i].n = c[j].n
             PROVE  c[i].n \in C
    BY <1>1 DEF CaughtOf
<1>5. j \in 1..la
    BY <1>3, <1>4
<1>6. CASE i \in 1..la
    BY <1>2, <1>3, <1>5, <1>6 DEF CaughtOf
<1>7. CASE i = la + 1
    <2>1. Tells(a, y.n)
        BY <1>2, <1>3, <1>5, <1>7 DEF Tells
    <2> QED
        BY <1>3, <1>7, <2>1
<1> QED
    BY <1>3, <1>4, <1>6, <1>7

------------------------------------------------------------------------------
(* The steps of the pipe device: the IN channels.                            *)

LEMMA ToldCounted ==
    ASSUME NEW a, NEW p, NEW u, LogOf(a, p, u)
    PROVE  \A n : Tells(a, n) => n \in 1..p
BY DEF LogOf, Tells

\* Later there are more requests.
LEMMA FitsLater ==
    ASSUME NEW c, NEW p \in Nat, NEW q \in Nat, p <= q, Fits(c, p)
    PROVE  Fits(c, q)
<1>1. PICK s : s = Line(c)
    BY Zenon
<1>2. InLine(s, p)
    BY <1>1 DEF Fits
<1>3. \A x \in 1..p : x \in 1..q
    OBVIOUS
<1>4. InLine(s, q)
    BY <1>2, <1>3 DEF InLine
<1> QED
    BY <1>1, <1>4 DEF Fits

LEMMA QueueLater ==
    ASSUME NEW r, NEW p \in Nat, NEW q \in Nat, p <= q, QueueOf(r, p)
    PROVE  QueueOf(r, q)
<1>1. \A x \in 1..p : x \in 1..q
    OBVIOUS
<1> QED
    BY <1>1 DEF QueueOf

LEMMA LogLater ==
    ASSUME NEW a, NEW u, NEW p \in Nat, NEW q \in Nat, p <= q, LogOf(a, p, u)
    PROVE  LogOf(a, q, u)
<1>1. \A x \in 1..p : x \in 1..q
    OBVIOUS
<1> QED
    BY <1>1 DEF LogOf

\* get_in_channel: one that is new
LEMMA NewFits ==
    ASSUME NEW p \in Nat
    PROVE  Fits(PipeChannel, p) /\ ~PipeChannel.disconnected /\ \A n : ~Pends(PipeChannel, n)
<1>1. PICK c : c = PipeChannel
    BY Zenon
<1>2. c = [capacity |-> FifoCapacity, limit |-> 0, buffer |-> <<>>, queue |-> <<>>,
           disconnected |-> FALSE, out |-> <<>>, sent |-> <<>>]
    BY <1>1 DEF PipeChannel, NewChannel
<1>3. /\ c.capacity = FifoCapacity /\ c.limit = 0 /\ c.buffer = <<>> /\ c.queue = <<>>
      /\ c.disconnected = FALSE /\ c.out = <<>> /\ c.sent = <<>>
    BY <1>2
<1>4. c \in ChannelOf(PipeMaxReqs, PipeLengths)
    <2> HIDE DEF ChannelRequest, ChannelReply
    <2>1. /\ <<>> \in Seq(ChannelReply(PipeMaxReqs)) /\ <<>> \in Seq(Nat)
          /\ <<>> \in Seq(ChannelRequest(PipeMaxReqs, PipeLengths))
        OBVIOUS
    <2> QED
        BY <1>2, <2>1, PipeConstants DEF ChannelOf
<1>5. Line(c) = <<>>
    BY <1>3, EmptyLine DEF Line
<1>6. InLine(<<>>, p)
    BY DEF InLine, Increasing
<1>7. Len(c.buffer) <= FifoCapacity
    BY <1>3, PipeConstants
<1>8. \A n : ~Pends(c, n)
    BY <1>3 DEF Pends
<1> QED
    BY <1>1, <1>3, <1>4, <1>5, <1>6, <1>7, <1>8 DEF Fits

LEMMA GetInFits ==
    ASSUME PipeInv, NEW e, HasIn(e) \/ pup = "up"
    PROVE  /\ Fits(GetIn(e), preq) /\ (pup = "up" => ~GetIn(e).disconnected)
           /\ e \in DOMAIN in_channels => GetIn(e) = in_channels[e]
           /\ e \notin DOMAIN in_channels => \A n : ~Pends(GetIn(e), n)
<1>1. PICK p : p = preq
    BY Zenon
<1>2. p \in Nat
    BY <1>1, PipeConstants DEF PipeInv, PipeCounts
<1>3. CASE HasIn(e)
    <2>1. GetIn(e) = in_channels[e] /\ e \in DOMAIN in_channels
        BY <1>3 DEF GetIn, HasIn
    <2> QED
        BY <2>1 DEF PipeInv, PipeChannels
<1>4. CASE ~HasIn(e)
    <2>1. GetIn(e) = PipeChannel /\ e \notin DOMAIN in_channels
        BY <1>4 DEF GetIn, HasIn
    <2>2. Fits(PipeChannel, p) /\ ~PipeChannel.disconnected /\ \A n : ~Pends(PipeChannel, n)
        BY <1>2, NewFits
    <2> QED
        BY <1>1, <2>1, <2>2
<1> QED
    BY <1>3, <1>4

\* c is a with some answers behind it, and no RET_UNLINK.
OnlyAnswers(a, c) ==
    /\ Len(a) <= Len(c) /\ \A i \in 1..Len(a) : c[i] = a[i]
    /\ \A i \in 1..Len(c) : i \in 1..Len(a) \/ c[i].kind = "RET_SUBMIT"

LEMMA AnswersBehind ==
    ASSUME NEW S, NEW a \in Seq(S), NEW t \in Seq(S), \A k \in 1..Len(t) : t[k].kind = "RET_SUBMIT"
    PROVE  OnlyAnswers(a, a \o t)
<1>1. PICK c : c = a \o t
    BY Zenon
<1>2. PICK la : la = Len(a)
    BY Zenon
<1>3. PICK lt : lt = Len(t)
    BY Zenon
<1>4. la \in Nat /\ lt \in Nat
    BY <1>2, <1>3
<1>5. JointOf(S, a, la, t, lt, c)
    BY <1>1, <1>2, <1>3, <1>4, Joint
<1>6. Len(c) = la + lt /\ \A i \in 1..la : c[i] = a[i]
    BY <1>4, <1>5 DEF JointOf
<1>7. ASSUME NEW i \in 1..(la + lt), i \notin 1..la PROVE c[i].kind = "RET_SUBMIT"
    <2>1. i - la \in 1..lt /\ c[i] = t[i - la]
        BY <1>4, <1>5, <1>7 DEF JointOf
    <2> QED
        BY <1>3, <2>1
<1> QED
    BY <1>1, <1>2, <1>4, <1>6, <1>7 DEF OnlyAnswers

LEMMA NoAnswerBehind ==
    ASSUME NEW a, Len(a) \in Nat
    PROVE  OnlyAnswers(a, a)
    BY DEF OnlyAnswers

\* A channel becomes d and hands on its answers.
LEMMA ChannelTurns ==
    ASSUME PipeInv, NEW e \in InEps, NEW c, c = GetIn(e), HasIn(e) \/ pup = "up",
           NEW d, NEW p, p = preq, NEW q \in {p, p + 1}, q <= PipeMaxReqs, Turned(c, d, p, q),
           preq' = q, in_channels' = PutIn(e, d), answers' = answers \o Answers(d),
           pup' = pup, unlinked' = unlinked,
           \A n : Owed(out_channels', n) <=> Owed(out_channels, n)
    PROVE  /\ PipeChannels' /\ PipeOpen' /\ LogOf(answers, preq, unlinked)'
           /\ OnlyAnswers(answers, answers')
<1>1. PICK I : I = in_channels
    BY Zenon
<1>2. PICK J : J = in_channels'
    BY Zenon
<1>3. PICK Q : Q = out_channels
    BY Zenon
<1>4. PICK R : R = out_channels'
    BY Zenon
<1>5. PICK a : a = answers
    BY Zenon
<1>6. PICK b : b = a \o Answers(d)
    BY Zenon
<1>7. PICK u : u = unlinked
    BY Zenon
<1>8. p \in Nat /\ q \in Nat /\ p <= q /\ u \subseteq 1..p
    BY <1>7, PipeConstants DEF PipeInv, PipeCounts
<1>9. /\ Fits(c, p) /\ (pup = "up" => ~c.disconnected)
      /\ e \in DOMAIN I => c = I[e]
      /\ e \notin DOMAIN I => \A n : ~Pends(c, n)
    BY <1>1, GetInFits
<1>10. PICK h : h = HandedOn(d)
    BY Zenon
<1>11. /\ Fits(h, q) /\ SameLimits(c, h)
       /\ \A n : Pends(h, n) <=> Pends(d, n)
       /\ d.out \in Seq(ChannelReply(PipeMaxReqs))
       /\ \A i, j \in 1..Len(d.out) : d.out[i].seq = d.out[j].seq => i = j
       /\ \A n : ~(Pends(d, n) /\ Sent(d, n))
       /\ \A n : Pends(d, n) \/ Sent(d, n) <=> Pends(c, n) \/ n \in (p + 1)..q
       /\ \A n : Sent(d, n) => n \in 1..q
    BY <1>8, <1>10, TurnedFits
<1>12. J = [f \in DOMAIN I \cup {e} |-> IF f = e THEN h ELSE I[f]]
    BY <1>1, <1>2, <1>10, Zenon DEF PutIn, HandedOn
<1>13. DOMAIN J = DOMAIN I \cup {e} /\ J[e] = h /\ \A f \in DOMAIN I : f # e => J[f] = I[f]
    BY <1>12
<1>14. PipeChannels'
    <2>1. DOMAIN J \subseteq InEps
        BY <1>1, <1>13 DEF PipeInv, PipeChannels
    <2>2. ASSUME NEW f \in DOMAIN J
          PROVE  Fits(J[f], q) /\ (pup = "up" => ~J[f].disconnected)
        <3>1. CASE f = e
            BY <1>9, <1>11, <1>13, <3>1 DEF SameLimits
        <3>2. CASE f # e
            <4>1. f \in DOMAIN I /\ J[f] = I[f]
                BY <1>13, <2>2, <3>2
            <4>2. Fits(I[f], p) /\ (pup = "up" => ~I[f].disconnected)
                BY <1>1, <4>1 DEF PipeInv, PipeChannels
            <4> QED
                BY <1>8, <4>1, <4>2, FitsLater
        <3> QED
            BY <3>1, <3>2
    <2> QED
        BY <1>2, <2>1, <2>2 DEF PipeChannels
<1>15. LogOf(a, p, u)
    BY <1>5, <1>7 DEF PipeInv
<1>16. \A n : Tells(a, n) => n \in 1..p
    BY <1>15, ToldCounted
<1>17. OpenOf(I, Q, a, u, p) /\ (pup = "up" => ClosedOf(I, Q, a, u, p))
    BY <1>1, <1>3, <1>5, <1>7 DEF PipeInv, PipeOpen
<1>18. PICK o : o = d.out
    BY Zenon
<1>19. PICK t : t = Answers(d)
    BY Zenon
<1>20. /\ t \in Seq(PipeResponse) /\ Len(t) = Len(o)
       /\ \A i \in 1..Len(o) : t[i].kind = "RET_SUBMIT" /\ t[i].n = o[i].seq /\ o[i].seq \in 1..q
       /\ \A n : Tells(t, n) <=> Sent(d, n)
    <2>1. o = d.out /\ o \in Seq(ChannelReply(PipeMaxReqs)) /\ \A n : Sent(d, n) => n \in 1..q
        BY <1>11, <1>18
    <2> HIDE DEF ChannelReply, PipeResponse
    <2> QED
        BY <1>8, <1>19, <2>1, AnswersOfTurn
<1>21. \A i \in 1..Len(o) : ~Tells(a, o[i].seq) /\ o[i].seq \notin u
    <2> SUFFICES ASSUME NEW i \in 1..Len(o) PROVE ~Tells(a, o[i].seq) /\ o[i].seq \notin u
        OBVIOUS
    <2>1. PICK n : n = o[i].seq
        BY Zenon
    <2>2. Sent(d, n)
        BY <1>18, <2>1 DEF Sent
    <2>3. Pends(c, n) \/ n \in (p + 1)..q
        BY <1>11, <2>2
    <2>4. CASE n \in (p + 1)..q
        <3>1. n \notin 1..p
            BY <1>8, <2>4
        <3> QED
            BY <1>8, <1>16, <2>1, <3>1
    <2>5. CASE Pends(c, n)
        <3>1. InWaits(I, n)
            BY <1>9, <2>5 DEF InWaits
        <3> QED
            BY <1>17, <2>1, <3>1 DEF OpenOf
    <2> QED
        BY <2>3, <2>4, <2>5
<1>22. Follows(a, p, u, t, q, u)
    <2>1. \A i, j \in 1..Len(o) : o[i].seq = o[j].seq => i = j
        BY <1>11, <1>18
    <2> HIDE DEF PipeResponse
    <2> QED
        BY <1>8, <1>20, <1>21, <2>1 DEF Follows
<1>23. LogOf(b, q, u) /\ \A n : Tells(b, n) <=> Tells(a, n) \/ Tells(t, n)
    BY <1>6, <1>8, <1>15, <1>19, <1>22, LogGrows
<1>24. \A n : Tells(b, n) <=> Tells(a, n) \/ Sent(d, n)
    BY <1>20, <1>23
<1>25. \A n : Owed(R, n) <=> Owed(Q, n)
    BY <1>3, <1>4
<1>26. \A n : Pends(J[e], n) <=> Pends(d, n)
    BY <1>11, <1>13
<1>27. OpenOf(J, R, b, u, q) /\ (ClosedOf(I, Q, a, u, p) => ClosedOf(J, R, b, u, q))
    <2>1. TurnsAt(I, J, Q, R, a, b, u, p, q, e, c, d)
        BY <1>8, <1>9, <1>11, <1>13, <1>16, <1>24, <1>25, <1>26, Zenon DEF TurnsAt
    <2> QED
        BY <1>17, <2>1, OpenTurns, Zenon
<1>28. answers' = b /\ unlinked' = u
    BY <1>5, <1>6, <1>7
<1>29. PipeOpen'
    BY <1>2, <1>4, <1>17, <1>27, <1>28 DEF PipeOpen
<1>30. OnlyAnswers(a, b)
    <2>1. a \in Seq(PipeResponse) /\ \A k \in 1..Len(t) : t[k].kind = "RET_SUBMIT"
        BY <1>15, <1>20 DEF LogOf
    <2> HIDE DEF PipeResponse
    <2> QED
        BY <1>6, <1>19, <1>20, <2>1, AnswersBehind
<1> QED
    BY <1>5, <1>14, <1>23, <1>28, <1>29, <1>30

\* The channel becomes d; notify_one only changes where writers are.
LEMMA BecomesParts ==
    ASSUME NEW e, NEW d, NEW ws \in [PipeWriters -> PipeWriter], InBecomes(e, d, ws)
    PROVE  /\ in_channels' = PutIn(e, d) /\ answers' = answers \o Answers(d)
           /\ pw' \in [PipeWriters -> PipeWriter]
<1>1. in_channels' = PutIn(e, d) /\ answers' = answers \o Answers(d)
    BY DEF InBecomes, Answers
<1>2. PICK woken : pw' = [w \in PipeWriters |->
                             IF w \in woken THEN [ws[w] EXCEPT !.pc = "notified"] ELSE ws[w]]
    BY Zenon DEF InBecomes
<1>3. ASSUME NEW w \in PipeWriters
      PROVE  ws[w] \in PipeWriter /\ [ws[w] EXCEPT !.pc = "notified"] \in PipeWriter
    <2>1. ws[w] \in PipeWriter
        OBVIOUS
    <2> QED
        BY <2>1 DEF PipeWriter
<1>4. pw' \in [PipeWriters -> PipeWriter]
    BY <1>2, <1>3, Zenon
<1> QED
    BY <1>1, <1>4

\* The OUT channels and read() when others act
LEMMA OutsStay ==
    ASSUME PipeInv, preq' \in 0..PipeMaxReqs, preq <= preq',
           out_channels' = out_channels, taken' = taken, pup' = pup
    PROVE  PipeOuts' /\ PipeTaken'
<1>1. PICK p : p = preq
    BY Zenon
<1>2. PICK q : q = preq'
    BY Zenon
<1>3. p \in Nat /\ q \in Nat /\ p <= q
    BY <1>1, <1>2, PipeConstants DEF PipeInv, PipeCounts
<1>4. OutsQueued'
    <2>1. \A e \in Outs : QueueOf(out_channels[e], p)
        BY <1>1 DEF PipeInv, PipeOuts, OutsQueued
    <2>2. ASSUME NEW e \in Outs
          PROVE  QueueOf(out_channels[e], q)
        <3>1. PICK r : r = out_channels[e]
            BY Zenon
        <3>2. QueueOf(r, p)
            BY <2>1, <3>1
        <3>3. QueueOf(r, q)
            BY <1>3, <3>2, QueueLater
        <3> QED
            BY <3>1, <3>3
    <2> QED
        BY <1>2, <2>2 DEF PipeInv, PipeOuts, OutsQueued
<1>5. \A i \in 1..Len(taken) : taken[i] <= q
    <2> SUFFICES ASSUME NEW i \in 1..Len(taken) PROVE taken[i] <= q
        OBVIOUS
    <2>1. PICK x : x = taken[i]
        BY Zenon
    <2>2. x \in Nat /\ x <= p
        BY <1>1, <2>1, PipeConstants DEF PipeInv, PipeTaken
    <2>3. x <= q
        BY <1>3, <2>2
    <2> QED
        BY <2>1, <2>3, Zenon
<1> QED
    BY <1>2, <1>4, <1>5 DEF PipeInv, PipeOuts, PipeTaken

\* on_out_request: the newest request is the last in its channel.
LEMMA EnqueueStep ==
    ASSUME PipeInv, Arrives, pup' = pup, NEW e \in Outs, NEW ans \in BOOLEAN, EnqueueOut(e, ans),
           taken' = taken
    PROVE  /\ PipeOuts' /\ PipeTaken'
           /\ \A n : Owed(out_channels', n) <=> Owed(out_channels, n) \/ (n = preq + 1 /\ ans)
           /\ \A f \in Outs : \A n : HasOut(out_channels'[f], n)
                                        => HasOut(out_channels[f], n) \/ n = preq + 1
<1>1. PICK p : p = preq
    BY Zenon
<1>2. PICK Q : Q = out_channels
    BY Zenon
<1>3. PICK R : R = out_channels'
    BY Zenon
<1>4. p \in Nat /\ p < PipeMaxReqs /\ preq' = p + 1 /\ pup = "up"
    BY <1>1, PipeConstants DEF PipeInv, PipeCounts, Arrives
<1>5. Q \in [Outs -> Seq(OutRequest)] /\ \A f \in Outs : QueueOf(Q[f], p)
    BY <1>1, <1>2 DEF PipeInv, PipeOuts, OutsQueued
<1>6. PICK r : r = Append(Q[e], [n |-> p + 1, answer |-> ans])
    BY Zenon
<1> HIDE DEF OutRequest
<1>7. R = [Q EXCEPT ![e] = r]
    BY <1>1, <1>2, <1>3, <1>6, Zenon DEF EnqueueOut
<1>8. /\ QueueOf(r, p + 1)
      /\ \A n : HasOut(r, n) <=> HasOut(Q[e], n) \/ n = p + 1
      /\ \A n : Owes(r, n) <=> Owes(Q[e], n) \/ (n = p + 1 /\ ans)
    <2>1. PICK s : s = Q[e]
        BY Zenon
    <2>2. QueueOf(s, p) /\ r = Append(s, [n |-> p + 1, answer |-> ans])
        BY <1>5, <1>6, <2>1
    <2>3. QueueGrew(s, p, ans, Append(s, [n |-> p + 1, answer |-> ans]))
        BY <1>4, <2>2, QueueAppends
    <2> QED
        BY <2>1, <2>2, <2>3, Zenon DEF QueueGrew
<1>9. r \in Seq(OutRequest)
    BY <1>8 DEF QueueOf
<1>10. R \in [Outs -> Seq(OutRequest)] /\ R[e] = r /\ \A f \in Outs : f # e => R[f] = Q[f]
    BY <1>5, <1>7, <1>9
<1>11. \A f \in Outs : QueueOf(R[f], p + 1)
    <2> SUFFICES ASSUME NEW f \in Outs PROVE QueueOf(R[f], p + 1)
        OBVIOUS
    <2>1. CASE f = e
        BY <1>8, <1>10, <2>1
    <2>2. CASE f # e
        <3>1. PICK s : s = Q[f]
            BY Zenon
        <3>2. QueueOf(s, p) /\ p + 1 \in Nat /\ p <= p + 1
            BY <1>4, <1>5, <3>1
        <3>3. QueueOf(s, p + 1)
            BY <1>4, <3>2, QueueLater
        <3> QED
            BY <1>10, <2>2, <3>1, <3>3
    <2> QED
        BY <2>1, <2>2
<1>12. \A f \in Outs : \A n : HasOut(Q[f], n) => n \in 1..p
    BY <1>5 DEF QueueOf, HasOut
<1>13. p + 1 \notin 1..p
    BY <1>4
<1>14. ASSUME NEW f \in Outs, NEW g \in Outs, NEW n, HasOut(R[f], n), HasOut(R[g], n)
       PROVE  f = g
    <2>1. \A h \in Outs : HasOut(R[h], n) => HasOut(Q[h], n) \/ (h = e /\ n = p + 1)
        BY <1>8, <1>10, Zenon
    <2>2. \A h, k \in Outs : HasOut(Q[h], n) /\ HasOut(Q[k], n) => h = k
        BY <1>2 DEF PipeInv, PipeOuts
    <2> QED
        BY <1>12, <1>13, <1>14, <2>1, <2>2, Zenon
<1>15. PipeOuts'
    <2>1. p + 1 \in 0..PipeMaxReqs
        BY <1>4, PipeConstants
    <2>2. OutsQueued'
        BY <1>3, <1>4, <1>10, <1>11, <2>1 DEF OutsQueued
    <2> QED
        BY <1>3, <1>4, <1>14, <2>2 DEF PipeOuts
<1>16. PipeTaken'
    <2>1. /\ taken \in Seq(1..PipeMaxReqs) /\ Increasing(taken)
          /\ \A i \in 1..Len(taken) : taken[i] <= p
          /\ \A i \in 1..Len(taken), f \in Outs : \A n : HasOut(Q[f], n) => taken[i] < n
        BY <1>1, <1>2 DEF PipeInv, PipeTaken
    <2>2. \A i \in 1..Len(taken) : taken[i] < p + 1 /\ taken[i] <= p + 1
        <3> SUFFICES ASSUME NEW i \in 1..Len(taken) PROVE taken[i] < p + 1 /\ taken[i] <= p + 1
            OBVIOUS
        <3>1. PICK x : x = taken[i]
            BY Zenon
        <3>2. x \in Nat /\ x <= p
            BY <2>1, <3>1, PipeConstants
        <3>3. x < p + 1 /\ x <= p + 1
            BY <1>4, <3>2
        <3> QED
            BY <3>1, <3>3, Zenon
    <2>3. ASSUME NEW i \in 1..Len(taken), NEW f \in Outs, NEW n, HasOut(R[f], n)
          PROVE  taken[i] < n
        <3>1. HasOut(Q[f], n) \/ n = p + 1
            BY <1>8, <1>10, <2>3, Zenon
        <3> QED
            BY <2>1, <2>2, <3>1, Zenon
    <2> QED
        BY <1>3, <1>4, <2>1, <2>2, <2>3, Zenon DEF PipeTaken
<1>17. ASSUME NEW n
       PROVE  Owed(R, n) <=> Owed(Q, n) \/ (n = p + 1 /\ ans)
    <2>1. \A h \in Outs : Owes(R[h], n) <=> Owes(Q[h], n) \/ (h = e /\ n = p + 1 /\ ans)
        BY <1>8, <1>10, Zenon
    <2> QED
        BY <2>1, Zenon DEF Owed
<1>19. \A f \in Outs : \A n : HasOut(R[f], n) => HasOut(Q[f], n) \/ n = p + 1
    BY <1>8, <1>10, Zenon
<1> QED
    BY <1>1, <1>2, <1>3, <1>19, <1>1, <1>2, <1>3, <1>15, <1>16, <1>17

LEMMA ReadersWoken ==
    ASSUME PipeInv, WakeReaders
    PROVE  pr' \in [PipeReaders -> {"idle", "wait", "notified"}] /\ NoSleepingReader'
<1>1. pr' \in [PipeReaders -> {"idle", "wait", "notified"}] /\ \A r \in PipeReaders : pr'[r] # "wait"
    BY DEF PipeInv, PipeThreads, WakeReaders
<1> QED
    BY <1>1 DEF NoSleepingReader

------------------------------------------------------------------------------
(* The steps of the receiver.                                                *)

\* A request arrives at an IN channel.
LEMMA RequestArrives ==
    ASSUME PipeInv, Arrives, NEW e \in InEps, NEW len \in PipeLengths,
           InBecomes(e, OnInRequest("stream", GetIn(e), [seq |-> preq + 1, len |-> len], <<>>), pw),
           pup' = pup, unlinked' = unlinked,
           \A n : Owed(out_channels', n) <=> Owed(out_channels, n)
    PROVE  /\ PipeChannels' /\ PipeOpen' /\ LogOf(answers, preq, unlinked)'
           /\ pw' \in [PipeWriters -> PipeWriter] /\ preq' \in 0..PipeMaxReqs /\ preq <= preq'
           /\ OnlyAnswers(answers, answers')
<1>1. PICK p : p = preq
    BY Zenon
<1>2. PICK q : q = p + 1
    BY Zenon
<1>3. p \in Nat /\ p < PipeMaxReqs /\ preq' = q /\ pup = "up" /\ q <= PipeMaxReqs /\ q \in {p, p + 1}
    BY <1>1, <1>2, PipeConstants DEF PipeInv, PipeCounts, Arrives
<1>4. PICK c : c = GetIn(e)
    BY Zenon
<1>5. PICK d : d = OnInRequest("stream", c, [seq |-> p + 1, len |-> len], <<>>)
    BY Zenon
<1>6. Fits(c, p) /\ ~c.disconnected
    BY <1>1, <1>3, <1>4, GetInFits
<1>7. Turned(c, d, p, q)
    BY <1>2, <1>3, <1>5, <1>6, RequestTurns
<1>8. PICK ws : ws = pw
    BY Zenon
<1>9. InBecomes(e, d, ws) /\ ws \in [PipeWriters -> PipeWriter]
    BY <1>1, <1>4, <1>5, <1>8, Zenon DEF PipeInv, PipeThreads
<1>10. /\ in_channels' = PutIn(e, d) /\ answers' = answers \o Answers(d)
       /\ pw' \in [PipeWriters -> PipeWriter]
    BY <1>9, BecomesParts
<1>11. /\ PipeChannels' /\ PipeOpen' /\ LogOf(answers, preq, unlinked)'
       /\ OnlyAnswers(answers, answers')
    BY <1>1, <1>3, <1>4, <1>7, <1>10, ChannelTurns
<1> QED
    BY <1>1, <1>2, <1>3, <1>10, <1>11

\* What the receiver's counters become
LEMMA CountsGrow ==
    ASSUME PipeInv, preq' \in 0..PipeMaxReqs, preq <= preq', pup' = pup, pconn' = pconn,
           pwrites' = pwrites, unlinked' = unlinked
    PROVE  PipeCounts'
<1>1. \A n \in 1..preq : n \in 1..preq'
    BY PipeConstants DEF PipeInv, PipeCounts
<1> QED
    BY <1>1 DEF PipeInv, PipeCounts

LEMMA PipeInRequestStep ==
    ASSUME PipeInv, NEW e \in InEps, NEW len \in PipeLengths, OnPipeInRequest(e, len)
    PROVE  PipeInv' /\ OnlyAnswers(answers, answers')
<1>1. /\ Arrives
      /\ InBecomes(e, OnInRequest("stream", GetIn(e), [seq |-> preq + 1, len |-> len], <<>>), pw)
      /\ pup' = pup /\ out_channels' = out_channels /\ pr' = pr /\ pconn' = pconn
      /\ pwrites' = pwrites /\ taken' = taken /\ unlinked' = unlinked
    BY DEF OnPipeInRequest
<1>2. \A n : Owed(out_channels', n) <=> Owed(out_channels, n)
    BY <1>1
<1>3. /\ PipeChannels' /\ PipeOpen' /\ LogOf(answers, preq, unlinked)'
      /\ pw' \in [PipeWriters -> PipeWriter] /\ preq' \in 0..PipeMaxReqs /\ preq <= preq'
      /\ OnlyAnswers(answers, answers')
    BY <1>1, <1>2, RequestArrives
<1>4. PipeOuts' /\ PipeTaken'
    BY <1>1, <1>3, OutsStay
<1>5. PipeThreads' /\ NoSleepingReader'
    BY <1>1, <1>3 DEF PipeInv, PipeThreads, NoSleepingReader
<1>6. PipeCounts'
    BY <1>1, <1>3, CountsGrow
<1> QED
    BY <1>3, <1>4, <1>5, <1>6 DEF PipeInv

\* A control IN waits in its IN channel and shows itself to read().
LEMMA ControlInStep ==
    ASSUME PipeInv, NEW len \in PipeLengths, ControlIn(len)
    PROVE  /\ PipeInv' /\ OnlyAnswers(answers, answers')
           /\ NoticesOf(out_channels, control_ins) => NoticesOf(out_channels', control_ins')
<1>1. /\ Arrives
      /\ InBecomes(0, OnInRequest("stream", GetIn(0), [seq |-> preq + 1, len |-> len], <<>>), pw)
      /\ EnqueueOut(0, FALSE) /\ WakeReaders
      /\ pup' = pup /\ pconn' = pconn /\ pwrites' = pwrites /\ taken' = taken /\ unlinked' = unlinked
    BY DEF ControlIn
<1>2. 0 \in Outs /\ 0 \in InEps
    BY OutsNumbered, PipeConstants
<1>3. /\ PipeOuts' /\ PipeTaken'
      /\ \A n : Owed(out_channels', n) <=> Owed(out_channels, n) \/ (n = preq + 1 /\ FALSE)
      /\ \A f \in Outs : \A n : HasOut(out_channels'[f], n)
                                   => HasOut(out_channels[f], n) \/ n = preq + 1
    BY <1>1, <1>2, EnqueueStep
<1>4. \A n : Owed(out_channels', n) <=> Owed(out_channels, n)
    BY <1>3
<1>5. /\ PipeChannels' /\ PipeOpen' /\ LogOf(answers, preq, unlinked)'
      /\ pw' \in [PipeWriters -> PipeWriter] /\ preq' \in 0..PipeMaxReqs /\ preq <= preq'
      /\ OnlyAnswers(answers, answers')
    BY <1>1, <1>2, <1>4, RequestArrives
<1>6. pr' \in [PipeReaders -> {"idle", "wait", "notified"}] /\ NoSleepingReader'
    BY <1>1, ReadersWoken
<1>7. PipeThreads' /\ PipeCounts'
    BY <1>1, <1>5, <1>6, CountsGrow DEF PipeThreads
<1>8. control_ins' = control_ins \cup {preq + 1}
    BY DEF ControlIn
<1>9. NoticesOf(out_channels, control_ins) => NoticesOf(out_channels', control_ins')
    BY <1>3, <1>4, <1>8 DEF NoticesOf
<1> QED
    BY <1>3, <1>5, <1>6, <1>7, <1>9 DEF PipeInv

\* An OUT request waits for read(), which answers it.
LEMMA PipeOutTransferStep ==
    ASSUME PipeInv, NEW e \in Outs, Arrives, EnqueueOut(e, TRUE), WakeReaders,
           UNCHANGED <<pup, in_channels, pw, pconn, pwrites, taken, unlinked, answers>>
    PROVE  /\ PipeInv'
           /\ \A C : NoticesOf(out_channels, C) => NoticesOf(out_channels', C)
<1>1. PICK p : p = preq
    BY Zenon
<1>2. PICK I : I = in_channels
    BY Zenon
<1>3. PICK Q : Q = out_channels
    BY Zenon
<1>4. PICK R : R = out_channels'
    BY Zenon
<1>5. PICK a : a = answers
    BY Zenon
<1>6. PICK u : u = unlinked
    BY Zenon
<1>7. /\ pup' = pup /\ in_channels' = I /\ pw' = pw /\ pconn' = pconn /\ pwrites' = pwrites
      /\ taken' = taken /\ unlinked' = u /\ answers' = a
    BY <1>2, <1>5, <1>6
<1>8. p \in Nat /\ p < PipeMaxReqs /\ preq' = p + 1 /\ p + 1 \in 0..PipeMaxReqs /\ u \subseteq 1..p /\ p <= p + 1
    BY <1>1, <1>6, PipeConstants DEF PipeInv, PipeCounts, Arrives
<1>9. /\ PipeOuts' /\ PipeTaken'
      /\ \A n : Owed(R, n) <=> Owed(Q, n) \/ n = p + 1
      /\ \A f \in Outs : \A n : HasOut(R[f], n) => HasOut(Q[f], n) \/ n = p + 1
    <2>1. /\ PipeOuts' /\ PipeTaken'
          /\ \A n : Owed(out_channels', n) <=> Owed(out_channels, n) \/ (n = preq + 1 /\ TRUE)
          /\ \A f \in Outs : \A n : HasOut(out_channels'[f], n)
                                       => HasOut(out_channels[f], n) \/ n = preq + 1
        BY <1>7, EnqueueStep
    <2> QED
        BY <1>1, <1>3, <1>4, <2>1
<1>10. LogOf(a, p, u) /\ LogOf(a, p + 1, u)
    <2>1. LogOf(a, p, u)
        BY <1>1, <1>5, <1>6 DEF PipeInv
    <2> QED
        BY <1>8, <2>1, LogLater
<1>11. PipeChannels'
    <2>1. ASSUME NEW f \in DOMAIN I
          PROVE  Fits(I[f], p + 1) /\ (pup = "up" => ~I[f].disconnected)
        <3>1. Fits(I[f], p) /\ (pup = "up" => ~I[f].disconnected)
            BY <1>1, <1>2, <2>1 DEF PipeInv, PipeChannels
        <3> QED
            BY <1>8, <3>1, FitsLater
    <2> QED
        BY <1>2, <1>7, <1>8, <2>1 DEF PipeInv, PipeChannels
<1>12. OpenOf(I, R, a, u, p + 1) /\ (ClosedOf(I, Q, a, u, p) => ClosedOf(I, R, a, u, p + 1))
    <2>1. OpenOf(I, Q, a, u, p)
        BY <1>1, <1>2, <1>3, <1>5, <1>6 DEF PipeInv, PipeOpen
    <2>2. \A n : Tells(a, n) => n \in 1..p
        BY <1>10, ToldCounted
    <2> QED
        BY <1>8, <1>9, <2>1, <2>2, OpenQueues, Zenon
<1>13. PipeOpen'
    <2>1. pup = "up" => ClosedOf(I, Q, a, u, p)
        BY <1>1, <1>2, <1>3, <1>5, <1>6 DEF PipeInv, PipeOpen
    <2> QED
        BY <1>4, <1>7, <1>8, <1>12, <2>1 DEF PipeOpen
<1>14. pr' \in [PipeReaders -> {"idle", "wait", "notified"}] /\ NoSleepingReader'
    BY ReadersWoken
<1>15. PipeThreads'
    BY <1>7, <1>14 DEF PipeInv, PipeThreads
<1>16. PipeCounts'
    BY <1>1, <1>6, <1>7, <1>8, CountsGrow
<1>29. \A C : NoticesOf(Q, C) => NoticesOf(R, C)
    BY <1>9, Zenon DEF NoticesOf
<1> QED
    BY <1>3, <1>4, <1>29, <1>7, <1>8, <1>9, <1>10, <1>11, <1>13, <1>14, <1>15, <1>16 DEF PipeInv

\* cancel_pending, of any IN channel
LEMMA CancelFits ==
    ASSUME NEW c, NEW p \in Nat, Fits(c, p), NEW x, NEW d, d = CancelPending(c, x)
    PROVE  /\ Fits(d, p) /\ d.disconnected = c.disconnected
           /\ \A n : Pends(d, n) <=> Pends(c, n) /\ n # x
<1>1. CASE ~Pends(c, x)
    <2>1. d = c
        BY <1>1 DEF CancelPending
    <2> QED
        BY <1>1, <2>1
<1>2. CASE Pends(c, x)
    <2>1. c \in ChannelOf(PipeMaxReqs, PipeLengths) /\ InLine(Line(c), p)
        BY DEF Fits
    <2>2. /\ d \in ChannelOf(PipeMaxReqs, PipeLengths) /\ SameLimits(c, d) /\ d.buffer = c.buffer
          /\ d.out = c.out /\ InLine(Line(d), p)
          /\ \A gone : CompleteTo(Line(c), p, gone) => CompleteTo(Line(d), p, gone \cup {x})
        BY <1>2, <2>1, PipeConstants, CancelTakesOut
    <2>3. Fits(d, p) /\ d.disconnected = c.disconnected
        BY <2>2, Zenon DEF Fits, SameLimits
    <2>4. /\ \A n : (Stands(Line(c), n) <=> Pends(c, n)) /\ (Pends(c, n) => n \in 1..p)
          /\ \A n : (Stands(Line(d), n) <=> Pends(d, n)) /\ (Pends(d, n) => n \in 1..p)
        BY <2>3, FitsLine, Zenon
    <2>5. PICK gone : gone = {n \in 1..p : ~Stands(Line(c), n)}
        BY Zenon
    <2>6. CompleteTo(Line(c), p, gone)
        BY <2>5 DEF CompleteTo, Stands
    <2>7. CompleteTo(Line(d), p, gone \cup {x})
        BY <2>2, <2>6
    <2>8. \A n \in 1..p : Stands(Line(d), n) <=> n \notin gone \cup {x}
        BY <2>7 DEF CompleteTo, Stands
    <2>9. \A n \in 1..p : Stands(Line(d), n) <=> Stands(Line(c), n) /\ n # x
        BY <2>5, <2>8
    <2> QED
        BY <2>3, <2>4, <2>9, Zenon
<1> QED
    BY <1>1, <1>2

\* on_pipe_unlink: RET_UNLINK tells what was found.
LEMMA PipeUnlinkStep ==
    ASSUME PipeInv, NEW x, OnPipeUnlink(x)
    PROVE  PipeInv' /\ (CaughtInv => CaughtInv')
<1>1. PICK p : p = preq
    BY Zenon
<1>2. PICK I : I = in_channels
    BY Zenon
<1>3. PICK J : J = in_channels'
    BY Zenon
<1>4. PICK Q : Q = out_channels
    BY Zenon
<1>5. PICK R : R = out_channels'
    BY Zenon
<1>6. PICK a : a = answers
    BY Zenon
<1>7. PICK b : b = answers'
    BY Zenon
<1>8. PICK u : u = unlinked
    BY Zenon
<1>9. PICK v : v = u \cup {x}
    BY Zenon
<1>10. /\ pup = "up" /\ x \in 1..p /\ x \notin u /\ unlinked' = v
       /\ pup' = pup /\ pw' = pw /\ pr' = pr /\ pconn' = pconn /\ preq' = p /\ pwrites' = pwrites
       /\ taken' = taken
    BY <1>1, <1>8, <1>9 DEF OnPipeUnlink
<1>11. p \in Nat /\ p \in 0..PipeMaxReqs /\ x \in 1..PipeMaxReqs /\ u \subseteq 1..p /\ v \subseteq 1..p /\ u \subseteq v
    BY <1>1, <1>8, <1>9, <1>10, PipeConstants DEF PipeInv, PipeCounts
<1>12. /\ OpenOf(I, Q, a, u, p) /\ ClosedOf(I, Q, a, u, p) /\ LogOf(a, p, u)
    BY <1>1, <1>2, <1>4, <1>6, <1>8, <1>10 DEF PipeInv, PipeOpen
<1>13. Q \in [Outs -> Seq(OutRequest)] /\ \A e \in Outs : QueueOf(Q[e], p)
    BY <1>1, <1>4 DEF PipeInv, PipeOuts, OutsQueued
<1>14. /\ DOMAIN I \subseteq InEps
       /\ \A e \in DOMAIN I : Fits(I[e], p) /\ ~I[e].disconnected
    BY <1>1, <1>2, <1>10 DEF PipeInv, PipeChannels
<1>15. PICK ui : ui = RetUnlink(x, "ECONNRESET")
    BY Zenon
<1>16. PICK uo : uo = RetUnlink(x, "OK")
    BY Zenon
<1>17. /\ ui \in PipeResponse /\ ui.kind = "RET_UNLINK" /\ ui.n = x /\ ui.status = "ECONNRESET"
       /\ uo \in PipeResponse /\ uo.kind = "RET_UNLINK" /\ uo.n = x /\ uo.status = "OK"
    BY <1>11, <1>15, <1>16 DEF RetUnlink, PipeResponse
<1>18. InPending(x) = {} <=> ~InWaits(I, x)
    BY <1>2 DEF InPending, InWaits
<1>19. OutPending(x) = {} <=> \A e \in Outs : ~HasOut(Q[e], x)
    <2>1. DOMAIN out_channels = Outs
        BY <1>4, <1>13
    <2> QED
        BY <1>4, <2>1 DEF OutPending, HasOut
<1>20. \A e \in Outs : ~HasOut(Q[e], x) => ~Owes(Q[e], x)
    BY Zenon DEF HasOut, Owes
<1> HIDE DEF OutRequest, PipeResponse
\* What is left in the channels
<1>21. \/ /\ InWaits(I, x) /\ b = Append(a, ui) /\ R = Q
          /\ J = [e \in DOMAIN I |-> CancelPending(I[e], x)]
       \/ /\ ~InWaits(I, x) /\ b = Append(a, ui) /\ J = I
          /\ R = [e \in Outs |-> CancelOut(Q[e], x)] /\ \E e \in Outs : HasOut(Q[e], x)
       \/ /\ ~InWaits(I, x) /\ b = Append(a, uo) /\ J = I /\ R = Q
          /\ \A e \in Outs : ~HasOut(Q[e], x)
    <2>1. DOMAIN out_channels = Outs
        BY <1>4, <1>13
    <2> QED
        BY <1>2, <1>3, <1>4, <1>5, <1>6, <1>7, <1>15, <1>16, <1>18, <1>19, <2>1, Zenon DEF OnPipeUnlink
<1>22. /\ DOMAIN J = DOMAIN I
       /\ \A e \in DOMAIN I : /\ Fits(J[e], p) /\ ~J[e].disconnected
                              /\ \A n : Pends(J[e], n) <=> Pends(I[e], n) /\ n # x
    <2>1. CASE J = I /\ ~InWaits(I, x)
        BY <1>14, <2>1, Zenon DEF InWaits
    <2>2. CASE J = [e \in DOMAIN I |-> CancelPending(I[e], x)]
        <3>1. ASSUME NEW e \in DOMAIN I
              PROVE  /\ Fits(J[e], p) /\ ~J[e].disconnected
                     /\ \A n : Pends(J[e], n) <=> Pends(I[e], n) /\ n # x
            <4>1. PICK c : c = I[e]
                BY Zenon
            <4>2. PICK d : d = CancelPending(c, x)
                BY Zenon
            <4>3. Fits(c, p) /\ ~c.disconnected /\ J[e] = d
                BY <1>14, <2>2, <3>1, <4>1, <4>2
            <4>4. /\ Fits(d, p) /\ d.disconnected = c.disconnected
                  /\ \A n : Pends(d, n) <=> Pends(c, n) /\ n # x
                BY <1>11, <4>2, <4>3, CancelFits
            <4> QED
                BY <4>1, <4>3, <4>4, Zenon
        <3> QED
            BY <2>2, <3>1
    <2> QED
        BY <1>21, <2>1, <2>2
<1>23. /\ R \in [Outs -> Seq(OutRequest)]
       /\ \A e \in Outs : /\ QueueOf(R[e], p)
                          /\ \A n : HasOut(R[e], n) => HasOut(Q[e], n)
                          /\ \A n : Owes(R[e], n) <=> Owes(Q[e], n) /\ n # x
    <2>1. CASE R = Q /\ \A e \in Outs : ~Owes(Q[e], x)
        BY <1>13, <2>1, Zenon
    <2>2. CASE R = [e \in Outs |-> CancelOut(Q[e], x)]
        <3>1. ASSUME NEW e \in Outs
              PROVE  /\ R[e] \in Seq(OutRequest) /\ QueueOf(R[e], p)
                     /\ \A n : HasOut(R[e], n) => HasOut(Q[e], n)
                     /\ \A n : Owes(R[e], n) <=> Owes(Q[e], n) /\ n # x
            <4>1. PICK q : q = Q[e]
                BY Zenon
            <4>2. PICK r : r = CancelOut(q, x)
                BY Zenon
            <4>3. R[e] = r /\ QueueOf(q, p)
                BY <1>13, <2>2, <3>1, <4>1, <4>2
            <4>4. /\ QueueOf(r, p)
                  /\ \A n : HasOut(r, n) <=> HasOut(q, n) /\ n # x
                  /\ \A n : Owes(r, n) <=> Owes(q, n) /\ n # x
                BY <1>11, <4>2, <4>3, QueueCancels, Zenon
            <4>5. r \in Seq(OutRequest)
                BY <4>4 DEF QueueOf
            <4> QED
                BY <4>1, <4>3, <4>4, <4>5, Zenon
        <3> QED
            BY <2>2, <3>1
    <2>3. CASE R = Q /\ InWaits(I, x)
        <3>1. ~Owed(Q, x)
            BY <1>12, <2>3, Zenon DEF OpenOf
        <3>2. \A e \in Outs : ~Owes(Q[e], x)
            BY <3>1, Zenon DEF Owed
        <3> QED
            BY <2>1, <2>3, <3>2, Zenon
    <2> QED
        BY <1>20, <1>21, <2>1, <2>2, <2>3, Zenon
<1>24. /\ \A n : InWaits(J, n) <=> InWaits(I, n) /\ n # x
       /\ \A n : Owed(R, n) <=> Owed(Q, n) /\ n # x
    <2>1. \A n : InWaits(J, n) <=> InWaits(I, n) /\ n # x
        BY <1>22, Zenon DEF InWaits
    <2>2. \A n : Owed(R, n) <=> Owed(Q, n) /\ n # x
        BY <1>23, Zenon DEF Owed
    <2> QED
        BY <2>1, <2>2
\* The response
<1>25. LogOf(b, p, v) /\ \A n : Tells(b, n) <=> Tells(a, n)
    <2>1. ASSUME NEW y \in PipeResponse, y.kind = "RET_UNLINK", y.n = x,
                 y.status = "OK" => Tells(a, x), b = Append(a, y)
          PROVE  LogOf(b, p, v) /\ \A n : Tells(b, n) <=> Tells(a, n)
        <3>1. x \in v /\ y.kind # "RET_SUBMIT"
            BY <1>9, <2>1
        <3>2. /\ LogOf(Append(a, y), p, v)
              /\ \A n : Tells(Append(a, y), n) <=> Tells(a, n) \/ (y.kind = "RET_SUBMIT" /\ n = y.n)
            BY <1>10, <1>11, <1>12, <2>1, <3>1, LogAppends
        <3> QED
            BY <2>1, <3>1, <3>2, Zenon
    <2>2. CASE b = Append(a, ui)
        BY <1>17, <2>1, <2>2
    <2>3. CASE /\ ~InWaits(I, x) /\ b = Append(a, uo) /\ J = I /\ R = Q
               /\ \A e \in Outs : ~HasOut(Q[e], x)
        <3>1. ~Owed(Q, x)
            BY <1>20, <2>3, Zenon DEF Owed
        <3>2. Tells(a, x)
            BY <1>10, <1>12, <2>3, <3>1, Zenon DEF ClosedOf
        <3> QED
            BY <1>17, <2>1, <2>3, <3>2
    <2> QED
        BY <1>21, <2>2, <2>3
<1>26. OpenOf(J, R, b, v, p)
    <2>1. \A n : n \in v => n \in u \/ n = x
        BY <1>9
    <2>2. Shrinks(I, J, Q, R, a, b, u, v)
        BY <1>22, <1>24, <1>25, <2>1, Zenon DEF Shrinks
    <2> QED
        BY <1>12, <2>2, OpenShrinks, Zenon
<1>27. ClosedOf(J, R, b, v, p)
    <2>1. x \in v
        BY <1>9
    <2> QED
        BY <1>11, <1>12, <1>24, <1>25, <2>1, Zenon DEF ClosedOf
<1>28. PipeChannels'
    BY <1>3, <1>10, <1>14, <1>22 DEF PipeChannels
<1>29. PipeOuts'
    <2>1. \A e, f \in Outs : \A n : HasOut(Q[e], n) /\ HasOut(Q[f], n) => e = f
        BY <1>4 DEF PipeInv, PipeOuts
    <2>2. \A e, f \in Outs : \A n : HasOut(R[e], n) /\ HasOut(R[f], n) => e = f
        BY <1>23, <2>1, Zenon
    <2>3. OutsQueued'
        BY <1>5, <1>10, <1>11, <1>23 DEF OutsQueued
    <2> QED
        BY <1>5, <1>10, <2>2, <2>3 DEF PipeOuts
<1>30. PipeTaken'
    <2>1. /\ taken \in Seq(1..PipeMaxReqs) /\ Increasing(taken)
          /\ \A i \in 1..Len(taken) : taken[i] <= p
          /\ \A i \in 1..Len(taken), e \in Outs : \A n : HasOut(Q[e], n) => taken[i] < n
        BY <1>1, <1>4 DEF PipeInv, PipeTaken
    <2>2. \A i \in 1..Len(taken), e \in Outs : \A n : HasOut(R[e], n) => taken[i] < n
        BY <1>23, <2>1, Zenon
    <2> QED
        BY <1>5, <1>10, <2>1, <2>2, Zenon DEF PipeTaken
<1>31. NoSleepingReader'
    <2>1. ASSUME NEW e \in Outs, R[e] # <<>>
          PROVE  Q[e] # <<>>
        <3>1. PICK r : r = R[e]
            BY Zenon
        <3>2. r \in Seq(OutRequest) /\ r # <<>>
            BY <1>23, <2>1, <3>1
        <3>3. Len(r) \in Nat /\ Len(r) # 0
            BY <3>2, EmptySeq
        <3>4. HasOut(r, r[1].n)
            BY <3>3 DEF HasOut
        <3>5. HasOut(Q[e], r[1].n)
            BY <1>23, <3>1, <3>4, Zenon
        <3> QED
            BY <3>5 DEF HasOut
    <2> QED
        BY <1>4, <1>5, <1>10, <2>1, Zenon DEF PipeInv, NoSleepingReader, Outs
<1>32. PipeThreads' /\ PipeCounts'
    BY <1>1, <1>10, <1>11 DEF PipeInv, PipeThreads, PipeCounts
<1>33. PipeOpen'
    BY <1>3, <1>5, <1>7, <1>10, <1>26, <1>27 DEF PipeOpen
\* Who may be told "cancelled" of an answered request
<1>34. ASSUME CaughtInv PROVE CaughtInv'
    <2>1. PICK C : C = control_ins
        BY Zenon
    <2>2. /\ control_ins' = C /\ CaughtOf(a, C) /\ NoticesOf(Q, C) /\ C \subseteq 1..preq'
        BY <1>1, <1>4, <1>6, <1>10, <1>34, <2>1 DEF CaughtInv, OnPipeUnlink
    <2>3. NoticesOf(R, C)
        <3> SUFFICES ASSUME NEW e \in Outs, NEW n, HasOut(R[e], n), n \notin C PROVE Owed(R, n)
            BY Zenon DEF NoticesOf
        <3>1. HasOut(Q[e], n)
            BY <1>23, Zenon
        <3>2. Owed(Q, n)
            BY <2>2, <3>1, Zenon DEF NoticesOf
        <3>3. n # x \/ R = Q
            <4>1. CASE R = [f \in Outs |-> CancelOut(Q[f], x)]
                <5>1. R[e] = CancelOut(Q[e], x) /\ QueueOf(Q[e], p)
                    BY <1>13, <4>1
                <5> QED
                    BY <1>11, <5>1, QueueCancels, Zenon
            <4> QED
                BY <1>21, <4>1
        <3> QED
            BY <1>24, <3>2, <3>3, Zenon
    <2>4. a \in Seq(PipeResponse)
        BY <1>12 DEF LogOf
    <2>5. CASE /\ ~InWaits(I, x) /\ b = Append(a, uo) /\ J = I /\ R = Q
               /\ \A e \in Outs : ~HasOut(Q[e], x)
        <3>1. CaughtOf(Append(a, uo), C)
            BY <1>17, <2>2, <2>4, CaughtAppends
        <3> QED
            BY <1>5, <1>7, <2>2, <2>3, <2>5, <3>1 DEF CaughtInv
    <2>6. ASSUME b = Append(a, ui), InWaits(I, x) \/ \E e \in Outs : HasOut(Q[e], x)
          PROVE  CaughtInv'
        <3>1. ~Tells(a, x) \/ x \in C
            BY <1>12, <2>2, <2>6, Zenon DEF NoticesOf, OpenOf
        <3>2. CaughtOf(Append(a, ui), C)
            BY <1>17, <2>2, <2>4, <3>1, CaughtAppends
        <3> QED
            BY <1>5, <1>7, <2>2, <2>3, <2>6, <3>2 DEF CaughtInv
    <2> QED
        BY <1>21, <2>5, <2>6
<1> QED
    BY <1>7, <1>10, <1>25, <1>28, <1>29, <1>30, <1>31, <1>32, <1>33, <1>34 DEF PipeInv

------------------------------------------------------------------------------
(* The steps that begin and end a connection.                                *)

LEMMA NoOutEmpty ==
    ASSUME NEW p \in Nat
    PROVE  /\ NoOut \in [Outs -> Seq(OutRequest)]
           /\ \A e \in Outs : NoOut[e] = <<>> /\ QueueOf(NoOut[e], p)
           /\ \A e \in Outs : \A n : ~HasOut(NoOut[e], n)
           /\ \A n : ~Owed(NoOut, n)
<1>1. NoOut = [e \in Outs |-> <<>>]
    BY DEF NoOut, Outs
<1> HIDE DEF OutRequest
<1>2. <<>> \in Seq(OutRequest)
    OBVIOUS
<1>3. NoOut \in [Outs -> Seq(OutRequest)] /\ \A e \in Outs : NoOut[e] = <<>>
    BY <1>1, <1>2
<1>4. QueueOf(<<>>, p) /\ \A n : ~HasOut(<<>>, n) /\ ~Owes(<<>>, n)
    BY <1>2 DEF QueueOf, HasOut, Owes
<1>5. \A e \in Outs : QueueOf(NoOut[e], p) /\ \A n : ~HasOut(NoOut[e], n) /\ ~Owes(NoOut[e], n)
    BY <1>3, <1>4, Zenon
<1> QED
    BY <1>3, <1>5, Zenon DEF Owed

\* The state of a new connection, and of a device that had none
FreshPipe ==
    /\ pup \in {"down", "up"} /\ in_channels = <<>> /\ out_channels = NoOut
    /\ preq = 0 /\ taken = <<>> /\ unlinked = {} /\ answers = <<>>
    /\ pconn \in 0..PipeMaxConns /\ pwrites \in 0..PipeMaxWrites /\ PipeThreads
LEMMA FreshPipeInv ==
    ASSUME FreshPipe
    PROVE  PipeInv
<1>1. /\ pup \in {"down", "up"} /\ in_channels = <<>> /\ out_channels = NoOut
      /\ preq = 0 /\ taken = <<>> /\ unlinked = {} /\ answers = <<>>
      /\ pconn \in 0..PipeMaxConns /\ pwrites \in 0..PipeMaxWrites /\ PipeThreads
    BY DEF FreshPipe
<1>2. /\ NoOut \in [Outs -> Seq(OutRequest)]
      /\ \A e \in Outs : NoOut[e] = <<>> /\ QueueOf(NoOut[e], 0)
      /\ \A e \in Outs : \A n : ~HasOut(NoOut[e], n)
      /\ \A n : ~Owed(NoOut, n)
    BY NoOutEmpty
<1>3. PipeChannels
    BY <1>1 DEF PipeChannels
<1>4. 0 \in 0..PipeMaxReqs
    BY PipeConstants
<1>5. PipeOuts
    BY <1>1, <1>2, <1>4, Zenon DEF PipeOuts, OutsQueued
<1>6. PipeTaken
    BY <1>1 DEF PipeTaken, Increasing
<1>7. \A n : ~InWaits(<<>>, n)
    BY DEF InWaits
<1>8. PipeOpen
    <2>1. OpenOf(<<>>, NoOut, <<>>, {}, 0)
        BY <1>2, <1>7 DEF OpenOf
    <2>2. ClosedOf(<<>>, NoOut, <<>>, {}, 0)
        BY DEF ClosedOf
    <2> QED
        BY <1>1, <2>1, <2>2 DEF PipeOpen
<1>9. LogOf(answers, preq, unlinked)
    <2> HIDE DEF PipeResponse
    <2>1. <<>> \in Seq(PipeResponse)
        OBVIOUS
    <2>2. LogOf(<<>>, 0, {})
        BY <2>1 DEF LogOf
    <2> QED
        BY <1>1, <2>2
<1>10. PipeCounts
    BY <1>1, <1>4 DEF PipeCounts
<1>11. NoSleepingReader
    BY <1>1, <1>2, Zenon DEF NoSleepingReader, Outs
<1> QED
    BY <1>1, <1>3, <1>5, <1>6, <1>8, <1>9, <1>10, <1>11 DEF PipeInv

LEMMA IdleWriterTyped == IdleWriter \in PipeWriter
BY PipeConstants DEF IdleWriter, PipeWriter

LEMMA PipeInitInv == PipeInit => PipeInv
<1> SUFFICES ASSUME PipeInit PROVE PipeInv
    OBVIOUS
<1>1. PipeThreads
    <2>1. pw = [w \in PipeWriters |-> IdleWriter] /\ pr = [r \in PipeReaders |-> "idle"]
        BY DEF PipeInit
    <2> QED
        BY <2>1, IdleWriterTyped DEF PipeThreads
<1>2. FreshPipe
    BY <1>1, PipeConstants DEF PipeInit, FreshPipe
<1> QED
    BY <1>2, FreshPipeInv

LEMMA PipeConnectsStep ==
    ASSUME PipeInv, PipeConnects
    PROVE  PipeInv'
<1>1. /\ pup' = "up" /\ in_channels' = <<>> /\ out_channels' = NoOut
      /\ preq' = 0 /\ taken' = <<>> /\ unlinked' = {} /\ answers' = <<>>
      /\ pw' = pw /\ pr' = pr /\ pwrites' = pwrites /\ pconn' = pconn + 1 /\ pconn < PipeMaxConns
    BY DEF PipeConnects
<1>2. PipeThreads'
    BY <1>1 DEF PipeInv, PipeThreads
<1>3. pconn' \in 0..PipeMaxConns /\ pwrites' \in 0..PipeMaxWrites
    BY <1>1, PipeConstants DEF PipeInv, PipeCounts
<1>4. FreshPipe'
    BY <1>1, <1>2, <1>3 DEF FreshPipe
<1> QED
    BY <1>4, FreshPipeInv, PTL

\* on_disconnection of an IN channel: nothing waits there any more.
LEMMA DisconnectFits ==
    ASSUME NEW c, NEW p \in Nat, Fits(c, p), NEW d, d = DisconnectRequests(DisconnectData(c))
    PROVE  Fits(d, p) /\ \A n : ~Pends(d, n)
<1>1. c \in ChannelOf(PipeMaxReqs, PipeLengths) /\ c.capacity = FifoCapacity /\ c.limit = 0 /\ c.out = <<>>
    BY DEF Fits
<1>2. d = [c EXCEPT !.disconnected = TRUE, !.buffer = <<>>, !.queue = <<>>]
    BY <1>1 DEF DisconnectRequests, DisconnectData, ChannelOf
<1>3. /\ d \in ChannelOf(PipeMaxReqs, PipeLengths) /\ d.capacity = FifoCapacity /\ d.limit = 0
      /\ d.buffer = <<>> /\ d.queue = <<>> /\ d.out = <<>>
    <2> HIDE DEF ChannelRequest, ChannelReply
    <2>1. <<>> \in Seq(Nat) /\ <<>> \in Seq(ChannelRequest(PipeMaxReqs, PipeLengths))
        OBVIOUS
    <2> QED
        BY <1>1, <1>2, <2>1 DEF ChannelOf
<1>4. Line(d) = <<>>
    BY <1>3, EmptyLine DEF Line
<1>5. InLine(<<>>, p)
    BY DEF InLine, Increasing
<1>6. Len(d.buffer) <= FifoCapacity /\ \A n : ~Pends(d, n)
    BY <1>3, PipeConstants DEF Pends
<1> QED
    BY <1>3, <1>4, <1>5, <1>6 DEF Fits

\* The channels are told that the connection is over, and then destroyed.
LEMMA ConnectionEnds ==
    ASSUME PipeInv, pup' \in {"clear", "down"}, out_channels' = NoOut,
           DOMAIN in_channels' \subseteq DOMAIN in_channels,
           \A e \in DOMAIN in_channels' : Fits(in_channels'[e], preq) /\ \A n : ~Pends(in_channels'[e], n),
           UNCHANGED <<pconn, preq, pwrites, taken, unlinked, answers>>, PipeThreads'
    PROVE  PipeInv'
<1>1. PICK I : I = in_channels
    BY Zenon
<1>2. PICK J : J = in_channels'
    BY Zenon
<1>3. PICK Q : Q = out_channels
    BY Zenon
<1>4. PICK p : p = preq
    BY Zenon
<1>5. /\ pconn' = pconn /\ preq' = p /\ pwrites' = pwrites /\ taken' = taken /\ unlinked' = unlinked
      /\ answers' = answers /\ pup' # "up"
    BY <1>4
<1>6. p \in Nat /\ p \in 0..PipeMaxReqs
    BY <1>4, PipeConstants DEF PipeInv, PipeCounts
<1>7. /\ NoOut \in [Outs -> Seq(OutRequest)]
      /\ \A e \in Outs : NoOut[e] = <<>> /\ QueueOf(NoOut[e], p)
      /\ \A e \in Outs : \A n : ~HasOut(NoOut[e], n)
      /\ \A n : ~Owed(NoOut, n)
    BY <1>6, NoOutEmpty
<1>8. PipeChannels'
    <2>1. DOMAIN J \subseteq InEps
        BY <1>1, <1>2 DEF PipeInv, PipeChannels
    <2>2. \A e \in DOMAIN J : Fits(J[e], p)
        BY <1>2, <1>4, Zenon
    <2> QED
        BY <1>2, <1>5, <2>1, <2>2, Zenon DEF PipeChannels
<1>9. PipeOuts'
    BY <1>5, <1>6, <1>7, Zenon DEF PipeOuts, OutsQueued
<1>10. PipeTaken'
    <2>1. /\ taken \in Seq(1..PipeMaxReqs) /\ Increasing(taken)
          /\ \A i \in 1..Len(taken) : taken[i] <= p
        BY <1>4 DEF PipeInv, PipeTaken
    <2> QED
        BY <1>5, <1>7, <2>1, Zenon DEF PipeTaken
<1>11. PipeOpen'
    <2>1. \A e \in DOMAIN J : \A n : ~Pends(J[e], n)
        BY <1>2, Zenon
    <2>2. \A n : ~InWaits(J, n)
        BY <2>1, Zenon DEF InWaits
    <2>3. OpenOf(J, NoOut, answers, unlinked, p)
        BY <1>7, <2>1, <2>2, Zenon DEF OpenOf
    <2> QED
        BY <1>2, <1>5, <2>3, Zenon DEF PipeOpen
<1>12. LogOf(answers, preq, unlinked)'
    BY <1>4, <1>5 DEF PipeInv
<1>13. PipeCounts'
    BY <1>4, <1>5 DEF PipeInv, PipeCounts
<1>14. NoSleepingReader'
    BY <1>7, Zenon DEF NoSleepingReader, Outs
<1> QED
    BY <1>8, <1>9, <1>10, <1>11, <1>12, <1>13, <1>14 DEF PipeInv

LEMMA PipeDisconnectsStep ==
    ASSUME PipeInv, PipeDisconnects
    PROVE  PipeInv'
<1>1. PICK I : I = in_channels
    BY Zenon
<1>2. PICK J : J = in_channels'
    BY Zenon
<1>3. PICK p : p = preq
    BY Zenon
<1>4. /\ J = [e \in DOMAIN I |-> DisconnectRequests(DisconnectData(I[e]))]
      /\ pup' = "clear" /\ out_channels' = NoOut /\ pr' = pr
      /\ UNCHANGED <<pconn, preq, pwrites, taken, unlinked, answers>>
      /\ pw' = [w \in PipeWriters |->
                   IF pw[w].pc = "wait" THEN [pw[w] EXCEPT !.pc = "notified"] ELSE pw[w]]
    BY <1>1, <1>2 DEF PipeDisconnects
<1>5. p \in Nat /\ \A e \in DOMAIN I : Fits(I[e], p)
    BY <1>1, <1>3, PipeConstants DEF PipeInv, PipeCounts, PipeChannels
<1>6. ASSUME NEW e \in DOMAIN J
      PROVE  Fits(J[e], p) /\ \A n : ~Pends(J[e], n)
    <2>1. PICK c : c = I[e]
        BY Zenon
    <2>2. PICK d : d = DisconnectRequests(DisconnectData(c))
        BY Zenon
    <2>3. Fits(c, p) /\ J[e] = d
        BY <1>4, <1>5, <1>6, <2>1, <2>2
    <2>4. Fits(d, p) /\ \A n : ~Pends(d, n)
        BY <1>5, <2>2, <2>3, DisconnectFits
    <2> QED
        BY <2>3, <2>4
<1>7. PipeThreads'
    <2>1. ASSUME NEW w \in PipeWriters
          PROVE  pw[w] \in PipeWriter /\ [pw[w] EXCEPT !.pc = "notified"] \in PipeWriter
        <3>1. pw[w] \in PipeWriter
            BY DEF PipeInv, PipeThreads
        <3> QED
            BY <3>1 DEF PipeWriter
    <2>2. pw' \in [PipeWriters -> PipeWriter]
        BY <1>4, <2>1
    <2> QED
        BY <1>4, <2>2 DEF PipeInv, PipeThreads
<1>8. DOMAIN in_channels' \subseteq DOMAIN in_channels
    BY <1>1, <1>2, <1>4
<1>9. \A e \in DOMAIN in_channels' : Fits(in_channels'[e], preq) /\ \A n : ~Pends(in_channels'[e], n)
    BY <1>2, <1>3, <1>6, Zenon
<1> QED
    BY <1>4, <1>7, <1>8, <1>9, ConnectionEnds

LEMMA ClearChannelsStep ==
    ASSUME PipeInv, ClearChannels
    PROVE  PipeInv'
<1>1. /\ pup = "clear" /\ pup' = "down" /\ in_channels' = <<>> /\ WakeReaders
      /\ out_channels' = out_channels /\ pw' = pw
      /\ UNCHANGED <<pconn, preq, pwrites, taken, unlinked, answers>>
    BY DEF ClearChannels
<1>2. out_channels = NoOut
    BY <1>1 DEF PipeInv, PipeOuts
<1>3. pr' \in [PipeReaders -> {"idle", "wait", "notified"}]
    BY <1>1, ReadersWoken
<1>4. PipeThreads'
    BY <1>1, <1>3 DEF PipeInv, PipeThreads
<1>5. DOMAIN in_channels' = {}
    BY <1>1
<1> QED
    BY <1>1, <1>2, <1>4, <1>5, ConnectionEnds

------------------------------------------------------------------------------
(* The steps of the writers.                                                 *)

LEMMA WriterTurns ==
    ASSUME PipeInv, NEW e \in InEps, HasIn(e) \/ pup = "up", NEW d, Turned(GetIn(e), d, preq, preq),
           in_channels' = PutIn(e, d), answers' = answers \o Answers(d),
           pw' \in [PipeWriters -> PipeWriter], pwrites' \in 0..PipeMaxWrites, UNCHANGED writeUnchanged
    PROVE  PipeInv' /\ OnlyAnswers(answers, answers')
<1>1. PICK p : p = preq
    BY Zenon
<1>2. PICK c : c = GetIn(e)
    BY Zenon
<1>3. /\ pup' = pup /\ out_channels' = out_channels /\ pr' = pr /\ pconn' = pconn /\ preq' = p
      /\ taken' = taken /\ unlinked' = unlinked
    BY <1>1 DEF writeUnchanged
<1>4. p \in 0..PipeMaxReqs /\ p \in {p, p + 1} /\ p <= PipeMaxReqs /\ p <= p /\ preq' \in 0..PipeMaxReqs
    BY <1>1, <1>3, PipeConstants DEF PipeInv, PipeCounts
<1>5. Turned(c, d, p, p)
    BY <1>1, <1>2
<1>6. \A n : Owed(out_channels', n) <=> Owed(out_channels, n)
    BY <1>3
<1>7. /\ PipeChannels' /\ PipeOpen' /\ LogOf(answers, preq, unlinked)'
      /\ OnlyAnswers(answers, answers')
    BY <1>1, <1>2, <1>3, <1>4, <1>5, <1>6, ChannelTurns
<1>8. PipeOuts' /\ PipeTaken'
    BY <1>1, <1>3, <1>4, OutsStay
<1>9. PipeThreads' /\ NoSleepingReader' /\ PipeCounts'
    BY <1>1, <1>3 DEF PipeInv, PipeThreads, NoSleepingReader, PipeCounts
<1> QED
    BY <1>7, <1>8, <1>9 DEF PipeInv

LEMMA WriterAt ==
    ASSUME PipeInv, NEW w \in PipeWriters
    PROVE  /\ pw[w].ep \in InEps /\ pw[w].left \in Nat
           /\ \A x \in PipeWriter : [pw EXCEPT ![w] = x] \in [PipeWriters -> PipeWriter]
           /\ \A s \in {"begin", "wait", "flush", "lost"}, k \in Nat :
                 [pw[w] EXCEPT !.pc = s, !.left = k] \in PipeWriter
           /\ \A s \in {"begin", "wait", "flush", "lost"} : [pw[w] EXCEPT !.pc = s] \in PipeWriter
<1>1. pw \in [PipeWriters -> PipeWriter] /\ pw[w] \in PipeWriter
    BY DEF PipeInv, PipeThreads
<1>2. \A x \in PipeWriter : [pw EXCEPT ![w] = x] \in [PipeWriters -> PipeWriter]
    BY <1>1
<1>3. pw[w].ep \in InEps /\ pw[w].left \in Nat
    BY <1>1 DEF PipeWriter
<1>4. \A s \in {"begin", "wait", "flush", "lost"} : [pw[w] EXCEPT !.pc = s] \in PipeWriter
    BY <1>1 DEF PipeWriter
<1>5. \A s \in {"begin", "wait", "flush", "lost"}, k \in Nat :
          [pw[w] EXCEPT !.pc = s, !.left = k] \in PipeWriter
    BY <1>1 DEF PipeWriter
<1> QED
    BY <1>2, <1>3, <1>4, <1>5, Zenon

\* write() takes a pointer to the channel.
LEMMA PipeWriteStep ==
    ASSUME PipeInv, NEW w \in PipeWriters, NEW e \in InEps, NEW n \in PipeSizes, PipeWrite(w, e, n)
    PROVE  PipeInv' /\ OnlyAnswers(answers, answers')
<1>1. /\ pwrites < PipeMaxWrites /\ pup = "up" /\ pwrites' = pwrites + 1 /\ in_channels' = PutIn(e, GetIn(e))
      /\ pw' = [pw EXCEPT ![w] = [pc |-> "begin", ep |-> e, left |-> n, conn |-> pconn]]
      /\ answers' = answers /\ UNCHANGED writeUnchanged
    BY DEF PipeWrite
<1>2. PICK c : c = GetIn(e)
    BY Zenon
<1>3. PICK p : p = preq
    BY Zenon
<1>4. p \in Nat /\ Fits(c, p)
    BY <1>1, <1>2, <1>3, GetInFits, PipeConstants DEF PipeInv, PipeCounts
<1>5. Turned(c, c, p, p)
    BY <1>4, RestTurns
<1>6. answers \o Answers(c) = answers
    <2>1. c.out = <<>>
        BY <1>4 DEF Fits
    <2>2. Answers(c) = <<>>
        BY <2>1 DEF Answers
    <2>3. PICK a : a = answers
        BY Zenon
    <2>4. a \in Seq(PipeResponse)
        BY <2>3 DEF PipeInv, LogOf
    <2> HIDE DEF PipeResponse
    <2>5. a \o <<>> = a
        BY <2>4, ConcatEmptySeq
    <2> QED
        BY <2>2, <2>3, <2>5
<1>7. pw' \in [PipeWriters -> PipeWriter]
    <2>1. [pc |-> "begin", ep |-> e, left |-> n, conn |-> pconn] \in PipeWriter
        BY PipeConstants DEF PipeWriter, PipeInv, PipeCounts
    <2> QED
        BY <1>1, <2>1, WriterAt, Zenon
<1>8. pwrites' \in 0..PipeMaxWrites
    BY <1>1, PipeConstants DEF PipeInv, PipeCounts
<1> QED
    BY <1>1, <1>2, <1>3, <1>5, <1>6, <1>7, <1>8, WriterTurns

\* What only the writer's own place shows
LEMMA WriterAlone ==
    ASSUME PipeInv, UNCHANGED <<in_channels, answers, pwrites, writeUnchanged>>,
           pw' \in [PipeWriters -> PipeWriter]
    PROVE  PipeInv' /\ OnlyAnswers(answers, answers')
<1>1. /\ pup' = pup /\ out_channels' = out_channels /\ pr' = pr /\ pconn' = pconn /\ preq' = preq
      /\ taken' = taken /\ unlinked' = unlinked /\ in_channels' = in_channels /\ answers' = answers
      /\ pwrites' = pwrites
    BY DEF writeUnchanged
<1>2. PipeInv'
    BY <1>1 DEF PipeInv, PipeChannels, PipeOuts, PipeTaken, PipeOpen, PipeThreads, PipeCounts,
                NoSleepingReader, OutsQueued
<1>3. Len(answers) \in Nat
    BY DEF PipeInv, LogOf
<1> QED
    BY <1>1, <1>2, <1>3, NoAnswerBehind

LEMMA PipeWriterInFreedStep ==
    ASSUME PipeInv, NEW w \in PipeWriters, PipeWriterInFreed(w)
    PROVE  PipeInv' /\ OnlyAnswers(answers, answers')
<1>1. /\ UNCHANGED <<in_channels, answers, pwrites, writeUnchanged>>
      /\ pw' = [pw EXCEPT ![w] = IdleWriter] \/ pw' = [pw EXCEPT ![w].pc = "lost"]
    BY DEF PipeWriterInFreed
<1>2. pw' \in [PipeWriters -> PipeWriter]
    <2>1. PICK x : x = [pw[w] EXCEPT !.pc = "lost"]
        BY Zenon
    <2>2. x \in PipeWriter
        BY <2>1, WriterAt, ZenonT(60)
    <2>3. CASE pw' = [pw EXCEPT ![w].pc = "lost"]
        BY <2>1, <2>2, <2>3, WriterAt, Zenon
    <2>4. CASE pw' = [pw EXCEPT ![w] = IdleWriter]
        BY <2>4, WriterAt, IdleWriterTyped, Zenon
    <2> QED
        BY <1>1, <2>3, <2>4
<1> QED
    BY <1>1, <1>2, WriterAlone

LEMMA PipeWriterFlushesStep ==
    ASSUME PipeInv, NEW w \in PipeWriters, PipeWriterFlushes(w)
    PROVE  PipeInv' /\ OnlyAnswers(answers, answers')
<1>1. PICK e : e = pw[w].ep
    BY Zenon
<1>2. PICK c : c = in_channels[e]
    BY Zenon
<1>3. PICK d : d = Drain("stream", c)
    BY Zenon
<1>4. PICK x : x = IF pw[w].left = 0 THEN IdleWriter ELSE [pw[w] EXCEPT !.pc = "begin"]
    BY Zenon
<1>5. PICK ws : ws = [pw EXCEPT ![w] = x]
    BY Zenon
<1>6. HasIn(e) /\ InBecomes(e, d, ws) /\ pwrites' = pwrites /\ UNCHANGED writeUnchanged
    BY <1>1, <1>2, <1>3, <1>4, <1>5, Zenon DEF PipeWriterFlushes, Alive
<1>7. e \in InEps
    BY <1>1, WriterAt, Zenon
<1>8. ws \in [PipeWriters -> PipeWriter]
    <2>1. [pw[w] EXCEPT !.pc = "begin"] \in PipeWriter
        BY WriterAt, Zenon
    <2>2. x \in PipeWriter
        BY <1>4, <2>1, IdleWriterTyped, Zenon
    <2> QED
        BY <1>5, <2>2, WriterAt, Zenon
<1>9. /\ in_channels' = PutIn(e, d) /\ answers' = answers \o Answers(d)
      /\ pw' \in [PipeWriters -> PipeWriter]
    BY <1>6, <1>8, BecomesParts
<1>10. PICK p : p = preq
    BY Zenon
<1>11. p \in Nat /\ Fits(c, p) /\ c = GetIn(e)
    BY <1>2, <1>6, <1>10, GetInFits, PipeConstants DEF PipeInv, PipeCounts, HasIn
<1>12. Turned(c, d, p, p)
    BY <1>3, <1>11, DrainTurns
<1>13. pwrites' \in 0..PipeMaxWrites
    BY <1>6 DEF PipeInv, PipeCounts
<1> QED
    BY <1>6, <1>7, <1>9, <1>10, <1>11, <1>12, <1>13, WriterTurns

\* A round of write(): in any case the channel has only been drained and filled.
LEMMA PipeWriterRunsStep ==
    ASSUME PipeInv, NEW w \in PipeWriters, PipeWriterRuns(w)
    PROVE  PipeInv' /\ OnlyAnswers(answers, answers')
<1>1. PICK e : e = pw[w].ep
    BY Zenon
<1>2. PICK c : c = in_channels[e]
    BY Zenon
<1>3. PICK d : d = IF pw[w].pc = "begin" /\ Full(c) THEN Drain("stream", c) ELSE c
    BY Zenon
<1>4. PICK l : l = pw[w].left
    BY Zenon
<1>5. PICK k : k = Lesser(l, Room(d))
    BY Zenon
<1>6. PICK f : f = PushLocked("stream", d, [i \in 1..k |-> 0])
    BY Zenon
<1>7. /\ HasIn(e) /\ pwrites' = pwrites /\ UNCHANGED writeUnchanged
      /\ \/ pw' = [pw EXCEPT ![w] = IdleWriter] /\ UNCHANGED <<in_channels, answers>>
         \/ InBecomes(e, f, [pw EXCEPT ![w].pc = "flush", ![w].left = @ - k])
         \/ InBecomes(e, d, [pw EXCEPT ![w].pc = "wait"])
    BY <1>1, <1>2, <1>3, <1>4, <1>5, <1>6, Zenon DEF PipeWriterRuns, Alive
<1>8. e \in InEps /\ l \in Nat
    BY <1>1, <1>4, WriterAt, Zenon
<1>9. PICK p : p = preq
    BY Zenon
<1>10. p \in Nat /\ Fits(c, p) /\ c = GetIn(e)
    BY <1>2, <1>7, <1>9, GetInFits, PipeConstants DEF PipeInv, PipeCounts, HasIn
<1>11. Turned(c, d, p, p)
    BY <1>3, <1>10, DrainTurns, RestTurns
<1>12. k \in Nat /\ l - k \in Nat
    <2>1. PICK m : m = Len(d.buffer)
        BY Zenon
    <2>2. d \in ChannelOf(PipeMaxReqs, PipeLengths) /\ d.capacity = FifoCapacity /\ m <= FifoCapacity
        BY <1>11, <2>1 DEF Turned
    <2>3. m \in Nat
        BY <2>1, <2>2, ChannelFields
    <2>4. Room(d) = FifoCapacity - m
        BY <2>1, <2>2 DEF Room
    <2> QED
        BY <1>5, <1>8, <2>2, <2>3, <2>4, PipeConstants DEF Lesser
<1>13. Turned(c, f, p, p)
    BY <1>6, <1>11, <1>12, PushTurns
<1>14. pwrites' \in 0..PipeMaxWrites
    BY <1>7 DEF PipeInv, PipeCounts
<1>15. ASSUME NEW g, Turned(c, g, p, p), NEW ws \in [PipeWriters -> PipeWriter], InBecomes(e, g, ws)
       PROVE  PipeInv' /\ OnlyAnswers(answers, answers')
    <2>1. /\ in_channels' = PutIn(e, g) /\ answers' = answers \o Answers(g)
          /\ pw' \in [PipeWriters -> PipeWriter]
        BY <1>15, BecomesParts
    <2> QED
        BY <1>7, <1>8, <1>9, <1>10, <1>14, <1>15, <2>1, WriterTurns
<1>16. CASE pw' = [pw EXCEPT ![w] = IdleWriter] /\ UNCHANGED <<in_channels, answers>>
    <2>1. pw' \in [PipeWriters -> PipeWriter]
        BY <1>16, WriterAt, IdleWriterTyped, Zenon
    <2> QED
        BY <1>7, <1>16, <2>1, WriterAlone
<1>17. CASE InBecomes(e, f, [pw EXCEPT ![w].pc = "flush", ![w].left = @ - k])
    <2>1. PICK ws : ws = [pw EXCEPT ![w].pc = "flush", ![w].left = @ - k]
        BY Zenon
    <2>2. PICK x : x = [pw[w] EXCEPT !.pc = "flush", !.left = l - k]
        BY Zenon
    <2>3. x \in PipeWriter
        BY <1>12, <2>2, WriterAt, Zenon
    <2>4. ws = [pw EXCEPT ![w] = x]
        <3>1. pw \in [PipeWriters -> PipeWriter]
            BY DEF PipeInv, PipeThreads
        <3> QED
            BY <1>4, <2>1, <2>2, <3>1 DEF PipeWriter
    <2>5. ws \in [PipeWriters -> PipeWriter]
        BY <2>3, <2>4, WriterAt, Zenon
    <2> QED
        BY <1>13, <1>15, <1>17, <2>1, <2>5
<1>18. CASE InBecomes(e, d, [pw EXCEPT ![w].pc = "wait"])
    <2>1. PICK ws : ws = [pw EXCEPT ![w].pc = "wait"]
        BY Zenon
    <2>2. PICK x : x = [pw[w] EXCEPT !.pc = "wait"]
        BY Zenon
    <2>3. x \in PipeWriter
        BY <2>2, WriterAt, Zenon
    <2>4. ws \in [PipeWriters -> PipeWriter]
        BY <2>1, <2>2, <2>3, WriterAt, Zenon
    <2> QED
        BY <1>11, <1>15, <1>18, <2>1, <2>4, ZenonT(60)
<1> QED
    BY <1>7, <1>16, <1>17, <1>18

------------------------------------------------------------------------------
(* The steps of the readers.                                                 *)

\* The oldest request x leaves its channel e.
OldestLeaves(Q, R, e, x, ans) ==
    /\ \A f \in Outs : \A n : HasOut(R[f], n) => HasOut(Q[f], n) /\ x < n
    /\ \A n : Owed(R, n) <=> Owed(Q, n) /\ n # x
    /\ (Owed(Q, x) <=> ans) /\ HasOut(Q[e], x)
OldestGoes(Q, R, e, h, p) ==
    /\ PipeInv /\ Oldest # -1 /\ Q = out_channels /\ e = Oldest /\ h = Head(Q[e])
    /\ R = [Q EXCEPT ![e] = Tail(Q[e])] /\ p = preq
LEMMA OldestTaken ==
    ASSUME NEW Q, NEW R, NEW e, NEW h, NEW p, OldestGoes(Q, R, e, h, p)
    PROVE  /\ e \in Outs /\ pup = "up" /\ h \in OutRequest /\ h.n \in 1..p /\ p \in Nat
           /\ R \in [Outs -> Seq(OutRequest)] /\ \A f \in Outs : QueueOf(R[f], p)
           /\ OldestLeaves(Q, R, e, h.n, h.answer) /\ \E f \in Outs : Q[f] # <<>>
<1>0. /\ PipeInv /\ Oldest # -1 /\ Q = out_channels /\ e = Oldest /\ h = Head(Q[e])
      /\ R = [Q EXCEPT ![e] = Tail(Q[e])] /\ p = preq
    BY Zenon DEF OldestGoes
<1> USE <1>0
<1>1. OutsQueued /\ p \in Nat
    BY PipeConstants DEF PipeInv, PipeOuts, PipeCounts
<1>2. Q \in [Outs -> Seq(OutRequest)] /\ \A f \in Outs : QueueOf(Q[f], p)
    BY <1>1 DEF OutsQueued
<1>3. /\ e \in Outs /\ Q[e] # <<>>
      /\ \A f \in Outs : Q[f] # <<>> => Head(Q[e]).n <= Head(Q[f]).n
    BY <1>1, OldestIsBest DEF OutFront
<1>4. pup = "up"
    BY <1>1, <1>3, NoOutEmpty DEF PipeInv, PipeOuts
<1>5. PICK q : q = Q[e]
    BY Zenon
<1>6. PICK r : r = Tail(q)
    BY Zenon
<1>7. PICK x : x = h.n
    BY Zenon
<1>8. QueueOf(q, p) /\ q # <<>> /\ h = Head(q)
    BY <1>2, <1>3, <1>5
<1>9. /\ QueueOf(r, p) /\ h \in OutRequest /\ HasOut(q, x)
      /\ \A n : HasOut(r, n) <=> HasOut(q, n) /\ n # x
      /\ \A n : Owes(r, n) <=> Owes(q, n) /\ n # x
      /\ Owes(q, x) <=> h.answer
      /\ \A n : HasOut(q, n) => x <= n
    BY <1>1, <1>6, <1>7, <1>8, QueueTail, ZenonT(60)
<1> HIDE DEF OutRequest
<1>10. r \in Seq(OutRequest) /\ x \in 1..p
    BY <1>8, <1>9 DEF QueueOf, HasOut
<1>11. R = [Q EXCEPT ![e] = r]
    BY <1>5, <1>6
<1>12. R \in [Outs -> Seq(OutRequest)] /\ R[e] = r /\ \A f \in Outs : f # e => R[f] = Q[f]
    <2>1. e \in Outs
        BY <1>3
    <2> QED
        BY <1>2, <1>10, <1>11, <2>1, ZenonT(60)
<1>13. \A f \in Outs : QueueOf(R[f], p)
    BY <1>2, <1>9, <1>12, Zenon
<1>14. \A f, g \in Outs : \A n : HasOut(Q[f], n) /\ HasOut(Q[g], n) => f = g
    BY DEF PipeInv, PipeOuts
<1>15. ASSUME NEW f \in Outs, NEW n, HasOut(R[f], n)
       PROVE  HasOut(Q[f], n) /\ x < n
    <2>1. HasOut(Q[f], n) /\ n # x
        <3>1. CASE f = e
            BY <1>5, <1>9, <1>12, <1>15, <3>1, Zenon
        <3>2. CASE f # e
            BY <1>3, <1>5, <1>9, <1>12, <1>14, <1>15, <3>2, ZenonT(60)
        <3> QED
            BY <3>1, <3>2, Zenon
    <2>2. n \in 1..p
        BY <1>2, <2>1 DEF QueueOf, HasOut
    <2>3. x <= n
        <3>1. PICK s : s = Q[f]
            BY Zenon
        <3>2. PICK y : y = Head(s).n
            BY Zenon
        <3>3. QueueOf(s, p) /\ HasOut(s, n)
            BY <1>2, <2>1, <3>1
        <3>4. s # <<>>
            BY <3>3 DEF HasOut
        <3>5. x <= y
            BY <1>3, <1>7, <3>1, <3>2, <3>4
        <3>6. y <= n /\ y \in 1..p
            BY <1>1, <3>2, <3>3, <3>4, QueueTail DEF QueueOf, HasOut
        <3> QED
            BY <1>1, <1>10, <2>2, <3>5, <3>6
    <2> QED
        BY <1>1, <1>10, <2>1, <2>2, <2>3
<1>16. \A f \in Outs : Owes(Q[f], x) => f = e
    <2>1. \A f \in Outs : Owes(Q[f], x) => HasOut(Q[f], x)
        BY Zenon DEF Owes, HasOut
    <2> QED
        BY <1>3, <1>5, <1>9, <1>14, <2>1, Zenon
<1>17. ASSUME NEW n
       PROVE  Owed(R, n) <=> Owed(Q, n) /\ n # x
    <2>1. \A f \in Outs : Owes(R[f], n) <=> Owes(Q[f], n) /\ n # x
        BY <1>5, <1>9, <1>12, <1>16, Zenon
    <2> QED
        BY <2>1, Zenon DEF Owed
<1>18. Owed(Q, x) <=> h.answer
    BY <1>3, <1>5, <1>9, <1>16, Zenon DEF Owed
<1>19. OldestLeaves(Q, R, e, h.n, h.answer)
    BY <1>5, <1>7, <1>9, <1>15, <1>17, <1>18, Zenon DEF OldestLeaves
<1> QED
    BY <1>1, <1>3, <1>4, <1>7, <1>9, <1>10, <1>12, <1>13, <1>19, Zenon

\* read() takes the oldest request, and answers it if it has data.
LEMMA TakeStep ==
    ASSUME PipeInv, Oldest # -1, TakeOne, NEW r \in PipeReaders, pr' = [pr EXCEPT ![r] = "idle"],
           UNCHANGED readUnchanged
    PROVE  /\ PipeInv' /\ OnlyAnswers(answers, answers')
           /\ \A C : NoticesOf(out_channels, C) => NoticesOf(out_channels', C)
<1>1. PICK Q : Q = out_channels
    BY Zenon
<1>2. PICK R : R = out_channels'
    BY Zenon
<1>3. PICK p : p = preq
    BY Zenon
<1>4. PICK e : e = Oldest
    BY Zenon
<1>5. PICK h : h = Head(Q[e])
    BY Zenon
<1>6. PICK x : x = h.n
    BY Zenon
<1>7. PICK a : a = answers
    BY Zenon
<1>8. PICK b : b = answers'
    BY Zenon
<1>9. PICK t : t = taken
    BY Zenon
<1>10. PICK I : I = in_channels
    BY Zenon
<1>11. PICK u : u = unlinked
    BY Zenon
<1>12. /\ R = [Q EXCEPT ![e] = Tail(Q[e])] /\ taken' = Append(t, x)
       /\ b = IF h.answer THEN Append(a, RetSubmit(x, "OK")) ELSE a
    BY <1>1, <1>2, <1>4, <1>5, <1>6, <1>7, <1>8, <1>9 DEF TakeOne
<1>13. /\ pup' = pup /\ in_channels' = I /\ pw' = pw /\ pconn' = pconn /\ preq' = p
       /\ pwrites' = pwrites /\ unlinked' = u
    BY <1>3, <1>10, <1>11 DEF readUnchanged
<1>14. /\ e \in Outs /\ pup = "up" /\ h \in OutRequest /\ x \in 1..p /\ p \in Nat
       /\ R \in [Outs -> Seq(OutRequest)] /\ \A f \in Outs : QueueOf(R[f], p)
       /\ OldestLeaves(Q, R, e, x, h.answer) /\ \E f \in Outs : Q[f] # <<>>
    <2>1. /\ e \in Outs /\ pup = "up" /\ h \in OutRequest /\ h.n \in 1..p /\ p \in Nat
          /\ R \in [Outs -> Seq(OutRequest)] /\ \A f \in Outs : QueueOf(R[f], p)
          /\ OldestLeaves(Q, R, e, h.n, h.answer) /\ \E f \in Outs : Q[f] # <<>>
        <3>1. OldestGoes(Q, R, e, h, p)
            BY <1>1, <1>3, <1>4, <1>5, <1>12, Zenon DEF OldestGoes
        <3> QED
            BY <3>1, OldestTaken, Zenon
    <2> QED
        BY <1>6, <2>1, Zenon
<1>15. /\ \A f \in Outs : \A n : HasOut(R[f], n) => HasOut(Q[f], n) /\ x < n
       /\ \A n : Owed(R, n) <=> Owed(Q, n) /\ n # x
       /\ (Owed(Q, x) <=> h.answer) /\ HasOut(Q[e], x)
    BY <1>14, Zenon DEF OldestLeaves
<1> HIDE DEF OutRequest
<1>16. p \in 0..PipeMaxReqs /\ x \in 1..PipeMaxReqs /\ u \subseteq 1..p
    BY <1>3, <1>11, <1>14, PipeConstants DEF PipeInv, PipeCounts
<1>17. PipeOuts'
    <2>1. \A f, g \in Outs : \A n : HasOut(Q[f], n) /\ HasOut(Q[g], n) => f = g
        BY <1>1 DEF PipeInv, PipeOuts
    <2>2. \A f, g \in Outs : \A n : HasOut(R[f], n) /\ HasOut(R[g], n) => f = g
        BY <1>15, <2>1, Zenon
    <2>3. OutsQueued'
        BY <1>2, <1>13, <1>14, <1>16, Zenon DEF OutsQueued
    <2> QED
        BY <1>2, <1>13, <1>14, <2>2, <2>3, Zenon DEF PipeOuts
<1>18. PipeTaken'
    <2>1. /\ t \in Seq(1..PipeMaxReqs) /\ Increasing(t)
          /\ \A i \in 1..Len(t) : t[i] <= p
          /\ \A i \in 1..Len(t), f \in Outs : \A n : HasOut(Q[f], n) => t[i] < n
        BY <1>1, <1>3, <1>9 DEF PipeInv, PipeTaken
    <2>2. PICK s : s = Append(t, x)
        BY Zenon
    <2>3. PICK m : m = Len(t)
        BY Zenon
    <2>4. /\ m \in Nat /\ s \in Seq(1..PipeMaxReqs) /\ Len(s) = m + 1 /\ s[m + 1] = x
          /\ \A i \in 1..m : s[i] = t[i]
        BY <1>16, <2>1, <2>2, <2>3, AppendProperties
    <2>5. \A i \in 1..m : s[i] < x /\ s[i] <= p
        BY <1>14, <1>15, <2>1, <2>3, <2>4, Zenon
    <2>6. \A i \in 1..(m + 1) : i \in 1..m \/ i = m + 1
        BY <2>4
    <2>7. Increasing(s)
        <3>1. \A i, j \in 1..m : i < j => s[i] < s[j]
            BY <2>1, <2>3, <2>4, Zenon DEF Increasing
        <3> SUFFICES ASSUME NEW i \in 1..(m + 1), NEW j \in 1..(m + 1), i < j PROVE s[i] < s[j]
            BY <2>4, Zenon DEF Increasing
        <3>2. i \in 1..m
            BY <2>4
        <3>3. CASE j \in 1..m
            BY <3>1, <3>2, <3>3, Zenon
        <3>4. CASE j = m + 1
            BY <2>4, <2>5, <3>2, <3>4, Zenon
        <3> QED
            BY <2>6, <3>3, <3>4, Zenon
    <2>8. x <= p
        BY <1>14
    <2>9. \A i \in 1..Len(s) : s[i] <= p
        BY <2>4, <2>5, <2>6, <2>8, Zenon
    <2>10. ASSUME NEW i \in 1..Len(s), NEW f \in Outs, NEW n, HasOut(R[f], n)
           PROVE  s[i] < n
        <3>1. HasOut(Q[f], n) /\ x < n
            BY <1>15, <2>10, Zenon
        <3>2. CASE i \in 1..m
            BY <2>1, <2>3, <2>4, <3>1, <3>2, Zenon
        <3>3. CASE i = m + 1
            BY <2>4, <3>1, <3>3, Zenon
        <3> QED
            BY <2>4, <2>6, <3>2, <3>3, Zenon
    <2> QED
        BY <1>2, <1>12, <1>13, <2>2, <2>4, <2>7, <2>9, <2>10, Zenon DEF PipeTaken
<1>19. /\ OpenOf(I, Q, a, u, p) /\ ClosedOf(I, Q, a, u, p) /\ LogOf(a, p, u)
    BY <1>1, <1>3, <1>7, <1>10, <1>11, <1>14 DEF PipeInv, PipeOpen
<1>20. \A n : InWaits(I, n) \/ Owed(Q, n) => ~(InWaits(I, n) /\ Owed(Q, n)) /\ ~Tells(a, n) /\ n \notin u
    BY <1>19, Zenon DEF OpenOf
<1>21. LogOf(b, p, u) /\ \A n : Tells(b, n) <=> Tells(a, n) \/ (h.answer /\ n = x)
    <2>1. CASE h.answer
        <3>1. PICK y : y = RetSubmit(x, "OK")
            BY Zenon
        <3>2. y \in PipeResponse /\ y.kind = "RET_SUBMIT" /\ y.n = x
            BY <1>16, <3>1 DEF RetSubmit, PipeResponse
        <3> HIDE DEF PipeResponse
        <3>3. ~Tells(a, x) /\ x \notin u
            BY <1>15, <1>20, <2>1, Zenon
        <3>4. /\ LogOf(Append(a, y), p, u)
              /\ \A n : Tells(Append(a, y), n) <=> Tells(a, n) \/ (y.kind = "RET_SUBMIT" /\ n = y.n)
            BY <1>14, <1>19, <3>2, <3>3, LogAppends
        <3>5. b = Append(a, y)
            BY <1>12, <2>1, <3>1
        <3> QED
            BY <2>1, <3>2, <3>4, <3>5, Zenon
    <2>2. CASE ~h.answer
        BY <1>12, <1>19, <2>2, Zenon
    <2> QED
        BY <2>1, <2>2, Zenon
<1>22. OpenOf(I, R, b, u, p)
    <2>1. \A n : InWaits(I, n) \/ Owed(R, n) => (Tells(b, n) => Tells(a, n))
        BY <1>15, <1>20, <1>21, Zenon
    <2>2. Shrinks(I, I, Q, R, a, b, u, u)
        BY <1>15, <2>1, Zenon DEF Shrinks
    <2> QED
        BY <1>19, <2>2, OpenShrinks, Zenon
<1>23. ClosedOf(I, R, b, u, p)
    BY <1>15, <1>19, <1>21, Zenon DEF ClosedOf
<1>24. PipeOpen'
    BY <1>2, <1>8, <1>13, <1>22, <1>23, Zenon DEF PipeOpen
<1>25. LogOf(answers, preq, unlinked)'
    BY <1>8, <1>13, <1>21, Zenon
<1>26. PipeChannels' /\ PipeCounts'
    BY <1>3, <1>10, <1>11, <1>13 DEF PipeInv, PipeChannels, PipeCounts
<1>27. PipeThreads' /\ NoSleepingReader'
    <2>1. \A s \in PipeReaders : pr[s] # "wait"
        BY <1>1, <1>14, Zenon DEF PipeInv, NoSleepingReader, Outs
    <2>2. pr \in [PipeReaders -> {"idle", "wait", "notified"}]
        BY DEF PipeInv, PipeThreads
    <2>3. /\ pr' \in [PipeReaders -> {"idle", "wait", "notified"}]
          /\ \A s \in PipeReaders : pr'[s] # "wait"
        BY <2>1, <2>2
    <2> QED
        BY <1>13, <2>3 DEF PipeInv, PipeThreads, NoSleepingReader
<1>38. OnlyAnswers(a, b)
    <2>1. PICK y : y = RetSubmit(x, "OK")
        BY Zenon
    <2>2. y.kind = "RET_SUBMIT" /\ y \in PipeResponse /\ a \in Seq(PipeResponse)
        BY <1>7, <1>16, <2>1 DEF RetSubmit, PipeResponse, PipeInv, LogOf
    <2> HIDE DEF PipeResponse
    <2>3. OnlyAnswers(a, Append(a, y)) /\ OnlyAnswers(a, a)
        BY <2>2 DEF OnlyAnswers
    <2> QED
        BY <1>12, <2>1, <2>3
<1>39. \A C : NoticesOf(Q, C) => NoticesOf(R, C)
    <2>1. \A n : x < n => n # x
        BY <1>16
    <2> QED
        BY <1>15, <2>1, Zenon DEF NoticesOf
<1> QED
    BY <1>1, <1>2, <1>7, <1>8, <1>38, <1>39, <1>17, <1>18, <1>24, <1>25, <1>26, <1>27 DEF PipeInv

LEMMA ReadsStep ==
    ASSUME PipeInv, NEW r \in PipeReaders, NEW timeout, Reads(r, timeout)
    PROVE  /\ PipeInv' /\ OnlyAnswers(answers, answers')
           /\ \A C : NoticesOf(out_channels, C) => NoticesOf(out_channels', C)
<1>1. CASE Oldest # -1 /\ TakeOne /\ pr' = [pr EXCEPT ![r] = "idle"]
    BY <1>1, TakeStep DEF Reads
<1>2. CASE /\ Oldest = -1
           /\ pr' = [pr EXCEPT ![r] = IF pup # "up" \/ timeout THEN "idle" ELSE "wait"]
           /\ UNCHANGED <<out_channels, taken, answers>>
    <2>1. /\ pup' = pup /\ in_channels' = in_channels /\ pw' = pw /\ pconn' = pconn /\ preq' = preq
          /\ pwrites' = pwrites /\ unlinked' = unlinked
          /\ out_channels' = out_channels /\ taken' = taken /\ answers' = answers
        BY <1>2 DEF Reads, readUnchanged
    <2>2. pr' \in [PipeReaders -> {"idle", "wait", "notified"}]
        BY <1>2 DEF PipeInv, PipeThreads
    <2>3. \A e \in Outs : out_channels[e] = <<>>
        <3>1. -1 \notin Outs
            BY OutsNumbered
        <3> QED
            BY <1>2, <3>1, OldestIsBest DEF PipeInv, PipeOuts
    <2>4. NoSleepingReader'
        BY <2>1, <2>3, Zenon DEF NoSleepingReader, Outs
    <2>5. PipeInv'
        BY <2>1, <2>2, <2>4 DEF PipeInv, PipeChannels, PipeOuts, PipeTaken, PipeOpen, PipeThreads,
                                PipeCounts, OutsQueued
    <2>6. Len(answers) \in Nat
        BY DEF PipeInv, LogOf
    <2> QED
        BY <2>1, <2>5, <2>6, NoAnswerBehind
<1> QED
    BY <1>1, <1>2 DEF Reads

------------------------------------------------------------------------------
(* What is proved of the pipe device.                                        *)

\* Answers do not change who was told "cancelled".
LEMMA CaughtKept ==
    ASSUME NEW a, NEW b, NEW C, NEW D, NEW p, NEW u, CaughtOf(a, C), LogOf(b, p, u),
           Len(a) \in Nat, OnlyAnswers(a, b), C \subseteq D
    PROVE  CaughtOf(b, D)
<1> SUFFICES ASSUME NEW i \in 1..Len(b), NEW j \in 1..Len(b), b[i].kind = "RET_UNLINK",
                    b[i].status = "ECONNRESET", b[j].kind = "RET_SUBMIT", b[i].n = b[j].n
             PROVE  b[i].n \in D
    BY DEF CaughtOf
<1>1. j < i
    BY ZenonT(60) DEF LogOf
<1>2. i \in 1..Len(a)
    BY DEF OnlyAnswers
<1>3. Len(b) \in Nat
    BY DEF LogOf
<1>4. j \in 1..Len(a)
    BY <1>1, <1>2, <1>3
<1>5. b[i] = a[i] /\ b[j] = a[j]
    BY <1>2, <1>4 DEF OnlyAnswers
<1>6. a[i].n \in C
    BY <1>2, <1>4, <1>5 DEF CaughtOf
<1> QED
    BY <1>5, <1>6

\* Steps that unlink nothing
LEMMA CaughtStays ==
    ASSUME PipeInv, PipeInv', CaughtInv, OnlyAnswers(answers, answers'), control_ins' = control_ins,
           NoticesOf(out_channels, control_ins) => NoticesOf(out_channels', control_ins),
           preq <= preq'
    PROVE  CaughtInv'
<1>1. CaughtOf(answers, control_ins) /\ LogOf(answers', preq', unlinked') /\ Len(answers) \in Nat
    BY DEF CaughtInv, PipeInv, LogOf
<1>2. CaughtOf(answers', control_ins)
    BY <1>1, CaughtKept
<1>3. control_ins \subseteq 1..preq'
    BY PipeConstants DEF CaughtInv, PipeInv, PipeCounts
<1> QED
    BY <1>2, <1>3 DEF CaughtInv

LEMMA CaughtStep == PipeInv /\ PipeInv' /\ CaughtInv /\ [PipeNext]_pipeVars => CaughtInv'
<1> SUFFICES ASSUME PipeInv, PipeInv', CaughtInv, [PipeNext]_pipeVars PROVE CaughtInv'
    OBVIOUS
<1>1. NoticesOf(NoOut, control_ins) /\ preq \in Nat /\ OnlyAnswers(answers, answers)
    <2>1. preq \in Nat /\ Len(answers) \in Nat
        BY PipeConstants DEF PipeInv, PipeCounts, LogOf
    <2>2. NoticesOf(NoOut, control_ins)
        BY NoOutEmpty DEF NoticesOf
    <2> QED
        BY <2>1, <2>2, NoAnswerBehind
<1>2. preq <= preq
    BY <1>1
<1>3. CASE PipeConnects
    <2>1. answers' = <<>> /\ control_ins' = {} /\ out_channels' = NoOut
        BY <1>3 DEF PipeConnects
    <2>2. CaughtOf(<<>>, {}) /\ NoticesOf(NoOut, {})
        BY NoOutEmpty DEF CaughtOf, NoticesOf
    <2> QED
        BY <2>1, <2>2 DEF CaughtInv
<1>4. CASE PipeDisconnects
    <2>1. answers' = answers /\ control_ins' = control_ins /\ out_channels' = NoOut /\ preq' = preq
        BY <1>4 DEF PipeDisconnects
    <2> QED
        BY <1>1, <1>2, <2>1, CaughtStays
<1>5. CASE ClearChannels
    <2>1. /\ answers' = answers /\ control_ins' = control_ins /\ out_channels' = out_channels
          /\ preq' = preq
        BY <1>5 DEF ClearChannels
    <2> QED
        BY <1>1, <1>2, <2>1, CaughtStays
<1>6. ASSUME NEW e \in Outs, Arrives, EnqueueOut(e, TRUE), WakeReaders, control_ins' = control_ins,
             UNCHANGED <<pup, in_channels, pw, pconn, pwrites, taken, unlinked, answers>>
      PROVE  CaughtInv'
    <2>1. \A C : NoticesOf(out_channels, C) => NoticesOf(out_channels', C)
        BY <1>6, PipeOutTransferStep
    <2>2. preq <= preq'
        BY <1>1, <1>6 DEF Arrives
    <2> QED
        BY <1>1, <1>6, <2>1, <2>2, CaughtStays
<1>7. CASE ControlOut
    BY <1>6, <1>7, OutsNumbered DEF ControlOut
<1>8. ASSUME NEW len \in PipeLengths, ControlIn(len)
      PROVE  CaughtInv'
    <2>1. OnlyAnswers(answers, answers') /\ NoticesOf(out_channels', control_ins')
        BY <1>8, ControlInStep DEF CaughtInv
    <2>2. control_ins' = control_ins \cup {preq + 1} /\ preq' = preq + 1
        BY <1>8 DEF ControlIn, Arrives
    <2>3. CaughtOf(answers, control_ins) /\ LogOf(answers', preq', unlinked') /\ Len(answers) \in Nat
        BY DEF CaughtInv, PipeInv, LogOf
    <2>4. CaughtOf(answers', control_ins')
        BY <2>1, <2>2, <2>3, CaughtKept
    <2>5. control_ins' \subseteq 1..preq'
        BY <1>1, <2>2 DEF CaughtInv
    <2> QED
        BY <2>1, <2>4, <2>5 DEF CaughtInv
<1>9. ASSUME NEW len \in PipeLengths, NEW e \in InEps, OnPipeInRequest(e, len)
      PROVE  CaughtInv'
    <2>1. control_ins' = control_ins /\ out_channels' = out_channels /\ preq <= preq'
        BY <1>1, <1>9 DEF OnPipeInRequest, Arrives
    <2> QED
        BY <1>9, <2>1, PipeInRequestStep, CaughtStays
<1>10. ASSUME NEW e \in ToSet(OutEps), OnPipeOutTransfer(e)
       PROVE  CaughtInv'
    BY <1>6, <1>10 DEF OnPipeOutTransfer, Outs
<1>11. ASSUME NEW n \in 1..PipeMaxReqs, OnPipeUnlink(n)
       PROVE  CaughtInv'
    BY <1>11, PipeUnlinkStep
<1>12. ASSUME NEW w \in PipeWriters, UNCHANGED writeUnchanged, OnlyAnswers(answers, answers')
       PROVE  CaughtInv'
    <2>1. control_ins' = control_ins /\ out_channels' = out_channels /\ preq' = preq
        BY <1>12 DEF writeUnchanged
    <2> QED
        BY <1>2, <1>12, <2>1, CaughtStays
<1>13. ASSUME NEW w \in PipeWriters, PipeWriterRuns(w) \/ PipeWriterFlushes(w) \/ PipeWriterInFreed(w)
       PROVE  CaughtInv'
    <2>1. UNCHANGED writeUnchanged
        BY <1>13, Zenon DEF PipeWriterRuns, PipeWriterFlushes, PipeWriterInFreed
    <2> QED
        BY <1>12, <1>13, <2>1, PipeWriterRunsStep, PipeWriterFlushesStep, PipeWriterInFreedStep
<1>14. ASSUME NEW w \in PipeWriters, NEW e \in InEps, NEW n \in PipeSizes, PipeWrite(w, e, n)
       PROVE  CaughtInv'
    <2>1. UNCHANGED writeUnchanged
        BY <1>14 DEF PipeWrite
    <2> QED
        BY <1>12, <1>14, <2>1, PipeWriteStep
<1>15. ASSUME NEW r \in PipeReaders, PipeRead(r) \/ PipeReaderWakes(r) \/ PipeReadTimeout(r)
       PROVE  CaughtInv'
    <2>1. Reads(r, FALSE) \/ Reads(r, TRUE)
        BY <1>15 DEF PipeRead, PipeReaderWakes, PipeReadTimeout
    <2>2. control_ins' = control_ins /\ preq' = preq
        BY <2>1 DEF Reads, readUnchanged
    <2>3. /\ OnlyAnswers(answers, answers')
          /\ \A C : NoticesOf(out_channels, C) => NoticesOf(out_channels', C)
        BY <2>1, ReadsStep
    <2> QED
        BY <1>2, <2>2, <2>3, CaughtStays
<1>16. CASE UNCHANGED pipeVars
    <2>1. /\ answers' = answers /\ control_ins' = control_ins /\ out_channels' = out_channels
          /\ preq' = preq
        BY <1>16 DEF pipeVars
    <2> QED
        BY <1>1, <1>2, <2>1, CaughtStays
<1> QED
    BY <1>3, <1>4, <1>5, <1>7, <1>8, <1>9, <1>10, <1>11, <1>13, <1>14, <1>15, <1>16, Zenon DEF PipeNext

LEMMA PipeStutter ==
    ASSUME PipeInv, UNCHANGED pipeVars
    PROVE  PipeInv'
<1>1. /\ pup' = pup /\ in_channels' = in_channels /\ out_channels' = out_channels /\ pw' = pw
      /\ pr' = pr /\ pconn' = pconn /\ preq' = preq /\ pwrites' = pwrites /\ taken' = taken
      /\ unlinked' = unlinked /\ answers' = answers
    BY DEF pipeVars
<1> QED
    BY <1>1 DEF PipeInv, PipeChannels, PipeOuts, PipeTaken, PipeOpen, PipeThreads, PipeCounts,
                NoSleepingReader, OutsQueued

LEMMA PipeStep == PipeInv /\ [PipeNext]_pipeVars => PipeInv'
<1> SUFFICES ASSUME PipeInv, [PipeNext]_pipeVars PROVE PipeInv'
    OBVIOUS
<1>1. CASE PipeConnects
    BY <1>1, PipeConnectsStep
<1>2. CASE PipeDisconnects
    BY <1>2, PipeDisconnectsStep
<1>3. CASE ClearChannels
    BY <1>3, ClearChannelsStep
<1>4. CASE ControlOut
    BY <1>4, OutsNumbered, PipeOutTransferStep DEF ControlOut
<1>5. ASSUME NEW len \in PipeLengths, ControlIn(len)
      PROVE  PipeInv'
    BY <1>5, ControlInStep
<1>6. ASSUME NEW len \in PipeLengths, NEW e \in InEps, OnPipeInRequest(e, len)
      PROVE  PipeInv'
    BY <1>6, PipeInRequestStep
<1>7. ASSUME NEW e \in ToSet(OutEps), OnPipeOutTransfer(e)
      PROVE  PipeInv'
    BY <1>7, PipeOutTransferStep DEF OnPipeOutTransfer, Outs
<1>8. ASSUME NEW n \in 1..PipeMaxReqs, OnPipeUnlink(n)
      PROVE  PipeInv'
    BY <1>8, PipeUnlinkStep
<1>9. ASSUME NEW w \in PipeWriters, PipeWriterRuns(w) \/ PipeWriterFlushes(w) \/ PipeWriterInFreed(w)
      PROVE  PipeInv'
    BY <1>9, PipeWriterRunsStep, PipeWriterFlushesStep, PipeWriterInFreedStep
<1>10. ASSUME NEW w \in PipeWriters, NEW e \in InEps, NEW n \in PipeSizes, PipeWrite(w, e, n)
       PROVE  PipeInv'
    BY <1>10, PipeWriteStep
<1>11. ASSUME NEW r \in PipeReaders, PipeRead(r) \/ PipeReaderWakes(r) \/ PipeReadTimeout(r)
       PROVE  PipeInv'
    BY <1>11, ReadsStep DEF PipeRead, PipeReaderWakes, PipeReadTimeout
<1>12. CASE UNCHANGED pipeVars
    BY <1>12, PipeStutter
<1> QED
    BY <1>1, <1>2, <1>3, <1>4, <1>5, <1>6, <1>7, <1>8, <1>9, <1>10, <1>11, <1>12, Zenon DEF PipeNext

\* PipeDeviceHandler: at every moment a request of the connection is in one
\* place only (an IN channel, an OUT channel, answered, unlinked), and as long
\* as the connection is up in one of them.
THEOREM PipeInductive == PipeSpec => []PipeInv
<1>1. PipeInit => PipeInv
    BY PipeInitInv
<1>2. PipeInv /\ [PipeNext]_pipeVars => PipeInv'
    BY PipeStep
<1> QED
    BY <1>1, <1>2, PTL DEF PipeSpec

\* Who may be told "cancelled" of a request that was answered
THEOREM PipeCaught == PipeSpec => []CaughtInv
<1>1. PipeInit => CaughtInv
    <2> SUFFICES ASSUME PipeInit PROVE CaughtInv
        OBVIOUS
    <2>1. answers = <<>> /\ control_ins = {} /\ out_channels = NoOut
        BY DEF PipeInit
    <2>2. CaughtOf(<<>>, {}) /\ NoticesOf(NoOut, {})
        BY NoOutEmpty DEF CaughtOf, NoticesOf
    <2> QED
        BY <2>1, <2>2 DEF CaughtInv
<1>2. PipeInv /\ PipeInv' /\ CaughtInv /\ [PipeNext]_pipeVars => CaughtInv'
    BY CaughtStep
<1> QED
    BY <1>1, <1>2, PipeInductive, PTL DEF PipeSpec

\* Every variable of PipeDevice keeps its type; no channel holds more than its
\* capacity, whatever the number of writers, and no answer stays in one.
THEOREM PipeTypeCorrect == PipeSpec => []PipeTypeOK
<1>1. PipeInv /\ CaughtInv => PipeTypeOK
    <2> SUFFICES ASSUME PipeInv, CaughtInv PROVE PipeTypeOK
        OBVIOUS
    <2>1. PipeThreads /\ PipeCounts /\ DOMAIN in_channels \subseteq InEps
        BY DEF PipeInv, PipeChannels
    <2>2. \A e \in DOMAIN in_channels :
              Len(in_channels[e].buffer) <= FifoCapacity /\ in_channels[e].out = <<>>
        BY DEF PipeInv, PipeChannels, Fits
    <2>3. control_ins \cup unlinked \subseteq 1..PipeMaxReqs
        BY <2>1, PipeConstants DEF PipeCounts, CaughtInv
    <2>4. out_channels \in [Outs -> Seq(OutRequest)] /\ (pup # "up" => out_channels = NoOut)
        BY DEF PipeInv, PipeOuts, OutsQueued
    <2>5. taken \in Seq(1..PipeMaxReqs) /\ answers \in Seq(PipeResponse)
        BY DEF PipeInv, PipeTaken, LogOf
    <2> QED
        BY <2>1, <2>2, <2>3, <2>4, <2>5, Zenon
           DEF PipeTypeOK, PipeThreads, PipeWriter, PipeCounts, Outs, OutRequest, PipeResponse
<1> QED
    BY <1>1, PipeInductive, PipeCaught, PTL

\* PipeDeviceHandler::read: requests of all endpoints are handed out in the
\* order of their arrival, also where the 32-bit sequence numbers wrap around.
THEOREM PipeReadsInOrder == PipeSpec => []ReadInArrivalOrder
<1>1. PipeInv => ReadInArrivalOrder
    BY DEF PipeInv, PipeTaken, Increasing, ReadInArrivalOrder
<1> QED
    BY <1>1, PipeInductive, PTL

\* PipeDeviceHandler, out_cv: no read() sleeps while a request waits for it.
THEOREM PipeReadersAwake == PipeSpec => []NoSleepingReader
<1>1. PipeInv => NoSleepingReader
    BY DEF PipeInv
<1> QED
    BY <1>1, PipeInductive, PTL

\* PipeDeviceHandler::on_pipe_unlink: a request is answered once at most, never
\* after its RET_UNLINK, always before one that said that it came too late,
\* and only when it is a control IN before one that said that it was caught.
THEOREM PipeUnlinkHolds == PipeSpec => []UnlinkTellsTruth
<1>1. PipeInv /\ CaughtInv => UnlinkTellsTruth
    <2> SUFFICES ASSUME PipeInv, CaughtInv, NEW n \in 1..preq
                 PROVE  /\ Cardinality(Submits(n)) <= 1
                        /\ \A i \in Unlinks(n, "ECONNRESET"), j \in Submits(n) :
                              j < i /\ n \in control_ins
                        /\ \A i \in Unlinks(n, "OK") : \E j \in Submits(n) : j < i
        BY DEF UnlinkTellsTruth
    <2>1. PICK a : a = answers
        BY Zenon
    <2>2. LogOf(a, preq, unlinked)
        BY <2>1 DEF PipeInv
    <2>3. Submits(n) = {i \in 1..Len(a) : a[i].kind = "RET_SUBMIT" /\ a[i].n = n}
        BY <2>1 DEF Submits
    <2>4. \A st : \A i \in Unlinks(n, st) :
              i \in 1..Len(a) /\ a[i].kind = "RET_UNLINK" /\ a[i].n = n /\ a[i].status = st
        BY <2>1 DEF Unlinks, RetUnlink
    <2>5. \A i, j \in Submits(n) : i = j
        BY <2>2, <2>3, Zenon DEF LogOf
    <2>6. Cardinality(Submits(n)) <= 1
        <3>1. CASE Submits(n) = {}
            BY <3>1, FS_EmptySet
        <3>2. CASE Submits(n) # {}
            <4>1. PICK i \in Submits(n) : TRUE
                BY <3>2
            <4>2. Submits(n) = {i}
                BY <2>5, <4>1
            <4>3. Cardinality({i}) = 1
                BY FS_Singleton, Zenon
            <4> QED
                BY <4>2, <4>3
        <3> QED
            BY <3>1, <3>2
    <2>7. \A st : \A i \in Unlinks(n, st), j \in Submits(n) : j < i
        BY <2>2, <2>3, <2>4, ZenonT(60) DEF LogOf
    <2>8. ASSUME NEW i \in Unlinks(n, "OK")
          PROVE  \E j \in Submits(n) : j < i
        <3>1. i \in 1..Len(a) /\ a[i].kind = "RET_UNLINK" /\ a[i].n = n /\ a[i].status = "OK"
            BY <2>4, <2>8
        <3>2. Tells(a, n)
            BY <2>2, <3>1, Zenon DEF LogOf
        <3>3. PICK j \in Submits(n) : TRUE
            BY <2>3, <3>2 DEF Tells
        <3> QED
            BY <2>7, <2>8, <3>3, Zenon
    <2>9. ASSUME NEW i \in Unlinks(n, "ECONNRESET"), NEW j \in Submits(n)
          PROVE  n \in control_ins
        <3>1. i \in 1..Len(a) /\ a[i].kind = "RET_UNLINK" /\ a[i].n = n /\ a[i].status = "ECONNRESET"
            BY <2>4, <2>9
        <3>2. j \in 1..Len(a) /\ a[j].kind = "RET_SUBMIT" /\ a[j].n = n
            BY <2>3, <2>9
        <3>3. CaughtOf(a, control_ins)
            BY <2>1 DEF CaughtInv
        <3> QED
            BY <3>1, <3>2, <3>3 DEF CaughtOf
    <2> QED
        BY <2>6, <2>7, <2>8, <2>9
<1> QED
    BY <1>1, PipeInductive, PipeCaught, PTL

------------------------------------------------------------------------------
(* All the parts together.                                                   *)

\* The pipe device, in the composition
THEOREM TransportHasPipe == TransportSpec => PipeSpec
<1>1. TransportInit => PipeInit
    BY DEF TransportInit
<1>2. [TransportNext]_transportVars => [PipeNext]_pipeVars
    BY DEF TransportNext, transportVars
<1> QED
    BY <1>1, <1>2, PTL DEF TransportSpec, PipeSpec

\* The input devices, in the composition
THEOREM TransportHasInput == TransportSpec => InputSpec
<1>1. TransportInit => InputInit
    BY DEF TransportInit
<1>2. [TransportNext]_transportVars => [InputNext]_inputVars
    BY DEF TransportNext, transportVars
<1> QED
    BY <1>1, <1>2, PTL DEF TransportSpec, InputSpec

\* Every variable of the channel, the pipe device, the scheduler, the dispatch
\* and the input devices keeps its type, and their queues their limits.
THEOREM TransportTypeCorrect == TransportSpec => []TransportTypeOK
<1>1. ChTypeOK /\ PipeTypeOK /\ SchedTypeOK /\ VdTypeOK /\ InputTypeOK => TransportTypeOK
    BY DEF TransportTypeOK
<1>2. InputInv => InputTypeOK
    BY DEF InputInv
<1> QED
    BY <1>1, <1>2, TransportHasChannel, TransportHasPipe, TransportHasScheduler,
       TransportHasDispatch, TransportHasInput, ChTypeCorrect, PipeTypeCorrect, SchedTypeCorrect,
       VdTypeCorrect, InputInductive, PTL

\* The condition variables and timers of the five: InEndpointChannel's space_cv
\* and its matching of data and requests, out_cv of PipeDeviceHandler, the
\* timer of TransferScheduler, state_cv_ of the input devices.
THEOREM TransportLosesNoWakeup == TransportSpec => []NoLostWakeup
<1>1. NoMissedMatch /\ NoStall /\ NoSleepingReader /\ UrbsHaveWakeup /\ NoSleepingSender => NoLostWakeup
    BY DEF NoLostWakeup
<1>2. InputInv => NoSleepingSender
    BY DEF InputInv
<1> QED
    BY <1>1, <1>2, TransportHasChannel, TransportHasPipe, TransportHasScheduler, TransportHasInput,
       ChNoMissedMatch, ChNoStall, PipeReadersAwake, SchedNeverForgets, InputInductive, PTL

\* PipeDeviceHandler::read and TransferScheduler::on_timer serve transfers in
\* the order of their arrival.
THEOREM TransportServesInOrder == TransportSpec => []ServedInArrivalOrder
<1>1. ReadInArrivalOrder /\ ServedInOrder => ServedInArrivalOrder
    BY DEF ServedInArrivalOrder
<1> QED
    BY <1>1, TransportHasPipe, TransportHasScheduler, PipeReadsInOrder, SchedAnswersInOrder, PTL

\* RET_SUBMIT and RET_UNLINK of the dispatch, the pipe device and the
\* scheduler: at most one answer for a URB, none after its RET_UNLINK, and the
\* outcome the client was told, except that the pipe device may report an
\* answered control IN as cancelled.
THEOREM TransportAnswersTrue == TransportSpec => []AnswersTrue
<1>1. /\ ControlAnsweredOnce /\ AnswererHasResponder
      /\ UnlinkTellsTruth /\ UnlinkIsTrue /\ CancelledStaysSilent
      => AnswersTrue
    BY DEF AnswersTrue
<1> QED
    BY <1>1, TransportHasPipe, TransportHasScheduler, TransportHasDispatch, VdAnswersOnce,
       VdRespondersLast, PipeUnlinkHolds, VdUnlinkHolds, SchedCancelIsFinal, PTL

\* The reports of the five input devices show the host the device: once the
\* sender waits and nothing is queued its picture is the present state, the
\* motion of the relative mouse adds up, and reports are as long as described.
THEOREM TransportHid == TransportSpec => []HidFaithful
<1>1. InputInv /\ HidInv => HidFaithful
    BY SleepingTells, IdsDescribe DEF HidInv, HidFaithful
<1> QED
    BY <1>1, TransportHasInput, HidInductive, PTL
==============================================================================
