------------------------ MODULE DeviceRegistryProofs ------------------------
(***************************************************************************)
(* Proofs about DeviceRegistry, for any ports, clients, threads, bounds:   *)
(* type correctness, the invariants about lists, holders and handlers, and *)
(* that Server implements DeviceOwnership.                                 *)
(*                                                                         *)
(* The inductive invariant.  SingleListing and UsedIsHeld are not          *)
(* inductive: release_device removes what it finds under the session's     *)
(* busid, so one has to know that this is the session's own device         *)
(* (HolderListed) and that a used device is listed under its own name      *)
(* (OwnName).  That a new object was never listed, claimed or removed      *)
(* before follows from Made and UsedMade; that what release_device offers  *)
(* is closed, from NotOpen.                                                *)
(***************************************************************************)
EXTENDS DeviceRegistry, TLAPS

\* A device is plugged in before it is pulled out.
PluggedBefore == \A b \in Busid : present[b] => plugs[b] # 0

\* A session has a device only from try_moving_device_to_using on.
NotYetServed ==
    \A s \in Session : pc[s] \in {"new", "op", "try", "reply_fail"} => dev[s] = None

\* The objects that are listed or held were made.
Made ==
    /\ \A o \in available : o[2] <= made[o[1]]
    /\ \A s \in Session : pc[s] \in Holding => dev[s][2] <= made[dev[s][1]]

\* A used device is listed under its own busid.
OwnName == \A b \in Busid : using[b] # None => using[b][1] = b

Listing == NotYetServed /\ Made /\ OwnName /\ SingleListing /\ HolderListed /\ UsedIsHeld

\* The handlers that were used belong to objects that were made.
UsedMade == \A o \in claimed \cup removed : o[2] <= made[o[1]]

\* A session's device is claimed between open_and_claim_device and
\* on_disconnection only.
NotOpen ==
    \A s \in Session : pc[s] \in {"connect", "open", "open_failed", "release"} =>
        dev[s] \notin claimed

Handling == UsedMade /\ NotOpen /\ NoDanglingResponder /\ AvailableIsIdle

IInv == TypeOK /\ PluggedBefore /\ Listing /\ Handling

\* Who is about to report that device o is gone, and how far the report is:
\* not begun, in the hands of one thread, or made.
BackendReports(t, o) == bpc[t] = "report_gone" /\ bobj[t] = o
SessionReports(s, o) == pc[s] = "report_gone" /\ dev[s] = o
Nobody(o) ==
    (\A t \in Backend : ~BackendReports(t, o)) /\ (\A s \in Session : ~SessionReports(s, o))
OneThread(o) ==
    \/ /\ \A s \in Session : ~SessionReports(s, o)
       /\ \E t \in Backend : BackendReports(t, o) /\ \A u \in Backend \ {t} : ~BackendReports(u, o)
    \/ /\ \A t \in Backend : ~BackendReports(t, o)
       /\ \E s \in Session : SessionReports(s, o) /\ \A r \in Session \ {s} : ~SessionReports(r, o)

Listed(o) == o \in available \/ using[o[1]] = o

\* RemovalReportedOnce counts the threads that are about to report; this says
\* which they are, and covers the objects that are not made yet.
ReportOf(o) ==
    IF Listed(o) \/ o[2] > made[o[1]] THEN nGone[o] = 0 /\ Nobody(o)
    ELSE (nGone[o] = 0 /\ OneThread(o)) \/ (nGone[o] = 1 /\ Nobody(o))

Departures == stopper \in {"idle", "stopping"} => \A o \in Object : ReportOf(o)

\* A session is attached once, in NotifyAttached, and what was attached is
\* released on the way to "closed".
Attachments ==
    \A s \in Session :
        /\ nAttached[s] <= 1 /\ nReleased[s] <= 1
        /\ pc[s] # "closed" => nReleased[s] = 0
        /\ pc[s] \in {"new", "op", "try", "connect", "open", "open_failed", "attach",
                      "reply_fail"} => nAttached[s] = 0
        /\ pc[s] = "closed" => nAttached[s] <= nReleased[s]

Observed == Departures /\ Attachments

------------------------------------------------------------------------------

LEMMA HeadAndTail ==
    ASSUME NEW S, NEW q \in Seq(S), q # <<>>
    PROVE  Head(q) \in S /\ Tail(q) \in Seq(S)
    OBVIOUS

\* The initial state: nothing is listed, no session has begun.
LEMMA InitIInv == Init => IInv
<1> SUFFICES ASSUME Init PROVE IInv
    OBVIOUS
<1> USE DeviceRegistryAssumption DEF DeviceRegistryAssumption, Init
<1>1. ListsOK /\ HandlersOK
    BY DEF ListsOK, HandlersOK
<1>2. SessionsOK
    BY DEF SessionsOK, SessionPC, Holding
<1>3. BackendsOK
    BY DEF BackendsOK, BackendPC, Backend
<1>4. BusOK /\ PluggedBefore
    BY DEF BusOK, PluggedBefore
<1>5. HistoryOK
    BY DEF HistoryOK
<1>6. Listing
    BY DEF Listing, NotYetServed, Made, OwnName, SingleListing, HolderListed, UsedIsHeld,
           Holding
<1>7. Handling
    <2>1. UsedMade /\ NotOpen /\ AvailableIsIdle
        BY SMTT(30) DEF UsedMade, NotOpen, AvailableIsIdle
    <2>2. NoDanglingResponder
        BY SMTT(30) DEF NoDanglingResponder
    <2> QED
        BY <2>1, <2>2, Zenon DEF Handling
<1> QED
    BY <1>1, <1>2, <1>3, <1>4, <1>5, <1>6, <1>7 DEF IInv, TypeOK

------------------------------------------------------------------------------

\* Every step preserves the types.
LEMMA TypeStep == IInv /\ [Next]_vars => TypeOK' /\ PluggedBefore'
<1> DEFINE T == TypeOK /\ PluggedBefore
<1> SUFFICES ASSUME IInv, [Next]_vars PROVE T'
    OBVIOUS
<1>0. T
    BY DEF IInv
<1> USE DeviceRegistryAssumption
    DEF DeviceRegistryAssumption, TypeOK, ListsOK, HandlersOK, SessionsOK, BackendsOK,
        BusOK, HistoryOK, PluggedBefore, Backend, SessionPC, BackendPC, Holding,
        lists, handlers, sessions, backends, bus, history, backendUnchanged,
        sessionUnchanged
<1>1. ASSUME NEW b \in Busid, PlugIn(b) PROVE T'
    <2>1. ListsOK' /\ HandlersOK'
        BY <1>1, <1>0 DEF PlugIn
    <2>2. SessionsOK'
        BY <1>1, <1>0 DEF PlugIn
    <2>3. BackendsOK'
        BY <1>1, <1>0 DEF PlugIn
    <2>4. BusOK' /\ PluggedBefore'
        <3>1. <<"arrived", b, plugs[b] + 1>> \in Event
            BY <1>1, <1>0 DEF PlugIn, Event
        <3>2. events' \in Seq(Event)
            BY <1>1, <1>0, <3>1 DEF PlugIn
        <3> QED
            BY <1>1, <1>0, <3>2 DEF PlugIn
    <2>5. HistoryOK'
        BY <1>1, <1>0 DEF PlugIn
    <2> QED
        BY <2>1, <2>2, <2>3, <2>4, <2>5
<1>2. ASSUME NEW b \in Busid, PullOut(b) PROVE T'
    <2>1. ListsOK' /\ HandlersOK'
        BY <1>2, <1>0 DEF PullOut
    <2>2. SessionsOK'
        BY <1>2, <1>0 DEF PullOut
    <2>3. BackendsOK'
        BY <1>2, <1>0 DEF PullOut
    <2>4. BusOK' /\ PluggedBefore'
        <3>1. <<"left", b, plugs[b]>> \in Event
            BY <1>2, <1>0 DEF PullOut, Event
        <3>2. events' \in Seq(Event)
            BY <1>2, <1>0, <3>1 DEF PullOut
        <3> QED
            BY <1>2, <1>0, <3>2 DEF PullOut
    <2>5. HistoryOK'
        BY <1>2, <1>0 DEF PullOut
    <2> QED
        BY <2>1, <2>2, <2>3, <2>4, <2>5
<1>3. CASE DeviceArrived
    <2>h. /\ Head(events) \in Event /\ Tail(events) \in Seq(Event)
          /\ Head(events)[2] \in Busid /\ Head(events)[3] \in 0..MaxPlugs
        <3>1. Head(events) \in Event /\ Tail(events) \in Seq(Event)
            BY <1>3, <1>0, HeadAndTail DEF DeviceArrived
        <3> QED
            BY <3>1 DEF Event
    <2>1. ListsOK' /\ HandlersOK'
        BY <1>3, <1>0, <2>h DEF DeviceArrived, Known
    <2>2. SessionsOK'
        BY <1>3, <1>0, <2>h DEF DeviceArrived, Known
    <2>3. BackendsOK'
        <3>1. CASE UNCHANGED <<bpc, bbus, bgen>>
            BY <1>3, <1>0, <3>1 DEF DeviceArrived
        <3>2. CASE /\ bpc' = [bpc EXCEPT ![EventThread] = "add"]
                   /\ bbus' = [bbus EXCEPT ![EventThread] = Head(events)[2]]
                   /\ bgen' = [bgen EXCEPT ![EventThread] = Head(events)[3]]
            <4>1. EventThread \in Backend /\ bpc[EventThread] = "idle" /\ bobj' = bobj
                BY <1>3 DEF DeviceArrived
            <4> QED
                BY <1>0, <2>h, <3>2, <4>1
        <3> QED
            BY <1>3, <3>1, <3>2 DEF DeviceArrived
    <2>4. BusOK' /\ PluggedBefore'
        BY <1>3, <1>0, <2>h DEF DeviceArrived, Known
    <2>5. HistoryOK'
        BY <1>3, <1>0, <2>h DEF DeviceArrived, Known
    <2> QED
        BY <2>1, <2>2, <2>3, <2>4, <2>5
<1>4. CASE DeviceLeft
    <2>h. /\ Head(events) \in Event /\ Tail(events) \in Seq(Event)
          /\ Head(events)[2] \in Busid /\ Head(events)[3] \in 0..MaxPlugs
        <3>1. Head(events) \in Event /\ Tail(events) \in Seq(Event)
            BY <1>4, <1>0, HeadAndTail DEF DeviceLeft
        <3> QED
            BY <3>1 DEF Event
    <2>1. ListsOK' /\ HandlersOK'
        BY <1>4, <1>0, <2>h DEF DeviceLeft
    <2>2. SessionsOK'
        BY <1>4, <1>0, <2>h DEF DeviceLeft
    <2>3. BackendsOK'
        <3>1. /\ bpc' = [bpc EXCEPT ![EventThread] = "detach"]
              /\ bbus' = [bbus EXCEPT ![EventThread] = Head(events)[2]]
              /\ UNCHANGED <<bgen, bobj>>
              /\ EventThread \in Backend /\ bpc[EventThread] = "idle"
            BY <1>4 DEF DeviceLeft
        <3> QED
            BY <1>0, <2>h, <3>1
    <2>4. BusOK' /\ PluggedBefore'
        BY <1>4, <1>0, <2>h DEF DeviceLeft
    <2>5. HistoryOK'
        BY <1>4, <1>0, <2>h DEF DeviceLeft
    <2> QED
        BY <2>1, <2>2, <2>3, <2>4, <2>5
<1>5. ASSUME NEW t \in Users, NEW op \in {"add", "unbind", "detach"}, NEW b \in Busid, UserCall(t, op, b)
      PROVE  T'
    <2>1. ListsOK' /\ HandlersOK'
        BY <1>5, <1>0 DEF UserCall
    <2>2. SessionsOK'
        BY <1>5, <1>0 DEF UserCall
    <2>3. BackendsOK'
        BY <1>5, <1>0 DEF UserCall
    <2>4. BusOK' /\ PluggedBefore'
        BY <1>5, <1>0 DEF UserCall
    <2>5. HistoryOK'
        BY <1>5, <1>0 DEF UserCall
    <2> QED
        BY <2>1, <2>2, <2>3, <2>4, <2>5
<1>6. ASSUME NEW t \in Backend, AddDevice(t) PROVE T'
    <2>a. CASE Known(bbus[t])
        <3>1. /\ bpc[t] = "add" /\ bpc' = [bpc EXCEPT ![t] = "idle"]
              /\ UNCHANGED <<lists, handlers, backendUnchanged, bbus, bgen, bobj, made, gone,
                             events, calls, history>>
            BY <1>6, <2>a DEF AddDevice
        <3>2. BackendsOK'
            BY <1>0, <3>1
        <3>3. ListsOK' /\ HandlersOK' /\ SessionsOK' /\ BusOK' /\ PluggedBefore' /\ HistoryOK'
            BY <1>0, <3>1
        <3> QED
            BY <3>2, <3>3
    <2> SUFFICES ASSUME ~Known(bbus[t]) PROVE T'
        BY <2>a
    <2> DEFINE b == bbus[t]
               o == <<b, made[b] + 1>>
    <2>b. /\ b \in Busid /\ made[b] < MaxMade /\ bpc[t] = "add"
          /\ made' = [made EXCEPT ![b] = @ + 1]
          /\ available' = available \cup {o}
          /\ gone' \in {gone, gone \cup {o}}
          /\ bobj' = [bobj EXCEPT ![t] = o]
          /\ bpc' = [bpc EXCEPT ![t] = "report_added"]
          /\ UNCHANGED <<using, handlers, backendUnchanged, bbus, bgen, events, calls, history>>
        BY <1>6, <1>0 DEF AddDevice
    <2>c. o \in Object
        BY <1>0, <2>b DEF Object
    <2> HIDE DEF o
    <2>1. ListsOK' /\ HandlersOK'
        <3>1. made' \in [Busid -> 0..MaxMade]
            BY <1>0, <2>b
        <3> QED
            BY <1>0, <2>b, <2>c, <3>1
    <2>2. SessionsOK'
        BY <1>0, <2>b, <2>c
    <2>3. BackendsOK'
        BY <1>0, <2>b, <2>c
    <2>4. BusOK' /\ PluggedBefore'
        BY <1>0, <2>b, <2>c
    <2>5. HistoryOK'
        BY <1>0, <2>b, <2>c
    <2> QED
        BY <2>1, <2>2, <2>3, <2>4, <2>5
<1>7. ASSUME NEW t \in Backend, NotifyAdded(t) PROVE T'
    <2>1. ListsOK' /\ HandlersOK'
        BY <1>7, <1>0 DEF NotifyAdded
    <2>2. SessionsOK'
        BY <1>7, <1>0 DEF NotifyAdded
    <2>3. BackendsOK'
        BY <1>7, <1>0 DEF NotifyAdded
    <2>4. BusOK' /\ PluggedBefore'
        BY <1>7, <1>0 DEF NotifyAdded
    <2>5. HistoryOK'
        BY <1>7, <1>0 DEF NotifyAdded
    <2> QED
        BY <2>1, <2>2, <2>3, <2>4, <2>5
<1>8. ASSUME NEW t \in Backend, Detach(t) PROVE T'
    <2>1. ListsOK' /\ HandlersOK'
        BY <1>8, <1>0 DEF Detach, DetachAvailable
    <2>2. SessionsOK'
        BY <1>8, <1>0 DEF Detach, DetachAvailable
    <2>3. BackendsOK'
        <3>1. bpc[t] = "detach" /\ UNCHANGED <<bbus, bgen>>
            BY <1>8 DEF Detach, DetachAvailable
        <3>2. CASE bpc' = [bpc EXCEPT ![t] = "sweep"] /\ bobj' = bobj
            BY <1>0, <3>1, <3>2
        <3>3. ASSUME NEW o \in available,
                     bpc' = [bpc EXCEPT ![t] = "report_gone"],
                     bobj' = [bobj EXCEPT ![t] = o]
              PROVE  BackendsOK'
            BY <1>0, <3>1, <3>3
        <3> QED
            BY <1>8, <3>2, <3>3 DEF Detach, DetachAvailable
    <2>4. BusOK' /\ PluggedBefore'
        BY <1>8, <1>0 DEF Detach, DetachAvailable
    <2>5. HistoryOK'
        BY <1>8, <1>0 DEF Detach, DetachAvailable
    <2> QED
        BY <2>1, <2>2, <2>3, <2>4, <2>5
<1>9. ASSUME NEW t \in Backend, Unbind(t) PROVE T'
    <2>1. ListsOK' /\ HandlersOK'
        BY <1>9, <1>0 DEF Unbind, DetachAvailable
    <2>2. SessionsOK'
        BY <1>9, <1>0 DEF Unbind, DetachAvailable
    <2>3. BackendsOK'
        <3>1. bpc[t] = "unbind" /\ UNCHANGED <<bbus, bgen>>
            BY <1>9 DEF Unbind, DetachAvailable
        <3>2. CASE bpc' = [bpc EXCEPT ![t] = "idle"] /\ bobj' = bobj
            BY <1>0, <3>1, <3>2
        <3>3. ASSUME NEW o \in available,
                     bpc' = [bpc EXCEPT ![t] = "report_gone"],
                     bobj' = [bobj EXCEPT ![t] = o]
              PROVE  BackendsOK'
            BY <1>0, <3>1, <3>3
        <3> QED
            BY <1>9, <3>2, <3>3 DEF Unbind, DetachAvailable
    <2>4. BusOK' /\ PluggedBefore'
        BY <1>9, <1>0 DEF Unbind, DetachAvailable
    <2>5. HistoryOK'
        BY <1>9, <1>0 DEF Unbind, DetachAvailable
    <2> QED
        BY <2>1, <2>2, <2>3, <2>4, <2>5
<1>10. ASSUME NEW t \in Backend, SweepUsing(t) PROVE T'
    <2>1. ListsOK' /\ HandlersOK'
        <3>1. ListsOK'
            BY <1>10, <1>0 DEF SweepUsing
        <3>2. HandlersOK'
            <4>1. /\ removed' \in {removed, removed \cup {using[bbus[t]]}}
                  /\ using[bbus[t]] = None => removed' = removed
                  /\ UNCHANGED <<claimed, responder, gone>>
                BY <1>10 DEF SweepUsing
            <4>2. using[bbus[t]] \in Object \cup {None}
                BY <1>10, <1>0 DEF SweepUsing
            <4> QED
                BY <1>0, <4>1, <4>2
        <3> QED
            BY <3>1, <3>2
    <2>2. SessionsOK'
        BY <1>10, <1>0 DEF SweepUsing
    <2>3. BackendsOK'
        BY <1>10, <1>0 DEF SweepUsing
    <2>4. BusOK' /\ PluggedBefore'
        BY <1>10, <1>0 DEF SweepUsing
    <2>5. HistoryOK'
        BY <1>10, <1>0 DEF SweepUsing
    <2> QED
        BY <2>1, <2>2, <2>3, <2>4, <2>5
<1>11. ASSUME NEW t \in Backend, NotifyGone(t) PROVE T'
    <2>1. ListsOK' /\ HandlersOK'
        BY <1>11, <1>0 DEF NotifyGone
    <2>2. SessionsOK'
        BY <1>11, <1>0 DEF NotifyGone
    <2>3. BackendsOK'
        BY <1>11, <1>0 DEF NotifyGone
    <2>4. BusOK' /\ PluggedBefore'
        BY <1>11, <1>0 DEF NotifyGone
    <2>5. HistoryOK'
        BY <1>11, <1>0 DEF NotifyGone
    <2> QED
        BY <2>1, <2>2, <2>3, <2>4, <2>5
<1>12. ASSUME NEW s \in Session, Accept(s) PROVE T'
    BY <1>12, <1>0 DEF Accept, Goto
<1>13. ASSUME NEW s \in Session, NEW b \in Busid, Import(s, b) PROVE T'
    BY <1>13, <1>0 DEF Import, Goto
<1>14. ASSUME NEW s \in Session, Leave(s) PROVE T'
    BY <1>14, <1>0 DEF Leave, Goto
<1>15. ASSUME NEW s \in Session, TryMovingDeviceToUsing(s) PROVE T'
    <2>1. CASE Goto(s, "reply_fail") /\ UNCHANGED <<lists, dev>>
        BY <1>15, <1>0, <2>1 DEF TryMovingDeviceToUsing, Goto
    <2>2. ASSUME NEW o \in available, o[1] = want[s],
                 available' = available \ {o},
                 using' = [using EXCEPT ![want[s]] = o],
                 dev' = [dev EXCEPT ![s] = o],
                 pc' = [pc EXCEPT ![s] = "connect"]
          PROVE  T'
        <3>1. /\ pc[s] = "try" /\ want[s] \in Busid /\ o \in Object
              /\ UNCHANGED <<handlers, want, stop, sessionUnchanged, history>>
            BY <1>15, <1>0 DEF TryMovingDeviceToUsing
        <3>2. ListsOK' /\ HandlersOK'
            BY <1>0, <2>2, <3>1
        <3>3. SessionsOK'
            BY <1>0, <2>2, <3>1
        <3>4. BackendsOK' /\ BusOK' /\ PluggedBefore' /\ HistoryOK'
            BY <1>0, <3>1
        <3> QED
            BY <3>2, <3>3, <3>4
    <2> QED
        BY <1>15, <2>1, <2>2 DEF TryMovingDeviceToUsing, Goto
<1>16. ASSUME NEW s \in Session, RegisterResponder(s) PROVE T'
    BY <1>16, <1>0 DEF RegisterResponder, Goto
<1>17. ASSUME NEW s \in Session, OpenDevice(s) PROVE T'
    <2>1. ListsOK' /\ HandlersOK'
        BY <1>17, <1>0 DEF OpenDevice, Goto
    <2>2. SessionsOK'
        BY <1>17, <1>0 DEF OpenDevice, Goto
    <2>3. BackendsOK'
        BY <1>17, <1>0 DEF OpenDevice, Goto
    <2>4. BusOK' /\ PluggedBefore'
        BY <1>17, <1>0 DEF OpenDevice, Goto
    <2>5. HistoryOK'
        BY <1>17, <1>0 DEF OpenDevice, Goto
    <2> QED
        BY <2>1, <2>2, <2>3, <2>4, <2>5
<1>18. ASSUME NEW s \in Session, OpenFails(s) PROVE T'
    BY <1>18, <1>0 DEF OpenFails, Goto
<1>19. ASSUME NEW s \in Session, NotifyAttached(s) PROVE T'
    <2>1. ListsOK' /\ HandlersOK'
        BY <1>19, <1>0 DEF NotifyAttached, Goto
    <2>2. SessionsOK'
        BY <1>19, <1>0 DEF NotifyAttached, Goto
    <2>3. BackendsOK'
        BY <1>19, <1>0 DEF NotifyAttached, Goto
    <2>4. BusOK' /\ PluggedBefore'
        BY <1>19, <1>0 DEF NotifyAttached, Goto
    <2>5. HistoryOK'
        <3>1. nAttached[s] + 1 \in Nat
            BY <1>0
        <3> QED
            BY <1>19, <1>0, <3>1 DEF NotifyAttached
    <2> QED
        BY <2>1, <2>2, <2>3, <2>4, <2>5
<1>20. ASSUME NEW s \in Session, ReplySent(s) PROVE T'
    BY <1>20, <1>0 DEF ReplySent, Goto
<1>21. ASSUME NEW s \in Session, ReplyFails(s) PROVE T'
    BY <1>21, <1>0 DEF ReplyFails, Goto
<1>22. ASSUME NEW s \in Session, TransferSeesNoDevice(s) PROVE T'
    BY <1>22, <1>0 DEF TransferSeesNoDevice
<1>23. ASSUME NEW s \in Session, UrbAfterRemoval(s) PROVE T'
    BY <1>23, <1>0 DEF UrbAfterRemoval, Goto
<1>24. ASSUME NEW s \in Session, SubmitFails(s) PROVE T'
    <2>1. ListsOK' /\ HandlersOK'
        <3>1. ListsOK'
            BY <1>24, <1>0 DEF SubmitFails
        <3>2. HandlersOK'
            <4>1. /\ dev[s] \in Object /\ removed' = removed \cup {dev[s]}
                  /\ UNCHANGED <<claimed, responder, gone>>
                BY <1>24, <1>0 DEF SubmitFails
            <4> QED
                BY <1>0, <4>1
        <3> QED
            BY <3>1, <3>2
    <2>2. SessionsOK'
        BY <1>24, <1>0 DEF SubmitFails, Goto
    <2>3. BackendsOK'
        BY <1>24, <1>0 DEF SubmitFails, Goto
    <2>4. BusOK' /\ PluggedBefore'
        BY <1>24, <1>0 DEF SubmitFails, Goto
    <2>5. HistoryOK'
        BY <1>24, <1>0 DEF SubmitFails, Goto
    <2> QED
        BY <2>1, <2>2, <2>3, <2>4, <2>5
<1>25. ASSUME NEW s \in Session, TransferEnds(s) PROVE T'
    BY <1>25, <1>0 DEF TransferEnds, Goto
<1>26. ASSUME NEW s \in Session, OnDisconnection(s) PROVE T'
    BY <1>26, <1>0 DEF OnDisconnection, Goto
<1>27. ASSUME NEW s \in Session, ReleaseDevice(s) PROVE T'
    <2> DEFINE o == using[want[s]]
    <2>1. /\ pc[s] \in {"open_failed", "release"} /\ want[s] \in Busid /\ dev[s] \in Object
          /\ UNCHANGED <<handlers, want, dev, stop, sessionUnchanged, history>>
        BY <1>27, <1>0 DEF ReleaseDevice
    <2>2. /\ available' \in {available, available \cup {o}} /\ (o = None => available' = available)
          /\ using' \in {using, [using EXCEPT ![want[s]] = None]}
        BY <1>27 DEF ReleaseDevice
    <2>3. \E l \in {"closed", "report", "report_gone"} : pc' = [pc EXCEPT ![s] = l]
        BY <1>27 DEF ReleaseDevice, Goto
    <2>4. ListsOK' /\ HandlersOK'
        <3>1. o \in Object \cup {None}
            BY <1>0, <2>1
        <3>2. available' \subseteq Object
            BY <1>0, <2>2, <3>1
        <3>3. using' \in [Busid -> Object \cup {None}]
            BY <1>0, <2>1, <2>2
        <3> QED
            BY <1>0, <2>1, <3>2, <3>3
    <2>5. SessionsOK'
        <3>1. PICK l \in {"closed", "report", "report_gone"} : pc' = [pc EXCEPT ![s] = l]
            BY <2>3
        <3> QED
            BY <1>0, <2>1, <3>1
    <2>6. BackendsOK' /\ BusOK' /\ PluggedBefore' /\ HistoryOK'
        BY <1>0, <2>1
    <2> QED
        BY <2>4, <2>5, <2>6
<1>28. ASSUME NEW s \in Session, NotifyReleased(s) PROVE T'
    <2>1. ListsOK' /\ HandlersOK'
        BY <1>28, <1>0 DEF NotifyReleased, Goto
    <2>2. SessionsOK'
        BY <1>28, <1>0 DEF NotifyReleased, Goto
    <2>3. BackendsOK'
        BY <1>28, <1>0 DEF NotifyReleased, Goto
    <2>4. BusOK' /\ PluggedBefore'
        BY <1>28, <1>0 DEF NotifyReleased, Goto
    <2>5. HistoryOK'
        <3>1. nReleased[s] + 1 \in Nat /\ \A o \in Object : nGone[o] + 1 \in Nat
            BY <1>0
        <3> QED
            BY <1>28, <1>0, <3>1 DEF NotifyReleased
    <2> QED
        BY <2>1, <2>2, <2>3, <2>4, <2>5
<1>29. CASE StopBegin
    BY <1>29, <1>0 DEF StopBegin
<1>30. CASE StopClear
    BY <1>30, <1>0 DEF StopClear
<1>31. CASE StopJoin
    BY <1>31, <1>0 DEF StopJoin
<1>32. CASE UNCHANGED vars
    <2>1. ListsOK' /\ HandlersOK' /\ SessionsOK'
        BY <1>32, <1>0 DEF vars
    <2>2. BackendsOK' /\ BusOK' /\ PluggedBefore' /\ HistoryOK'
        BY <1>32, <1>0, SMTT(30) DEF vars
    <2> QED
        BY <2>1, <2>2, SMTT(30)
<1> QED
    BY <1>1, <1>2, <1>3, <1>4, <1>5, <1>6, <1>7, <1>8, <1>9, <1>10, <1>11, <1>12,
       <1>13, <1>14, <1>15, <1>16, <1>17, <1>18, <1>19, <1>20, <1>21, <1>22, <1>23, <1>24,
       <1>25, <1>26, <1>27, <1>28, <1>29, <1>30, <1>31, <1>32
    DEF Next, BackendStep, SessionStep

\* Every step preserves the invariant about lists and holders.
LEMMA ListingStep == IInv /\ [Next]_vars => Listing'
<1> SUFFICES ASSUME IInv, [Next]_vars PROVE Listing'
    OBVIOUS
<1>0. ListsOK /\ HandlersOK /\ SessionsOK /\ BackendsOK /\ Listing
    BY DEF IInv, TypeOK
<1> USE DeviceRegistryAssumption
    DEF DeviceRegistryAssumption, ListsOK, HandlersOK, SessionsOK, BackendsOK,
        Object, Backend, SessionPC, BackendPC, Holding, Listing, NotYetServed, Made,
        OwnName, SingleListing, HolderListed, UsedIsHeld, lists, handlers, sessions, backends,
        bus, history, backendUnchanged, sessionUnchanged
<1>1. ASSUME NEW b \in Busid, PlugIn(b) PROVE Listing'
    BY <1>1, <1>0 DEF PlugIn
<1>2. ASSUME NEW b \in Busid, PullOut(b) PROVE Listing'
    BY <1>2, <1>0 DEF PullOut
<1>3. CASE DeviceArrived
    BY <1>3, <1>0 DEF DeviceArrived, Known
<1>4. CASE DeviceLeft
    BY <1>4, <1>0 DEF DeviceLeft
<1>5. ASSUME NEW t \in Users, NEW op \in {"add", "unbind", "detach"}, NEW b \in Busid, UserCall(t, op, b)
      PROVE  Listing'
    BY <1>5, <1>0 DEF UserCall
<1>6. ASSUME NEW t \in Backend, AddDevice(t) PROVE Listing'
    <2>a. CASE Known(bbus[t])
        BY <1>6, <1>0, <2>a DEF AddDevice
    <2>b. CASE ~Known(bbus[t])
        <3> DEFINE b == bbus[t]
                   o == <<b, made[b] + 1>>
        <3>1. /\ b \in Busid /\ using[b] = None /\ \A x \in available : x[1] # b
              /\ made' = [made EXCEPT ![b] = @ + 1]
              /\ available' = available \cup {o}
              /\ UNCHANGED <<using, pc, want, dev>>
            BY <1>6, <1>0, <2>b DEF AddDevice, Known
        <3>2. \A c \in Busid : made[c] \in Nat /\ made'[c] \in Nat /\ made[c] <= made'[c]
            BY <1>0, <3>1
        <3>3. NotYetServed' /\ OwnName' /\ HolderListed' /\ UsedIsHeld'
            BY <1>0, <3>1
        <3>4. Made'
            <4>1. \A x \in Object : x[2] <= made[x[1]] => x[2] <= made'[x[1]]
                BY <3>2
            <4>2. o[2] <= made'[o[1]]
                BY <1>0, <3>1
            <4> HIDE DEF o
            <4>3. \A x \in available' : x[2] <= made'[x[1]]
                BY <1>0, <3>1, <4>1, <4>2
            <4>4. \A s \in Session : pc'[s] \in Holding => dev'[s][2] <= made'[dev'[s][1]]
                BY <1>0, <3>1, <4>1
            <4> QED
                BY <4>3, <4>4
        <3>5. SingleListing'
            <4>1. o[1] = b
                OBVIOUS
            <4> HIDE DEF o
            <4> QED
                BY <1>0, <3>1, <4>1
        <3> QED
            BY <3>3, <3>4, <3>5
    <2> QED
        BY <2>a, <2>b
<1>7. ASSUME NEW t \in Backend, NotifyAdded(t) PROVE Listing'
    BY <1>7, <1>0 DEF NotifyAdded
<1>8. ASSUME NEW t \in Backend, Detach(t) PROVE Listing'
    BY <1>8, <1>0 DEF Detach, DetachAvailable
<1>9. ASSUME NEW t \in Backend, Unbind(t) PROVE Listing'
    BY <1>9, <1>0 DEF Unbind, DetachAvailable
<1>10. ASSUME NEW t \in Backend, SweepUsing(t) PROVE Listing'
    BY <1>10, <1>0 DEF SweepUsing
<1>11. ASSUME NEW t \in Backend, NotifyGone(t) PROVE Listing'
    BY <1>11, <1>0 DEF NotifyGone
<1>12. ASSUME NEW s \in Session, Accept(s) PROVE Listing'
    BY <1>12, <1>0 DEF Accept, Goto
<1>13. ASSUME NEW s \in Session, NEW b \in Busid, Import(s, b) PROVE Listing'
    BY <1>13, <1>0 DEF Import, Goto
<1>14. ASSUME NEW s \in Session, Leave(s) PROVE Listing'
    BY <1>14, <1>0 DEF Leave, Goto
<1>15. ASSUME NEW s \in Session, TryMovingDeviceToUsing(s) PROVE Listing'
    <2>1. CASE Goto(s, "reply_fail") /\ UNCHANGED <<lists, dev>>
        BY <1>15, <1>0, <2>1 DEF TryMovingDeviceToUsing, Goto
    <2>2. ASSUME NEW o \in available, o[1] = want[s],
                 available' = available \ {o},
                 using' = [using EXCEPT ![want[s]] = o],
                 dev' = [dev EXCEPT ![s] = o],
                 pc' = [pc EXCEPT ![s] = "connect"]
          PROVE  Listing'
        <3>1. /\ pc[s] = "try" /\ want[s] \in Busid /\ o \in Object
              /\ using[want[s]] = None /\ UNCHANGED <<want, made>>
            BY <1>15, <1>0, <2>2 DEF TryMovingDeviceToUsing
        <3> HIDE DEF Object
        <3>2. \A r \in Session \ {s} : pc'[r] = pc[r] /\ dev'[r] = dev[r]
            BY <1>0, <2>2
        <3>3. pc'[s] = "connect" /\ dev'[s] = o
            BY <1>0, <2>2
        <3>4. /\ \A b \in Busid \ {want[s]} : using'[b] = using[b]
              /\ using'[want[s]] = o
            BY <1>0, <2>2, <3>1
        <3>5. \A r \in Session \ {s} : pc[r] \in Holding =>
                  want[r] \in Busid /\ want[r] # want[s] /\ dev[r] # o
            <4>1. \A r \in Session : pc[r] \in Holding =>
                      want[r] \in Busid /\ dev[r] \in Object /\ using[want[r]] = dev[r]
                BY <1>0
            <4>2. None \notin Object
                OBVIOUS
            <4> QED
                BY <1>0, <2>2, <3>1, <4>1, <4>2
        <3>6. NotYetServed' /\ OwnName'
            BY <1>0, <2>2, <3>1, <3>2, <3>3, <3>4
        <3>7. Made'
            BY <1>0, <2>2, <3>1, <3>2, <3>3
        <3>8. SingleListing'
            BY <1>0, <2>2, <3>1, <3>4
        <3>9. HolderListed'
            BY <1>0, <2>2, <3>1, <3>2, <3>3, <3>4, <3>5
        <3>10. UsedIsHeld'
            BY <1>0, <2>2, <3>1, <3>2, <3>3, <3>4
        <3> QED
            BY <3>6, <3>7, <3>8, <3>9, <3>10
    <2> QED
        BY <1>15, <2>1, <2>2 DEF TryMovingDeviceToUsing, Goto
<1>16. ASSUME NEW s \in Session, RegisterResponder(s) PROVE Listing'
    BY <1>16, <1>0 DEF RegisterResponder, Goto
<1>17. ASSUME NEW s \in Session, OpenDevice(s) PROVE Listing'
    BY <1>17, <1>0 DEF OpenDevice, Goto
<1>18. ASSUME NEW s \in Session, OpenFails(s) PROVE Listing'
    BY <1>18, <1>0 DEF OpenFails, Goto
<1>19. ASSUME NEW s \in Session, NotifyAttached(s) PROVE Listing'
    BY <1>19, <1>0 DEF NotifyAttached, Goto
<1>20. ASSUME NEW s \in Session, ReplySent(s) PROVE Listing'
    BY <1>20, <1>0 DEF ReplySent, Goto
<1>21. ASSUME NEW s \in Session, ReplyFails(s) PROVE Listing'
    BY <1>21, <1>0 DEF ReplyFails, Goto
<1>22. ASSUME NEW s \in Session, TransferSeesNoDevice(s) PROVE Listing'
    BY <1>22, <1>0 DEF TransferSeesNoDevice
<1>23. ASSUME NEW s \in Session, UrbAfterRemoval(s) PROVE Listing'
    BY <1>23, <1>0 DEF UrbAfterRemoval, Goto
<1>24. ASSUME NEW s \in Session, SubmitFails(s) PROVE Listing'
    BY <1>24, <1>0 DEF SubmitFails, Goto
<1>25. ASSUME NEW s \in Session, TransferEnds(s) PROVE Listing'
    BY <1>25, <1>0 DEF TransferEnds, Goto
<1>26. ASSUME NEW s \in Session, OnDisconnection(s) PROVE Listing'
    BY <1>26, <1>0 DEF OnDisconnection, Goto
<1>27. ASSUME NEW s \in Session, ReleaseDevice(s) PROVE Listing'
    <2> DEFINE o == using[want[s]]
    <2>1. /\ pc[s] \in Holding /\ want[s] \in Busid /\ o = dev[s] /\ o \in Object
          /\ o[1] = want[s] /\ o # None /\ UNCHANGED <<want, dev, made>>
        BY <1>27, <1>0 DEF ReleaseDevice
    <2>2. /\ using' = [using EXCEPT ![want[s]] = None]
          /\ available' \in {available, available \cup {o}}
          /\ pc' \in {[pc EXCEPT ![s] = "report"], [pc EXCEPT ![s] = "report_gone"]}
        BY <1>27, <2>1 DEF ReleaseDevice, Goto
    <2> HIDE DEF Object, o
    <2>3. /\ \A r \in Session \ {s} : pc'[r] = pc[r]
          /\ pc'[s] \in {"report", "report_gone"}
        BY <1>0, <2>2
    <2>4. /\ \A b \in Busid \ {want[s]} : using'[b] = using[b]
          /\ using'[want[s]] = None
        BY <1>0, <2>1, <2>2
    <2>5. \A r \in Session \ {s} : pc[r] \in Holding => want[r] \in Busid /\ want[r] # want[s]
        BY <1>0, <2>1 DEF o
    <2>6. NotYetServed' /\ OwnName'
        BY <1>0, <2>1, <2>3, <2>4
    <2>7. Made'
        BY <1>0, <2>1, <2>2, <2>3
    <2>8. SingleListing'
        <3>1. \A x \in available : x[1] # want[s]
            BY <1>0, <2>1 DEF o
        <3>2. \A x \in Object : x[1] \in Busid
            BY DEF Object
        <3> QED
            BY <1>0, <2>1, <2>2, <2>4, <3>1, <3>2
    <2>9. HolderListed'
        BY <1>0, <2>1, <2>3, <2>4, <2>5
    <2>10. UsedIsHeld'
        <3>1. \A b \in Busid \ {want[s]} : using[b] # dev[s]
            BY <1>0, <2>1
        <3> QED
            BY <1>0, <2>1, <2>3, <2>4, <3>1
    <2> QED
        BY <2>6, <2>7, <2>8, <2>9, <2>10
<1>28. ASSUME NEW s \in Session, NotifyReleased(s) PROVE Listing'
    BY <1>28, <1>0 DEF NotifyReleased, Goto
<1>29. CASE StopBegin
    BY <1>29, <1>0 DEF StopBegin
<1>30. CASE StopClear
    BY <1>30, <1>0 DEF StopClear
<1>31. CASE StopJoin
    BY <1>31, <1>0 DEF StopJoin
<1>32. CASE UNCHANGED vars
    BY <1>32, <1>0 DEF vars
<1> QED
    BY <1>1, <1>2, <1>3, <1>4, <1>5, <1>6, <1>7, <1>8, <1>9, <1>10, <1>11, <1>12,
       <1>13, <1>14, <1>15, <1>16, <1>17, <1>18, <1>19, <1>20, <1>21, <1>22, <1>23, <1>24,
       <1>25, <1>26, <1>27, <1>28, <1>29, <1>30, <1>31, <1>32
    DEF Next, BackendStep, SessionStep

\* Every step preserves the invariant about the handlers of devices.
LEMMA HandlingStep == IInv /\ [Next]_vars => Handling'
<1> SUFFICES ASSUME IInv, [Next]_vars PROVE Handling'
    OBVIOUS
<1>0. ListsOK /\ HandlersOK /\ SessionsOK /\ BackendsOK /\ Listing /\ Handling
    BY DEF IInv, TypeOK
<1> USE DeviceRegistryAssumption
    DEF DeviceRegistryAssumption, ListsOK, HandlersOK, SessionsOK, BackendsOK,
        Object, Backend, SessionPC, BackendPC, Holding, Listing, NotYetServed, Made,
        OwnName, SingleListing, HolderListed, UsedIsHeld, Handling, UsedMade, NotOpen,
        NoDanglingResponder, AvailableIsIdle, lists, handlers, sessions, backends,
        bus, history, backendUnchanged, sessionUnchanged
<1>1. ASSUME NEW b \in Busid, PlugIn(b) PROVE Handling'
    BY <1>1, <1>0 DEF PlugIn
<1>2. ASSUME NEW b \in Busid, PullOut(b) PROVE Handling'
    BY <1>2, <1>0 DEF PullOut
<1>3. CASE DeviceArrived
    BY <1>3, <1>0 DEF DeviceArrived, Known
<1>4. CASE DeviceLeft
    BY <1>4, <1>0 DEF DeviceLeft
<1>5. ASSUME NEW t \in Users, NEW op \in {"add", "unbind", "detach"}, NEW b \in Busid, UserCall(t, op, b)
      PROVE  Handling'
    BY <1>5, <1>0 DEF UserCall
<1>6. ASSUME NEW t \in Backend, AddDevice(t) PROVE Handling'
    <2>a. CASE Known(bbus[t])
        BY <1>6, <1>0, <2>a DEF AddDevice
    <2>b. CASE ~Known(bbus[t])
        <3> DEFINE b == bbus[t]
                   o == <<b, made[b] + 1>>
        <3>1. /\ b \in Busid /\ made' = [made EXCEPT ![b] = @ + 1]
              /\ available' = available \cup {o}
              /\ UNCHANGED <<claimed, removed, responder, pc, dev>>
            BY <1>6, <1>0, <2>b DEF AddDevice
        <3>2. \A c \in Busid : made[c] \in Nat /\ made'[c] \in Nat /\ made[c] <= made'[c]
            BY <1>0, <3>1
        <3>3. UsedMade'
            <4>1. \A x \in Object : x[2] <= made[x[1]] => x[2] <= made'[x[1]]
                BY <3>2
            <4> HIDE DEF Object
            <4> QED
                BY <1>0, <3>1, <4>1
        <3>4. AvailableIsIdle'
            <4>1. ~(o[2] <= made[o[1]])
                BY <3>1, <3>2
            <4> HIDE DEF o, Object
            <4> QED
                BY <1>0, <3>1, <4>1
        <3>5. NotOpen' /\ NoDanglingResponder'
            BY <1>0, <3>1
        <3> QED
            BY <3>3, <3>4, <3>5
    <2> QED
        BY <2>a, <2>b
<1>7. ASSUME NEW t \in Backend, NotifyAdded(t) PROVE Handling'
    BY <1>7, <1>0 DEF NotifyAdded
<1>8. ASSUME NEW t \in Backend, Detach(t) PROVE Handling'
    BY <1>8, <1>0 DEF Detach, DetachAvailable
<1>9. ASSUME NEW t \in Backend, Unbind(t) PROVE Handling'
    BY <1>9, <1>0 DEF Unbind, DetachAvailable
<1>10. ASSUME NEW t \in Backend, SweepUsing(t) PROVE Handling'
    BY <1>10, <1>0 DEF SweepUsing
<1>11. ASSUME NEW t \in Backend, NotifyGone(t) PROVE Handling'
    BY <1>11, <1>0 DEF NotifyGone
<1>12. ASSUME NEW s \in Session, Accept(s) PROVE Handling'
    BY <1>12, <1>0 DEF Accept, Goto
<1>13. ASSUME NEW s \in Session, NEW b \in Busid, Import(s, b) PROVE Handling'
    BY <1>13, <1>0 DEF Import, Goto
<1>14. ASSUME NEW s \in Session, Leave(s) PROVE Handling'
    BY <1>14, <1>0 DEF Leave, Goto
<1>15. ASSUME NEW s \in Session, TryMovingDeviceToUsing(s) PROVE Handling'
    BY <1>15, <1>0 DEF TryMovingDeviceToUsing, Goto
<1>16. ASSUME NEW s \in Session, RegisterResponder(s) PROVE Handling'
    BY <1>16, <1>0 DEF RegisterResponder, Goto
<1>17. ASSUME NEW s \in Session, OpenDevice(s) PROVE Handling'
    BY <1>17, <1>0 DEF OpenDevice, Goto
<1>18. ASSUME NEW s \in Session, OpenFails(s) PROVE Handling'
    BY <1>18, <1>0 DEF OpenFails, Goto
<1>19. ASSUME NEW s \in Session, NotifyAttached(s) PROVE Handling'
    BY <1>19, <1>0 DEF NotifyAttached, Goto
<1>20. ASSUME NEW s \in Session, ReplySent(s) PROVE Handling'
    BY <1>20, <1>0 DEF ReplySent, Goto
<1>21. ASSUME NEW s \in Session, ReplyFails(s) PROVE Handling'
    BY <1>21, <1>0 DEF ReplyFails, Goto
<1>22. ASSUME NEW s \in Session, TransferSeesNoDevice(s) PROVE Handling'
    BY <1>22, <1>0 DEF TransferSeesNoDevice
<1>23. ASSUME NEW s \in Session, UrbAfterRemoval(s) PROVE Handling'
    BY <1>23, <1>0 DEF UrbAfterRemoval, Goto
<1>24. ASSUME NEW s \in Session, SubmitFails(s) PROVE Handling'
    BY <1>24, <1>0 DEF SubmitFails, Goto
<1>25. ASSUME NEW s \in Session, TransferEnds(s) PROVE Handling'
    BY <1>25, <1>0 DEF TransferEnds, Goto
<1>26. ASSUME NEW s \in Session, OnDisconnection(s) PROVE Handling'
    BY <1>26, <1>0 DEF OnDisconnection, Goto
<1>27. ASSUME NEW s \in Session, ReleaseDevice(s) PROVE Handling'
    <2>1. /\ pc[s] \in {"open_failed", "release"} /\ using[want[s]] = dev[s]
          /\ dev[s] \in Object /\ dev[s] # None
          /\ UNCHANGED <<claimed, removed, responder, dev, made>>
        BY <1>27, <1>0 DEF ReleaseDevice
    <2>2. /\ available' = IF dev[s] \in removed THEN available ELSE available \cup {dev[s]}
          /\ pc' \in {[pc EXCEPT ![s] = "report"], [pc EXCEPT ![s] = "report_gone"]}
        BY <1>27, <2>1 DEF ReleaseDevice, Goto
    <2> HIDE DEF Object
    <2>3. UsedMade' /\ AvailableIsIdle'
        BY <1>0, <2>1, <2>2
    <2>4. NotOpen' /\ NoDanglingResponder'
        BY <1>0, <2>1, <2>2
    <2> QED
        BY <2>3, <2>4
<1>28. ASSUME NEW s \in Session, NotifyReleased(s) PROVE Handling'
    BY <1>28, <1>0 DEF NotifyReleased, Goto
<1>29. CASE StopBegin
    BY <1>29, <1>0 DEF StopBegin
<1>30. CASE StopClear
    BY <1>30, <1>0 DEF StopClear
<1>31. CASE StopJoin
    BY <1>31, <1>0 DEF StopJoin
<1>32. CASE UNCHANGED vars
    BY <1>32, <1>0 DEF vars
<1> QED
    BY <1>1, <1>2, <1>3, <1>4, <1>5, <1>6, <1>7, <1>8, <1>9, <1>10, <1>11, <1>12,
       <1>13, <1>14, <1>15, <1>16, <1>17, <1>18, <1>19, <1>20, <1>21, <1>22, <1>23, <1>24,
       <1>25, <1>26, <1>27, <1>28, <1>29, <1>30, <1>31, <1>32
    DEF Next, BackendStep, SessionStep

------------------------------------------------------------------------------
(* Refinement of DeviceOwnership.                                            *)

\* A step DeviceOwnership does not see: what is offered, held, known and
\* served stays as it was.
Over == {"report", "report_gone", "reply_fail", "closed"}
SameOwnership ==
    /\ UNCHANGED <<available, made, dev>>
    /\ \A s \in Session :
          /\ pc[s] \in Holding <=> pc'[s] \in Holding
          /\ dev[s] # None => (pc[s] \in Over <=> pc'[s] \in Over)

OwnershipStep == [Ownership!Next]_(Ownership!ownershipVars)

LEMMA SameIsStutter == SameOwnership => OwnershipStep
<1> SUFFICES ASSUME SameOwnership PROVE UNCHANGED Ownership!ownershipVars
    BY DEF OwnershipStep
<1>1. HeldBy' = HeldBy
    BY DEF SameOwnership, HeldBy
<1>2. KnownObjects' = KnownObjects
    BY DEF SameOwnership, KnownObjects
<1>3. ServedSessions' = ServedSessions
    BY DEF SameOwnership, ServedSessions, Over
<1> QED
    BY <1>1, <1>2, <1>3 DEF SameOwnership, Ownership!ownershipVars

\* Initially nothing is offered, held or known.
LEMMA InitRefines == Init => Ownership!Init
<1> SUFFICES ASSUME Init PROVE Ownership!Init
    OBVIOUS
<1>1. HeldBy = [s \in Session |-> None]
    BY DEF Init, HeldBy, Holding
<1>2. KnownObjects = {}
    BY DeviceRegistryAssumption DEF DeviceRegistryAssumption, Init, KnownObjects, Object
<1>3. ServedSessions = {}
    BY DEF Init, ServedSessions
<1> QED
    BY <1>1, <1>2, <1>3 DEF Init, Ownership!Init

\* Every step is a step of DeviceOwnership, or one it does not see.
LEMMA RefinementStep == IInv /\ [Next]_vars => OwnershipStep
<1> SUFFICES ASSUME IInv, [Next]_vars PROVE OwnershipStep
    OBVIOUS
<1>0. ListsOK /\ SessionsOK /\ BackendsOK /\ Listing
    BY DEF IInv, TypeOK
<1> USE DeviceRegistryAssumption, SameIsStutter
    DEF DeviceRegistryAssumption, ListsOK, SessionsOK, BackendsOK, SessionPC, Holding,
        Over, SameOwnership, Listing, NotYetServed, Made, SingleListing, HolderListed,
        lists, sessions, backends, bus, backendUnchanged, sessionUnchanged
<1>1. ASSUME NEW b \in Busid, PlugIn(b) PROVE OwnershipStep
    BY <1>1, <1>0 DEF PlugIn
<1>2. ASSUME NEW b \in Busid, PullOut(b) PROVE OwnershipStep
    BY <1>2, <1>0 DEF PullOut
<1>3. CASE DeviceArrived
    BY <1>3, <1>0 DEF DeviceArrived, Known
<1>4. CASE DeviceLeft
    BY <1>4, <1>0 DEF DeviceLeft
<1>5. ASSUME NEW t \in Users, NEW op \in {"add", "unbind", "detach"}, NEW b \in Busid, UserCall(t, op, b)
      PROVE  OwnershipStep
    BY <1>5, <1>0 DEF UserCall
<1>6. ASSUME NEW t \in Backend, AddDevice(t) PROVE OwnershipStep
    <2>a. CASE Known(bbus[t])
        BY <1>6, <2>a DEF AddDevice
    <2>b. CASE ~Known(bbus[t])
        <3> DEFINE b == bbus[t]
                   o == <<b, made[b] + 1>>
        <3>1. /\ b \in Busid /\ using[b] = None /\ \A x \in available : x[1] # b
              /\ made[b] < MaxMade
              /\ made' = [made EXCEPT ![b] = @ + 1]
              /\ available' = available \cup {o}
              /\ UNCHANGED <<using, pc, want, dev>>
            BY <1>6, <1>0, <2>b DEF AddDevice, Known, Backend
        <3>2. UNCHANGED <<HeldBy, ServedSessions>>
            BY <3>1 DEF HeldBy, ServedSessions
        <3>3. o \in Object /\ o \notin KnownObjects
            BY <1>0, <3>1 DEF Object, KnownObjects
        <3>4. KnownObjects' = KnownObjects \cup {o}
            <4>1. \A x \in Object : x[2] <= made'[x[1]] <=> x[2] <= made[x[1]] \/ x = o
                <5> SUFFICES ASSUME NEW c \in Busid, NEW k \in 1..MaxMade
                             PROVE  k <= made'[c] <=> k <= made[c] \/ <<c, k>> = o
                    BY DEF Object
                <5>1. CASE c = b
                    BY <1>0, <3>1, <5>1
                <5>2. CASE c # b
                    BY <1>0, <3>1, <5>2
                <5> QED
                    BY <5>1, <5>2
            <4> QED
                BY <3>3, <4>1 DEF KnownObjects
        <3>5. \A c \in Session : HeldBy[c] # None => HeldBy[c][1] # b
            <4>1. \A c \in Session : pc[c] \in Holding =>
                      dev[c] \in Object /\ using[dev[c][1]] = dev[c]
                BY <1>0
            <4> QED
                BY <3>1, <4>1 DEF HeldBy
        <3>6. \A x \in Ownership!InPlay : BusidOfObject(x) # BusidOfObject(o)
            BY <3>1, <3>5 DEF Ownership!InPlay, BusidOfObject
        <3>7. Ownership!Offer(o)
            BY <3>1, <3>2, <3>3, <3>4, <3>6 DEF Ownership!Offer
        <3> QED
            BY <3>3, <3>7 DEF OwnershipStep, Ownership!Next
    <2> QED
        BY <2>a, <2>b
<1>7. ASSUME NEW t \in Backend, NotifyAdded(t) PROVE OwnershipStep
    BY <1>7, <1>0 DEF NotifyAdded
<1>8. ASSUME NEW t \in Backend, Detach(t) PROVE OwnershipStep
    <2>1. CASE available' = available
        BY <1>8, <2>1 DEF Detach, DetachAvailable
    <2>2. ASSUME NEW o \in available, available' = available \ {o} PROVE OwnershipStep
        <3>1. UNCHANGED <<HeldBy, KnownObjects, ServedSessions>>
            BY <1>8 DEF Detach, DetachAvailable, HeldBy, KnownObjects, ServedSessions
        <3>2. Ownership!Withdraw(o) /\ o \in Object
            BY <1>0, <2>2, <3>1 DEF Ownership!Withdraw
        <3> QED
            BY <3>2 DEF OwnershipStep, Ownership!Next
    <2> QED
        BY <1>8, <2>1, <2>2 DEF Detach, DetachAvailable
<1>9. ASSUME NEW t \in Backend, Unbind(t) PROVE OwnershipStep
    <2>1. CASE available' = available
        BY <1>9, <2>1 DEF Unbind, DetachAvailable
    <2>2. ASSUME NEW o \in available, available' = available \ {o} PROVE OwnershipStep
        <3>1. UNCHANGED <<HeldBy, KnownObjects, ServedSessions>>
            BY <1>9 DEF Unbind, DetachAvailable, HeldBy, KnownObjects, ServedSessions
        <3>2. Ownership!Withdraw(o) /\ o \in Object
            BY <1>0, <2>2, <3>1 DEF Ownership!Withdraw
        <3> QED
            BY <3>2 DEF OwnershipStep, Ownership!Next
    <2> QED
        BY <1>9, <2>1, <2>2 DEF Unbind, DetachAvailable
<1>10. ASSUME NEW t \in Backend, SweepUsing(t) PROVE OwnershipStep
    BY <1>10, <1>0 DEF SweepUsing
<1>11. ASSUME NEW t \in Backend, NotifyGone(t) PROVE OwnershipStep
    BY <1>11, <1>0 DEF NotifyGone
<1>12. ASSUME NEW s \in Session, Accept(s) PROVE OwnershipStep
    BY <1>12, <1>0 DEF Accept, Goto
<1>13. ASSUME NEW s \in Session, NEW b \in Busid, Import(s, b) PROVE OwnershipStep
    BY <1>13, <1>0 DEF Import, Goto
<1>14. ASSUME NEW s \in Session, Leave(s) PROVE OwnershipStep
    BY <1>14, <1>0 DEF Leave, Goto
<1>15. ASSUME NEW s \in Session, TryMovingDeviceToUsing(s) PROVE OwnershipStep
    <2>1. CASE Goto(s, "reply_fail") /\ UNCHANGED <<lists, dev>>
        BY <1>15, <1>0, <2>1 DEF TryMovingDeviceToUsing, Goto
    <2>2. ASSUME NEW o \in available, available' = available \ {o},
                 dev' = [dev EXCEPT ![s] = o],
                 pc' = [pc EXCEPT ![s] = "connect"]
          PROVE  OwnershipStep
        <3>1. pc[s] = "try" /\ o \in Object /\ made' = made
            BY <1>15, <1>0 DEF TryMovingDeviceToUsing
        <3>2. HeldBy[s] = None /\ s \notin ServedSessions
            BY <3>1 DEF HeldBy, ServedSessions
        <3>3. HeldBy' = [HeldBy EXCEPT ![s] = o]
            BY <1>0, <2>2 DEF HeldBy
        <3>4. ServedSessions' = ServedSessions
            BY <1>0, <2>2, <3>1 DEF ServedSessions
        <3>5. KnownObjects' = KnownObjects
            BY <3>1 DEF KnownObjects
        <3>6. Ownership!Take(s, o)
            BY <2>2, <3>2, <3>3, <3>4, <3>5 DEF Ownership!Take
        <3> QED
            BY <3>1, <3>6 DEF OwnershipStep, Ownership!Next
    <2> QED
        BY <1>15, <2>1, <2>2 DEF TryMovingDeviceToUsing, Goto
<1>16. ASSUME NEW s \in Session, RegisterResponder(s) PROVE OwnershipStep
    BY <1>16, <1>0 DEF RegisterResponder, Goto
<1>17. ASSUME NEW s \in Session, OpenDevice(s) PROVE OwnershipStep
    BY <1>17, <1>0 DEF OpenDevice, Goto
<1>18. ASSUME NEW s \in Session, OpenFails(s) PROVE OwnershipStep
    BY <1>18, <1>0 DEF OpenFails, Goto
<1>19. ASSUME NEW s \in Session, NotifyAttached(s) PROVE OwnershipStep
    BY <1>19, <1>0 DEF NotifyAttached, Goto
<1>20. ASSUME NEW s \in Session, ReplySent(s) PROVE OwnershipStep
    BY <1>20, <1>0 DEF ReplySent, Goto
<1>21. ASSUME NEW s \in Session, ReplyFails(s) PROVE OwnershipStep
    BY <1>21, <1>0 DEF ReplyFails, Goto
<1>22. ASSUME NEW s \in Session, TransferSeesNoDevice(s) PROVE OwnershipStep
    BY <1>22, <1>0 DEF TransferSeesNoDevice
<1>23. ASSUME NEW s \in Session, UrbAfterRemoval(s) PROVE OwnershipStep
    BY <1>23, <1>0 DEF UrbAfterRemoval, Goto
<1>24. ASSUME NEW s \in Session, SubmitFails(s) PROVE OwnershipStep
    BY <1>24, <1>0 DEF SubmitFails, Goto
<1>25. ASSUME NEW s \in Session, TransferEnds(s) PROVE OwnershipStep
    BY <1>25, <1>0 DEF TransferEnds, Goto
<1>26. ASSUME NEW s \in Session, OnDisconnection(s) PROVE OwnershipStep
    BY <1>26, <1>0 DEF OnDisconnection, Goto
<1>27. ASSUME NEW s \in Session, ReleaseDevice(s) PROVE OwnershipStep
    <2>1. /\ pc[s] \in Holding /\ want[s] \in Busid /\ using[want[s]] = dev[s]
          /\ dev[s] \in Object /\ dev[s] # None /\ UNCHANGED <<dev, made>>
        BY <1>27, <1>0 DEF ReleaseDevice
    <2>2. /\ available' \in {available, available \cup {dev[s]}}
          /\ pc' \in {[pc EXCEPT ![s] = "report"], [pc EXCEPT ![s] = "report_gone"]}
        BY <1>27, <2>1 DEF ReleaseDevice, Goto
    <2>3. HeldBy[s] = dev[s]
        BY <2>1 DEF HeldBy
    <2>4. HeldBy' = [HeldBy EXCEPT ![s] = None]
        <3>1. \A r \in Session : pc'[r] \in Holding <=> r # s /\ pc[r] \in Holding
            BY <1>0, <2>2
        <3> HIDE DEF Holding
        <3> QED
            BY <2>1, <3>1 DEF HeldBy
    <2>5. ServedSessions' = ServedSessions \cup {s}
        BY <1>0, <2>1, <2>2 DEF ServedSessions
    <2>6. KnownObjects' = KnownObjects
        BY <2>1 DEF KnownObjects
    <2>7. Ownership!GiveBack(s) \/ Ownership!Discard(s)
        BY <2>1, <2>2, <2>3, <2>4, <2>5, <2>6 DEF Ownership!GiveBack, Ownership!Discard
    <2> QED
        BY <2>7 DEF OwnershipStep, Ownership!Next
<1>28. ASSUME NEW s \in Session, NotifyReleased(s) PROVE OwnershipStep
    BY <1>28, <1>0 DEF NotifyReleased, Goto
<1>29. CASE StopBegin
    BY <1>29, <1>0 DEF StopBegin
<1>30. CASE StopClear
    <2>1. UNCHANGED <<HeldBy, KnownObjects, ServedSessions>>
        BY <1>30 DEF StopClear, HeldBy, KnownObjects, ServedSessions
    <2>2. \A s \in Session : HeldBy[s] = None
        BY <1>30 DEF StopClear, HeldBy
    <2>3. Ownership!Close
        BY <1>30, <2>1, <2>2 DEF StopClear, Ownership!Close
    <2> QED
        BY <2>3 DEF OwnershipStep, Ownership!Next
<1>31. CASE StopJoin
    BY <1>31, <1>0 DEF StopJoin
<1>32. CASE UNCHANGED vars
    BY <1>32, <1>0 DEF vars
<1> QED
    BY <1>1, <1>2, <1>3, <1>4, <1>5, <1>6, <1>7, <1>8, <1>9, <1>10, <1>11, <1>12,
       <1>13, <1>14, <1>15, <1>16, <1>17, <1>18, <1>19, <1>20, <1>21, <1>22, <1>23, <1>24,
       <1>25, <1>26, <1>27, <1>28, <1>29, <1>30, <1>31, <1>32
    DEF Next, BackendStep, SessionStep

------------------------------------------------------------------------------
(* Observers.                                                                *)

\* The steps that concern neither a departure nor an attachment.
LEMMA NotObserved ==
    ASSUME IInv, Departures, UNCHANGED <<lists, made, nGone>>,
           stopper' \in {"idle", "stopping"} => stopper \in {"idle", "stopping"},
           \A o \in Object : /\ \A t \in Backend : BackendReports(t, o)' = BackendReports(t, o)
                             /\ \A s \in Session : SessionReports(s, o)' = SessionReports(s, o)
    PROVE  Departures'
<1> SUFFICES ASSUME NEW o \in Object, stopper \in {"idle", "stopping"} PROVE ReportOf(o)'
    BY DEF Departures
<1>1. ReportOf(o) /\ Nobody(o)' = Nobody(o) /\ OneThread(o)' = OneThread(o)
    BY DEF Departures, Nobody, OneThread
<1>2. Listed(o)' = Listed(o)
    BY DEF Listed, lists
<1> QED
    BY <1>1, <1>2 DEF ReportOf, lists

\* Every departure is reported by the thread that took the device off a list.
LEMMA DeparturesStep == IInv /\ Departures /\ [Next]_vars => Departures'
<1> SUFFICES ASSUME IInv, Departures, [Next]_vars PROVE Departures'
    OBVIOUS
<1>0. ListsOK /\ SessionsOK /\ BackendsOK /\ HistoryOK /\ Listing
    BY DEF IInv, TypeOK
<1> USE DeviceRegistryAssumption
    DEF DeviceRegistryAssumption, ListsOK, SessionsOK, BackendsOK, Backend, BackendReports,
        SessionReports, lists, sessions, backends, bus, history, backendUnchanged,
        sessionUnchanged, Goto
<1>1. ASSUME NEW b \in Busid, PlugIn(b) PROVE Departures'
    BY <1>1, <1>0, NotObserved DEF PlugIn
<1>2. ASSUME NEW b \in Busid, PullOut(b) PROVE Departures'
    BY <1>2, <1>0, NotObserved DEF PullOut
<1>3. CASE DeviceArrived
    BY <1>3, <1>0, NotObserved DEF DeviceArrived
<1>4. CASE DeviceLeft
    BY <1>4, <1>0, NotObserved DEF DeviceLeft
<1>5. ASSUME NEW t \in Users, NEW op \in {"add", "unbind", "detach"}, NEW b \in Busid,
             UserCall(t, op, b)
      PROVE  Departures'
    BY <1>5, <1>0, NotObserved DEF UserCall
<1>6. ASSUME NEW t \in Backend, NotifyAdded(t) PROVE Departures'
    BY <1>6, <1>0, NotObserved DEF NotifyAdded
<1>7. ASSUME NEW t \in Backend, SweepUsing(t) PROVE Departures'
    BY <1>7, <1>0, NotObserved DEF SweepUsing
<1>8. ASSUME NEW s \in Session, Accept(s) PROVE Departures'
    BY <1>8, <1>0, NotObserved DEF Accept
<1>9. ASSUME NEW s \in Session, Leave(s) PROVE Departures'
    BY <1>9, <1>0, NotObserved DEF Leave
<1>10. ASSUME NEW s \in Session, NEW b \in Busid, Import(s, b) PROVE Departures'
    BY <1>10, <1>0, NotObserved DEF Import
<1>11. ASSUME NEW s \in Session, RegisterResponder(s) PROVE Departures'
    BY <1>11, <1>0, NotObserved DEF RegisterResponder
<1>12. ASSUME NEW s \in Session, OpenDevice(s) PROVE Departures'
    BY <1>12, <1>0, NotObserved DEF OpenDevice
<1>13. ASSUME NEW s \in Session, OpenFails(s) PROVE Departures'
    BY <1>13, <1>0, NotObserved DEF OpenFails
<1>14. ASSUME NEW s \in Session, NotifyAttached(s) PROVE Departures'
    BY <1>14, <1>0, NotObserved DEF NotifyAttached
<1>15. ASSUME NEW s \in Session, ReplySent(s) PROVE Departures'
    BY <1>15, <1>0, NotObserved DEF ReplySent
<1>16. ASSUME NEW s \in Session, ReplyFails(s) PROVE Departures'
    BY <1>16, <1>0, NotObserved DEF ReplyFails
<1>17. ASSUME NEW s \in Session, OnDisconnection(s) PROVE Departures'
    BY <1>17, <1>0, NotObserved DEF OnDisconnection
<1>18. ASSUME NEW s \in Session, TransferSeesNoDevice(s) PROVE Departures'
    BY <1>18, <1>0, NotObserved DEF TransferSeesNoDevice
<1>19. ASSUME NEW s \in Session, UrbAfterRemoval(s) PROVE Departures'
    BY <1>19, <1>0, NotObserved DEF UrbAfterRemoval
<1>20. ASSUME NEW s \in Session, SubmitFails(s) PROVE Departures'
    BY <1>20, <1>0, NotObserved DEF SubmitFails
<1>21. ASSUME NEW s \in Session, TransferEnds(s) PROVE Departures'
    BY <1>21, <1>0, NotObserved DEF TransferEnds
<1>22. CASE StopBegin
    BY <1>22, <1>0, NotObserved DEF StopBegin
<1>23. CASE StopClear
    BY <1>23 DEF StopClear, Departures
<1>24. CASE StopJoin
    BY <1>24, <1>0, NotObserved DEF StopJoin
<1>25. ASSUME NEW t \in Backend, AddDevice(t) PROVE Departures'
    <2>1. CASE Known(bbus[t])
        BY <1>25, <1>0, <2>1, NotObserved DEF AddDevice
    <2>2. CASE ~Known(bbus[t])
        <3> DEFINE b == bbus[t]
                   new == <<b, made[b] + 1>>
        <3>0. b \in Busid /\ made[b] \in Nat /\ made \in [Busid -> Nat]
            BY <1>25, <1>0 DEF AddDevice
        <3>a. /\ made[b] < MaxMade
              /\ made' = [made EXCEPT ![b] = made[b] + 1] /\ available' = available \cup {new}
              /\ bpc' = [bpc EXCEPT ![t] = "report_added"] /\ bpc[t] = "add"
              /\ bobj' = [bobj EXCEPT ![t] = new]
            BY <1>25, <2>2 DEF AddDevice
        <3>b. UNCHANGED <<using, pc, dev, nGone, stopper>>
            BY <1>25 DEF AddDevice
        <3> HIDE DEF b
        <3>1. /\ b \in Busid /\ made[b] \in Nat /\ made[b] < MaxMade
              /\ made'[b] = made[b] + 1 /\ \A c \in Busid \ {b} : made'[c] = made[c]
              /\ available' = available \cup {new}
              /\ bpc' = [bpc EXCEPT ![t] = "report_added"] /\ bpc[t] = "add"
              /\ UNCHANGED <<using, pc, dev, nGone, stopper>>
              /\ \A u \in Backend \ {t} : bobj'[u] = bobj[u]
            <4>1. made'[b] = made[b] + 1 /\ \A c \in Busid \ {b} : made'[c] = made[c]
                BY <3>0, <3>a
            <4>2. \A u \in Backend \ {t} : bobj'[u] = bobj[u]
                BY <1>0, <3>a
            <4> QED
                BY <3>0, <3>a, <3>b, <4>1, <4>2
        <3>2. \A o \in Object : \A u \in Backend : BackendReports(u, o)' = BackendReports(u, o)
            BY <1>0, <3>1
        <3> SUFFICES ASSUME NEW o \in Object, stopper \in {"idle", "stopping"}
                     PROVE  ReportOf(o)'
            BY <3>1 DEF Departures
        <3>3. ReportOf(o) /\ Nobody(o)' = Nobody(o) /\ OneThread(o)' = OneThread(o)
            BY <3>1, <3>2 DEF Departures, Nobody, OneThread
        <3>4. CASE o = new
            <4>1. o[2] > made[o[1]]
                BY <3>1, <3>4
            <4>2. o \in available'
                BY <3>1, <3>4
            <4> QED
                BY <3>1, <3>3, <4>1, <4>2 DEF ReportOf, Listed
        <3>5. CASE o # new
            <4>1. Listed(o)' = Listed(o)
                BY <3>1, <3>5 DEF Listed
            <4>2. (o[2] > made[o[1]])' = (o[2] > made[o[1]])
                <5>1. o = <<o[1], o[2]>> /\ o[1] \in Busid /\ o[2] \in Nat
                    BY DEF Object
                <5>2. CASE o[1] = b
                    <6>1. o[2] # made[b] + 1
                        BY <3>5, <5>1, <5>2
                    <6> QED
                        BY <3>1, <5>1, <5>2, <6>1
                <5>3. CASE o[1] # b
                    BY <1>0, <3>1, <5>1, <5>3
                <5> QED
                    BY <5>2, <5>3
            <4> QED
                BY <3>1, <3>3, <4>1, <4>2 DEF ReportOf
        <3> QED
            BY <3>4, <3>5
    <2> QED
        BY <2>1, <2>2
<1>26. ASSUME NEW t \in Backend, Detach(t) \/ Unbind(t) PROVE Departures'
    <2>1. PICK next \in {"sweep", "idle"} : DetachAvailable(t, next) /\ bpc[t] # "report_gone"
        BY <1>26 DEF Detach, Unbind
    <2>2. CASE ~\E o \in available : o[1] = bbus[t]
        BY <1>0, <2>1, <2>2, NotObserved DEF DetachAvailable
    <2>3. CASE \E o \in available : o[1] = bbus[t]
        <3>1. PICK x \in available :
                  /\ available' = available \ {x} /\ x[1] = bbus[t]
                  /\ bobj' = [bobj EXCEPT ![t] = x]
                  /\ bpc' = [bpc EXCEPT ![t] = "report_gone"]
            BY <2>1, <2>3 DEF DetachAvailable
        <3>2. UNCHANGED <<using, made, pc, dev, nGone, stopper>>
            BY <2>1 DEF DetachAvailable
        <3> SUFFICES ASSUME NEW o \in Object, stopper \in {"idle", "stopping"}
                     PROVE  ReportOf(o)'
            BY <3>2 DEF Departures
        <3>3. ReportOf(o) /\ x \in Object
            BY <1>0 DEF Departures
        <3>4. CASE o = x
            <4>1. Listed(x) /\ ~Listed(x)'
                <5>1. using[x[1]] # x
                    BY <1>0, <3>3 DEF Listing, SingleListing
                <5> QED
                    BY <3>1, <3>2, <5>1 DEF Listed
            <4>2. Nobody(x) /\ nGone'[x] = 0
                BY <3>2, <3>3, <3>4, <4>1 DEF ReportOf
            <4>3. OneThread(x)'
                BY <1>0, <3>1, <3>2, <3>3, <4>2 DEF Nobody, OneThread
            <4>4. ~(x[2] > made'[x[1]])
                BY <1>0, <3>2, <3>3 DEF Listing, Made, Object
            <4> QED
                BY <3>4, <4>1, <4>2, <4>3, <4>4 DEF ReportOf
        <3>5. CASE o # x
            <4>1. Listed(o)' = Listed(o)
                BY <3>1, <3>2, <3>5 DEF Listed
            <4>2. \A u \in Backend : BackendReports(u, o)' = BackendReports(u, o)
                BY <1>0, <2>1, <3>1, <3>5
            <4>3. Nobody(o)' = Nobody(o) /\ OneThread(o)' = OneThread(o)
                BY <3>2, <4>2 DEF Nobody, OneThread
            <4> QED
                BY <3>2, <3>3, <4>1, <4>3 DEF ReportOf
        <3> QED
            BY <3>4, <3>5
    <2> QED
        BY <2>2, <2>3
<1>27. ASSUME NEW t \in Backend, NotifyGone(t) PROVE Departures'
    <2>0. PICK x \in Object : x = bobj[t]
        BY <1>27, <1>0 DEF NotifyGone
    <2>1. /\ x \in Object /\ BackendReports(t, x)
          /\ nGone' = [nGone EXCEPT ![x] = nGone[x] + 1] /\ bpc' = [bpc EXCEPT ![t] = "idle"]
          /\ bobj' = [bobj EXCEPT ![t] = None]
          /\ UNCHANGED <<available, using, made, pc, dev, stopper>>
        BY <1>27, <1>0, <2>0 DEF NotifyGone
    <2> SUFFICES ASSUME NEW o \in Object, stopper \in {"idle", "stopping"}
                 PROVE  ReportOf(o)'
        BY <2>1 DEF Departures
    <2>2. ReportOf(o) /\ Listed(o)' = Listed(o)
        BY <2>1 DEF Departures, Listed
    <2>3. CASE o = x
        <3>1. ~Nobody(x)
            BY <2>1 DEF Nobody
        <3>2. nGone[x] = 0 /\ OneThread(x) /\ ~Listed(x) /\ ~(x[2] > made[x[1]])
            BY <2>2, <2>3, <3>1 DEF ReportOf
        <3>3. nGone'[x] = 1
            BY <1>0, <2>1, <3>2 DEF HistoryOK
        <3>a. /\ \A r \in Session : ~SessionReports(r, x)
              /\ \A u \in Backend \ {t} : ~BackendReports(u, x)
            BY <2>1, <3>2 DEF OneThread
        <3>4. Nobody(x)'
            <4>1. \A r \in Session : ~SessionReports(r, x)'
                BY <2>1, <3>a
            <4>2. \A u \in Backend \ {t} : bpc'[u] = bpc[u] /\ bobj'[u] = bobj[u]
                BY <1>0, <2>1
            <4>3. bpc'[t] = "idle"
                BY <1>0, <2>1
            <4>4. \A u \in Backend : ~BackendReports(u, x)'
                BY <3>a, <4>2, <4>3
            <4> QED
                BY <4>1, <4>4 DEF Nobody
        <3> QED
            BY <2>1, <2>2, <2>3, <3>2, <3>3, <3>4 DEF ReportOf
    <2>4. CASE o # x
        <3>1. \A u \in Backend : BackendReports(u, o)' = BackendReports(u, o)
            BY <1>0, <2>1, <2>4
        <3>2. Nobody(o)' = Nobody(o) /\ OneThread(o)' = OneThread(o)
            BY <2>1, <3>1 DEF Nobody, OneThread
        <3>3. nGone'[o] = nGone[o]
            BY <1>0, <2>1, <2>4 DEF HistoryOK
        <3> QED
            BY <2>1, <2>2, <3>2, <3>3 DEF ReportOf
    <2> QED
        BY <2>3, <2>4
<1>28. ASSUME NEW s \in Session, TryMovingDeviceToUsing(s) PROVE Departures'
    <2>1. /\ \A o \in Object, r \in Session : SessionReports(r, o)' = SessionReports(r, o)
          /\ UNCHANGED <<made, nGone, stopper, bpc, bobj>>
        BY <1>28, <1>0 DEF TryMovingDeviceToUsing
    <2>2. ASSUME NEW o \in Object PROVE Listed(o)' = Listed(o)
        <3> DEFINE b == want[s]
        <3>1. b \in Busid /\ o # None /\ o[1] \in Busid
            BY <1>28, <1>0 DEF TryMovingDeviceToUsing, Object
        <3>2. CASE ~\E x \in available : x[1] = b
            BY <1>28, <3>2 DEF TryMovingDeviceToUsing, Listed
        <3>3. CASE \E x \in available : x[1] = b
            <4>1. PICK x \in available : /\ x[1] = b /\ available' = available \ {x}
                                         /\ using' = [using EXCEPT ![b] = x]
                BY <1>28, <3>3 DEF TryMovingDeviceToUsing
            <4> HIDE DEF b
            <4>2. using[b] = None /\ x \in Object
                BY <1>0, <4>1 DEF Listing, SingleListing
            <4>3. using'[b] = x /\ \A c \in Busid \ {b} : using'[c] = using[c]
                BY <1>0, <3>1, <4>1
            <4>4. CASE o = x
                BY <4>1, <4>3, <4>4 DEF Listed
            <4>5. CASE o # x
                BY <3>1, <4>1, <4>2, <4>3, <4>5 DEF Listed
            <4> QED
                BY <4>4, <4>5
        <3> QED
            BY <3>2, <3>3
    <2> SUFFICES ASSUME NEW o \in Object, stopper \in {"idle", "stopping"}
                 PROVE  ReportOf(o)'
        BY <2>1 DEF Departures
    <2>3. ReportOf(o) /\ Nobody(o)' = Nobody(o) /\ OneThread(o)' = OneThread(o)
        BY <2>1 DEF Departures, Nobody, OneThread
    <2> QED
        BY <2>1, <2>2, <2>3 DEF ReportOf
<1>29. ASSUME NEW s \in Session, ReleaseDevice(s) PROVE Departures'
    <2> DEFINE x == dev[s]
    <2>1. /\ x \in Object /\ want[s] \in Busid /\ using[want[s]] = x /\ x[1] = want[s]
          /\ x \notin available /\ ~(x[2] > made[x[1]]) /\ x # None
        <3>1. pc[s] \in Holding
            BY <1>29 DEF ReleaseDevice, Holding
        <3>2. x \in Object /\ want[s] \in Busid /\ using[want[s]] = x /\ x[1] = want[s]
            BY <1>0, <3>1 DEF Holding, Listing, HolderListed
        <3> QED
            BY <1>0, <3>1, <3>2 DEF Listing, SingleListing, Made, Object
    <2>2. /\ using' = [using EXCEPT ![want[s]] = None]
          /\ UNCHANGED <<made, nGone, stopper, bpc, bobj, dev>>
        BY <1>29, <2>1 DEF ReleaseDevice
    <2>3. pc[s] # "report_gone"
        BY <1>29 DEF ReleaseDevice
    <2> SUFFICES ASSUME NEW o \in Object, stopper \in {"idle", "stopping"}
                 PROVE  ReportOf(o)'
        BY <2>2 DEF Departures
    <2>4. ReportOf(o) /\ Listed(x)
        BY <2>1 DEF Departures, Listed
    <2>5. CASE o = x
        <3>1. nGone[x] = 0 /\ Nobody(x)
            BY <2>4, <2>5 DEF ReportOf
        <3>2. CASE x \in removed
            <4>1. available' = available /\ pc' = [pc EXCEPT ![s] = "report_gone"]
                BY <1>29, <2>1, <3>2 DEF ReleaseDevice
            <4>2. ~Listed(x)'
                BY <1>0, <2>1, <2>2, <4>1 DEF Listed
            <4>3. OneThread(x)'
                BY <1>0, <2>2, <3>1, <4>1 DEF Nobody, OneThread
            <4> QED
                BY <2>1, <2>2, <2>5, <3>1, <4>2, <4>3 DEF ReportOf
        <3>3. CASE x \notin removed
            <4>1. available' = available \cup {x} /\ pc' = [pc EXCEPT ![s] = "report"]
                BY <1>29, <2>1, <3>3 DEF ReleaseDevice
            <4>2. Listed(x)' /\ Nobody(x)'
                BY <1>0, <2>2, <3>1, <4>1 DEF Nobody, Listed
            <4> QED
                BY <2>2, <2>5, <3>1, <4>2 DEF ReportOf
        <3> QED
            BY <3>2, <3>3
    <2>6. CASE o # x
        <3>1. Listed(o)' = Listed(o)
            <4>1. o[1] \in Busid /\ o # None
                BY DEF Object
            <4>2. o \in available' <=> o \in available
                BY <1>29, <2>1, <2>6 DEF ReleaseDevice
            <4> QED
                BY <1>0, <2>1, <2>2, <2>6, <4>1, <4>2 DEF Listed
        <3>2. \A r \in Session : SessionReports(r, o)' = SessionReports(r, o)
            BY <1>29, <1>0, <2>1, <2>3, <2>6 DEF ReleaseDevice
        <3>3. Nobody(o)' = Nobody(o) /\ OneThread(o)' = OneThread(o)
            BY <2>2, <3>2 DEF Nobody, OneThread
        <3> QED
            BY <2>2, <2>4, <3>1, <3>3 DEF ReportOf
    <2> QED
        BY <2>5, <2>6
<1>30. ASSUME NEW s \in Session, NotifyReleased(s) PROVE Departures'
    <2>1. CASE pc[s] = "report"
        BY <1>30, <1>0, <2>1, NotObserved DEF NotifyReleased
    <2>2. CASE pc[s] = "report_gone"
        <3> DEFINE x == dev[s]
        <3>1. /\ x \in Object /\ SessionReports(s, x)
              /\ nGone' = [nGone EXCEPT ![x] = nGone[x] + 1]
              /\ pc' = [pc EXCEPT ![s] = "closed"]
              /\ UNCHANGED <<available, using, made, dev, bpc, bobj, stopper>>
            BY <1>30, <1>0, <2>2 DEF NotifyReleased
        <3> SUFFICES ASSUME NEW o \in Object, stopper \in {"idle", "stopping"}
                     PROVE  ReportOf(o)'
            BY <3>1 DEF Departures
        <3>2. ReportOf(o) /\ Listed(o)' = Listed(o)
            BY <3>1 DEF Departures, Listed
        <3>3. CASE o = x
            <4>1. ~Nobody(x)
                BY <3>1 DEF Nobody
            <4>2. nGone[x] = 0 /\ OneThread(x) /\ ~Listed(x) /\ ~(x[2] > made[x[1]])
                BY <3>2, <3>3, <4>1 DEF ReportOf
            <4>3. nGone'[x] = 1
                BY <1>0, <3>1, <4>2 DEF HistoryOK
            <4>4. Nobody(x)'
                BY <1>0, <3>1, <4>2 DEF OneThread, Nobody
            <4> QED
                BY <3>1, <3>2, <3>3, <4>2, <4>3, <4>4 DEF ReportOf
        <3>4. CASE o # x
            <4>1. \A r \in Session : SessionReports(r, o)' = SessionReports(r, o)
                BY <1>0, <3>1, <3>4
            <4>2. Nobody(o)' = Nobody(o) /\ OneThread(o)' = OneThread(o)
                BY <3>1, <4>1 DEF Nobody, OneThread
            <4>3. nGone'[o] = nGone[o]
                BY <1>0, <3>1, <3>4 DEF HistoryOK
            <4> QED
                BY <3>1, <3>2, <4>2, <4>3 DEF ReportOf
        <3> QED
            BY <3>3, <3>4
    <2> QED
        BY <1>30, <2>1, <2>2 DEF NotifyReleased
<1>31. CASE UNCHANGED vars
    BY <1>31, <1>0, NotObserved DEF vars
<1> QED
    BY <1>1, <1>2, <1>3, <1>4, <1>5, <1>6, <1>7, <1>8, <1>9, <1>10, <1>11, <1>12, <1>13,
       <1>14, <1>15, <1>16, <1>17, <1>18, <1>19, <1>20, <1>21, <1>22, <1>23, <1>24, <1>25, <1>26,
       <1>27, <1>28, <1>29, <1>30, <1>31
    DEF Next, BackendStep, SessionStep

\* Attachments are reported once each and paired.
LEMMA AttachmentsStep == IInv /\ Attachments /\ [Next]_vars => Attachments'
<1> SUFFICES ASSUME IInv, Attachments, [Next]_vars PROVE Attachments'
    OBVIOUS
<1>0. SessionsOK /\ HistoryOK /\ Listing
    BY DEF IInv, TypeOK
<1> USE DeviceRegistryAssumption
    DEF DeviceRegistryAssumption, SessionsOK, HistoryOK, SessionPC, Attachments, sessions,
        history, backendUnchanged, Goto
<1>1. ASSUME NEW s \in Session, NotifyAttached(s) PROVE Attachments'
    BY <1>0, <1>1 DEF NotifyAttached
<1>2. ASSUME NEW s \in Session, NotifyReleased(s) PROVE Attachments'
    BY <1>0, <1>2 DEF NotifyReleased
<1>3. ASSUME NEW s \in Session, ReleaseDevice(s) PROVE Attachments'
    <2>1. using[want[s]] # None
        BY <1>0, <1>3 DEF ReleaseDevice, Listing, HolderListed, Holding
    <2>2. pc' = [pc EXCEPT ![s] = "report_gone"] \/ pc' = [pc EXCEPT ![s] = "report"]
        BY <1>3, <2>1 DEF ReleaseDevice
    <2>3. UNCHANGED <<nAttached, nReleased>> /\ pc[s] # "closed"
        BY <1>3 DEF ReleaseDevice
    <2>4. pc'[s] \in {"report", "report_gone"} /\ \A r \in Session \ {s} : pc'[r] = pc[r]
        BY <1>0, <2>2
    <2> SUFFICES ASSUME NEW r \in Session
                 PROVE  /\ nAttached'[r] <= 1 /\ nReleased'[r] <= 1
                        /\ pc'[r] # "closed" => nReleased'[r] = 0
                        /\ pc'[r] \in {"new", "op", "try", "connect", "open", "open_failed",
                                       "attach", "reply_fail"} => nAttached'[r] = 0
                        /\ pc'[r] = "closed" => nAttached'[r] <= nReleased'[r]
        OBVIOUS
    <2>5. CASE r = s
        BY <2>3, <2>4, <2>5
    <2>6. CASE r # s
        BY <2>3, <2>4, <2>6
    <2> QED
        BY <2>5, <2>6
<1>4. ASSUME NEW s \in Session,
             \/ Accept(s) \/ Leave(s) \/ (\E b \in Busid : Import(s, b))
             \/ TryMovingDeviceToUsing(s) \/ RegisterResponder(s) \/ OpenDevice(s)
             \/ OpenFails(s) \/ ReplySent(s) \/ ReplyFails(s) \/ UrbAfterRemoval(s)
             \/ SubmitFails(s) \/ TransferEnds(s) \/ OnDisconnection(s)
      PROVE  Attachments'
    <2>1. UNCHANGED <<nAttached, nReleased>> /\ \A r \in Session \ {s} : pc'[r] = pc[r]
        BY <1>0, <1>4 DEF Accept, Leave, Import, TryMovingDeviceToUsing, RegisterResponder,
            OpenDevice, OpenFails, ReplySent, ReplyFails, UrbAfterRemoval, SubmitFails,
            TransferEnds, OnDisconnection
    <2>2. /\ pc[s] # "closed"
          /\ \/ pc'[s] \in {"transfer", "disconnect", "release"}
             \/ pc[s] \in {"new", "op", "try", "connect", "open", "reply_fail"}
        BY <1>0, <1>4 DEF Accept, Leave, Import, TryMovingDeviceToUsing, RegisterResponder,
            OpenDevice, OpenFails, ReplySent, ReplyFails, UrbAfterRemoval, SubmitFails,
            TransferEnds, OnDisconnection
    <2>3. nReleased'[s] = 0 /\ nAttached'[s] <= 1
        BY <1>0, <2>1, <2>2
    <2>4. pc'[s] \in {"new", "op", "try", "connect", "open", "open_failed", "attach",
                      "reply_fail", "closed"} => nAttached'[s] = 0
        BY <1>0, <2>1, <2>2
    <2> QED
        BY <1>0, <2>1, <2>3, <2>4
<1>5. ASSUME \/ \E b \in Busid : PlugIn(b) \/ PullOut(b)
             \/ DeviceArrived \/ DeviceLeft
             \/ \E t \in Users, op \in {"add", "unbind", "detach"}, b \in Busid : UserCall(t, op, b)
             \/ \E t \in Backend : BackendStep(t)
             \/ \E s \in Session : TransferSeesNoDevice(s)
             \/ StopBegin \/ StopClear \/ StopJoin \/ UNCHANGED vars
      PROVE  Attachments'
    <2>1. UNCHANGED <<pc, nAttached, nReleased>>
        BY <1>5 DEF PlugIn, PullOut, DeviceArrived, DeviceLeft, UserCall, BackendStep, AddDevice,
            NotifyAdded, Detach, Unbind, DetachAvailable, SweepUsing, NotifyGone,
            TransferSeesNoDevice, StopBegin, StopClear, StopJoin, vars
    <2> QED
        BY <2>1
<1> QED
    BY <1>1, <1>2, <1>3, <1>4, <1>5 DEF Next, SessionStep

\* Before anything was made or reported.
LEMMA InitObserved == Init => Observed
BY DeviceRegistryAssumption
DEF DeviceRegistryAssumption, Init, Observed, Departures, Attachments, ReportOf, Nobody,
    BackendReports, SessionReports, Object

\* What the observers of the registry were told, in the words of the property.
LEMMA ObservedImplies == TypeOK /\ Observed => ObserversInformed
<1> SUFFICES ASSUME TypeOK, Observed PROVE RemovalReportedOnce /\ AttachReleasePaired
    BY DEF ObserversInformed
<1>1. AttachReleasePaired
    BY DEF Observed, Attachments, AttachReleasePaired
<1>2. RemovalReportedOnce
    <2> SUFFICES ASSUME stopper \in {"idle", "stopping"}, NEW o \in Object, o[2] <= made[o[1]]
                 PROVE  LET pending == {t \in Backend : bpc[t] = "report_gone" /\ bobj[t] = o}
                               \cup {s \in Session : pc[s] = "report_gone" /\ dev[s] = o}
                        IN  \/ Listed(o) /\ nGone[o] = 0 /\ pending = {}
                            \/ ~Listed(o) /\ nGone[o] = 0 /\ \E t \in pending : pending = {t}
                            \/ ~Listed(o) /\ nGone[o] = 1 /\ pending = {}
        BY DEF RemovalReportedOnce, Listed
    <2>1. ReportOf(o) /\ ~(o[2] > made[o[1]])
        BY DEF Observed, Departures, TypeOK, ListsOK, Object
    <2>2. Nobody(o) => {t \in Backend : bpc[t] = "report_gone" /\ bobj[t] = o}
                       \cup {s \in Session : pc[s] = "report_gone" /\ dev[s] = o} = {}
        BY DEF Nobody, BackendReports, SessionReports
    <2>3. OneThread(o) =>
              LET pending == {t \in Backend : bpc[t] = "report_gone" /\ bobj[t] = o}
                             \cup {s \in Session : pc[s] = "report_gone" /\ dev[s] = o}
              IN  \E t \in pending : pending = {t}
        BY DEF OneThread, BackendReports, SessionReports
    <2> QED
        BY <2>1, <2>2, <2>3 DEF ReportOf
<1> QED
    BY <1>1, <1>2

------------------------------------------------------------------------------
(* The theorems.                                                             *)

\* Server, Session, LibusbServer: the inductive invariant holds whatever the
\* threads, the clients and the bus do.
THEOREM InductiveInvariant == Spec => []IInv
<1>1. IInv /\ [Next]_vars => IInv'
    BY TypeStep, ListingStep, HandlingStep DEF IInv
<1> QED
    BY <1>1, InitIInv, PTL DEF Spec

\* All variables keep their types.
THEOREM TypeCorrect == Spec => []TypeOK
<1>1. IInv => TypeOK
    BY DEF IInv
<1> QED
    BY <1>1, InductiveInvariant, PTL

\* add_device, try_moving_device_to_using, release_device: a busid never
\* names two devices, in one list or across the two.
THEOREM BusidUnique == Spec => []SingleListing
<1>1. IInv => SingleListing
    BY DEF IInv, Listing
<1> QED
    BY <1>1, InductiveInvariant, PTL

\* Session::parse_op: a session that holds a device holds it alone, and what
\* release_device finds under the session's busid is that device.
THEOREM HolderExclusive == Spec => []HolderListed
<1>1. IInv => HolderListed
    BY DEF IInv, Listing
<1> QED
    BY <1>1, InductiveInvariant, PTL

\* using_devices: no device stays in the used list without a session that
\* will release it.
THEOREM NoneLeftInUse == Spec => []UsedIsHeld
<1>1. IInv => UsedIsHeld
    BY DEF IInv, Listing
<1> QED
    BY <1>1, InductiveInvariant, PTL

\* register_responder, clear_responder: a handler's responder is the session
\* that is connected to the device, never one that is over.
THEOREM ResponderAlive == Spec => []NoDanglingResponder
<1>1. IInv => NoDanglingResponder
    BY DEF IInv, Handling
<1> QED
    BY <1>1, InductiveInvariant, PTL

\* on_disconnection, release_device: a device on offer is closed and was not
\* found to be removed.
THEOREM OfferIsIdle == Spec => []AvailableIsIdle
<1>1. IInv => AvailableIsIdle
    BY DEF IInv, Handling
<1> QED
    BY <1>1, InductiveInvariant, PTL

\* The lists, the sessions and the handlers agree at every moment (ListsAgree),
\* whatever the interleaving of imports, releases, hotplug events and unbinds.
THEOREM ListsStayConsistent == Spec => []ListsAgree
<1>1. IInv => ListsAgree
    BY DEF IInv, Listing, Handling, ListsAgree
<1> QED
    BY <1>1, InductiveInvariant, PTL

\* ServerObserver: each device that leaves the lists is reported removed once
\* and by one thread, and attachments are paired with releases, although the
\* notifications are sent after devices_mutex was given up.
THEOREM ObserversKeepCount == Spec => []ObserversInformed
<1>1. IInv /\ Observed /\ [Next]_vars => Observed'
    BY DeparturesStep, AttachmentsStep DEF Observed
<1>2. IInv /\ Observed => ObserversInformed
    BY ObservedImplies DEF IInv
<1> QED
    BY <1>1, <1>2, InitObserved, InductiveInvariant, PTL DEF Spec

\* Server with its sessions and back end implements DeviceOwnership.
THEOREM RefinesOwnership == Spec => ImplementsOwnership
<1>1. IInv /\ [Next]_vars => [Ownership!Next]_(Ownership!ownershipVars)
    BY RefinementStep DEF OwnershipStep
<1>2. Init => Ownership!Init
    BY InitRefines
<1> QED
    BY <1>1, <1>2, InductiveInvariant, PTL DEF Spec, ImplementsOwnership, Ownership!Spec
=============================================================================
