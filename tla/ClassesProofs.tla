---------------------------- MODULE ClassesProofs ----------------------------
(***************************************************************************)
(* The classes of MCClasses share no state: a behaviour of the composition *)
(* is a behaviour of each, and what is proved of one holds in it.  Mass    *)
(* storage and the wire have their proofs in StorageWireProofs; those of   *)
(* the network adapters, the serial port, the camera, the audio functions  *)
(* and the containers are here.  One theorem, ClassesNetwork, has a        *)
(* hypothesis: FramesKnown, of what the OUT transfers carry.               *)
(***************************************************************************)
EXTENDS MCClasses, StorageWireProofs, FiniteSetTheorems, NaturalsInduction, WellFoundedInduction

------------------------------------------------------------------------------
(* The composition implements its parts.                                     *)

\* Mass storage, in the composition
LEMMA ClassesHasStorage == ClassesSpec => MscSpec
<1>1. ClassesInit => MscInit
    BY DEF ClassesInit
<1>2. [ClassesNext]_classesVars => [MscNext]_mscVars
    BY DEF ClassesNext, classesVars
<1> QED
    BY <1>1, <1>2, PTL DEF ClassesSpec, MscSpec

\* The control of a network adapter
LEMMA ClassesHasNet == ClassesSpec => NetSpec
<1>1. ClassesInit => NetInit
    BY DEF ClassesInit
<1>2. [ClassesNext]_classesVars => [NetNext]_netVars
    BY DEF ClassesNext, classesVars
<1> QED
    BY <1>1, <1>2, PTL DEF ClassesSpec, NetSpec

\* The data of a network adapter
LEMMA ClassesHasData == ClassesSpec => DataSpec
<1>1. ClassesInit => DataInit
    BY DEF ClassesInit
<1>2. [ClassesNext]_classesVars => [DataNext]_dataVars
    BY DEF ClassesNext, classesVars
<1> QED
    BY <1>1, <1>2, PTL DEF ClassesSpec, DataSpec

\* The camera
LEMMA ClassesHasUvc == ClassesSpec => UvcSpec
<1>1. ClassesInit => UvcInit
    BY DEF ClassesInit
<1>2. [ClassesNext]_classesVars => [UvcNext]_uvcVars
    BY DEF ClassesNext, classesVars
<1> QED
    BY <1>1, <1>2, PTL DEF ClassesSpec, UvcSpec

\* The USB/IP conversation
LEMMA ClassesHasWire == ClassesSpec => WireSpec
<1>1. ClassesInit => WireInit
    BY DEF ClassesInit
<1>2. [ClassesNext]_classesVars => [WireNext]_wireVars
    BY DEF ClassesNext, classesVars
<1> QED
    BY <1>1, <1>2, PTL DEF ClassesSpec, WireSpec

\* The microphone and the speaker
LEMMA ClassesHasUac == ClassesSpec => UacSpec
<1>1. ClassesInit => UacInit
    BY DEF ClassesInit
<1>2. [ClassesNext]_classesVars => [UacNext]_uacVars
    BY DEF ClassesNext, classesVars
<1> QED
    BY <1>1, <1>2, PTL DEF ClassesSpec, UacSpec

\* The containers
LEMMA ClassesHasContainers == ClassesSpec => ContainerSpec
<1>1. ClassesInit => ContainerInit
    BY DEF ClassesInit
<1>2. [ClassesNext]_classesVars => [ContainerNext]_containerVars
    BY DEF ClassesNext, classesVars
<1> QED
    BY <1>1, <1>2, PTL DEF ClassesSpec, ContainerSpec

\* The serial port
LEMMA ClassesHasAcm == ClassesSpec => AcmSpec
<1>1. ClassesInit => AcmInit
    BY DEF ClassesInit
<1>2. [ClassesNext]_classesVars => [AcmNext]_acmVars
    BY DEF ClassesNext, classesVars
<1> QED
    BY <1>1, <1>2, PTL DEF ClassesSpec, AcmSpec

\* StorageCorrect for any device: a CSW ends every command, and neither the
\* staging buffer nor the splice pipe is reused before the sender is done with
\* it; while the pipe held nothing of an earlier client a READ returns the
\* image, and while no hole was widened either the image is what the host wrote.
THEOREM ClassesStorage == ClassesSpec => []StorageCorrect
<1>1. DiskIsWhatHostWrote /\ ReadReturnsDisk /\ StatusForEveryCommand /\ StagingOutlivesSender
        /\ PipeHasOneUser => StorageCorrect
    BY DEF StorageCorrect
<1> QED
    BY <1>1, ClassesHasStorage, DiskCorrect, ReadCorrect, StatusCorrect, StagingCorrect,
       PipeCorrect, PTL

------------------------------------------------------------------------------
(* Sequences of numbers that rise: transfers in the order of the host.       *)

Rising(s) == \A i, j \in 1..Len(s) : i < j => s[i] < s[j]

\* One more, behind those that are there
LEMMA RisingAdds ==
    ASSUME NEW n \in Nat, NEW s \in Seq(1..n), Rising(s), NEW x \in 1..n,
           \A i \in 1..Len(s) : s[i] < x
    PROVE  /\ Append(s, x) \in Seq(1..n) /\ Rising(Append(s, x))
           /\ ToSet(Append(s, x)) = ToSet(s) \cup {x}
           /\ Len(Append(s, x)) = Len(s) + 1 /\ Append(s, x)[Len(s) + 1] = x
           /\ \A i \in 1..Len(s) : Append(s, x)[i] = s[i]
<1>1. /\ Len(s) \in Nat /\ DOMAIN s = 1..Len(s) /\ \A i \in 1..Len(s) : s[i] \in 1..n
    OBVIOUS
<1>2. /\ Append(s, x) \in Seq(1..n)
      /\ Len(Append(s, x)) = Len(s) + 1 /\ DOMAIN Append(s, x) = 1..Len(s) + 1
      /\ \A i \in 1..Len(s) : Append(s, x)[i] = s[i]
      /\ Append(s, x)[Len(s) + 1] = x
    BY <1>1
<1>3. ASSUME NEW i \in 1..Len(s) + 1, NEW j \in 1..Len(s) + 1, i < j
      PROVE  Append(s, x)[i] < Append(s, x)[j]
    BY <1>1, <1>2, <1>3 DEF Rising
<1>4. ToSet(Append(s, x)) = ToSet(s) \cup {x}
    BY <1>1, <1>2 DEF ToSet
<1> QED
    BY <1>2, <1>3, <1>4 DEF Rising

\* One more transfer than there were
LEMMA RisingAppend ==
    ASSUME NEW n \in Nat, NEW s \in Seq(1..n), Rising(s)
    PROVE  /\ Append(s, n + 1) \in Seq(1..n + 1) /\ Rising(Append(s, n + 1))
           /\ s \in Seq(1..n + 1)
           /\ \A i \in 1..Len(s) : s[i] < n + 1
           /\ ToSet(Append(s, n + 1)) = ToSet(s) \cup {n + 1}
<1>1. s \in Seq(1..n + 1) /\ n + 1 \in 1..n + 1 /\ n + 1 \in Nat
    <2>1. 1..n \subseteq 1..n + 1
        OBVIOUS
    <2> QED
        BY <2>1, SeqMonotonic
<1>2. \A i \in 1..Len(s) : s[i] < n + 1
    OBVIOUS
<1> DEFINE m == n + 1
<1> HIDE DEF m
<1>3. m \in Nat /\ s \in Seq(1..m) /\ m \in 1..m /\ \A i \in 1..Len(s) : s[i] < m
    BY <1>1, <1>2 DEF m
<1>4. Append(s, m) \in Seq(1..m) /\ Rising(Append(s, m)) /\ ToSet(Append(s, m)) = ToSet(s) \cup {m}
    BY <1>3, RisingAdds
<1> QED
    BY <1>1, <1>2, <1>4 DEF m

\* The oldest is taken off.
LEMMA RisingTail ==
    ASSUME NEW n \in Nat, NEW s \in Seq(1..n), Rising(s), s # <<>>
    PROVE  /\ Head(s) \in 1..n /\ Head(s) \in ToSet(s)
           /\ Tail(s) \in Seq(1..n) /\ Rising(Tail(s))
           /\ \A i \in 1..Len(Tail(s)) : Head(s) < Tail(s)[i] /\ \E k \in 1..Len(s) : Tail(s)[i] = s[k]
           /\ ToSet(Tail(s)) = ToSet(s) \ {Head(s)}
<1>1. /\ Len(s) \in Nat \ {0} /\ DOMAIN s = 1..Len(s) /\ \A i \in 1..Len(s) : s[i] \in 1..n
      /\ Tail(s) \in Seq(1..n) /\ Len(Tail(s)) = Len(s) - 1 /\ DOMAIN Tail(s) = 1..Len(s) - 1
      /\ \A i \in 1..Len(s) - 1 : Tail(s)[i] = s[i + 1]
      /\ Head(s) = s[1]
    OBVIOUS
<1>2. ASSUME NEW i \in 1..Len(s) - 1, NEW j \in 1..Len(s) - 1, i < j
      PROVE  Tail(s)[i] < Tail(s)[j]
    <2>1. i + 1 \in 1..Len(s) /\ j + 1 \in 1..Len(s) /\ i + 1 < j + 1
        BY <1>1, <1>2
    <2> QED
        BY <1>1, <2>1 DEF Rising
<1>3. ASSUME NEW i \in 1..Len(s) - 1
      PROVE  Head(s) < Tail(s)[i] /\ i + 1 \in 1..Len(s) /\ Tail(s)[i] = s[i + 1]
    <2>1. i + 1 \in 1..Len(s) /\ 1 \in 1..Len(s) /\ 1 < i + 1
        BY <1>1
    <2> QED
        BY <1>1, <2>1 DEF Rising
<1>4. ASSUME NEW x \in ToSet(s), x # Head(s) PROVE x \in ToSet(Tail(s))
    <2>1. PICK i \in 1..Len(s) : x = s[i]
        BY <1>1 DEF ToSet
    <2>2. i - 1 \in 1..Len(s) - 1 /\ (i - 1) + 1 = i
        BY <1>1, <1>4, <2>1
    <2> QED
        BY <1>1, <2>1, <2>2 DEF ToSet
<1>5. ASSUME NEW x \in ToSet(Tail(s)) PROVE x \in ToSet(s) /\ x # Head(s)
    <2>1. PICK i \in 1..Len(s) - 1 : x = Tail(s)[i]
        BY <1>1 DEF ToSet
    <2>2. Head(s) \in Nat /\ Head(s) < x /\ x = s[i + 1] /\ i + 1 \in 1..Len(s)
        BY <1>1, <1>3, <2>1
    <2> QED
        BY <1>1, <2>2 DEF ToSet
<1>6. Head(s) \in 1..n /\ Head(s) \in ToSet(s)
    BY <1>1 DEF ToSet
<1>7. ToSet(Tail(s)) = ToSet(s) \ {Head(s)}
    BY <1>4, <1>5, Zenon
<1> QED
    BY <1>1, <1>2, <1>3, <1>6, <1>7 DEF Rising

\* RemoveAt closes the gap.
LEMMA WithoutOne ==
    ASSUME NEW S, NEW q \in Seq(S), NEW i \in 1..Len(q)
    PROVE  /\ RemoveAt(q, i) \in Seq(S) /\ Len(RemoveAt(q, i)) = Len(q) - 1
           /\ \A k \in 1..Len(q) - 1 : RemoveAt(q, i)[k] = q[IF k < i THEN k ELSE k + 1]
<1> DEFINE a == SubSeq(q, 1, i - 1)
           z == SubSeq(q, i + 1, Len(q))
<1>1. /\ a \in Seq(S) /\ Len(a) = i - 1 /\ \A k \in 1..i - 1 : a[k] = q[k]
      /\ z \in Seq(S) /\ Len(z) = Len(q) - i /\ \A k \in 1..Len(q) - i : z[k] = q[i + k]
    OBVIOUS
<1> HIDE DEF a, z
<1>2. a \o z \in Seq(S) /\ Len(a \o z) = Len(q) - 1
    BY <1>1
<1>3. ASSUME NEW k \in 1..Len(q) - 1 PROVE (a \o z)[k] = q[IF k < i THEN k ELSE k + 1]
    <2>1. CASE k < i
        BY <1>1, <2>1
    <2>2. CASE ~(k < i)
        <3>1. (a \o z)[k] = z[k - (i - 1)] /\ k - (i - 1) \in 1..Len(q) - i
            BY <1>1, <2>2
        <3> QED
            BY <1>1, <2>2, <3>1
    <2> QED
        BY <2>1, <2>2
<1>4. RemoveAt(q, i) = a \o z
    BY DEF RemoveAt, a, z
<1> QED
    BY <1>2, <1>3, <1>4

\* One is taken out.
LEMMA RisingWithout ==
    ASSUME NEW n \in Nat, NEW s \in Seq(1..n), Rising(s), NEW i \in 1..Len(s)
    PROVE  /\ RemoveAt(s, i) \in Seq(1..n) /\ Rising(RemoveAt(s, i))
           /\ \A j \in 1..Len(RemoveAt(s, i)) : \E k \in 1..Len(s) : RemoveAt(s, i)[j] = s[k]
           /\ ToSet(RemoveAt(s, i)) = ToSet(s) \ {s[i]}
<1> DEFINE r == RemoveAt(s, i)
           at(j) == IF j < i THEN j ELSE j + 1
<1>1. /\ Len(s) \in Nat /\ DOMAIN s = 1..Len(s) /\ \A j \in 1..Len(s) : s[j] \in 1..n
    OBVIOUS
<1>2. /\ r \in Seq(1..n) /\ Len(r) = Len(s) - 1 /\ DOMAIN r = 1..Len(s) - 1
      /\ \A j \in 1..Len(s) - 1 : r[j] = s[at(j)]
    <2>1. /\ r \in Seq(1..n) /\ Len(r) = Len(s) - 1
          /\ \A j \in 1..Len(s) - 1 : r[j] = s[IF j < i THEN j ELSE j + 1]
        BY WithoutOne
    <2> QED
        BY <2>1
<1>3. \A j \in 1..Len(s) - 1 : at(j) \in 1..Len(s) /\ at(j) # i
    BY <1>1
<1>4. \A j, k \in 1..Len(s) - 1 : j < k => at(j) < at(k)
    BY <1>1
<1>5. \A k \in 1..Len(s) : k # i => \E j \in 1..Len(s) - 1 : k = at(j)
    <2> TAKE k \in 1..Len(s)
    <2>1. CASE k < i
        <3>1. k \in 1..Len(s) - 1 /\ at(k) = k
            BY <1>1, <2>1
        <3> QED
            BY <3>1
    <2>2. CASE k > i
        <3>1. k - 1 \in 1..Len(s) - 1 /\ at(k - 1) = k
            BY <1>1, <2>2
        <3> QED
            BY <3>1
    <2> QED
        BY <2>1, <2>2
<1> HIDE DEF r, at
<1>6. ASSUME NEW j \in 1..Len(s) - 1, NEW k \in 1..Len(s) - 1, j < k PROVE r[j] < r[k]
    BY <1>2, <1>3, <1>4, <1>6 DEF Rising
<1>7. ASSUME NEW k \in 1..Len(s), k # i PROVE s[k] # s[i]
    BY <1>1, <1>7 DEF Rising
<1>8. ToSet(r) = {r[j] : j \in 1..Len(s) - 1} /\ ToSet(s) = {s[k] : k \in 1..Len(s)}
    BY <1>1, <1>2 DEF ToSet
<1>9. ASSUME NEW x \in ToSet(s), x # s[i] PROVE x \in ToSet(r)
    <2>1. PICK k \in 1..Len(s) : x = s[k]
        BY <1>8
    <2>2. PICK j \in 1..Len(s) - 1 : k = at(j)
        BY <1>5, <1>9, <2>1
    <2> QED
        BY <1>2, <1>8, <2>1, <2>2
<1>10. ASSUME NEW x \in ToSet(r) PROVE x \in ToSet(s) /\ x # s[i]
    <2>1. PICK j \in 1..Len(s) - 1 : x = r[j]
        BY <1>8
    <2> QED
        BY <1>2, <1>3, <1>7, <1>8, <2>1
<1>11. ToSet(r) = ToSet(s) \ {s[i]}
    BY <1>9, <1>10, Zenon
<1>12. Rising(r) /\ \A j \in 1..Len(r) : \E k \in 1..Len(s) : r[j] = s[k]
    BY <1>2, <1>3, <1>6 DEF Rising
<1> QED
    BY <1>2, <1>11, <1>12 DEF r

------------------------------------------------------------------------------
(* The serial port.  Transfers have rising numbers; those the device has     *)
(* come before those that wait for it.                                       *)

AcmTypes ==
    /\ acm_up \in BOOLEAN /\ rts_told \in BOOLEAN /\ lines \in [dtr : BOOLEAN, rts : BOOLEAN]
    /\ line_coding \in Codings \cup {0} /\ cts \in 0..2 /\ cts_seen \in 0..2
    /\ notes \in Seq(0..2) /\ Len(notes) <= NoteRoom
    /\ nacm \in 0..MaxAcmReqs /\ nout \in 0..MaxAcmOuts /\ naconn \in 0..MaxAcmConns
    /\ port_received \in Seq(1..nout) /\ out_waiting \in Seq(1..nout)
    /\ ~acm_up => notes = <<>> /\ out_waiting = <<>>
AcmLine ==
    /\ port_received = out_done /\ Rising(port_received) /\ Rising(out_waiting)
    /\ \A i \in 1..Len(port_received), j \in 1..Len(out_waiting) : port_received[i] < out_waiting[j]
    /\ acm_up => 1..nout = ToSet(port_received) \cup ToSet(out_waiting) \cup given_up
AcmInv == AcmTypes /\ AcmLine /\ PortAgrees

\* The channel of notifications: what is pushed is the newest.
LEMMA NotePushed ==
    ASSUME AcmTypes, NEW c \in {0, 1}, PushNote(c)
    PROVE  /\ notes' \in Seq(0..2) /\ Len(notes') <= NoteRoom
           /\ notes' # <<>> /\ Last(notes') = c
<1> DEFINE q == IF Len(notes) < NoteRoom THEN notes ELSE Tail(notes)
<1>1. /\ NoteRoom \in Nat \ {0} /\ notes \in Seq(0..2) /\ Len(notes) <= NoteRoom
      /\ notes' = Append(q, c)
    BY SerialAssumption DEF AcmTypes, PushNote
<1>2. q \in Seq(0..2) /\ Len(q) < NoteRoom
    <2>1. CASE Len(notes) < NoteRoom
        BY <1>1, <2>1
    <2>2. CASE ~(Len(notes) < NoteRoom)
        BY <1>1, <2>2
    <2> QED
        BY <2>1, <2>2
<1> HIDE DEF q
<1>3. Append(q, c) \in Seq(0..2) /\ Len(Append(q, c)) = Len(q) + 1 /\ Append(q, c)[Len(q) + 1] = c
    BY <1>2
<1>4. Len(q) \in Nat
    BY <1>2
<1> QED
    BY <1>1, <1>2, <1>3, <1>4, EmptySeq DEF Last

\* A notification is read.
LEMMA NoteRead ==
    ASSUME AcmTypes, notes # <<>>
    PROVE  /\ Tail(notes) \in Seq(0..2) /\ Len(Tail(notes)) <= NoteRoom
           /\ Head(notes) \in 0..2
           /\ IF Tail(notes) = <<>> THEN Last(notes) = Head(notes)
              ELSE Last(Tail(notes)) = Last(notes)
<1>1. notes \in Seq(0..2) /\ Len(notes) \in Nat \ {0} /\ Len(notes) <= NoteRoom /\ NoteRoom \in Nat
    BY SerialAssumption DEF AcmTypes
<1>2. /\ Tail(notes) \in Seq(0..2) /\ Len(Tail(notes)) = Len(notes) - 1
      /\ \A i \in 1..Len(notes) - 1 : Tail(notes)[i] = notes[i + 1]
      /\ Head(notes) = notes[1] /\ notes[1] \in 0..2
    BY <1>1
<1> DEFINE t == Tail(notes)
<1>a. t \in Seq(0..2) /\ Len(t) = Len(notes) - 1
    BY <1>2
<1>3. CASE Len(notes) = 1
    <2>0. Len(t) = 0
        BY <1>a, <1>3
    <2> HIDE DEF t
    <2>1. t = <<>>
        BY <1>a, <2>0, EmptySeq
    <2>2. Last(notes) = Head(notes)
        BY <1>2, <1>3 DEF Last
    <2>3. Len(t) <= NoteRoom
        BY <1>1, <2>0
    <2> QED
        BY <1>2, <2>1, <2>2, <2>3 DEF t
<1>4. CASE Len(notes) > 1
    <2>1. /\ Len(notes) - 1 \in 1..Len(notes) - 1 /\ (Len(notes) - 1) + 1 = Len(notes)
        BY <1>1, <1>4
    <2>2. Tail(notes)[Len(notes) - 1] = notes[Len(notes)]
        BY <1>2, <2>1
    <2>3. Tail(notes) # <<>>
        BY <1>1, <1>2, <1>4, EmptySeq
    <2> QED
        BY <1>1, <1>2, <2>2, <2>3 DEF Last
<1>b. \A k \in Nat \ {0} : k = 1 \/ k > 1
    OBVIOUS
<1>5. Len(notes) = 1 \/ Len(notes) > 1
    BY <1>1, <1>b, Zenon
<1> QED
    BY <1>3, <1>4, <1>5

\* A port with no client
LEMMA AcmStarts == AcmInit => AcmInv
<1> SUFFICES ASSUME AcmInit PROVE AcmInv
    OBVIOUS
<1>0. /\ NoteRoom \in Nat /\ MaxAcmReqs \in Nat /\ MaxAcmOuts \in Nat /\ MaxAcmConns \in Nat
    BY SerialAssumption
<1>a. <<>> \in Seq(0..2) /\ <<>> \in Seq(1..nout) /\ Len(<<>>) = 0
    BY EmptySeq
<1>b. notes \in Seq(0..2) /\ Len(notes) = 0 /\ port_received \in Seq(1..nout)
        /\ out_waiting \in Seq(1..nout)
    BY <1>a, Zenon DEF AcmInit
<1>d. acm_up \in BOOLEAN /\ rts_told \in BOOLEAN /\ lines \in [dtr : BOOLEAN, rts : BOOLEAN]
    BY Zenon DEF AcmInit
<1>c. /\ line_coding \in Codings \cup {0} /\ cts \in 0..2 /\ cts_seen \in 0..2
      /\ nacm \in 0..MaxAcmReqs /\ nout \in 0..MaxAcmOuts /\ naconn \in 0..MaxAcmConns
      /\ notes = <<>> /\ out_waiting = <<>>
    BY <1>0 DEF AcmInit, NoSignal
<1>1. AcmTypes
    <2>1. Len(notes) <= NoteRoom
        BY <1>0, <1>b
    <2> QED
        BY <1>b, <1>c, <1>d, <2>1, Zenon DEF AcmTypes
<1>2. AcmLine
    BY EmptySeq DEF AcmInit, AcmLine, Rising
<1> QED
    BY <1>1, <1>2 DEF AcmInit, AcmInv, PortAgrees

\* One action at a time.
LEMMA AcmSteps == AcmInv /\ [AcmNext]_acmVars => AcmInv'
<1> SUFFICES ASSUME AcmInv, [AcmNext]_acmVars PROVE AcmInv'
    OBVIOUS
<1>0. /\ AcmTypes /\ AcmLine /\ PortAgrees /\ NoteRoom \in Nat \ {0} /\ Codings \subseteq Nat \ {0}
      /\ MaxAcmReqs \in Nat /\ MaxAcmOuts \in Nat /\ MaxAcmConns \in Nat /\ nout \in Nat
    BY SerialAssumption DEF AcmInv, AcmTypes
<1>1. CASE AcmConnect
    <2>1. notes' = <<>> /\ out_waiting' = <<>> /\ port_received' = <<>>
        BY <1>0, <1>1 DEF AcmConnect, AcmTypes
    <2>2. AcmTypes'
        BY <1>0, <1>1, <2>1, EmptySeq DEF AcmConnect, AcmTypes, NoSignal
    <2>3. AcmLine'
        BY <1>0, <1>1, <2>1, EmptySeq DEF AcmConnect, AcmLine, Rising, ToSet
    <2>4. PortAgrees'
        BY <1>0, <1>1, <2>1 DEF AcmConnect, PortAgrees
    <2> QED
        BY <2>2, <2>3, <2>4 DEF AcmInv
<1>2. CASE AcmDisconnect
    <2>0. Len(<<>>) = 0 /\ <<>> \in Seq(0..2) /\ <<>> \in Seq(1..nout)
        BY EmptySeq
    <2>a. notes' \in Seq(0..2) /\ Len(notes') = 0 /\ out_waiting' \in Seq(1..nout)
        BY <1>2, <2>0, Zenon DEF AcmDisconnect
    <2>b. Len(notes') <= NoteRoom
        BY <1>0, <2>a
    <2>c. acm_up' \in BOOLEAN
        BY <1>2, Zenon DEF AcmDisconnect
    <2>1. AcmTypes'
        BY <1>0, <1>2, <2>a, <2>b, <2>c, Zenon DEF AcmDisconnect, AcmTypes
    <2>2. AcmLine'
        BY <1>0, <1>2, EmptySeq DEF AcmDisconnect, AcmLine, Rising
    <2>3. PortAgrees'
        BY <1>0, <1>2 DEF AcmDisconnect, PortAgrees
    <2> QED
        BY <2>1, <2>2, <2>3 DEF AcmInv
<1>3. CASE /\ nacm' \in 0..MaxAcmReqs
           /\ UNCHANGED <<acm_up, acmOut, nout, naconn>>
           /\ line_coding' \in Codings \cup {0} /\ line_coding' = coding_set'
           /\ lines' \in [dtr : BOOLEAN, rts : BOOLEAN] /\ rts_told' = lines'.rts
           /\ notes' \in Seq(0..2) /\ Len(notes') <= NoteRoom /\ (notes' # <<>> => acm_up)
           /\ cts' \in 0..2 /\ cts_seen' \in 0..2
           /\ acm_up => cts' = (IF notes' = <<>> THEN cts_seen' ELSE Last(notes'))
    <2>1. AcmTypes'
        BY <1>0, <1>3 DEF AcmTypes, acmOut
    <2>2. AcmLine'
        BY <1>0, <1>3 DEF AcmLine, acmOut
    <2>3. PortAgrees'
        BY <1>0, <1>3 DEF PortAgrees
    <2> QED
        BY <2>1, <2>2, <2>3 DEF AcmInv
<1>4. ASSUME AcmRequest PROVE nacm' \in 0..MaxAcmReqs /\ acm_up
    BY <1>0, <1>4 DEF AcmRequest, AcmTypes
<1>5. ASSUME NEW coding \in Codings, NEW whole \in BOOLEAN, SetLineCoding(coding, whole)
      PROVE  AcmInv'
    BY <1>0, <1>3, <1>4, <1>5 DEF SetLineCoding, FromBytes, AcmTypes, PortAgrees
<1>6. ASSUME NEW dtr \in BOOLEAN, NEW rts \in BOOLEAN, SetControlLineState(dtr, rts)
      PROVE  AcmInv'
    BY <1>0, <1>3, <1>4, <1>6 DEF SetControlLineState, AcmTypes, PortAgrees
<1>7. CASE AcmOtherRequest
    BY <1>0, <1>3, <1>4, <1>7 DEF AcmOtherRequest, acmControl, AcmTypes, PortAgrees
<1>8. ASSUME NEW c \in {0, 1}, SetCts(c) PROVE AcmInv'
    <2>1. /\ notes' \in Seq(0..2) /\ Len(notes') <= NoteRoom /\ notes' # <<>> /\ Last(notes') = c
        BY <1>0, <1>8, NotePushed DEF SetCts
    <2> QED
        BY <1>0, <1>3, <1>4, <1>8, <2>1 DEF SetCts, AcmTypes, PortAgrees
<1>9. CASE HostReadsNote
    <2>1. /\ Tail(notes) \in Seq(0..2) /\ Len(Tail(notes)) <= NoteRoom /\ Head(notes) \in 0..2
          /\ IF Tail(notes) = <<>> THEN Last(notes) = Head(notes)
             ELSE Last(Tail(notes)) = Last(notes)
        BY <1>0, <1>9, NoteRead DEF HostReadsNote
    <2>2. notes' = Tail(notes) /\ cts_seen' = Head(notes) /\ notes # <<>> /\ acm_up
        BY <1>9 DEF HostReadsNote
    <2>3. cts = Last(notes)
        BY <1>0, <2>2 DEF PortAgrees
    <2> QED
        BY <1>0, <1>3, <1>9, <2>1, <2>2, <2>3 DEF HostReadsNote, AcmTypes, PortAgrees
<1>10. CASE AcmBulkOut
    <2>1. /\ acm_up /\ nout' = nout + 1 /\ nout' \in 0..MaxAcmOuts
          /\ UNCHANGED <<acm_up, line_coding, coding_set, lines, rts_told, cts, notes, cts_seen,
                         given_up, nacm, naconn>>
        BY <1>0, <1>10 DEF AcmBulkOut, acmControl, AcmTypes
    <2>2. PortAgrees'
        BY <1>0, <2>1 DEF PortAgrees
    <2>3. /\ port_received \in Seq(1..nout) /\ Rising(port_received)
          /\ out_waiting \in Seq(1..nout) /\ Rising(out_waiting)
        BY <1>0 DEF AcmTypes, AcmLine
    <2>4. 1..nout + 1 = (1..nout) \cup {nout + 1}
        BY <1>0
    <2>5. /\ port_received \in Seq(1..nout + 1) /\ out_waiting \in Seq(1..nout + 1)
          /\ Append(port_received, nout + 1) \in Seq(1..nout + 1)
          /\ Append(out_waiting, nout + 1) \in Seq(1..nout + 1)
          /\ Rising(Append(port_received, nout + 1)) /\ Rising(Append(out_waiting, nout + 1))
          /\ ToSet(Append(port_received, nout + 1)) = ToSet(port_received) \cup {nout + 1}
          /\ ToSet(Append(out_waiting, nout + 1)) = ToSet(out_waiting) \cup {nout + 1}
          /\ \A i \in 1..Len(port_received) : port_received[i] < nout + 1
        BY <1>0, <2>3, RisingAppend
    <2>6. CASE /\ out_waiting = <<>> /\ port_received' = Append(port_received, nout + 1)
               /\ out_done' = Append(out_done, nout + 1) /\ UNCHANGED out_waiting
        <3>1. AcmTypes'
            BY <1>0, <2>1, <2>5, <2>6 DEF AcmTypes
        <3>2. AcmLine'
            BY <1>0, <2>1, <2>4, <2>5, <2>6, EmptySeq DEF AcmLine
        <3> QED
            BY <2>2, <3>1, <3>2 DEF AcmInv
    <2>7. CASE out_waiting' = Append(out_waiting, nout + 1) /\ UNCHANGED <<port_received, out_done>>
        <3>1. AcmTypes'
            BY <1>0, <2>1, <2>5, <2>7 DEF AcmTypes
        <3>2. ASSUME NEW i \in 1..Len(port_received), NEW j \in 1..Len(out_waiting')
              PROVE  port_received[i] < out_waiting'[j]
            <4>1. CASE j \in 1..Len(out_waiting)
                <5>1. out_waiting'[j] = out_waiting[j]
                    BY <2>3, <2>7, <4>1
                <5> QED
                    BY <1>0, <4>1, <5>1 DEF AcmLine
            <4>2. CASE j = Len(out_waiting) + 1
                <5>1. out_waiting'[j] = nout + 1
                    BY <2>3, <2>7, <4>2
                <5> QED
                    BY <2>5, <5>1
            <4>3. j \in 1..Len(out_waiting) \/ j = Len(out_waiting) + 1
                BY <2>3, <2>7
            <4> QED
                BY <4>1, <4>2, <4>3
        <3>3. AcmLine'
            BY <1>0, <2>1, <2>4, <2>5, <2>7, <3>2 DEF AcmLine
        <3> QED
            BY <2>2, <3>1, <3>3 DEF AcmInv
    <2> QED
        BY <1>10, <2>6, <2>7 DEF AcmBulkOut
<1>11. CASE TakeOut
    <2>1. /\ acm_up /\ out_waiting # <<>>
          /\ port_received' = Append(port_received, Head(out_waiting))
          /\ out_done' = Append(out_done, Head(out_waiting)) /\ out_waiting' = Tail(out_waiting)
          /\ UNCHANGED <<acm_up, line_coding, coding_set, lines, rts_told, cts, notes, cts_seen,
                         given_up, nacm, nout, naconn>>
        BY <1>11 DEF TakeOut, acmControl
    <2>2. PortAgrees'
        BY <1>0, <2>1 DEF PortAgrees
    <2>3. /\ port_received \in Seq(1..nout) /\ Rising(port_received)
          /\ out_waiting \in Seq(1..nout) /\ Rising(out_waiting)
          /\ \A i \in 1..Len(port_received), j \in 1..Len(out_waiting) :
                port_received[i] < out_waiting[j]
        BY <1>0 DEF AcmTypes, AcmLine
    <2> DEFINE x == Head(out_waiting)
               t == Tail(out_waiting)
    <2>4. /\ x \in 1..nout /\ x \in ToSet(out_waiting) /\ t \in Seq(1..nout) /\ Rising(t)
          /\ \A i \in 1..Len(t) : x < t[i] /\ \E k \in 1..Len(out_waiting) : t[i] = out_waiting[k]
          /\ ToSet(t) = ToSet(out_waiting) \ {x}
        BY <1>0, <2>1, <2>3, RisingTail
    <2>5. x = out_waiting[1] /\ 1 \in 1..Len(out_waiting)
        BY <2>1, <2>3
    <2> HIDE DEF x, t
    <2>6. \A i \in 1..Len(port_received) : port_received[i] < x
        BY <2>3, <2>5
    <2> DEFINE p == Append(port_received, x)
    <2>7. /\ p \in Seq(1..nout) /\ Rising(p) /\ ToSet(p) = ToSet(port_received) \cup {x}
          /\ Len(p) = Len(port_received) + 1 /\ p[Len(port_received) + 1] = x
          /\ \A i \in 1..Len(port_received) : p[i] = port_received[i]
        BY <1>0, <2>3, <2>4, <2>6, RisingAdds
    <2>8. port_received' = p /\ out_done' = p /\ out_waiting' = t
        BY <1>0, <2>1 DEF p, x, t, AcmLine
    <2> HIDE DEF p
    <2>9. ASSUME NEW i \in 1..Len(p), NEW j \in 1..Len(t) PROVE p[i] < t[j]
        <3>1. CASE i \in 1..Len(port_received)
            BY <2>3, <2>4, <2>7, <3>1
        <3>2. CASE i = Len(port_received) + 1
            BY <2>4, <2>7, <3>2
        <3>3. i \in 1..Len(port_received) \/ i = Len(port_received) + 1
            BY <2>3, <2>7
        <3> QED
            BY <3>1, <3>2, <3>3
    <2>10. ToSet(p) \cup ToSet(t) = ToSet(port_received) \cup ToSet(out_waiting)
        BY <2>4, <2>7
    <2>11. AcmTypes'
        BY <1>0, <2>1, <2>4, <2>7, <2>8 DEF AcmTypes
    <2>12. AcmLine'
        BY <1>0, <2>1, <2>4, <2>7, <2>8, <2>9, <2>10 DEF AcmLine
    <2> QED
        BY <2>2, <2>11, <2>12 DEF AcmInv
<1>12. ASSUME NEW n \in 1..MaxAcmOuts, AcmUnlink(n) PROVE AcmInv'
    <2>1. PICK i \in DOMAIN out_waiting :
              out_waiting[i] = n /\ out_waiting' = RemoveAt(out_waiting, i)
        BY <1>12 DEF AcmUnlink
    <2>2. /\ acm_up /\ given_up' = given_up \cup {n}
          /\ UNCHANGED <<acm_up, line_coding, coding_set, lines, rts_told, cts, notes, cts_seen,
                         port_received, out_done, nacm, nout, naconn>>
        BY <1>12 DEF AcmUnlink, acmControl
    <2>3. PortAgrees'
        BY <1>0, <2>2 DEF PortAgrees
    <2>4. /\ out_waiting \in Seq(1..nout) /\ Rising(out_waiting) /\ i \in 1..Len(out_waiting)
          /\ \A k \in 1..Len(port_received), j \in 1..Len(out_waiting) :
                port_received[k] < out_waiting[j]
        BY <1>0, <2>1 DEF AcmTypes, AcmLine
    <2> DEFINE t == RemoveAt(out_waiting, i)
    <2>b. /\ RemoveAt(out_waiting, i) \in Seq(1..nout) /\ Rising(RemoveAt(out_waiting, i))
          /\ \A j \in 1..Len(RemoveAt(out_waiting, i)) :
                \E k \in 1..Len(out_waiting) : RemoveAt(out_waiting, i)[j] = out_waiting[k]
          /\ ToSet(RemoveAt(out_waiting, i)) = ToSet(out_waiting) \ {out_waiting[i]}
        <3>1. nout \in Nat
            BY <1>0
        <3>2. \A m \in Nat : \A s \in Seq(1..m) : Rising(s) => \A j \in 1..Len(s) :
                /\ RemoveAt(s, j) \in Seq(1..m) /\ Rising(RemoveAt(s, j))
                /\ \A l \in 1..Len(RemoveAt(s, j)) : \E k \in 1..Len(s) : RemoveAt(s, j)[l] = s[k]
                /\ ToSet(RemoveAt(s, j)) = ToSet(s) \ {s[j]}
            BY RisingWithout
        <3> QED
            BY <3>1, <2>4, <3>2, Zenon
    <2>a. /\ t \in Seq(1..nout) /\ Rising(t)
          /\ \A j \in 1..Len(t) : \E k \in 1..Len(out_waiting) : t[j] = out_waiting[k]
          /\ ToSet(t) = ToSet(out_waiting) \ {out_waiting[i]}
        BY <2>b
    <2>5. /\ t \in Seq(1..nout) /\ Rising(t)
          /\ \A j \in 1..Len(t) : \E k \in 1..Len(out_waiting) : t[j] = out_waiting[k]
          /\ ToSet(t) = ToSet(out_waiting) \ {n}
        BY <2>1, <2>a, Zenon
    <2>6. n \in ToSet(out_waiting) /\ out_waiting' = t
        BY <2>1 DEF ToSet
    <2> HIDE DEF t
    <2>7. AcmTypes'
        BY <1>0, <2>2, <2>5, <2>6 DEF AcmTypes
    <2>8. \A k \in 1..Len(port_received), j \in 1..Len(t) : port_received[k] < t[j]
        BY <2>4, <2>5
    <2>9. ToSet(t) \cup (given_up \cup {n}) = ToSet(out_waiting) \cup given_up
        BY <2>5, <2>6
    <2>10. AcmLine'
        BY <1>0, <2>2, <2>5, <2>6, <2>8, <2>9 DEF AcmLine
    <2> QED
        BY <2>3, <2>7, <2>10 DEF AcmInv
<1>13. CASE UNCHANGED acmVars
    BY <1>0, <1>13 DEF acmVars, AcmInv, AcmTypes, AcmLine, PortAgrees
<1> QED
    BY <1>1, <1>2, <1>5, <1>6, <1>7, <1>8, <1>9, <1>10, <1>11, <1>12, <1>13 DEF AcmNext

\* The inductive invariant of the serial port.
THEOREM AcmInductive == AcmSpec => []AcmInv
BY AcmStarts, AcmSteps, PTL DEF AcmSpec

\* What it says of the types.
LEMMA AcmTyped == AcmInv => AcmTypeOK
BY DEF AcmInv, AcmTypes, AcmTypeOK

\* What it says of the OUT data.
LEMMA AcmData == AcmInv => OutDataOnce
<1> SUFFICES ASSUME AcmInv PROVE OutDataOnce
    OBVIOUS
<1>1. DOMAIN port_received = 1..Len(port_received)
    BY DEF AcmInv, AcmTypes
<1> QED
    BY <1>1 DEF AcmInv, AcmLine, OutDataOnce, Rising

\* The data interface, the communication interface and the host agree on the
\* lines, the coding and the newest notification, over connections and at the
\* limit of the channel.
THEOREM AcmAgrees == AcmSpec => []PortAgrees
<1>1. AcmInv => PortAgrees
    BY DEF AcmInv
<1> QED
    BY <1>1, AcmInductive, PTL

\* A suspended OUT transfer is taken once, in its turn, and answered then.
THEOREM AcmDataOnce == AcmSpec => []OutDataOnce
BY AcmData, AcmInductive, PTL

------------------------------------------------------------------------------
(* Network control.  Every response in the queue is of this epoch, and has a *)
(* notification: buffered, or seen by the host and not yet acted upon.       *)

NetResponse == [req : Nat, epoch : Nat]

NetInv ==
    /\ net_kind \in {"rndis", "ecm"} /\ net_up \in BOOLEAN
    /\ rndis_state \in {"Uninitialized", "Initialized", "DataInitialized"}
    /\ packet_filter \in 0..1
    /\ response_queue \in Seq(NetResponse) /\ Len(response_queue) <= ResponseLimit
    /\ notifications \in 0..NoteLimit /\ noticed \in Nat /\ lost_note \in BOOLEAN
    /\ epoch \in Nat /\ nnreq \in Nat
    /\ net_kind = "ecm" => response_queue = <<>>
    /\ ~lost_note => Len(response_queue) <= notifications + noticed
    /\ \A k \in 1..Len(response_queue) : response_queue[k].epoch = epoch

\* enqueue_response, of responses of the epoch e
LEMMA Enqueued ==
    ASSUME NetInv, NEW e \in Nat, NEW q \in Seq(NetResponse), NEW new \in Seq(NetResponse),
           Len(q) <= Len(response_queue),
           \A k \in 1..Len(q) : q[k].epoch = e, \A k \in 1..Len(new) : new[k].epoch = e,
           EnqueueResponse(q, new)
    PROVE  /\ response_queue' \in Seq(NetResponse) /\ Len(response_queue') <= ResponseLimit
           /\ notifications' \in 0..NoteLimit /\ lost_note' \in BOOLEAN
           /\ ~lost_note' => Len(response_queue') <= notifications' + noticed
           /\ \A k \in 1..Len(response_queue') : response_queue'[k].epoch = e
<1> DEFINE all == q \o new
           drop == IF Len(all) > ResponseLimit THEN Len(all) - ResponseLimit ELSE 0
<1>1. /\ ResponseLimit \in Nat \ {0} /\ NoteLimit \in Nat \ {0}
      /\ Len(q) \in Nat /\ Len(new) \in Nat /\ Len(response_queue) \in Nat
      /\ notifications \in 0..NoteLimit /\ noticed \in Nat
    BY NetworkAssumption DEF NetInv
<1>2. /\ all \in Seq(NetResponse) /\ Len(all) = Len(q) + Len(new)
      /\ \A k \in 1..Len(q) + Len(new) : all[k] = IF k <= Len(q) THEN q[k] ELSE new[k - Len(q)]
    OBVIOUS
<1>3. \A k \in 1..Len(all) : all[k].epoch = e
    <2> TAKE k \in 1..Len(all)
    <2>1. CASE k <= Len(q)
        BY <1>1, <1>2, <2>1
    <2>2. CASE k > Len(q)
        <3>1. k - Len(q) \in 1..Len(new)
            BY <1>1, <1>2, <2>2
        <3> QED
            BY <1>1, <1>2, <2>2, <3>1
    <2> QED
        BY <1>1, <1>2, <2>1, <2>2
<1> HIDE DEF all
<1>4. drop \in 0..Len(all) /\ Len(all) - drop <= ResponseLimit
    BY <1>1, <1>2
<1>5. /\ response_queue' = SubSeq(all, drop + 1, Len(all))
      /\ notifications' = IF notifications + Len(new) > NoteLimit THEN NoteLimit
                          ELSE notifications + Len(new)
      /\ lost_note' = (lost_note \/ notifications + Len(new) > NoteLimit)
    BY DEF EnqueueResponse, all
<1> HIDE DEF drop
<1>6. /\ response_queue' \in Seq(NetResponse) /\ Len(response_queue') = Len(all) - drop
      /\ \A k \in 1..Len(all) - drop : response_queue'[k] = all[drop + k]
    BY <1>1, <1>2, <1>4, <1>5
<1>7. \A k \in 1..Len(response_queue') : response_queue'[k].epoch = e
    <2> TAKE k \in 1..Len(response_queue')
    <2>1. k \in 1..Len(all) - drop /\ drop + k \in 1..Len(all)
        BY <1>1, <1>2, <1>4, <1>6
    <2> QED
        BY <1>3, <1>6, <2>1
<1>8. Len(response_queue') <= ResponseLimit /\ Len(response_queue') <= Len(q) + Len(new)
    BY <1>1, <1>2, <1>4, <1>6
<1>9. notifications' \in 0..NoteLimit
    BY <1>1, <1>5
<1>10. lost_note' \in BOOLEAN
    BY <1>5, Zenon
<1>11. ASSUME ~lost_note' PROVE Len(response_queue') <= notifications' + noticed
    <2>1. ~lost_note /\ ~(notifications + Len(new) > NoteLimit)
        BY <1>5, <1>11
    <2>2. Len(response_queue) <= notifications + noticed
        BY <2>1 DEF NetInv
    <2>3. notifications' = notifications + Len(new)
        BY <1>5, <2>1
    <2>4. Len(response_queue') \in Nat
        BY <1>6
    <2> QED
        BY <1>1, <1>8, <2>2, <2>3, <2>4
<1> QED
    BY <1>6, <1>7, <1>8, <1>9, <1>10, <1>11

\* No response before the first command
LEMMA NetStarts == NetInit => NetInv
<1> SUFFICES ASSUME NetInit PROVE NetInv
    OBVIOUS
<1>1. /\ net_up \in BOOLEAN /\ lost_note \in BOOLEAN
      /\ rndis_state \in {"Uninitialized", "Initialized", "DataInitialized"}
    BY Zenon DEF NetInit
<1>2. <<>> \in Seq(NetResponse) /\ Len(<<>>) = 0
    BY EmptySeq
<1>3. response_queue \in Seq(NetResponse) /\ Len(response_queue) = 0 /\ response_queue = <<>>
    BY <1>2, Zenon DEF NetInit
<1>4. /\ net_kind \in {"rndis", "ecm"} /\ packet_filter \in 0..1 /\ notifications \in 0..NoteLimit
      /\ noticed \in Nat /\ epoch \in Nat /\ nnreq \in Nat /\ ResponseLimit \in Nat
    BY NetworkAssumption DEF NetInit
<1>5. /\ Len(response_queue) <= ResponseLimit /\ Len(response_queue) <= notifications + noticed
      /\ \A k \in 1..Len(response_queue) : FALSE
    BY <1>3, <1>4
<1> QED
    BY <1>1, <1>3, <1>4, <1>5, Zenon DEF NetInv

\* One action at a time.
LEMMA NetSteps == NetInv /\ [NetNext]_netVars => NetInv'
<1> SUFFICES ASSUME NetInv, [NetNext]_netVars PROVE NetInv'
    OBVIOUS
<1>0. /\ ResponseLimit \in Nat \ {0} /\ NoteLimit \in Nat \ {0}
      /\ <<>> \in Seq(NetResponse) /\ Len(<<>>) = 0
    BY NetworkAssumption, EmptySeq
<1>a. /\ net_kind \in {"rndis", "ecm"} /\ net_up \in BOOLEAN
      /\ rndis_state \in {"Uninitialized", "Initialized", "DataInitialized"}
      /\ packet_filter \in 0..1
      /\ response_queue \in Seq(NetResponse) /\ Len(response_queue) <= ResponseLimit
      /\ notifications \in 0..NoteLimit /\ noticed \in Nat /\ lost_note \in BOOLEAN
      /\ epoch \in Nat /\ nnreq \in Nat /\ Len(response_queue) \in Nat
      /\ net_kind = "ecm" => response_queue = <<>>
      /\ ~lost_note => Len(response_queue) <= notifications + noticed
      /\ \A k \in 1..Len(response_queue) : response_queue[k].epoch = epoch
    BY DEF NetInv
\* Responses are dropped, whatever else.
<1>1. ASSUME ResetDeviceState, UNCHANGED net_kind, net_up' \in BOOLEAN, lost_note' \in BOOLEAN,
             notifications' \in 0..NoteLimit, noticed' \in Nat, epoch' \in Nat, nnreq' \in Nat
      PROVE  NetInv'
    <2>1. /\ response_queue' = <<>> /\ packet_filter' \in 0..1
          /\ rndis_state' \in {"Uninitialized", "Initialized", "DataInitialized"}
        BY <1>a, <1>1 DEF ResetDeviceState
    <2>2. response_queue' \in Seq(NetResponse) /\ Len(response_queue') = 0
        BY <1>0, <2>1, Zenon
    <2>3. notifications' \in Nat /\ noticed' \in Nat
        BY <1>0, <1>1
    <2>4. /\ 0 <= ResponseLimit /\ 0 <= notifications' + noticed'
          /\ \A k \in 1..0 : FALSE
        <3>1. \A a, b \in Nat : 0 <= a + b
            OBVIOUS
        <3>4. 0 <= ResponseLimit
            BY <1>0
        <3>2. 0 <= ResponseLimit /\ 0 <= notifications' + noticed'
            BY <2>3, <3>1, <3>4, Zenon
        <3>3. \A k \in 1..0 : FALSE
            OBVIOUS
        <3> QED
            BY <3>2, <3>3
    <2>5. /\ Len(response_queue') <= ResponseLimit /\ Len(response_queue') <= notifications' + noticed'
          /\ \A k \in 1..Len(response_queue') : FALSE
        BY <2>2, <2>4, Zenon
    <2> QED
        BY <1>a, <1>1, <2>1, <2>2, <2>5, Zenon DEF NetInv
<1>2. CASE NetConnect
    <2>1. net_up' \in BOOLEAN /\ lost_note' \in BOOLEAN
        BY <1>2, Zenon DEF NetConnect
    <2> QED
        BY <1>a, <1>1, <1>2, <2>1 DEF NetConnect
<1>3. CASE NetDisconnect
    <2>1. net_up' \in BOOLEAN
        BY <1>3, Zenon DEF NetDisconnect
    <2> QED
        BY <1>0, <1>a, <1>1, <1>3, <2>1 DEF NetDisconnect
<1>4. CASE RndisHalt
    BY <1>a, <1>1, <1>4 DEF RndisHalt, Encapsulated
\* Responses are added.
<1>5. ASSUME NEW e \in Nat, NEW q \in Seq(NetResponse), NEW new \in Seq(NetResponse),
             Len(q) <= Len(response_queue),
             \A k \in 1..Len(q) : q[k].epoch = e, \A k \in 1..Len(new) : new[k].epoch = e,
             EnqueueResponse(q, new), epoch' = e, Encapsulated, UNCHANGED <<noticed, net_kind, net_up>>,
             packet_filter' \in 0..1,
             rndis_state' \in {"Uninitialized", "Initialized", "DataInitialized"}
      PROVE  NetInv'
    <2>1. /\ response_queue' \in Seq(NetResponse) /\ Len(response_queue') <= ResponseLimit
          /\ notifications' \in 0..NoteLimit /\ lost_note' \in BOOLEAN
          /\ ~lost_note' => Len(response_queue') <= notifications' + noticed
          /\ \A k \in 1..Len(response_queue') : response_queue'[k].epoch = e
        BY <1>5, Enqueued
    <2>2. net_kind' = "rndis" /\ nnreq' \in Nat
        BY <1>a, <1>5 DEF Encapsulated
    <2> QED
        BY <1>a, <1>5, <2>1, <2>2 DEF NetInv
<1>6. /\ NewResponse \in NetResponse /\ NewResponse.epoch = epoch
      /\ [NewResponse EXCEPT !.epoch = epoch + 1] \in NetResponse
      /\ [NewResponse EXCEPT !.epoch = epoch + 1].epoch = epoch + 1
    BY <1>a DEF NewResponse, NetResponse
<1>7. ASSUME NEW r \in NetResponse
      PROVE  /\ <<r>> \in Seq(NetResponse) /\ Len(<<r>>) = 1 /\ <<r>>[1] = r
             /\ <<r, r>> \in Seq(NetResponse) /\ Len(<<r, r>>) = 2
             /\ <<r, r>>[1] = r /\ <<r, r>>[2] = r
    OBVIOUS
<1>8. CASE RndisInitialize
    <2> DEFINE r == NewResponse
               two == <<r, r>>
    <2>1. two \in Seq(NetResponse) /\ \A k \in 1..Len(two) : two[k].epoch = epoch
        <3>1. /\ two \in Seq(NetResponse) /\ Len(two) = 2 /\ two[1] = r /\ two[2] = r
            BY <1>6, <1>7
        <3> HIDE DEF two, r
        <3>2. \A k \in 1..2 : k = 1 \/ k = 2
            OBVIOUS
        <3> QED
            BY <1>6, <3>1, <3>2 DEF r
    <2> HIDE DEF two
    <2>2. EnqueueResponse(response_queue, two)
        BY <1>8 DEF RndisInitialize, two
    <2>3. /\ packet_filter' \in 0..1 /\ Encapsulated /\ UNCHANGED <<noticed, net_kind, net_up, epoch>>
          /\ rndis_state' \in {"Uninitialized", "Initialized", "DataInitialized"}
        BY <1>a, <1>8 DEF RndisInitialize
    <2>4. epoch \in Nat /\ response_queue \in Seq(NetResponse) /\ Len(response_queue) <= Len(response_queue)
          /\ \A k \in 1..Len(response_queue) : response_queue[k].epoch = epoch
        BY <1>a
    <2> QED
        BY <1>5, <2>1, <2>2, <2>3, <2>4
<1>9. ASSUME NEW r \in NetResponse
      PROVE  <<r>> \in Seq(NetResponse) /\ \A k \in 1..Len(<<r>>) : <<r>>[k].epoch = r.epoch
    <2>1. <<r>> \in Seq(NetResponse) /\ Len(<<r>>) = 1 /\ <<r>>[1] = r
        BY <1>7
    <2> DEFINE s == <<r>>
    <2> HIDE DEF s
    <2>2. s \in Seq(NetResponse) /\ Len(s) = 1 /\ s[1] = r
        BY <2>1 DEF s
    <2>3. \A k \in 1..Len(s) : s[k].epoch = r.epoch
        BY <2>2
    <2> QED
        BY <2>2, <2>3 DEF s
<1> DEFINE n == <<NewResponse>>
           z == <<[NewResponse EXCEPT !.epoch = epoch + 1]>>
<1>10. n \in Seq(NetResponse) /\ \A k \in 1..Len(n) : n[k].epoch = epoch
    BY <1>6, <1>9, Zenon
<1>11. z \in Seq(NetResponse) /\ \A k \in 1..Len(z) : z[k].epoch = epoch + 1
    BY <1>6, <1>9, Zenon
<1> HIDE DEF n, z
<1>12. CASE RndisQuery
    <2>1. EnqueueResponse(response_queue, n)
        BY <1>12 DEF RndisQuery, n
    <2>3. /\ packet_filter' \in 0..1 /\ Encapsulated /\ UNCHANGED <<noticed, net_kind, net_up, epoch>>
          /\ rndis_state' \in {"Uninitialized", "Initialized", "DataInitialized"}
        BY <1>a, <1>12 DEF RndisQuery
    <2>4. epoch \in Nat /\ response_queue \in Seq(NetResponse) /\ Len(response_queue) <= Len(response_queue)
          /\ \A k \in 1..Len(response_queue) : response_queue[k].epoch = epoch
        BY <1>a
    <2> QED
        BY <1>5, <1>10, <2>1, <2>3, <2>4
<1>13. ASSUME NEW f \in 0..1, RndisSetFilter(f) PROVE NetInv'
    <2>1. EnqueueResponse(response_queue, n)
        BY <1>13 DEF RndisSetFilter, n
    <2>2. /\ packet_filter' \in 0..1 /\ Encapsulated
          /\ rndis_state' \in {"Uninitialized", "Initialized", "DataInitialized"}
        BY <1>13 DEF RndisSetFilter
    <2>3. UNCHANGED <<noticed, net_kind, net_up, epoch>>
        BY <1>13 DEF RndisSetFilter
    <2>4. epoch \in Nat /\ response_queue \in Seq(NetResponse) /\ Len(response_queue) <= Len(response_queue)
          /\ \A k \in 1..Len(response_queue) : response_queue[k].epoch = epoch
        BY <1>a
    <2> QED
        BY <1>5, <1>10, <2>1, <2>2, <2>3, <2>4
<1>14. CASE RndisReset
    <2>1. EnqueueResponse(<<>>, z)
        BY <1>14 DEF RndisReset, z
    <2>2. epoch + 1 \in Nat /\ Len(<<>>) <= Len(response_queue) /\ \A k \in 1..Len(<<>>) : FALSE
        BY <1>a, <1>0
    <2> QED
        BY <1>0, <1>a, <1>5, <1>11, <1>14, <2>1, <2>2 DEF RndisReset
\* What is left leaves the queue, or takes its head.
<1>15. CASE RndisBadMessage
    BY <1>a, <1>15 DEF RndisBadMessage, Encapsulated, NetInv
<1>16. CASE HostNotified
    BY <1>a, <1>0, <1>16 DEF HostNotified, NetInv
<1>17. CASE GetResponse
    <2> DEFINE t == IF response_queue = <<>> THEN <<>> ELSE Tail(response_queue)
    <2>1. /\ t \in Seq(NetResponse) /\ Len(t) <= Len(response_queue) /\ Len(t) \in Nat
          /\ (t = <<>> /\ Len(t) = 0) \/ Len(t) = Len(response_queue) - 1
          /\ \A k \in 1..Len(t) : t[k].epoch = epoch
        <3>1. CASE response_queue = <<>>
            BY <1>0, <1>a, <3>1
        <3>2. CASE response_queue # <<>>
            <4>1. /\ t = Tail(response_queue) /\ t \in Seq(NetResponse)
                  /\ Len(t) = Len(response_queue) - 1
                  /\ \A k \in 1..Len(response_queue) - 1 :
                        t[k] = response_queue[k + 1] /\ k + 1 \in 1..Len(response_queue)
                BY <1>a, <3>2
            <4> QED
                BY <1>a, <3>2, <4>1
        <3> QED
            BY <3>1, <3>2
    <2> HIDE DEF t
    <2>2. /\ response_queue' = t /\ noticed' = noticed - 1 /\ noticed > 0 /\ net_kind = "rndis"
          /\ UNCHANGED <<rndis_state, packet_filter, notifications, lost_note, epoch, nnreq,
                         net_kind, net_up>>
        BY <1>17 DEF GetResponse, t
    <2>3. Len(t) <= ResponseLimit /\ noticed - 1 \in Nat
        BY <1>0, <1>a, <2>1, <2>2
    <2>4. ~lost_note => Len(t) <= notifications + (noticed - 1)
        <3>1. notifications \in Nat
            BY <1>0, <1>a
        <3> QED
            BY <1>a, <2>1, <2>2, <2>3, <3>1
    <2> QED
        BY <1>a, <2>1, <2>2, <2>3, <2>4, Zenon DEF NetInv
<1>18. ASSUME NEW f \in 0..1, EcmSetFilter(f) PROVE NetInv'
    BY <1>a, <1>18 DEF EcmSetFilter, NetInv
<1>19. CASE EcmNotify
    <2>1. /\ response_queue' = <<>> /\ UNCHANGED response_queue /\ notifications' \in 0..NoteLimit
          /\ nnreq' \in Nat /\ net_kind = "ecm"
          /\ UNCHANGED <<rndis_state, packet_filter, noticed, lost_note, epoch, net_kind, net_up>>
        BY <1>0, <1>a, <1>19 DEF EcmNotify
    <2>2. Len(response_queue) = 0
        BY <1>0, <2>1, Zenon
    <2>3. Len(response_queue) <= notifications' + noticed
        <3>1. notifications' \in Nat /\ noticed \in Nat
            BY <1>0, <1>a, <2>1
        <3>3. \A a, b \in Nat : 0 <= a + b
            OBVIOUS
        <3>2. 0 <= notifications' + noticed
            BY <3>1, <3>3, Zenon
        <3> QED
            BY <2>2, <3>2, Zenon
    <2> QED
        BY <1>a, <2>1, <2>3, Zenon DEF NetInv
<1>20. CASE UNCHANGED netVars
    BY <1>a, <1>20 DEF netVars, NetInv
<1> QED
    BY <1>2, <1>3, <1>4, <1>8, <1>12, <1>13, <1>14, <1>15, <1>16, <1>17, <1>18, <1>19, <1>20
       DEF NetNext

\* The inductive invariant of the network control.
THEOREM NetInductive == NetSpec => []NetInv
BY NetStarts, NetSteps, PTL DEF NetSpec

\* What it says of the responses and of the types.
LEMMA NetSafe == NetInv => NetTypeOK /\ ResponseAnnounced /\ NoStaleResponse
<1> SUFFICES ASSUME NetInv PROVE NetTypeOK /\ ResponseAnnounced /\ NoStaleResponse
    OBVIOUS
<1>1. DOMAIN response_queue = 1..Len(response_queue)
    BY DEF NetInv
<1> QED
    BY <1>1 DEF NetInv, NetTypeOK, ResponseAnnounced, NoStaleResponse

------------------------------------------------------------------------------
(* The data of a network adapter.                                            *)

\* What the transfers of the host are taken to be: unwrapping one gives the
\* frames it is said to carry.
FramesKnown == \A t \in OutTransfers : UnwrapRndisPackets(t) = t.frames /\ t.frames \in Seq(Nat \ {0})

\* The frames that the host sent in OUT transfer n
SentFrames(n) == IF data_kind = "rndis" THEN outs[n].frames ELSE <<1>>

\* Of a transfer that waits the device has been given the first frames, and of
\* one that is answered all of them, after the first a second time.
Given(n) == \E k \in 0..Len(SentFrames(n)) : delivered[n] = SubSeq(SentFrames(n), 1, k)
GivenAll(n) == \E k \in 0..Len(SentFrames(n)) : delivered[n] = SubSeq(SentFrames(n), 1, k) \o SentFrames(n)

DataTypes ==
    /\ data_up \in BOOLEAN
    /\ outs \in Seq(OutTransfers)
    /\ delivered \in Seq(Seq(Nat \ {0})) /\ Len(delivered) = Len(outs)
    /\ out_channel \in Seq(1..Len(outs)) /\ Rising(out_channel)
    /\ acked \subseteq 1..Len(outs)

\* The channel is empty when no client is there, so that no transfer of one
\* client is taken for one of the next; a transfer waits or is answered.
DataPlaces ==
    /\ ~data_up => out_channel = <<>>
    /\ data_up => acked \cup ToSet(out_channel) = 1..Len(outs)
    /\ acked \cap ToSet(out_channel) = {}

DataInv ==
    /\ DataTypes /\ DataPlaces
    /\ \A n \in ToSet(out_channel) : Given(n)
    /\ \A n \in acked : GivenAll(n)

\* The empty channel
LEMMA NothingWaits ==
    ASSUME NEW n \in Nat
    PROVE  /\ <<>> \in Seq(1..n) /\ Rising(<<>>) /\ ToSet(<<>>) = {} /\ Len(<<>>) = 0
<1> DEFINE e == <<>>
<1>1. e \in Seq(1..n) /\ Len(e) = 0 /\ DOMAIN e = {}
    BY EmptySeq
<1> HIDE DEF e
<1>2. Rising(e) /\ ToSet(e) = {}
    BY <1>1 DEF Rising, ToSet
<1> QED
    BY <1>1, <1>2 DEF e

\* The frames of a transfer, of which the device has been given some
LEMMA FramesOf ==
    ASSUME FramesKnown, NEW t \in OutTransfers
    PROVE  /\ Frames(t) \in Seq(Nat \ {0})
           /\ Frames(t) = IF data_kind = "rndis" THEN t.frames ELSE <<1>>
           /\ Len(Frames(t)) \in Nat
           /\ \A k \in 0..Len(Frames(t)) : SubSeq(Frames(t), 1, k) \in Seq(Nat \ {0})
           /\ SubSeq(Frames(t), 1, 0) \o Frames(t) = Frames(t)
           /\ SubSeq(Frames(t), 1, Len(Frames(t))) = Frames(t)
<1> DEFINE f == Frames(t)
<1>0. <<1>> \in Seq(Nat \ {0})
    OBVIOUS
<1>1. f \in Seq(Nat \ {0}) /\ f = IF data_kind = "rndis" THEN t.frames ELSE <<1>>
    BY <1>0, Zenon DEF FramesKnown, Frames
<1> HIDE DEF f
<1>2. /\ Len(f) \in Nat
      /\ \A k \in 0..Len(f) : SubSeq(f, 1, k) \in Seq(Nat \ {0})
    BY <1>1
<1>3. SubSeq(f, 1, 0) = <<>>
    BY <1>1
<1>4. <<>> \o f = f
    BY <1>1, ConcatEmptySeq
<1>5. SubSeq(f, 1, Len(f)) = f
    BY <1>1, SubSeqFull
<1>6. SubSeq(f, 1, 0) \o f = f
    BY <1>3, <1>4, Zenon
<1> QED
    BY <1>1, <1>2, <1>5, <1>6 DEF f

\* Nothing was sent.
LEMMA DataStarts == DataInit => DataInv
<1> SUFFICES ASSUME DataInit PROVE DataInv
    OBVIOUS
<1>1. /\ data_up = FALSE /\ out_channel = <<>> /\ delivered = <<>> /\ acked = {} /\ outs = <<>>
    BY DEF DataInit
<1>2. /\ outs \in Seq(OutTransfers) /\ Len(outs) = 0 /\ delivered \in Seq(Seq(Nat \ {0}))
      /\ Len(delivered) = 0
    BY <1>1, EmptySeq, Zenon
<1>3. out_channel \in Seq(1..Len(outs)) /\ Rising(out_channel) /\ ToSet(out_channel) = {}
    BY <1>1, <1>2, NothingWaits, 0 \in Nat, Zenon
<1>4. data_up \in BOOLEAN /\ ~data_up
    BY <1>1, Zenon
<1> QED
    BY <1>1, <1>2, <1>3, <1>4, Zenon DEF DataInv, DataTypes, DataPlaces

\* One more transfer leaves those before it.
LEMMA OneMoreTransfer ==
    ASSUME DataTypes, NEW t \in OutTransfers, NEW fs \in Seq(Nat \ {0}), OutTransfer(t, fs),
           UNCHANGED data_kind
    PROVE  /\ Len(outs) \in Nat /\ Len(outs') = Len(outs) + 1
           /\ outs' \in Seq(OutTransfers) /\ delivered' \in Seq(Seq(Nat \ {0}))
           /\ Len(delivered') = Len(outs')
           /\ data_up
           /\ \A n \in 1..Len(outs) : /\ (Given(n) => Given(n)') /\ (GivenAll(n) => GivenAll(n)')
           /\ outs'[Len(outs) + 1] = t /\ delivered'[Len(outs) + 1] = fs
           /\ \A k \in Nat : k # Len(outs) + 1 /\ k \in 1..Len(outs) + 1 => k \in 1..Len(outs)
           /\ Len(outs) + 1 \in 1..Len(outs) + 1 /\ Len(outs) + 1 \notin 1..Len(outs)
           /\ 1..Len(outs) + 1 = 1..Len(outs) \cup {Len(outs) + 1}
<1>1. /\ outs' = Append(outs, t) /\ delivered' = Append(delivered, fs) /\ data_up
      /\ outs \in Seq(OutTransfers) /\ delivered \in Seq(Seq(Nat \ {0})) /\ Len(delivered) = Len(outs)
      /\ Len(outs) \in Nat
    BY DEF OutTransfer, DataTypes
<1>2. /\ Len(outs') = Len(outs) + 1 /\ outs' \in Seq(OutTransfers)
      /\ outs'[Len(outs) + 1] = t /\ \A n \in 1..Len(outs) : outs'[n] = outs[n]
    BY <1>1
<1>3. /\ Len(delivered') = Len(delivered) + 1 /\ delivered' \in Seq(Seq(Nat \ {0}))
      /\ delivered'[Len(delivered) + 1] = fs
      /\ \A n \in 1..Len(delivered) : delivered'[n] = delivered[n]
    BY <1>1
<1>4. \A n \in 1..Len(outs) : /\ (Given(n) => Given(n)') /\ (GivenAll(n) => GivenAll(n)')
    BY <1>1, <1>2, <1>3, Zenon DEF Given, GivenAll, SentFrames
<1>5. /\ \A k \in Nat : k # Len(outs) + 1 /\ k \in 1..Len(outs) + 1 => k \in 1..Len(outs)
      /\ Len(outs) + 1 \in 1..Len(outs) + 1 /\ Len(outs) + 1 \notin 1..Len(outs)
      /\ 1..Len(outs) + 1 = 1..Len(outs) \cup {Len(outs) + 1}
    BY <1>1
<1>6. delivered'[Len(outs) + 1] = fs /\ Len(delivered') = Len(outs')
    BY <1>1, <1>2, <1>3, Zenon
<1> QED
    BY <1>1, <1>2, <1>3, <1>4, <1>5, <1>6, Zenon

\* It is answered at once,
LEMMA TransferAnswered ==
    ASSUME FramesKnown, DataInv, NEW t \in OutTransfers, OutTransfer(t, Frames(t)),
           UNCHANGED <<data_kind, data_up, out_channel>>, acked' = acked \cup {Len(outs) + 1}
    PROVE  DataInv'
<1> PICK L : L = Len(outs) + 1
    OBVIOUS
<1>1. /\ Frames(t) \in Seq(Nat \ {0}) /\ Len(Frames(t)) \in Nat
      /\ Frames(t) = IF data_kind = "rndis" THEN t.frames ELSE <<1>>
      /\ SubSeq(Frames(t), 1, 0) \o Frames(t) = Frames(t)
    BY FramesOf
<1>2. /\ Len(outs) \in Nat /\ Len(outs') = L
      /\ outs' \in Seq(OutTransfers) /\ delivered' \in Seq(Seq(Nat \ {0}))
      /\ Len(delivered') = Len(outs')
      /\ data_up
      /\ \A n \in 1..Len(outs) : /\ (Given(n) => Given(n)') /\ (GivenAll(n) => GivenAll(n)')
      /\ outs'[L] = t /\ delivered'[L] = Frames(t)
      /\ L \notin 1..Len(outs) /\ L \in 1..L /\ 1..L = 1..Len(outs) \cup {L}
    BY <1>1, OneMoreTransfer DEF DataInv
<1>3. /\ out_channel \in Seq(1..Len(outs)) /\ Rising(out_channel)
      /\ out_channel \in Seq(1..L)
      /\ ToSet(out_channel) \subseteq 1..Len(outs) /\ acked \subseteq 1..Len(outs)
      /\ acked \cup ToSet(out_channel) = 1..Len(outs) /\ acked \cap ToSet(out_channel) = {}
    <2>1. out_channel \in Seq(1..L)
        BY <1>2, RisingAppend DEF DataInv, DataTypes
    <2> QED
        BY <1>2, <2>1, Zenon DEF DataInv, DataTypes, DataPlaces
<1>4. DataTypes' /\ DataPlaces'
    <2>1. data_up' \in BOOLEAN /\ data_up'
        BY <1>2 DEF DataInv, DataTypes
    <2>2. acked' = acked \cup {L} /\ out_channel' = out_channel
        OBVIOUS
    <2>3. /\ acked' \cup ToSet(out_channel) = 1..L /\ acked' \subseteq 1..L
          /\ acked' \cap ToSet(out_channel) = {}
        BY <1>2, <1>3, <2>2, Zenon
    <2> QED
        BY <1>2, <1>3, <2>1, <2>2, <2>3, Zenon DEF DataTypes, DataPlaces
<1>5. GivenAll(L)'
    <2>1. SentFrames(L)' = Frames(t)
        BY <1>1, <1>2, Zenon DEF SentFrames
    <2>2. 0 \in 0..Len(Frames(t))
        BY <1>1
    <2> QED
        BY <1>1, <1>2, <2>1, <2>2, Zenon DEF GivenAll
<1>6. \A n \in acked' : GivenAll(n)'
    <2>1. acked' = acked \cup {L}
        OBVIOUS
    <2> QED
        BY <1>2, <1>3, <1>5, <2>1, Zenon DEF DataInv
<1>7. \A n \in ToSet(out_channel') : Given(n)'
    BY <1>2, <1>3, Zenon DEF DataInv
<1> QED
    BY <1>4, <1>6, <1>7 DEF DataInv

\* or it waits.
LEMMA TransferWaits ==
    ASSUME FramesKnown, DataInv, NEW t \in OutTransfers, NEW k \in 0..Len(Frames(t)),
           OutTransfer(t, SubSeq(Frames(t), 1, k)),
           UNCHANGED <<data_kind, data_up, acked>>, out_channel' = Append(out_channel, Len(outs) + 1)
    PROVE  DataInv'
<1> PICK L : L = Len(outs) + 1
    OBVIOUS
<1> DEFINE fs == SubSeq(Frames(t), 1, k)
<1>1. /\ Frames(t) \in Seq(Nat \ {0}) /\ Len(Frames(t)) \in Nat
      /\ Frames(t) = IF data_kind = "rndis" THEN t.frames ELSE <<1>>
      /\ fs \in Seq(Nat \ {0})
    BY FramesOf
<1>2. /\ Len(outs) \in Nat /\ Len(outs') = L
      /\ outs' \in Seq(OutTransfers) /\ delivered' \in Seq(Seq(Nat \ {0}))
      /\ Len(delivered') = Len(outs')
      /\ data_up
      /\ \A n \in 1..Len(outs) : /\ (Given(n) => Given(n)') /\ (GivenAll(n) => GivenAll(n)')
      /\ outs'[L] = t /\ delivered'[L] = fs
      /\ L \notin 1..Len(outs) /\ L \in 1..L /\ 1..L = 1..Len(outs) \cup {L}
    BY <1>1, OneMoreTransfer DEF DataInv
<1>3. /\ out_channel' \in Seq(1..L) /\ Rising(out_channel')
      /\ ToSet(out_channel') = ToSet(out_channel) \cup {L}
    BY <1>2, RisingAppend DEF DataInv, DataTypes
<1>4. /\ ToSet(out_channel) \subseteq 1..Len(outs) /\ acked \subseteq 1..Len(outs)
      /\ acked \cup ToSet(out_channel) = 1..Len(outs) /\ acked \cap ToSet(out_channel) = {}
    BY <1>2, Zenon DEF DataInv, DataTypes, DataPlaces
<1> HIDE DEF fs
<1>5. DataTypes' /\ DataPlaces'
    <2>1. data_up' \in BOOLEAN /\ data_up' /\ acked' = acked
        BY <1>2 DEF DataInv, DataTypes
    <2>2. /\ acked \cup ToSet(out_channel') = 1..L /\ acked \subseteq 1..L
          /\ acked \cap ToSet(out_channel') = {}
        BY <1>2, <1>3, <1>4, Zenon
    <2> QED
        BY <1>2, <1>3, <2>1, <2>2, Zenon DEF DataTypes, DataPlaces
<1>6. Given(L)'
    <2>1. SentFrames(L)' = Frames(t)
        BY <1>1, <1>2, Zenon DEF SentFrames
    <2> QED
        BY <1>2, <2>1, Zenon DEF Given, fs
<1>7. \A n \in ToSet(out_channel') : Given(n)'
    BY <1>2, <1>3, <1>4, <1>6, Zenon DEF DataInv
<1>8. \A n \in acked' : GivenAll(n)'
    BY <1>2, <1>4, Zenon DEF DataInv
<1> QED
    BY <1>5, <1>7, <1>8 DEF DataInv

\* The transfer that waited longest is taken whole.
LEMMA TransferTaken ==
    ASSUME FramesKnown, DataInv, TakeFrame
    PROVE DataInv'
<1> PICK n : n = Head(out_channel)
    OBVIOUS
<1>1. /\ out_channel \in Seq(1..Len(outs)) /\ Len(outs) \in Nat /\ Rising(out_channel)
      /\ out_channel # <<>> /\ out_channel' = Tail(out_channel) /\ acked' = acked \cup {n}
      /\ delivered' = [delivered EXCEPT ![n] = @ \o Frames(outs[n])]
      /\ UNCHANGED <<outs, data_kind, data_up>>
      /\ outs \in Seq(OutTransfers) /\ delivered \in Seq(Seq(Nat \ {0})) /\ Len(delivered) = Len(outs)
    BY DEF TakeFrame, DataInv, DataTypes
<1>2. /\ n \in 1..Len(outs) /\ n \in ToSet(out_channel)
      /\ out_channel' \in Seq(1..Len(outs)) /\ Rising(out_channel')
      /\ ToSet(out_channel') = ToSet(out_channel) \ {n}
    BY <1>1, RisingTail
<1>3. outs[n] \in OutTransfers /\ delivered[n] \in Seq(Nat \ {0})
    BY <1>1, <1>2
<1>4. /\ Frames(outs[n]) \in Seq(Nat \ {0}) /\ SentFrames(n) = Frames(outs[n])
    BY <1>3, FramesOf DEF SentFrames
<1> DEFINE d == delivered[n] \o Frames(outs[n])
<1>5. d \in Seq(Nat \ {0})
    BY <1>3, <1>4
<1>6. /\ delivered' = [delivered EXCEPT ![n] = d]
      /\ delivered' \in Seq(Seq(Nat \ {0})) /\ Len(delivered') = Len(outs)
      /\ delivered'[n] = d /\ \A i \in 1..Len(outs) : i # n => delivered'[i] = delivered[i]
    <2>1. delivered' = [delivered EXCEPT ![n] = d]
        BY <1>1
    <2> HIDE DEF d
    <2>2. n \in 1..Len(delivered) /\ DOMAIN delivered = 1..Len(delivered)
        BY <1>1, <1>2
    <2>3. delivered' \in Seq(Seq(Nat \ {0})) /\ Len(delivered') = Len(delivered)
        <3> DEFINE S == Seq(Nat \ {0})
        <3>1. delivered \in Seq(S) /\ d \in S
            BY <1>1, <1>5
        <3> HIDE DEF S
        <3>2. [delivered EXCEPT ![n] = d] \in Seq(S) /\ Len([delivered EXCEPT ![n] = d]) = Len(delivered)
            BY <2>2, <3>1, ExceptSeq
        <3> QED
            BY <2>1, <3>2, Zenon DEF S
    <2>4. delivered'[n] = d /\ \A i \in 1..Len(outs) : i # n => delivered'[i] = delivered[i]
        BY <1>1, <2>1, <2>2
    <2> QED
        BY <1>1, <2>1, <2>3, <2>4
<1>7. data_up
    BY <1>1 DEF DataInv, DataPlaces
<1>8. /\ ToSet(out_channel) \subseteq 1..Len(outs) /\ acked \subseteq 1..Len(outs)
      /\ acked \cup ToSet(out_channel) = 1..Len(outs) /\ acked \cap ToSet(out_channel) = {}
    BY <1>7, Zenon DEF DataInv, DataTypes, DataPlaces
<1>9. DataTypes' /\ DataPlaces'
    <2>1. data_up' \in BOOLEAN /\ data_up' /\ outs' = outs
        BY <1>1, <1>7 DEF DataInv, DataTypes
    <2>2. /\ acked' \cup ToSet(out_channel') = 1..Len(outs) /\ acked' \subseteq 1..Len(outs)
          /\ acked' \cap ToSet(out_channel') = {}
        BY <1>1, <1>2, <1>8, Zenon
    <2> QED
        BY <1>1, <1>2, <1>6, <2>1, <2>2, Zenon DEF DataTypes, DataPlaces
<1>10. GivenAll(n)'
    <2>1. PICK k \in 0..Len(SentFrames(n)) : delivered[n] = SubSeq(SentFrames(n), 1, k)
        BY <1>2, Zenon DEF DataInv, Given
    <2>2. SentFrames(n)' = SentFrames(n)
        BY <1>1, Zenon DEF SentFrames
    <2>3. delivered'[n] = SubSeq(SentFrames(n), 1, k) \o SentFrames(n)
        BY <1>4, <1>6, <2>1, Zenon
    <2> QED
        BY <2>2, <2>3, Zenon DEF GivenAll
<1>11. \A i \in 1..Len(outs) : i # n => (Given(i) => Given(i)') /\ (GivenAll(i) => GivenAll(i)')
    BY <1>1, <1>6, Zenon DEF Given, GivenAll, SentFrames
<1>12. \A i \in acked' : GivenAll(i)'
    BY <1>1, <1>2, <1>8, <1>10, <1>11, Zenon DEF DataInv
<1>13. \A i \in ToSet(out_channel') : Given(i)'
    BY <1>2, <1>8, <1>11, Zenon DEF DataInv
<1> QED
    BY <1>9, <1>12, <1>13 DEF DataInv

\* One action at a time.
LEMMA DataSteps == FramesKnown /\ DataInv /\ [DataNext]_dataVars => DataInv'
<1> SUFFICES ASSUME FramesKnown, DataInv, [DataNext]_dataVars PROVE DataInv'
    OBVIOUS
<1>1. CASE DataConnect
    <2>1. /\ outs' = <<>> /\ acked' = {} /\ delivered' = <<>> /\ out_channel' = out_channel
          /\ out_channel = <<>> /\ data_up' = TRUE
        BY <1>1 DEF DataConnect, DataInv, DataPlaces
    <2>2. /\ outs' \in Seq(OutTransfers) /\ Len(outs') = 0 /\ delivered' \in Seq(Seq(Nat \ {0}))
          /\ Len(delivered') = 0
        BY <2>1, EmptySeq, Zenon
    <2>3. out_channel' \in Seq(1..Len(outs')) /\ Rising(out_channel') /\ ToSet(out_channel') = {}
        BY <2>1, <2>2, NothingWaits, 0 \in Nat, Zenon
    <2>4. 1..0 = {}
        OBVIOUS
    <2>5. data_up' \in BOOLEAN
        BY <2>1, Zenon
    <2> QED
        BY <2>1, <2>2, <2>3, <2>4, <2>5, Zenon DEF DataInv, DataTypes, DataPlaces
<1>2. CASE DataDisconnect
    <2>1. /\ data_up' = FALSE /\ out_channel' = <<>>
          /\ UNCHANGED <<data_kind, delivered, acked, outs>>
        BY <1>2 DEF DataDisconnect
    <2>2. Len(outs) \in Nat
        BY DEF DataInv, DataTypes
    <2>3. out_channel' \in Seq(1..Len(outs')) /\ Rising(out_channel') /\ ToSet(out_channel') = {}
        BY <2>1, <2>2, NothingWaits, Zenon
    <2>4. \A n \in acked : GivenAll(n) => GivenAll(n)'
        BY <2>1, Zenon DEF GivenAll, SentFrames
    <2>5. data_up' \in BOOLEAN /\ ~data_up'
        BY <2>1, Zenon
    <2> QED
        BY <2>1, <2>3, <2>4, <2>5, Zenon DEF DataInv, DataTypes, DataPlaces
<1>3. CASE TakeFrame
    BY <1>3, TransferTaken
<1>4. ASSUME NEW t \in OutTransfers, OutToBackend(t) PROVE DataInv'
    BY <1>4, TransferAnswered DEF OutToBackend
<1>5. ASSUME NEW t \in OutTransfers, NEW k \in 0..2, OutToSubclass(t, k) PROVE DataInv'
    <2>1. /\ k \in 0..Len(Frames(t)) /\ OutTransfer(t, SubSeq(Frames(t), 1, k))
          /\ UNCHANGED <<data_kind, data_up>>
          /\ \/ /\ k = Len(Frames(t)) /\ acked' = acked \cup {Len(outs) + 1} /\ UNCHANGED out_channel
             \/ out_channel' = Append(out_channel, Len(outs) + 1) /\ UNCHANGED acked
        BY <1>5 DEF OutToSubclass
    <2>2. CASE k = Len(Frames(t)) /\ acked' = acked \cup {Len(outs) + 1} /\ UNCHANGED out_channel
        <3>1. SubSeq(Frames(t), 1, k) = Frames(t)
            BY <2>2, FramesOf, Zenon
        <3>2. OutTransfer(t, Frames(t))
            BY <2>1, <3>1, Zenon
        <3> QED
            BY <2>1, <2>2, <3>2, TransferAnswered
    <2>3. CASE out_channel' = Append(out_channel, Len(outs) + 1) /\ UNCHANGED acked
        BY <2>1, <2>3, TransferWaits
    <2> QED
        BY <2>1, <2>2, <2>3
<1>6. CASE UNCHANGED dataVars
    <2>1. UNCHANGED <<data_kind, data_up, out_channel, delivered, acked, outs>>
        BY <1>6 DEF dataVars
    <2>2. \A n : (Given(n) => Given(n)') /\ (GivenAll(n) => GivenAll(n)')
        BY <2>1, Zenon DEF Given, GivenAll, SentFrames
    <2> QED
        BY <2>1, <2>2, Zenon DEF DataInv, DataTypes, DataPlaces
<1> QED
    BY <1>1, <1>2, <1>3, <1>4, <1>5, <1>6 DEF DataNext

\* The inductive invariant of the network data: a transfer waits in the channel
\* or is answered, and the device was given what the host sent.
THEOREM DataInductive == FramesKnown /\ DataSpec => []DataInv
<1>1. FramesKnown /\ DataSpec => []FramesKnown
    <2>1. FramesKnown => FramesKnown'
        BY DEF FramesKnown
    <2> QED
        BY <2>1, PTL
<1>2. DataInit => DataInv
    BY DataStarts
<1>3. FramesKnown /\ DataInv /\ [DataNext]_dataVars => DataInv'
    BY DataSteps
<1> QED
    BY <1>1, <1>2, <1>3, PTL DEF DataSpec

\* What it says
LEMMA DataSafe == DataInv => DataTypeOK /\ FramesReachDevice /\ OutAnsweredOrWaiting
<1> SUFFICES ASSUME DataInv PROVE DataTypeOK /\ FramesReachDevice /\ OutAnsweredOrWaiting
    OBVIOUS
<1>1. /\ outs \in Seq(OutTransfers) /\ delivered \in Seq(Seq(Nat \ {0})) /\ Len(delivered) = Len(outs)
      /\ out_channel \in Seq(1..Len(outs)) /\ acked \subseteq 1..Len(outs)
    BY DEF DataInv, DataTypes
<1>2. /\ DOMAIN outs = 1..Len(outs) /\ DOMAIN delivered = 1..Len(outs)
      /\ ToSet(out_channel) \subseteq 1..Len(outs)
      /\ \A n \in 1..Len(outs) : delivered[n] \in Seq(Nat \ {0})
    BY <1>1 DEF ToSet
<1>3. DataTypeOK
    BY <1>1, <1>2, Zenon DEF DataTypeOK
<1>4. FramesReachDevice
    BY Zenon DEF FramesReachDevice, DataInv, GivenAll, SentFrames
<1>5. OutAnsweredOrWaiting
    BY <1>2, Zenon DEF OutAnsweredOrWaiting, DataInv, DataPlaces
<1> QED
    BY <1>3, <1>4, <1>5

\* No padded message ends on a packet boundary.
LEMMA NeverZeroLength == NoZeroLengthPacket
<1> SUFFICES ASSUME NEW size \in EthHeader..1514
             PROVE  /\ WrapRndisPacket(size) % MaxPacket # 0
                    /\ WrapRndisPacket(size) \in DeviceHeader + size .. DeviceHeader + size + 1
    BY DEF NoZeroLengthPacket
<1> DEFINE x == DeviceHeader + size
<1>1. x \in Nat
    BY DEF DeviceHeader, EthHeader
<1> HIDE DEF x
<1>2. x % 64 = 0 => (x + 1) % 64 # 0
    BY <1>1
<1>3. WrapRndisPacket(size) = x + IF x % 64 = 0 THEN 1 ELSE 0
    BY DEF WrapRndisPacket, MaxPacket, x
<1>4. WrapRndisPacket(size) % 64 # 0
    BY <1>1, <1>2, <1>3
<1>5. WrapRndisPacket(size) \in x .. x + 1
    BY <1>1, <1>3
<1> QED
    BY <1>4, <1>5 DEF MaxPacket, x

------------------------------------------------------------------------------
(* Network adapters and the serial port, in the composition                  *)

\* NetworkCorrect for any host: responses are announced and of this session,
\* an OUT transfer waits or is answered and its frames reach the device whole
\* and in order, no message ends on a packet boundary, and the serial port's
\* lines, coding and data are the host's.
THEOREM ClassesNetwork == FramesKnown /\ ClassesSpec => []NetworkCorrect
<1>1. ClassesSpec => [](ResponseAnnounced /\ NoStaleResponse)
    BY NetSafe, NetInductive, ClassesHasNet, PTL
<1>2. FramesKnown /\ ClassesSpec => [](FramesReachDevice /\ OutAnsweredOrWaiting)
    BY DataSafe, DataInductive, ClassesHasData, PTL
<1>3. ClassesSpec => [](PortAgrees /\ OutDataOnce)
    BY AcmAgrees, AcmDataOnce, ClassesHasAcm, PTL
<1>4. ResponseAnnounced /\ NoStaleResponse /\ FramesReachDevice /\ OutAnsweredOrWaiting
      /\ PortAgrees /\ OutDataOnce => NetworkCorrect
    BY NeverZeroLength DEF NetworkCorrect
<1> QED
    BY <1>1, <1>2, <1>3, <1>4, PTL

------------------------------------------------------------------------------
(* Quotients and remainders.                                                 *)

\* A remainder and a quotient are determined by what they add up to.
LEMMA Divided ==
    ASSUME NEW c \in Nat \ {0}, NEW q \in Nat, NEW r \in 0..c - 1
    PROVE  (q * c + r) % c = r /\ (q * c + r) \div c = q
OBVIOUS

\* Every number has a quotient and a remainder.
LEMMA Divides ==
    ASSUME NEW c \in Nat \ {0}, NEW x \in Nat, NEW q, q = x \div c, NEW r, r = x % c
    PROVE  q \in Nat /\ r \in 0..c - 1 /\ x = q * c + r
<1>1. q \in Nat /\ r \in 0..c - 1
    OBVIOUS
<1>2. x = q * c + r
    BY c > 0
<1> QED
    BY <1>1, <1>2

LEMMA DividesBack ==
    ASSUME NEW c \in Nat \ {0}, NEW x \in Nat
    PROVE  x \div c \in Nat /\ x % c \in 0..c - 1 /\ x = (x \div c) * c + (x % c)
<1> PICK q : q = x \div c
    OBVIOUS
<1> PICK r : r = x % c
    OBVIOUS
<1>1. q \in Nat /\ r \in 0..c - 1
    OBVIOUS
<1>2. x = q * c + r
    BY c > 0
<1> QED
    BY <1>1, <1>2, Zenon

\* A remainder may be taken before something is added.
LEMMA ModAdds ==
    ASSUME NEW c \in Nat \ {0}, NEW x \in Nat, NEW n \in Nat
    PROVE  ((x % c) + n) % c = (x + n) % c
<1> PICK r : r = x % c
    OBVIOUS
<1> PICK q : q = x \div c
    OBVIOUS
<1>3. q \in Nat /\ r \in 0..c - 1 /\ x = q * c + r
    BY c > 0
<1> PICK s : s = (r + n) % c
    OBVIOUS
<1> PICK p : p = (r + n) \div c
    OBVIOUS
<1>4. p \in Nat /\ s \in 0..c - 1 /\ r + n = p * c + s
    <2>1. r + n \in Nat
        BY <1>3
    <2>2. \A y \in Nat : \A a, b : a = y \div c /\ b = y % c => a \in Nat /\ b \in 0..c - 1 /\ y = a * c + b
        BY Divides
    <2> QED
        BY <2>1, <2>2
<1>1. x + n = (q + p) * c + s /\ q + p \in Nat
    <2>1. /\ c \in Nat /\ q * c \in Nat /\ p * c \in Nat /\ q + p \in Nat
          /\ (q + p) * c = q * c + p * c
        BY <1>3, <1>4
    <2>2. \A a, b, d \in Nat : x = a + r /\ r + n = b + s /\ d = a + b => x + n = d + s
        BY <1>3, <1>4
    <2>3. (q + p) * c \in Nat
        BY <2>1
    <2> QED
        BY <1>3, <1>4, <2>1, <2>2, <2>3
<1>2. ((q + p) * c + s) % c = s
    BY <1>1, <1>4, Divided
<1> QED
    BY <1>1, <1>2

\* A number below the divisor is its own remainder.
LEMMA ModBelow ==
    ASSUME NEW c \in Nat \ {0}, NEW x \in 0..c - 1
    PROVE x % c = x
OBVIOUS

------------------------------------------------------------------------------
(* The audio functions.                                                      *)

\* There is a nearest rate, and it is one the device has.
LEMMA NearestRate ==
    ASSUME NEW rate \in AskedRates
    PROVE Nearest(rate) \in Rates
<1> DEFINE distance(r) == IF r < rate THEN rate - r ELSE r - rate
           D == {distance(r) : r \in Rates}
           S == {r \in Rates : \A q \in Rates : distance(r) <= distance(q)}
<1>0. rate \in Nat /\ Rates \subseteq Nat /\ Rates # {}
    BY UacAssumption
<1>1. \A r \in Rates : distance(r) \in Nat
    BY <1>0
<1> HIDE DEF distance
<1>2. D \subseteq Nat /\ D # {}
    BY <1>0, <1>1
<1> HIDE DEF D
<1>3. PICK d \in D : \A y \in D : <<y, d>> \notin OpToRel(<, Nat)
    BY <1>2, NatLessThanWellFounded, WFMin
<1>4. PICK r \in Rates : distance(r) = d
    BY DEF D
<1>5. \A q \in Rates : distance(r) <= distance(q)
    <2> TAKE q \in Rates
    <2>1. distance(q) \in D /\ d \in Nat /\ distance(q) \in Nat
        BY <1>1, <1>2 DEF D
    <2>2. ~(distance(q) < d)
        BY <1>3, <2>1 DEF OpToRel
    <2> QED
        BY <1>4, <2>1, <2>2
<1>6. S \subseteq Nat /\ S # {}
    BY <1>0, <1>5
<1> HIDE DEF S
<1>7. PICK m \in S : \A y \in S : <<y, m>> \notin OpToRel(<, Nat)
    BY <1>6, NatLessThanWellFounded, WFMin
<1>8. \A y \in S : m <= y
    <2> TAKE y \in S
    <2>1. m \in Nat /\ y \in Nat
        BY <1>6
    <2>2. ~(y < m)
        BY <1>7, <2>1 DEF OpToRel
    <2> QED
        BY <2>1, <2>2
<1>9. Min(S) \in S
    BY <1>8 DEF Min
<1> QED
    BY <1>9 DEF Nearest, S, distance

\* Rates and the packets they make
UacRates ==
    /\ uac_kind \in {"mic", "speaker"} /\ sample_rate \in Rates
    /\ packet_base \in Nat /\ residue_step \in Nat /\ packet_bytes \in Nat
    /\ uac_kind = "mic" => /\ packet_base = sample_rate \div PeriodPackets
                           /\ residue_step = sample_rate % PeriodPackets

\* The steps of a URB, and what a speaker leaves alone
UacSteps ==
    /\ sent_packets \in Nat /\ sent_frames \in Nat /\ residue_acc \in 0..AccWidth - 1
    /\ uac_kind = "mic" => iso_pc \in {"idle", "add", "test", "subtract", "fill"}
    /\ uac_kind = "speaker" => /\ iso_pc \in {"idle", "write", "riff", "size", "pace"}
                               /\ sent_packets = 0 /\ sent_frames = 0 /\ residue_acc = 0

\* The residue: what has been sent, what is in the accumulator, and what the
\* packet under way will take are together what the time is worth.
RateInv ==
    ~disturbed =>
      /\ iso_pc \in {"idle", "add"} =>
          /\ residue_acc < PeriodPackets
          /\ sent_frames * PeriodPackets + residue_acc = sent_packets * sample_rate
      /\ iso_pc = "test" =>
          /\ residue_acc < 2 * PeriodPackets
          /\ sent_frames * PeriodPackets + residue_acc = sent_packets * sample_rate + residue_step
      /\ iso_pc = "subtract" =>
          /\ PeriodPackets <= residue_acc /\ residue_acc < 2 * PeriodPackets
          /\ packet_bytes = packet_base + 1
          /\ sent_frames * PeriodPackets + residue_acc = sent_packets * sample_rate + residue_step
      /\ iso_pc = "fill" =>
          /\ residue_acc < PeriodPackets
          /\ (sent_frames + packet_bytes) * PeriodPackets + residue_acc = (sent_packets + 1) * sample_rate

\* The source: the frames sent, and those left of the last chunk
SourceInv ==
    /\ chunk_size \in {0, ChunkSize} /\ chunk_offset \in 0..chunk_size
    /\ taken_frames \in Nat /\ held_frames \in Nat
    /\ taken_frames + (chunk_size - chunk_offset) = held_frames

PaceInv == pacing_delta \in -MaxPacing..MaxPacing /\ urb_stat_count \in 0..Window - 1

\* The file: the header of an open one lags behind by the packet under way, that
\* of a closed one does not.
Wavs == [open : BOOLEAN, data : Nat, riff : Nat, size : Nat, length : Nat, before : Nat]
Sound == wav.before = 0 /\ WavHeader + wav.length < WavWidth
WavInv ==
    /\ wav \in Wavs /\ wav.data < WavWidth
    /\ wav.open => wav.length > 0
    /\ Sound =>
          /\ wav.open => wav.data = wav.length
          /\ wav.length = 0 => wav.size = 0 /\ wav.riff = 0
          /\ wav.length > 0 =>
                IF wav.open /\ iso_pc \in {"riff", "size"}
                THEN /\ wav.size = wav.length - 1 /\ wav.riff <= WavHeader + wav.length
                     /\ iso_pc = "size" => wav.riff = WavHeader + wav.length
                ELSE wav.size = wav.length /\ wav.riff = WavHeader + wav.length

\* A stream that has not begun
LEMMA UacStarts == UacInit => UacRates /\ UacSteps /\ RateInv /\ SourceInv /\ PaceInv /\ WavInv
<1> SUFFICES ASSUME UacInit PROVE UacRates /\ UacSteps /\ RateInv /\ SourceInv /\ PaceInv /\ WavInv
    OBVIOUS
<1>1. /\ sample_rate \in Nat /\ PeriodPackets \in Nat \ {0} /\ ChunkSize \in Nat \ {0}
      /\ MaxPacing \in Nat /\ Window \in Nat \ {0} /\ AccWidth \in Nat \ {0}
      /\ WavWidth \in Nat \ {0} /\ WavHeader \in Nat
    BY UacAssumption DEF UacInit
<1>2. sample_rate \div PeriodPackets \in Nat /\ sample_rate % PeriodPackets \in Nat
    BY <1>1, Divides
<1>3. UacRates
    BY <1>2 DEF UacInit, UacRates
<1>4. UacSteps /\ RateInv
    BY <1>1 DEF UacInit, UacSteps, RateInv
<1>5. SourceInv /\ PaceInv
    BY <1>1 DEF UacInit, SourceInv, PaceInv
<1>6. /\ wav = [open |-> FALSE, data |-> 0, riff |-> 0, size |-> 0, length |-> 0, before |-> 0]
      /\ iso_pc = "idle"
    BY DEF UacInit, NoWav
<1>7. WavInv
    <2>1. wav.size = 0 /\ wav.riff = 0 /\ wav.data = 0 /\ wav.length = 0 /\ ~wav.open
        BY <1>6
    <2>2. wav \in Wavs
        BY <1>6 DEF Wavs
    <2> QED
        BY <1>1, <1>6, <2>1, <2>2 DEF WavInv
<1> QED
    BY <1>3, <1>4, <1>5, <1>7

\* The rate changes with the packets of the microphone.
LEMMA RatesKept == UacRates /\ [UacNext]_uacVars => UacRates'
<1> SUFFICES ASSUME UacRates, [UacNext]_uacVars PROVE UacRates'
    OBVIOUS
<1>0. PeriodPackets \in Nat \ {0} /\ Rates \subseteq Nat /\ packet_base \in Nat
    BY UacAssumption DEF UacRates
<1>1. ASSUME NEW rate \in AskedRates, MicSetCur(rate) PROVE UacRates'
    <2>1. Nearest(rate) \in Rates /\ Nearest(rate) \in Nat
        BY <1>0, NearestRate
    <2>2. /\ Nearest(rate) \div PeriodPackets \in Nat /\ Nearest(rate) % PeriodPackets \in Nat
        BY <1>0, <2>1
    <2>3. /\ sample_rate' = Nearest(rate) /\ packet_base' = Nearest(rate) \div PeriodPackets
          /\ residue_step' = Nearest(rate) % PeriodPackets /\ UNCHANGED <<uac_kind, packet_bytes>>
        BY <1>1 DEF MicSetCur, isoVars
    <2> QED
        BY <2>1, <2>2, <2>3 DEF UacRates
<1>2. ASSUME NEW rate \in AskedRates, SpeakerSetCur(rate) PROVE UacRates'
    <2>1. Nearest(rate) \in Rates
        BY NearestRate
    <2> QED
        BY <1>2, <2>1 DEF SpeakerSetCur, UacRates, isoVars, packetVars
<1>3. CASE TestResidue
    <2>1. packet_bytes' \in Nat
        BY <1>0, <1>3 DEF TestResidue
    <2> QED
        BY <1>3, <2>1 DEF TestResidue, UacRates, isoUnchanged
<1>4. ASSUME UNCHANGED <<uac_kind, sample_rate, packet_base, residue_step, packet_bytes>> PROVE UacRates'
    BY <1>4 DEF UacRates
<1>5. CASE UacConnect \/ UacDisconnect \/ IsoSubmit \/ ServeUrb
    BY <1>4, <1>5 DEF UacConnect, UacDisconnect, IsoSubmit, ServeUrb, isoVars, packetVars, isoUnchanged
<1>6. CASE AddResidue \/ SubtractResidue \/ WriteRiff \/ WriteSize
    BY <1>4, <1>6 DEF AddResidue, SubtractResidue, WriteRiff, WriteSize, isoUnchanged, wavUnchanged
<1>11. ASSUME NEW dry \in BOOLEAN, FillPacket(dry) PROVE UacRates'
    BY <1>4, <1>11 DEF FillPacket, isoUnchanged
<1>12. ASSUME NEW ok \in BOOLEAN, WriteData(ok) PROVE UacRates'
    BY <1>4, <1>12 DEF WriteData, isoUnchanged, wavUnchanged
<1>7. ASSUME NEW off \in -1..1, Pace(off) PROVE UacRates'
    BY <1>4, <1>7 DEF Pace, isoUnchanged, wavUnchanged
<1>8. ASSUME NEW alt \in 0..1, MicSetInterface(alt) \/ SpeakerSetInterface(alt) PROVE UacRates'
    BY <1>4, <1>8 DEF MicSetInterface, SpeakerSetInterface, isoVars, packetVars
<1>9. ASSUME NEW m \in BOOLEAN, SetMute(m) PROVE UacRates'
    BY <1>4, <1>9 DEF SetMute, isoVars, packetVars
<1>10. CASE UNCHANGED uacVars
    BY <1>4, <1>10 DEF uacVars
<1> QED
    BY <1>1, <1>2, <1>3, <1>5, <1>6, <1>7, <1>8, <1>9, <1>10, <1>11, <1>12 DEF UacNext

\* A URB goes through the steps of its direction.
LEMMA StepsKept == UacRates /\ UacSteps /\ [UacNext]_uacVars => UacSteps'
<1> SUFFICES ASSUME UacRates, UacSteps, [UacNext]_uacVars PROVE UacSteps'
    OBVIOUS
<1>0. /\ PeriodPackets \in Nat \ {0} /\ AccWidth \in Nat \ {0} /\ packet_bytes \in Nat
      /\ residue_step \in Nat /\ uac_kind \in {"mic", "speaker"}
      /\ residue_acc \in Nat /\ sent_packets \in Nat /\ sent_frames \in Nat
    BY UacAssumption DEF UacRates, UacSteps
<1>1. ASSUME UNCHANGED <<uac_kind, iso_pc, residue_acc, sent_packets, sent_frames>> PROVE UacSteps'
    BY <1>1 DEF UacSteps
<1>2. ASSUME uac_kind = "mic", UNCHANGED <<uac_kind, iso_pc>>, StreamBegins PROVE UacSteps'
    BY <1>0, <1>2 DEF UacSteps, StreamBegins
<1>3. CASE ServeUrb
    BY <1>0, <1>3 DEF ServeUrb, UacSteps, isoUnchanged, sentVars
<1>4. CASE AddResidue
    <2>1. (residue_acc + residue_step) % AccWidth \in 0..AccWidth - 1
        BY <1>0
    <2> QED
        BY <1>0, <1>4, <2>1 DEF AddResidue, UacSteps, isoUnchanged, sentVars
<1>5. CASE TestResidue
    BY <1>0, <1>5 DEF TestResidue, UacSteps, isoUnchanged, sentVars
<1>6. CASE SubtractResidue
    <2>1. (residue_acc - PeriodPackets) % AccWidth \in 0..AccWidth - 1
        BY <1>0
    <2> QED
        BY <1>0, <1>6, <2>1 DEF SubtractResidue, UacSteps, isoUnchanged, sentVars
<1>7. ASSUME NEW dry \in BOOLEAN, FillPacket(dry) PROVE UacSteps'
    <2>1. /\ iso_pc = "fill" /\ iso_pc' \in {"idle", "add"} /\ UNCHANGED <<uac_kind, residue_acc>>
          /\ sent_packets' = sent_packets + 1 /\ sent_frames' = sent_frames + packet_bytes
        BY <1>7 DEF FillPacket, isoUnchanged
    <2> QED
        BY <1>0, <2>1 DEF UacSteps
<1>8. CASE WriteRiff \/ WriteSize \/ (\E ok \in BOOLEAN : WriteData(ok)) \/ \E off \in -1..1 : Pace(off)
    <2>1. /\ iso_pc \in {"write", "riff", "size", "pace"}
          /\ iso_pc' \in {"idle", "write", "riff", "size", "pace"}
        BY <1>8 DEF WriteRiff, WriteSize, WriteData, Pace
    <2>2. UNCHANGED <<uac_kind, residue_acc, sent_packets, sent_frames>>
        BY <1>8 DEF WriteRiff, WriteSize, WriteData, Pace, isoUnchanged, wavUnchanged, sentVars
    <2> QED
        BY <1>0, <2>1, <2>2 DEF UacSteps
<1>9. ASSUME NEW rate \in AskedRates, MicSetCur(rate) PROVE UacSteps'
    BY <1>2, <1>9 DEF MicSetCur, isoVars
<1>10. ASSUME NEW alt \in 0..1, MicSetInterface(alt) PROVE UacSteps'
    BY <1>1, <1>2, <1>10 DEF MicSetInterface, isoVars, sentVars
<1>11. ASSUME NEW rate \in AskedRates, SpeakerSetCur(rate) PROVE UacSteps'
    BY <1>1, <1>11 DEF SpeakerSetCur, isoVars, packetVars, sentVars
<1>12. ASSUME NEW alt \in 0..1, SpeakerSetInterface(alt) PROVE UacSteps'
    BY <1>1, <1>12 DEF SpeakerSetInterface, isoVars, packetVars, sentVars
<1>13. ASSUME NEW m \in BOOLEAN, SetMute(m) PROVE UacSteps'
    BY <1>1, <1>13 DEF SetMute, isoVars, packetVars, sentVars
<1>14. CASE UacConnect \/ UacDisconnect \/ IsoSubmit
    BY <1>1, <1>14 DEF UacConnect, UacDisconnect, IsoSubmit, isoVars, packetVars, sentVars
<1>15. CASE UNCHANGED uacVars
    BY <1>1, <1>15 DEF uacVars
<1> QED
    BY <1>3, <1>4, <1>5, <1>6, <1>7, <1>8, <1>9, <1>10, <1>11, <1>12, <1>13, <1>14, <1>15 DEF UacNext

\* Each step of a packet, and each packet, keep the account of the residue.
LEMMA RateKept == UacRates /\ UacSteps /\ RateInv /\ [UacNext]_uacVars => RateInv'
<1> SUFFICES ASSUME UacRates, UacSteps, RateInv, [UacNext]_uacVars PROVE RateInv'
    OBVIOUS
<1>0. /\ PeriodPackets \in Nat \ {0} /\ AccWidth \in Nat /\ AccWidth > 2 * PeriodPackets
      /\ sample_rate \in Nat /\ packet_base \in Nat /\ packet_bytes \in Nat /\ residue_step \in Nat
      /\ sent_packets \in Nat /\ sent_frames \in Nat /\ residue_acc \in Nat
    BY UacAssumption DEF UacRates, UacSteps
\* A stream begins.
<1>1. ASSUME StreamBegins, UNCHANGED iso_pc PROVE RateInv'
    <2> SUFFICES ASSUME ~disturbed' PROVE RateInv'
        BY DEF RateInv
    <2>3. Idle /\ residue_acc' = 0 /\ sent_packets' = 0 /\ sent_frames' = 0
        BY <1>1 DEF StreamBegins
    <2>1. sample_rate' \in Nat
        <3>1. UacRates'
            BY RatesKept
        <3> QED
            BY <3>1, UacAssumption DEF UacRates
    <2>2. 0 * PeriodPackets + 0 = 0 * sample_rate'
        <3>1. \A p, r \in Nat : 0 * p + 0 = 0 * r
            OBVIOUS
        <3> QED
            BY <1>0, <2>1, <3>1
    <2> QED
        BY <1>0, <1>1, <2>2, <2>3 DEF RateInv, Idle
<1>2. ASSUME UNCHANGED <<uac_kind, sample_rate, iso_pc, residue_acc, residue_step, packet_base,
                         packet_bytes, sent_packets, sent_frames, disturbed>>
      PROVE  RateInv'
    BY <1>2 DEF RateInv
<1>3. ASSUME NEW rate \in AskedRates, MicSetCur(rate) PROVE RateInv'
    BY <1>1, <1>3 DEF MicSetCur, isoVars
<1>4. ASSUME NEW alt \in 0..1, MicSetInterface(alt) PROVE RateInv'
    <2>1. CASE alt = 1
        BY <1>1, <1>4, <2>1 DEF MicSetInterface, isoVars
    <2>2. CASE alt # 1
        BY <1>2, <1>4, <2>2 DEF MicSetInterface, isoVars, sentVars
    <2> QED
        BY <2>1, <2>2
\* The speaker sends nothing.
<1>5. ASSUME uac_kind = "speaker", uac_kind' = uac_kind,
             iso_pc' \in {"idle", "write", "riff", "size", "pace"},
             UNCHANGED <<residue_acc, sent_packets, sent_frames>>
      PROVE  RateInv'
    <2>1. sent_packets' = 0 /\ sent_frames' = 0 /\ residue_acc' = 0
        BY <1>5 DEF UacSteps
    <2>2. sample_rate' \in Nat
        <3>1. UacRates'
            BY RatesKept
        <3> QED
            BY <3>1, UacAssumption DEF UacRates
    <2>3. 0 * PeriodPackets + 0 = 0 * sample_rate'
        <3>1. \A p, r \in Nat : 0 * p + 0 = 0 * r
            OBVIOUS
        <3> QED
            BY <1>0, <2>2, <3>1
    <2> QED
        BY <1>0, <1>5, <2>1, <2>3 DEF RateInv
<1>6. ASSUME NEW rate \in AskedRates, SpeakerSetCur(rate) PROVE RateInv'
    <2>1. iso_pc \in {"idle", "write", "riff", "size", "pace"}
        BY <1>6 DEF SpeakerSetCur, UacSteps
    <2> QED
        BY <1>5, <1>6, <2>1 DEF SpeakerSetCur, isoVars, packetVars, sentVars
<1>7. CASE (\E ok \in BOOLEAN : WriteData(ok)) \/ WriteRiff \/ WriteSize \/ \E off \in -1..1 : Pace(off)
    <2>1. uac_kind = "speaker"
        BY <1>7 DEF WriteData, WriteRiff, WriteSize, Pace, UacSteps, UacRates
    <2>2. UNCHANGED <<uac_kind, residue_acc, sent_packets, sent_frames>>
        BY <1>7 DEF WriteData, WriteRiff, WriteSize, Pace, isoUnchanged, wavUnchanged, sentVars
    <2>3. iso_pc' \in {"idle", "write", "riff", "size", "pace"}
        BY <1>7 DEF WriteData, WriteRiff, WriteSize, Pace
    <2> QED
        BY <1>5, <2>1, <2>2, <2>3
\* The microphone's packet.
<1>8. CASE ServeUrb
    <2>1. CASE uac_kind = "mic"
        <3>1. /\ iso_pc = "idle" /\ iso_pc' = "add"
              /\ UNCHANGED <<uac_kind, sample_rate, residue_acc, residue_step, packet_base,
                             packet_bytes, sent_packets, sent_frames, disturbed>>
            BY <1>8, <2>1 DEF ServeUrb, isoUnchanged, sentVars
        <3> QED
            BY <2>1, <3>1 DEF RateInv
    <2>2. CASE uac_kind # "mic"
        <3>1. uac_kind = "speaker"
            BY <2>2 DEF UacRates
        <3> QED
            BY <1>5, <1>8, <2>2, <3>1 DEF ServeUrb, isoUnchanged, sentVars
    <2> QED
        BY <2>1, <2>2
<1>9. ASSUME uac_kind # "speaker" PROVE /\ uac_kind = "mic"
                                       /\ packet_base = sample_rate \div PeriodPackets
                                       /\ residue_step = sample_rate % PeriodPackets
                                       /\ residue_step \in 0..PeriodPackets - 1
                                       /\ sample_rate = packet_base * PeriodPackets + residue_step
    <2>1. /\ uac_kind = "mic"
          /\ packet_base = sample_rate \div PeriodPackets
          /\ residue_step = sample_rate % PeriodPackets
        BY <1>9 DEF UacRates
    <2> QED
        BY <1>0, <2>1, Divides
<1>10. ASSUME AddResidue, ~disturbed PROVE RateInv'
    <2>1. /\ iso_pc = "add" /\ iso_pc' = "test" /\ residue_acc' = (residue_acc + residue_step) % AccWidth
          /\ UNCHANGED <<uac_kind, sample_rate, residue_step, packet_base, packet_bytes, sent_packets, sent_frames>>
        BY <1>10 DEF AddResidue, isoUnchanged, sentVars
    <2>2. /\ residue_acc < PeriodPackets /\ uac_kind # "speaker"
          /\ sent_frames * PeriodPackets + residue_acc = sent_packets * sample_rate
        BY <1>10, <2>1 DEF RateInv, UacSteps
    <2>3. residue_step \in 0..PeriodPackets - 1 /\ uac_kind = "mic"
        BY <1>9, <2>2
    <2>4. residue_acc + residue_step \in 0..AccWidth - 1 /\ AccWidth \in Nat \ {0}
        BY <1>0, <2>2, <2>3
    <2>5. residue_acc' = residue_acc + residue_step
        BY <2>1, <2>4, ModBelow
    <2>6. /\ residue_acc' \in Nat /\ residue_acc' < 2 * PeriodPackets
          /\ sent_frames * PeriodPackets + residue_acc' = sent_packets * sample_rate + residue_step
        <3> PICK a : a = sent_frames * PeriodPackets
            OBVIOUS
        <3> PICK b : b = sent_packets * sample_rate
            OBVIOUS
        <3>1. a \in Nat /\ b \in Nat /\ a + residue_acc = b
            BY <1>0, <2>2
        <3>2. a + (residue_acc + residue_step) = b + residue_step
            BY <1>0, <3>1
        <3> QED
            BY <1>0, <2>2, <2>3, <2>5, <3>2
    <2> QED
        BY <1>0, <2>1, <2>3, <2>6 DEF RateInv
<1>11. ASSUME TestResidue, ~disturbed PROVE RateInv'
    <2>1. /\ iso_pc = "test" /\ iso_pc' = IF residue_acc >= PeriodPackets THEN "subtract" ELSE "fill"
          /\ packet_bytes' = packet_base + IF residue_acc >= PeriodPackets THEN 1 ELSE 0
          /\ UNCHANGED <<uac_kind, sample_rate, residue_acc, residue_step, packet_base, sent_packets, sent_frames>>
        BY <1>11 DEF TestResidue, isoUnchanged, sentVars
    <2>2. /\ residue_acc < 2 * PeriodPackets /\ uac_kind # "speaker"
          /\ sent_frames * PeriodPackets + residue_acc = sent_packets * sample_rate + residue_step
        BY <1>11, <2>1 DEF RateInv, UacSteps
    <2>3. sample_rate = packet_base * PeriodPackets + residue_step /\ uac_kind = "mic"
        BY <1>9, <2>2
    <2>4. CASE residue_acc >= PeriodPackets
        <3>1. iso_pc' = "subtract" /\ packet_bytes' = packet_base + 1
            BY <2>1, <2>4
        <3> QED
            BY <1>0, <2>1, <2>2, <2>3, <2>4, <3>1 DEF RateInv
    <2>5. CASE ~(residue_acc >= PeriodPackets)
        <3>1. iso_pc' = "fill" /\ packet_bytes' = packet_base
            BY <1>0, <2>1, <2>5
        <3>2. (sent_frames + packet_base) * PeriodPackets + residue_acc = (sent_packets + 1) * sample_rate
            BY <1>0, <2>2, <2>3
        <3> QED
            BY <1>0, <2>1, <2>2, <2>3, <2>5, <3>1, <3>2 DEF RateInv
    <2> QED
        BY <2>4, <2>5
<1>12. ASSUME SubtractResidue, ~disturbed PROVE RateInv'
    <2>1. /\ iso_pc = "subtract" /\ iso_pc' = "fill" /\ residue_acc' = (residue_acc - PeriodPackets) % AccWidth
          /\ UNCHANGED <<uac_kind, sample_rate, residue_step, packet_base, packet_bytes, sent_packets, sent_frames>>
        BY <1>12 DEF SubtractResidue, isoUnchanged, sentVars
    <2>2. /\ PeriodPackets <= residue_acc /\ residue_acc < 2 * PeriodPackets /\ uac_kind # "speaker"
          /\ sent_frames * PeriodPackets + residue_acc = sent_packets * sample_rate + residue_step
          /\ packet_bytes = packet_base + 1
        BY <1>12, <2>1 DEF RateInv, UacSteps
    <2>3. sample_rate = packet_base * PeriodPackets + residue_step /\ uac_kind = "mic"
        BY <1>9, <2>2
    <2>4. residue_acc - PeriodPackets \in 0..AccWidth - 1 /\ AccWidth \in Nat \ {0}
        BY <1>0, <2>2
    <2>5. residue_acc' = residue_acc - PeriodPackets
        BY <2>1, <2>4, ModBelow
    <2>6. (sent_frames + (packet_base + 1)) * PeriodPackets + (residue_acc - PeriodPackets)
            = (sent_packets + 1) * sample_rate
        BY <1>0, <2>2, <2>3
    <2>7. residue_acc' \in Nat /\ residue_acc' < PeriodPackets
        BY <1>0, <2>2, <2>5
    <2> QED
        BY <1>0, <2>1, <2>2, <2>3, <2>5, <2>6, <2>7 DEF RateInv
<1>13. ASSUME NEW dry \in BOOLEAN, FillPacket(dry), ~disturbed PROVE RateInv'
    <2>1. /\ iso_pc = "fill" /\ iso_pc' \in {"idle", "add"}
          /\ sent_packets' = sent_packets + 1 /\ sent_frames' = sent_frames + packet_bytes
          /\ UNCHANGED <<uac_kind, sample_rate, residue_acc, residue_step, packet_base, packet_bytes>>
        BY <1>13 DEF FillPacket, isoUnchanged
    <2>2. /\ residue_acc < PeriodPackets /\ uac_kind = "mic"
          /\ (sent_frames + packet_bytes) * PeriodPackets + residue_acc = (sent_packets + 1) * sample_rate
        BY <1>13, <2>1 DEF RateInv, UacRates, UacSteps
    <2> QED
        BY <1>0, <2>1, <2>2 DEF RateInv
\* A stream set under a URB is not counted.
<1>18. ASSUME disturbed, disturbed' = disturbed PROVE RateInv'
    BY <1>18 DEF RateInv
<1>19. ASSUME AddResidue \/ TestResidue \/ SubtractResidue \/ \E dry \in BOOLEAN : FillPacket(dry)
       PROVE  RateInv'
    <2>1. disturbed' = disturbed
        BY <1>19 DEF AddResidue, TestResidue, SubtractResidue, FillPacket, isoUnchanged
    <2> QED
        BY <1>10, <1>11, <1>12, <1>13, <1>18, <1>19, <2>1
<1>14. CASE UacConnect \/ UacDisconnect \/ IsoSubmit
    BY <1>2, <1>14 DEF UacConnect, UacDisconnect, IsoSubmit, isoVars, packetVars, sentVars
<1>15. ASSUME NEW alt \in 0..1, SpeakerSetInterface(alt) PROVE RateInv'
    BY <1>2, <1>15 DEF SpeakerSetInterface, isoVars, packetVars, sentVars
<1>16. ASSUME NEW m \in BOOLEAN, SetMute(m) PROVE RateInv'
    BY <1>2, <1>16 DEF SetMute, isoVars, packetVars, sentVars
<1>17. CASE UNCHANGED uacVars
    BY <1>2, <1>17 DEF uacVars
<1> QED
    BY <1>3, <1>4, <1>6, <1>7, <1>8, <1>14, <1>15, <1>16, <1>17, <1>19 DEF UacNext

\* The smaller of two numbers
LEMMA MinOfTwo ==
    ASSUME NEW x \in Nat, NEW y \in Nat
    PROVE  Min({x, y}) \in Nat
<1>1. \E m \in {x, y} : \A z \in {x, y} : m <= z
    <2>1. CASE x <= y
        BY <2>1
    <2>2. CASE ~(x <= y)
        BY <2>2
    <2> QED
        BY <2>1, <2>2
<1> QED
    BY <1>1 DEF Min

\* What has been sent and what is left of the chunk are what was fetched.
LEMMA SourceKept == UacRates /\ SourceInv /\ [UacNext]_uacVars => SourceInv'
<1> SUFFICES ASSUME UacRates, SourceInv, [UacNext]_uacVars PROVE SourceInv'
    OBVIOUS
<1>0. /\ ChunkSize \in Nat \ {0} /\ chunk_size \in {0, ChunkSize} /\ chunk_size \in Nat
      /\ chunk_offset \in 0..chunk_size /\ taken_frames \in Nat /\ held_frames \in Nat
      /\ taken_frames + (chunk_size - chunk_offset) = held_frames /\ packet_bytes \in Nat
    BY UacAssumption DEF SourceInv, UacRates
<1>1. ASSUME NoChunk PROVE SourceInv'
    BY <1>0, <1>1 DEF SourceInv, NoChunk
<1>2. ASSUME UNCHANGED chunkVars PROVE SourceInv'
    BY <1>2 DEF SourceInv, chunkVars
<1>3. ASSUME NEW dry \in BOOLEAN, FillPacket(dry) PROVE SourceInv'
    <2> DEFINE least == Min({packet_bytes, chunk_size - chunk_offset})
    <2>1. least \in Nat
        <3>1. chunk_size - chunk_offset \in Nat
            BY <1>0
        <3> QED
            BY <1>0, <3>1, MinOfTwo
    <2>2. PICK n \in Nat : /\ taken_frames' = taken_frames + n
                           /\ held_frames' = held_frames + Fetched(n)
                           /\ chunk_size' = (IF n = 0 THEN chunk_size ELSE ChunkSize)
                           /\ chunk_offset' = OffsetAfter(n)
        <3> DEFINE k == CASE muted -> 0
                          [] ~muted /\ dry -> least
                          [] ~muted /\ ~dry -> packet_bytes
        <3>1. k \in Nat
            BY <1>0, <2>1
        <3>2. /\ taken_frames' = taken_frames + k /\ held_frames' = held_frames + Fetched(k)
              /\ chunk_size' = (IF k = 0 THEN chunk_size ELSE ChunkSize)
              /\ chunk_offset' = OffsetAfter(k)
            BY <1>3 DEF FillPacket
        <3> HIDE DEF k
        <3> QED
            BY <3>1, <3>2
    <2>3. CASE n = 0
        <3>1. /\ taken_frames' = taken_frames /\ held_frames' = held_frames
              /\ chunk_size' = chunk_size /\ chunk_offset' = chunk_offset
            BY <1>0, <2>2, <2>3 DEF Fetched, OffsetAfter
        <3> QED
            BY <1>2, <3>1 DEF chunkVars
    <2>4. CASE n # 0
        <3> PICK x : x = chunk_offset + n - 1
            OBVIOUS
        <3> PICK q : q = x \div ChunkSize
            OBVIOUS
        <3> PICK r : r = x % ChunkSize
            OBVIOUS
        <3>1. x \in Nat
            BY <1>0, <2>4
        <3>2. q \in Nat /\ r \in 0..ChunkSize - 1 /\ x = q * ChunkSize + r
            <4>1. /\ x \div ChunkSize \in Nat /\ x % ChunkSize \in 0..ChunkSize - 1
                  /\ x = (x \div ChunkSize) * ChunkSize + (x % ChunkSize)
                BY <1>0, <3>1, DividesBack, Zenon
            <4> QED
                BY <4>1, Zenon
        <3>3. /\ chunk_offset' = r + 1 /\ chunk_size' = ChunkSize
              /\ taken_frames' = taken_frames + n
              /\ held_frames' = held_frames + (q * ChunkSize + (ChunkSize - chunk_size))
            BY <2>2, <2>4 DEF OffsetAfter, Fetched
        <3> PICK z : z = q * ChunkSize
            OBVIOUS
        <3>4. z \in Nat /\ chunk_offset + n - 1 = z + r
            BY <1>0, <3>2
        <3>5. /\ chunk_offset' \in 0..chunk_size' /\ taken_frames' \in Nat /\ held_frames' \in Nat
              /\ taken_frames' + (chunk_size' - chunk_offset') = held_frames'
            BY <1>0, <3>2, <3>3, <3>4
        <3> QED
            BY <3>3, <3>5 DEF SourceInv
    <2> QED
        BY <2>3, <2>4
<1>4. CASE UacConnect \/ UacDisconnect
    BY <1>1, <1>4 DEF UacConnect, UacDisconnect
<1>5. ASSUME NEW rate \in AskedRates, MicSetCur(rate) \/ SpeakerSetCur(rate) PROVE SourceInv'
    BY <1>1, <1>2, <1>5 DEF MicSetCur, SpeakerSetCur, packetVars
\* The chunk that is left is sent again from its start.
<1>6. ASSUME NEW alt \in 0..1, MicSetInterface(alt) \/ SpeakerSetInterface(alt) PROVE SourceInv'
    <2>1. \/ UNCHANGED chunkVars
          \/ chunk_offset' = 0 /\ taken_frames' = 0 /\ held_frames' = chunk_size /\ chunk_size' = chunk_size
        BY <1>6 DEF MicSetInterface, SpeakerSetInterface, packetVars
    <2>2. ASSUME chunk_offset' = 0, taken_frames' = 0, held_frames' = chunk_size,
                 chunk_size' = chunk_size
          PROVE  SourceInv'
        BY <1>0, <2>2 DEF SourceInv
    <2> QED
        BY <1>2, <2>1, <2>2
<1>7. ASSUME NEW m \in BOOLEAN, SetMute(m) PROVE SourceInv'
    BY <1>2, <1>7 DEF SetMute, packetVars
<1>8. CASE IsoSubmit \/ ServeUrb \/ AddResidue \/ TestResidue \/ SubtractResidue
    BY <1>2, <1>8 DEF IsoSubmit, ServeUrb, AddResidue, TestResidue, SubtractResidue, packetVars
<1>9. CASE (\E ok \in BOOLEAN : WriteData(ok)) \/ WriteRiff \/ WriteSize \/ \E off \in -1..1 : Pace(off)
    BY <1>2, <1>9 DEF WriteData, WriteRiff, WriteSize, Pace, wavUnchanged
<1>10. CASE UNCHANGED uacVars
    BY <1>2, <1>10 DEF uacVars, chunkVars
<1> QED
    BY <1>3, <1>4, <1>5, <1>6, <1>7, <1>8, <1>9, <1>10 DEF UacNext

\* The correction stays within its limit.
LEMMA PaceKept == PaceInv /\ [UacNext]_uacVars => PaceInv'
<1> SUFFICES ASSUME PaceInv, [UacNext]_uacVars PROVE PaceInv'
    OBVIOUS
<1>0. MaxPacing \in Nat \ {0} /\ Window \in Nat \ {0}
    BY UacAssumption
<1>1. ASSUME UNCHANGED <<pacing_delta, urb_stat_count>> PROVE PaceInv'
    BY <1>1 DEF PaceInv
<1>2. ASSUME NEW off \in -1..1, Pace(off) PROVE PaceInv'
    <2>1. CASE urb_stat_count + 1 < Window
        BY <1>0, <1>2, <2>1 DEF PaceInv, Pace
    <2>2. CASE ~(urb_stat_count + 1 < Window)
        <3>1. \A d \in Int : Clamp(d) \in -MaxPacing..MaxPacing
            BY <1>0 DEF Clamp
        <3>2. (IF window_fresh THEN -MaxPacing ELSE pacing_delta + off) \in Int
            BY <1>0 DEF PaceInv
        <3>3. pacing_delta' \in -MaxPacing..MaxPacing /\ urb_stat_count' = 0
            BY <1>2, <2>2, <3>1, <3>2, Zenon DEF Pace
        <3> QED
            BY <1>0, <3>3 DEF PaceInv
    <2> QED
        BY <2>1, <2>2
<1>3. CASE UacConnect
    BY <1>0, <1>3 DEF UacConnect, PaceInv
<1>4. CASE UacDisconnect \/ IsoSubmit \/ ServeUrb \/ AddResidue \/ TestResidue \/ SubtractResidue
    BY <1>1, <1>4 DEF UacDisconnect, IsoSubmit, ServeUrb, AddResidue, TestResidue, SubtractResidue,
       pacingVars
<1>10. ASSUME NEW dry \in BOOLEAN, FillPacket(dry) PROVE PaceInv'
    BY <1>1, <1>10 DEF FillPacket, pacingVars
<1>5. CASE (\E ok \in BOOLEAN : WriteData(ok)) \/ WriteRiff \/ WriteSize
    BY <1>1, <1>5 DEF WriteData, WriteRiff, WriteSize, pacingVars
<1>6. ASSUME NEW rate \in AskedRates, MicSetCur(rate) \/ SpeakerSetCur(rate) PROVE PaceInv'
    BY <1>1, <1>6 DEF MicSetCur, SpeakerSetCur, pacingVars
<1>7. ASSUME NEW alt \in 0..1, MicSetInterface(alt) \/ SpeakerSetInterface(alt) PROVE PaceInv'
    BY <1>1, <1>7 DEF MicSetInterface, SpeakerSetInterface, pacingVars
<1>8. ASSUME NEW m \in BOOLEAN, SetMute(m) PROVE PaceInv'
    BY <1>1, <1>8 DEF SetMute, pacingVars
<1>9. CASE UNCHANGED uacVars
    BY <1>1, <1>9 DEF uacVars
<1> QED
    BY <1>2, <1>3, <1>4, <1>5, <1>6, <1>7, <1>8, <1>9, <1>10 DEF UacNext

\* update_header_locked and finalize_locked, of a file whose data are counted
LEMMA WavClosed ==
    ASSUME NEW w \in Wavs, w.data < WavWidth
    PROVE  /\ Finalize(w) \in Wavs /\ Finalize(w).data < WavWidth /\ ~Finalize(w).open
           /\ Finalize(w).length = w.length /\ Finalize(w).before = w.before
           /\ ~w.open => Finalize(w) = w
           /\ w.open => /\ Finalize(w).size = w.data
                        /\ Finalize(w).riff = (WavHeader + w.data) % WavWidth
<1>0. WavWidth \in Nat \ {0} /\ WavHeader \in Nat /\ w.data \in Nat
    BY UacAssumption DEF Wavs
<1>1. (WavHeader + w.data) % WavWidth \in Nat
    BY <1>0
<1>2. CASE ~w.open
    BY <1>2 DEF Finalize
<1>3. CASE w.open
    <2> PICK x : x = (WavHeader + w.data) % WavWidth
        OBVIOUS
    <2> PICK r : r = [w EXCEPT !.riff = x]
        OBVIOUS
    <2> PICK t : t = [r EXCEPT !.size = w.data]
        OBVIOUS
    <2>1. WithRiff(w) = r
        BY <1>3 DEF WithRiff
    <2>2. /\ r \in Wavs /\ r.open /\ r.riff = x /\ r.data = w.data /\ r.length = w.length
          /\ r.before = w.before
        BY <1>1, <1>3 DEF Wavs
    <2>3. WithSize(r) = t
        BY <2>2 DEF WithSize
    <2>4. /\ t \in Wavs /\ t.riff = x /\ t.size = w.data /\ t.length = w.length
          /\ t.before = w.before
        BY <1>0, <2>2 DEF Wavs
    <2>5. Finalize(w) = [t EXCEPT !.open = FALSE, !.data = 0]
        BY <1>3, <2>1, <2>3, Zenon DEF Finalize
    <2>6. \A v \in Wavs : LET f == [v EXCEPT !.open = FALSE, !.data = 0] IN
              /\ f \in Wavs /\ f.data = 0 /\ ~f.open /\ f.length = v.length
              /\ f.before = v.before /\ f.size = v.size /\ f.riff = v.riff
        BY DEF Wavs
    <2>7. /\ Finalize(w) \in Wavs /\ Finalize(w).data = 0 /\ ~Finalize(w).open
          /\ Finalize(w).length = w.length /\ Finalize(w).before = w.before
          /\ Finalize(w).size = w.data /\ Finalize(w).riff = x
        BY <2>4, <2>5, <2>6, Zenon
    <2> QED
        BY <1>0, <1>3, <2>7
<1> QED
    BY <1>2, <1>3

\* The header lags behind the data.
LEMMA WavKept == WavInv /\ [UacNext]_uacVars => WavInv'
<1> SUFFICES ASSUME WavInv, [UacNext]_uacVars PROVE WavInv'
    OBVIOUS
<1>0. /\ WavWidth \in Nat \ {0} /\ WavHeader \in Nat /\ wav \in Wavs /\ wav.data < WavWidth
      /\ wav.data \in Nat /\ wav.riff \in Nat /\ wav.size \in Nat /\ wav.length \in Nat
      /\ wav.before \in Nat /\ wav.open \in BOOLEAN
    BY UacAssumption DEF WavInv, Wavs
<1>a. \A x \in Nat : x < WavWidth => x % WavWidth = x
    BY <1>0
<1>1. ASSUME wav' = wav, \/ UNCHANGED iso_pc
                         \/ iso_pc \notin {"riff", "size"} /\ iso_pc' \notin {"riff", "size"}
      PROVE  WavInv'
    BY <1>1 DEF WavInv, Sound
\* A file is closed when nothing is being written to it.
<1>2. ASSUME wav' = wav \/ wav' = Finalize(wav), iso_pc \notin {"riff", "size"}, UNCHANGED iso_pc
      PROVE  WavInv'
    <2>1. CASE wav' = wav
        BY <1>1, <1>2, <2>1
    <2>2. CASE wav' = Finalize(wav) /\ ~wav.open
        <3>1. wav' = wav
            BY <1>0, <2>2, WavClosed
        <3> QED
            BY <1>1, <1>2, <3>1
    <2>3. CASE wav' = Finalize(wav) /\ wav.open
        <3>1. /\ wav' \in Wavs /\ wav'.data < WavWidth /\ ~wav'.open
              /\ wav'.length = wav.length /\ wav'.before = wav.before
              /\ wav'.size = wav.data /\ wav'.riff = (WavHeader + wav.data) % WavWidth
            BY <1>0, <2>3, WavClosed
        <3>2. Sound' => Sound
            BY <3>1 DEF Sound
        <3>3. wav.length > 0 /\ (Sound => wav.data = wav.length)
            BY <2>3 DEF WavInv
        <3>4. Sound' => wav'.size = wav'.length /\ wav'.riff = WavHeader + wav'.length
            BY <1>0, <1>a, <3>1, <3>2, <3>3 DEF Sound
        <3> QED
            BY <1>0, <1>2, <3>1, <3>3, <3>4 DEF WavInv
    <2> QED
        BY <1>2, <2>1, <2>2, <2>3
<1>3. ASSUME NEW ok \in BOOLEAN, WriteData(ok) PROVE WavInv'
    <2> PICK o : o = Opened(wav, ok)
        OBVIOUS
    <2>0. iso_pc = "write" /\ iso_pc' = "riff" /\ wav' = Counted(Written(o))
        BY <1>3 DEF WriteData
    <2>1. \/ o = wav
          \/ /\ ~wav.open
             /\ o = [open |-> TRUE, riff |-> 0, size |-> 0, length |-> 0, data |-> wav.data, before |-> wav.data]
        BY DEF Opened
    <2>2. /\ o \in Wavs /\ o.data = wav.data
          /\ o = wav \/ (~wav.open /\ o.open /\ o.riff = 0 /\ o.size = 0 /\ o.length = 0 /\ o.before = wav.data)
        <3>1. ASSUME o # wav
              PROVE  /\ ~wav.open /\ o.data = wav.data /\ o.open /\ o.riff = 0 /\ o.size = 0
                     /\ o.length = 0 /\ o.before = wav.data /\ o \in Wavs
            <4>1. ~wav.open /\ o = [open |-> TRUE, riff |-> 0, size |-> 0, length |-> 0,
                                    data |-> wav.data, before |-> wav.data]
                BY <2>1, <3>1
            <4>2. /\ o.data = wav.data /\ o.open /\ o.riff = 0 /\ o.size = 0
                  /\ o.length = 0 /\ o.before = wav.data
                BY <4>1
            <4>3. o \in Wavs
                BY <1>0, <4>1 DEF Wavs
            <4> QED
                BY <4>1, <4>2, <4>3
        <3> QED
            BY <1>0, <3>1
    <2>3. /\ o.data \in Nat /\ o.riff \in Nat /\ o.size \in Nat /\ o.length \in Nat
          /\ o.before \in Nat /\ o.open \in BOOLEAN
        BY <2>2 DEF Wavs
    <2>4. (o.data + 1) % WavWidth \in Nat /\ (o.data + 1) % WavWidth < WavWidth
        BY <1>0, <2>3
    <2>5. /\ wav' \in Wavs /\ wav'.open = o.open /\ wav'.riff = o.riff /\ wav'.size = o.size
          /\ wav'.before = o.before /\ wav'.data = (o.data + 1) % WavWidth
          /\ wav'.length = (IF o.open THEN o.length + 1 ELSE o.length)
        <3> PICK l : l = Written(o)
            OBVIOUS
        <3>1. \/ l = o /\ ~o.open
              \/ l = [o EXCEPT !.length = o.length + 1] /\ o.open
            BY <2>2 DEF Written, Wavs
        <3>2. /\ l \in Wavs /\ l.open = o.open /\ l.riff = o.riff /\ l.size = o.size
              /\ l.before = o.before /\ l.data = o.data
              /\ l.length = (IF o.open THEN o.length + 1 ELSE o.length)
            BY <2>2, <2>3, <3>1 DEF Wavs
        <3> PICK d : d = (o.data + 1) % WavWidth
            OBVIOUS
        <3>3. d \in Nat /\ wav' = [l EXCEPT !.data = d]
            BY <2>0, <2>4, <3>2 DEF Counted, Wavs
        <3> QED
            BY <3>2, <3>3 DEF Wavs
    <2>6. CASE ~o.open
        <3>1. /\ o = wav /\ wav'.length = wav.length /\ wav'.before = wav.before
              /\ wav'.riff = wav.riff /\ wav'.size = wav.size /\ ~wav'.open /\ ~wav.open
            BY <2>2, <2>5, <2>6
        <3>2. Sound' = Sound
            BY <3>1 DEF Sound
        <3> QED
            BY <1>0, <2>4, <2>5, <3>1, <3>2 DEF WavInv
    <2>7. CASE o.open
        <3>1. wav'.length = o.length + 1 /\ wav'.open
            BY <2>5, <2>7
        <3>2. ASSUME Sound' PROVE /\ wav'.data = wav'.length /\ wav'.size = wav'.length - 1
                                  /\ wav'.riff <= WavHeader + wav'.length
            <4>1. o.before = 0 /\ WavHeader + (o.length + 1) < WavWidth
                BY <2>5, <3>1, <3>2 DEF Sound
            <4>2. /\ o.data = o.length /\ o.size = o.length
                  /\ o.riff <= WavHeader + o.length
                <5>1. CASE o = wav
                    <6>1. Sound
                        BY <1>0, <4>1, <5>1 DEF Sound
                    <6>2. wav.open /\ wav.length > 0
                        BY <2>7, <5>1 DEF WavInv
                    <6> QED
                        BY <1>0, <2>0, <5>1, <6>1, <6>2 DEF WavInv
                <5>2. CASE o.riff = 0 /\ o.size = 0 /\ o.length = 0 /\ o.before = wav.data
                    BY <1>0, <2>2, <4>1, <5>2
                <5> QED
                    BY <2>2, <5>1, <5>2
            <4>3. (o.data + 1) % WavWidth = o.length + 1
                BY <1>0, <1>a, <2>3, <4>1, <4>2
            <4> QED
                BY <1>0, <2>3, <2>5, <3>1, <4>2, <4>3
        <3> QED
            BY <1>0, <2>0, <2>3, <2>4, <2>5, <3>1, <3>2 DEF WavInv
    <2> QED
        BY <2>3, <2>6, <2>7
<1>4. CASE WriteRiff
    <2>0. iso_pc = "riff" /\ iso_pc' = "size" /\ wav' = WithRiff(wav)
        BY <1>4 DEF WriteRiff
    <2>1. CASE ~wav.open
        <3>1. wav' = wav
            BY <2>0, <2>1 DEF WithRiff
        <3> QED
            BY <2>0, <2>1, <3>1 DEF WavInv, Sound
    <2>2. CASE wav.open
        <3>1. wav' = [wav EXCEPT !.riff = (WavHeader + wav.data) % WavWidth]
            BY <2>0, <2>2 DEF WithRiff
        <3>2. (WavHeader + wav.data) % WavWidth \in Nat
            BY <1>0
        <3>3. /\ wav' \in Wavs /\ wav'.size = wav.size /\ wav'.length = wav.length
              /\ wav'.data = wav.data /\ wav'.open = wav.open /\ wav'.before = wav.before
              /\ wav'.riff = (WavHeader + wav.data) % WavWidth
            BY <1>0, <3>1, <3>2 DEF Wavs
        <3>4. Sound' = Sound
            BY <3>3 DEF Sound
        <3>5. wav.length > 0 /\ (Sound => wav.data = wav.length /\ wav.size = wav.length - 1)
            BY <2>0, <2>2 DEF WavInv
        <3>6. Sound => wav'.riff = WavHeader + wav.length
            BY <1>0, <1>a, <3>3, <3>5 DEF Sound
        <3> QED
            BY <1>0, <2>0, <2>2, <3>3, <3>4, <3>5, <3>6 DEF WavInv
    <2> QED
        BY <1>0, <2>1, <2>2
<1>5. CASE WriteSize
    <2>0. iso_pc = "size" /\ iso_pc' \in {"pace", "write"} /\ wav' = WithSize(wav)
        BY <1>5 DEF WriteSize
    <2>1. CASE ~wav.open
        <3>1. wav' = wav
            BY <2>0, <2>1 DEF WithSize
        <3> QED
            BY <2>0, <2>1, <3>1 DEF WavInv, Sound
    <2>2. CASE wav.open
        <3>1. wav' = [wav EXCEPT !.size = wav.data]
            BY <2>0, <2>2 DEF WithSize
        <3>3. /\ wav' \in Wavs /\ wav'.size = wav.data /\ wav'.length = wav.length
              /\ wav'.data = wav.data /\ wav'.open = wav.open /\ wav'.before = wav.before
              /\ wav'.riff = wav.riff
            BY <1>0, <3>1 DEF Wavs
        <3>4. Sound' = Sound
            BY <3>3 DEF Sound
        <3>5. /\ wav.length > 0
              /\ Sound => wav.data = wav.length /\ wav.riff = WavHeader + wav.length
            BY <2>0, <2>2 DEF WavInv
        <3> QED
            BY <1>0, <2>0, <2>2, <3>3, <3>4, <3>5 DEF WavInv
    <2> QED
        BY <1>0, <2>1, <2>2
<1>6. CASE UacConnect \/ UacDisconnect
    BY <1>2, <1>6 DEF UacConnect, UacDisconnect, Idle, isoVars
<1>7. ASSUME NEW rate \in AskedRates, MicSetCur(rate) \/ SpeakerSetCur(rate) PROVE WavInv'
    BY <1>1, <1>2, <1>7 DEF MicSetCur, SpeakerSetCur, WavFree, isoVars
<1>8. ASSUME NEW alt \in 0..1, MicSetInterface(alt) \/ SpeakerSetInterface(alt) PROVE WavInv'
    BY <1>1, <1>2, <1>8 DEF MicSetInterface, SpeakerSetInterface, WavFree, isoVars
<1>9. ASSUME NEW m \in BOOLEAN, SetMute(m) PROVE WavInv'
    BY <1>1, <1>9 DEF SetMute, isoVars
<1>10. CASE IsoSubmit \/ ServeUrb \/ AddResidue \/ TestResidue \/ SubtractResidue
    BY <1>1, <1>10 DEF IsoSubmit, ServeUrb, AddResidue, TestResidue, SubtractResidue
<1>13. ASSUME NEW dry \in BOOLEAN, FillPacket(dry) PROVE WavInv'
    BY <1>1, <1>13 DEF FillPacket
<1>11. CASE \E off \in -1..1 : Pace(off)
    BY <1>1, <1>11 DEF Pace
<1>12. CASE UNCHANGED uacVars
    BY <1>1, <1>12 DEF uacVars
<1> QED
    BY <1>3, <1>4, <1>5, <1>6, <1>7, <1>8, <1>9, <1>10, <1>11, <1>12, <1>13 DEF UacNext

\* The audio functions: the inductive invariants of the rate, the source, the
\* pace and the file.
THEOREM UacInductive ==
    UacSpec => [](UacRates /\ UacSteps /\ RateInv /\ SourceInv /\ PaceInv /\ WavInv)
BY UacStarts, RatesKept, StepsKept, RateKept, SourceKept, PaceKept, WavKept, PTL DEF UacSpec

\* RateExact: any number of packets, over any number of URBs and at any rate,
\* have carried exactly the frames of their time, unless the host last set the
\* stream while a URB was under way.
THEOREM UacRateExact == UacSpec => []RateExact
<1>1. ASSUME UacSteps, RateInv PROVE RateExact
    <2> SUFFICES ASSUME iso_pc \in {"idle", "add"}, ~disturbed
                 PROVE  sent_frames = (sent_packets * sample_rate) \div PeriodPackets
        BY DEF RateExact
    <2>1. /\ sent_frames \in Nat /\ residue_acc \in Nat /\ residue_acc < PeriodPackets
          /\ sent_frames * PeriodPackets + residue_acc = sent_packets * sample_rate
        BY <1>1, UacAssumption DEF RateInv, UacSteps
    <2>2. PeriodPackets \in Nat \ {0} /\ residue_acc \in 0..PeriodPackets - 1
        BY <2>1, UacAssumption
    <2>3. (sent_frames * PeriodPackets + residue_acc) \div PeriodPackets = sent_frames
        BY <2>1, <2>2, Divided
    <2> QED
        BY <2>1, <2>3
<1> QED
    BY <1>1, UacInductive, PTL

\* SourceContinuous: chunks follow one another over packets, URBs, mutings and
\* a source that runs dry.
THEOREM UacSource == UacSpec => []SourceContinuous
<1>1. SourceInv => SourceContinuous
    BY DEF SourceInv, SourceContinuous
<1> QED
    BY <1>1, UacInductive, PTL

\* WavPlayable: the file's header never announces data that is not there, when
\* it was opened at the first attempt and stays below the limit of its fields.
THEOREM UacWav == UacSpec => []WavPlayable
<1>1. ASSUME WavInv PROVE WavPlayable
    <2>1. wav.length \in Nat /\ wav.size \in Nat /\ wav.riff \in Nat /\ WavHeader \in Nat
        BY <1>1, UacAssumption DEF WavInv, Wavs
    <2> SUFFICES ASSUME Sound
                 PROVE  /\ wav.size <= wav.length /\ wav.length <= wav.size + 1
                        /\ wav.riff <= WavHeader + wav.length
                        /\ (WavFree /\ wav.length > 0) =>
                               wav.size = wav.length /\ wav.riff = WavHeader + wav.length
        BY DEF WavPlayable, Sound
    <2>2. CASE wav.length = 0
        BY <1>1, <2>1, <2>2 DEF WavInv
    <2>3. CASE wav.length > 0
        BY <1>1, <2>1, <2>3 DEF WavInv, WavFree
    <2> QED
        BY <2>1, <2>2, <2>3
<1> QED
    BY <1>1, UacInductive, PTL

\* What the invariants say of the types
LEMMA UacTyped == UacRates /\ UacSteps /\ SourceInv /\ PaceInv /\ WavInv => UacTypeOK
<1>1. WavInv => wav.data \in 0..WavWidth - 1
    BY UacAssumption DEF WavInv, Wavs
<1> QED
    BY <1>1 DEF UacRates, UacSteps, SourceInv, PaceInv, UacTypeOK

------------------------------------------------------------------------------
(* The camera: one packet, the packets of a URB, the packets of a stream.    *)

UvcFrame == [id : Nat, size : Nat]
UvcPacket == [frame : Nat, from : Nat, to : Nat, fid : BOOLEAN, eof : BOOLEAN]

\* What FramesWhole asks of two packets that follow one another
Follows(p, q) ==
    /\ p.eof <=> q.frame # p.frame
    /\ p.fid # q.fid <=> q.frame # p.frame
    /\ q.from = IF p.eof THEN 0 ELSE p.to

\* Packets of the frame f, from its byte `at` on, without a gap up to `to`
PartOf(f, fid, at, out, to) ==
    /\ out \in Seq(UvcPacket) /\ to \in at..f.size
    /\ out = <<>> => to = at
    /\ out # <<>> => out[1].from = at /\ out[Len(out)].to = to
    /\ \A k \in 1..Len(out) : /\ out[k].frame = f.id /\ out[k].fid = fid
                              /\ out[k].to \in 0..f.size /\ (out[k].eof <=> out[k].to = f.size)
    /\ \A k \in 1..Len(out) - 1 : ~out[k].eof /\ out[k + 1].from = out[k].to

\* One packet more
LEMMA PacketPut ==
    ASSUME NEW f \in UvcFrame, NEW fid \in BOOLEAN, NEW at \in 0..f.size, NEW length \in Nat,
           NEW acc, PartOf(f, fid, at, acc.out, acc.at), NEW new, new = PutPacket(f, fid, acc, length)
    PROVE  /\ PartOf(f, fid, at, new.out, new.at)
           /\ acc.at <= new.at
           /\ length > PayloadHeader /\ at < f.size => at < new.at
<1>0. /\ f.size \in Nat /\ f.id \in Nat /\ at \in Nat /\ acc.at \in at..f.size
    BY DEF UvcFrame, PartOf
<1>1. CASE acc.at = f.size \/ length < PayloadHeader
    <2>1. new = acc
        BY <1>1 DEF PutPacket
    <2>2. PartOf(f, fid, at, new.out, new.at)
        BY <2>1, Zenon
    <2>3. new.at = acc.at /\ acc.at \in Nat
        BY <1>0, <2>1
    <2>4. length > PayloadHeader /\ at < f.size => at < new.at
        BY <1>0, <1>1, <2>3 DEF PayloadHeader
    <2> QED
        BY <2>2, <2>3, <2>4
<1>2. CASE ~(acc.at = f.size \/ length < PayloadHeader)
    <2> PICK p : p = Packet(f, acc.at, fid, length)
        OBVIOUS
    <2> PICK o : o = acc.out
        OBVIOUS
    <2> PICK n : n = Len(o)
        OBVIOUS
    <2>1. new = [at |-> p.to, out |-> Append(o, p)]
        BY <1>2 DEF PutPacket
    <2>2. new.at = p.to /\ new.out = Append(o, p)
        BY <2>1
    <2> PICK chunk : chunk = Lesser(length - PayloadHeader, f.size - acc.at)
        OBVIOUS
    <2>3. /\ chunk \in Nat /\ acc.at + chunk <= f.size
          /\ length > PayloadHeader => chunk > 0
        BY <1>0, <1>2 DEF Lesser, PayloadHeader
    <2>4. p = [frame |-> f.id, from |-> acc.at, to |-> acc.at + chunk, fid |-> fid,
               eof |-> acc.at + chunk >= f.size]
        BY DEF Packet
    <2>5. /\ p.frame = f.id /\ p.from = acc.at /\ p.to = acc.at + chunk /\ p.fid = fid
          /\ p.eof <=> acc.at + chunk >= f.size
        <3> PICK e : e = (acc.at + chunk >= f.size)
            OBVIOUS
        <3>1. p = [frame |-> f.id, from |-> acc.at, to |-> acc.at + chunk, fid |-> fid, eof |-> e]
            BY <2>4
        <3>2. /\ p.frame = f.id /\ p.from = acc.at /\ p.to = acc.at + chunk /\ p.fid = fid
              /\ p.eof = e
            BY <3>1
        <3> QED
            BY <3>2
    <2>6. /\ p \in UvcPacket
        <3>1. (acc.at + chunk >= f.size) \in BOOLEAN
            BY <1>0, <2>3
        <3>2. acc.at \in Nat /\ acc.at + chunk \in Nat
            BY <1>0, <2>3
        <3> QED
            BY <1>0, <2>4, <3>1, <3>2 DEF UvcPacket
    <2>7. p.to \in acc.at..f.size /\ (p.eof <=> p.to = f.size)
        BY <1>0, <2>3, <2>5
    <2>8. /\ o \in Seq(UvcPacket) /\ n \in Nat
          /\ o = <<>> => acc.at = at
          /\ o # <<>> => o[1].from = at /\ o[n].to = acc.at /\ n >= 1
          /\ \A k \in 1..n : /\ o[k].frame = f.id /\ o[k].fid = fid
                             /\ o[k].to \in 0..f.size /\ (o[k].eof <=> o[k].to = f.size)
          /\ \A k \in 1..n - 1 : ~o[k].eof /\ o[k + 1].from = o[k].to
          /\ o = <<>> => n = 0
        BY EmptySeq DEF PartOf
    <2> PICK a : a = Append(o, p)
        OBVIOUS
    <2>9. /\ a \in Seq(UvcPacket) /\ Len(a) = n + 1 /\ a[n + 1] = p /\ \A k \in 1..n : a[k] = o[k]
          /\ a # <<>>
        BY <2>6, <2>8, AppendProperties
    <2>10. a[1].from = at
        <3>1. CASE o = <<>>
            BY <2>5, <2>8, <2>9, <3>1
        <3>2. CASE o # <<>>
            BY <2>8, <2>9, <3>2
        <3> QED
            BY <3>1, <3>2
    <2>11. ASSUME NEW k \in 1..Len(a)
           PROVE  /\ a[k].frame = f.id /\ a[k].fid = fid
                  /\ a[k].to \in 0..f.size /\ (a[k].eof <=> a[k].to = f.size)
        <3>1. k \in 1..n \/ k = n + 1
            BY <2>8, <2>9
        <3>2. p.to \in 0..f.size
            BY <1>0, <2>7
        <3> QED
            BY <2>5, <2>7, <2>8, <2>9, <3>1, <3>2
    <2>12. ASSUME NEW k \in 1..Len(a) - 1 PROVE ~a[k].eof /\ a[k + 1].from = a[k].to
        <3>1. CASE k \in 1..n - 1
            <4>1. k \in 1..n /\ k + 1 \in 1..n
                BY <2>8, <3>1
            <4> QED
                BY <2>8, <2>9, <3>1, <4>1
        <3>2. CASE k = n
            <4>1. n >= 1 /\ n \in 1..n /\ o # <<>>
                BY <2>8, <2>9, <3>2
            <4>2. a[k] = o[n] /\ a[k + 1] = p /\ o[n].to = acc.at
                BY <2>8, <2>9, <3>2, <4>1
            <4> QED
                BY <1>2, <2>5, <2>8, <4>1, <4>2
        <3> QED
            BY <2>8, <2>9, <3>1, <3>2
    <2>13. p.to \in at..f.size
        BY <1>0, <2>7
    <2>14. PartOf(f, fid, at, a, p.to)
        BY <2>9, <2>10, <2>11, <2>12, <2>13 DEF PartOf
    <2> QED
        BY <1>0, <2>2, <2>3, <2>5, <2>14
<1> QED
    BY <1>1, <1>2

\* The loop over the packets of a URB, packet by packet
Loop(g, f, at, fid, lengths, n) ==
    g = [i \in 0..n |-> IF i = 0 THEN [at |-> at, out |-> <<>>]
                        ELSE PutPacket(f, fid, g[i - 1], lengths[i])]

\* There is such a sequence of states.
LEMMA LoopExists ==
    ASSUME NEW f, NEW at, NEW fid, NEW lengths, NEW n \in Nat
    PROVE  \E g : Loop(g, f, at, fid, lengths, n)
<1> DEFINE Good(k) == \E g : Loop(g, f, at, fid, lengths, k)
           Bad == {k \in Nat : ~Good(k)}
           start == [at |-> at, out |-> <<>>]
<1>1. Good(0)
    <2>1. PICK g : g = [i \in 0..0 |-> start]
        BY Zenon
    <2> HIDE DEF start
    <2>2. g = [i \in 0..0 |-> IF i = 0 THEN start ELSE PutPacket(f, fid, g[i - 1], lengths[i])]
        BY <2>1
    <2> QED
        BY <2>2, Zenon DEF Loop, start
<1>2. ASSUME NEW k \in Nat, Good(k)
      PROVE  Good(k + 1)
    <2>1. PICK g : g = [i \in 0..k |-> IF i = 0 THEN start ELSE PutPacket(f, fid, g[i - 1], lengths[i])]
        BY <1>2, Zenon DEF Loop
    <2> HIDE DEF start
    <2>2. PICK h : h = [i \in 0..(k + 1) |-> IF i = k + 1 THEN PutPacket(f, fid, g[k], lengths[k + 1]) ELSE g[i]]
        BY Zenon
    <2>3. \A i \in 0..(k + 1) : h[i] = IF i = 0 THEN start ELSE PutPacket(f, fid, h[i - 1], lengths[i])
        <3> TAKE i \in 0..(k + 1)
        <3>1. CASE i = 0
            <4>1. g[0] = start /\ h[0] = g[0]
                BY <2>1, <2>2
            <4> QED
                BY <3>1, <4>1
        <3>2. CASE i \in 1..k
            <4>1. h[i] = g[i] /\ h[i - 1] = g[i - 1]
                BY <2>2, <3>2
            <4>2. g[i] = PutPacket(f, fid, g[i - 1], lengths[i])
                BY <2>1, <3>2
            <4> QED
                BY <3>2, <4>1, <4>2
        <3>3. CASE i = k + 1
            <4>1. h[k + 1] = PutPacket(f, fid, g[k], lengths[k + 1]) /\ h[k] = g[k] /\ i - 1 = k /\ i # 0
                BY <2>2, <3>3
            <4> QED
                BY <3>3, <4>1
        <3> QED
            BY <3>1, <3>2, <3>3
    <2>4. h = [i \in 0..(k + 1) |-> h[i]]
        BY <2>2
    <2>5. h = [i \in 0..(k + 1) |-> IF i = 0 THEN start ELSE PutPacket(f, fid, h[i - 1], lengths[i])]
        BY <2>3, <2>4, Zenon
    <2> QED
        BY <2>5, Zenon DEF Loop, start
<1> HIDE DEF Good
<1>3. Bad = {}
    <2> SUFFICES ASSUME Bad # {} PROVE FALSE
        OBVIOUS
    <2>1. PICK x \in Bad : \A y \in Bad : ~(<<y, x>> \in OpToRel(<, Nat))
        BY NatLessThanWellFounded, WFMin
    <2>2. \A y \in Bad : ~(y < x)
        BY <2>1, Zenon DEF OpToRel
    <2>3. x \in Nat /\ x # 0 /\ ~Good(x)
        BY <1>1
    <2>4. x - 1 \in Nat /\ (x - 1) + 1 = x /\ x - 1 < x
        BY <2>3
    <2>5. Good(x - 1)
        BY <2>2, <2>4
    <2> QED
        BY <1>2, <2>3, <2>4, <2>5
<1>4. Good(n)
    BY <1>3
<1> QED
    BY <1>4 DEF Good

\* The packets of a URB carry the frame on, by a byte at least.
LEMMA UrbFilled ==
    ASSUME NEW f \in UvcFrame, NEW fid \in BOOLEAN, NEW at \in 0..f.size, at < f.size,
           NEW lengths \in UrbShapes
    PROVE  /\ PartOf(f, fid, at, FillPackets(f, at, fid, lengths).out, FillPackets(f, at, fid, lengths).at)
           /\ at < FillPackets(f, at, fid, lengths).at
<1>1. PICK n : n = Len(lengths)
    BY Zenon
<1>2. /\ lengths \in Seq(Nat) /\ n \in Nat
      /\ \E i \in 1..n : lengths[i] > PayloadHeader
    BY <1>1, UvcAssumption
<1>3. PICK g : g = CHOOSE h : Loop(h, f, at, fid, lengths, n)
    BY Zenon
<1>4. g = [i \in 0..n |-> IF i = 0 THEN [at |-> at, out |-> <<>>]
                          ELSE PutPacket(f, fid, g[i - 1], lengths[i])]
    <2>1. Loop(g, f, at, fid, lengths, n)
        BY <1>2, <1>3, LoopExists, Zenon
    <2> QED
        BY <2>1 DEF Loop
<1>5. FillPackets(f, at, fid, lengths) = g[n]
    BY <1>1, <1>3, Zenon DEF FillPackets, Loop
<1> DEFINE Good(k) == /\ PartOf(f, fid, at, g[k].out, g[k].at)
                      /\ (\E i \in 1..k : lengths[i] > PayloadHeader) => at < g[k].at
           Bad == {k \in 0..n : ~Good(k)}
<1>0. at \in Nat /\ f.size \in Nat
    BY DEF UvcFrame
<1>6. Good(0)
    <2>1. g[0] = [at |-> at, out |-> <<>>]
        BY <1>2, <1>4
    <2>2. g[0].at = at /\ g[0].out = <<>>
        BY <2>1
    <2> PICK e : e = <<>>
        OBVIOUS
    <2>3. e \in Seq(UvcPacket) /\ Len(e) = 0
        BY EmptySeq
    <2>4. PartOf(f, fid, at, e, at)
        BY <1>0, <2>3 DEF PartOf
    <2>5. ~\E i \in 1..0 : lengths[i] > PayloadHeader
        OBVIOUS
    <2> QED
        BY <2>2, <2>4, <2>5, Zenon
<1>7. ASSUME NEW k \in 0..n, k + 1 \in 0..n, Good(k)
      PROVE  Good(k + 1)
    <2>0. k + 1 \in 1..n /\ k \in Nat /\ (k + 1) - 1 = k /\ k + 1 # 0
        BY <1>2, <1>7
    <2>1. g[k + 1] = PutPacket(f, fid, g[k], lengths[k + 1])
        BY <1>4, <2>0
    <2>2. PICK a : a = g[k]
        BY Zenon
    <2>3. PICK b : b = g[k + 1]
        BY Zenon
    <2>4. PartOf(f, fid, at, a.out, a.at) /\ b = PutPacket(f, fid, a, lengths[k + 1])
          /\ ((\E i \in 1..k : lengths[i] > PayloadHeader) => at < a.at)
        BY <1>7, <2>1, <2>2, <2>3
    <2>5. lengths[k + 1] \in Nat
        BY <1>1, <1>2, <2>0
    <2>6. /\ PartOf(f, fid, at, b.out, b.at)
          /\ a.at <= b.at
          /\ lengths[k + 1] > PayloadHeader => at < b.at
        BY <2>4, <2>5, PacketPut
    <2>7. a.at \in Nat /\ b.at \in Nat
        BY <1>0, <2>4, <2>6 DEF PartOf
    <2>8. \A i \in 1..k + 1 : i \in 1..k \/ i = k + 1
        BY <2>0
    <2>9. (\E i \in 1..k + 1 : lengths[i] > PayloadHeader) => at < b.at
        BY <1>0, <2>4, <2>6, <2>7, <2>8
    <2> QED
        BY <2>3, <2>6, <2>9
<1> HIDE DEF Good
<1>8. Bad = {}
    <2> SUFFICES ASSUME Bad # {} PROVE FALSE
        OBVIOUS
    <2>1. Bad \subseteq Nat
        BY <1>2
    <2>2. PICK x \in Bad : \A y \in Bad : ~(<<y, x>> \in OpToRel(<, Nat))
        BY <2>1, NatLessThanWellFounded, WFMin
    <2>3. \A y \in Bad : ~(y < x)
        BY <2>1, <2>2, Zenon DEF OpToRel
    <2>4. x \in 0..n /\ x # 0 /\ ~Good(x)
        BY <1>6
    <2>5. x - 1 \in 0..n /\ (x - 1) + 1 = x /\ x - 1 < x
        BY <1>2, <2>4
    <2>6. Good(x - 1)
        BY <2>3, <2>5
    <2> QED
        BY <1>7, <2>4, <2>5, <2>6
<1>9. Good(n)
    <2>1. n \in 0..n
        BY <1>2
    <2> QED
        BY <1>8, <2>1
<1> QED
    BY <1>2, <1>5, <1>9 DEF Good

\* Packets that follow one another from the first byte of a frame on, the
\* last of them the packet of f up to the byte `to`
Stream(h) ==
    /\ h \in Seq(UvcPacket) /\ (h # <<>> => h[1].from = 0)
    /\ \A k \in 1..Len(h) - 1 : Follows(h[k], h[k + 1])
EndsAt(h, f, fid, to) ==
    LET p == h[Len(h)]
    IN  p.frame = f.id /\ p.fid = fid /\ p.to = to /\ (p.eof <=> to = f.size)
Joins(h, at, p) == IF h = <<>> THEN at = 0 ELSE Follows(h[Len(h)], p)

\* Packets of a frame behind them
LEMMA StreamGrows ==
    ASSUME NEW h, Stream(h), NEW f \in UvcFrame, NEW fid \in BOOLEAN, NEW at \in Nat,
           NEW o, NEW to, PartOf(f, fid, at, o, to), at < to, Joins(h, at, o[1])
    PROVE  Stream(h \o o) /\ h \o o # <<>> /\ EndsAt(h \o o, f, fid, to)
<1>0. f.size \in Nat /\ f.id \in Nat
    BY DEF UvcFrame
<1>a. /\ h \in Seq(UvcPacket) /\ \A k \in 1..Len(h) - 1 : Follows(h[k], h[k + 1])
      /\ IF h = <<>> THEN at = 0 ELSE h[1].from = 0 /\ Follows(h[Len(h)], o[1])
    BY DEF Stream, Joins
<1>1. /\ o \in Seq(UvcPacket) /\ o # <<>> /\ to \in at..f.size
      /\ o[1].from = at /\ o[Len(o)].to = to
      /\ \A k \in 1..Len(o) : /\ o[k].frame = f.id /\ o[k].fid = fid
                              /\ (o[k].eof <=> o[k].to = f.size)
      /\ \A k \in 1..Len(o) - 1 : ~o[k].eof /\ o[k + 1].from = o[k].to
    BY <1>0 DEF PartOf
<1> PICK n : n = Len(h)
    OBVIOUS
<1> PICK m : m = Len(o)
    OBVIOUS
<1>2. n \in Nat /\ m \in Nat /\ m >= 1
    BY <1>1, <1>a, EmptySeq
<1> PICK s : s = h \o o
    OBVIOUS
<1>3. /\ s \in Seq(UvcPacket) /\ Len(s) = n + m
      /\ \A k \in 1..n : s[k] = h[k]
      /\ \A k \in 1..m : s[n + k] = o[k]
    <2>1. /\ s \in Seq(UvcPacket) /\ Len(s) = n + m
          /\ \A k \in 1..n + m : s[k] = IF k <= n THEN h[k] ELSE o[k - n]
        BY <1>1, <1>a, ConcatProperties
    <2>2. ASSUME NEW k \in 1..n PROVE s[k] = h[k]
        BY <1>2, <2>1
    <2>3. ASSUME NEW k \in 1..m PROVE s[n + k] = o[k]
        <3>1. n + k \in 1..n + m /\ ~(n + k <= n) /\ (n + k) - n = k
            BY <1>2
        <3> QED
            BY <2>1, <3>1
    <2> QED
        BY <2>1, <2>2, <2>3
<1>4. s # <<>>
    BY <1>2, <1>3, EmptySeq
<1>5. s[1].from = 0
    <2>1. CASE h = <<>>
        <3>1. n = 0 /\ 1 \in 1..m /\ n + 1 = 1
            BY <1>2, <1>a, <2>1, EmptySeq
        <3>2. s[1] = o[1]
            BY <1>3, <3>1
        <3> QED
            BY <1>1, <1>a, <2>1, <3>2
    <2>2. CASE h # <<>>
        <3>1. 1 \in 1..n
            BY <1>2, <1>a, <2>2, EmptySeq
        <3> QED
            BY <1>3, <1>a, <2>2, <3>1
    <2> QED
        BY <2>1, <2>2
<1>6. ASSUME NEW k \in 1..Len(s) - 1 PROVE Follows(s[k], s[k + 1])
    <2>0. k \in Nat /\ k >= 1 /\ k <= n + m - 1
        BY <1>2, <1>3
    <2>1. CASE k < n
        <3>1. k \in 1..n /\ k + 1 \in 1..n /\ k \in 1..n - 1
            BY <1>2, <2>0, <2>1
        <3> QED
            BY <1>3, <1>a, <3>1
    <2>2. CASE k = n
        <3>1. k \in 1..n /\ 1 \in 1..m /\ h # <<>>
            BY <1>2, <1>a, <2>0, <2>2, EmptySeq
        <3> QED
            BY <1>3, <1>a, <2>2, <3>1
    <2>3. CASE k > n
        <3> PICK j : j = k - n
            OBVIOUS
        <3>1. /\ j \in 1..m /\ j + 1 \in 1..m /\ j \in 1..m - 1 /\ n + j = k /\ n + (j + 1) = k + 1
            BY <1>2, <2>0, <2>3
        <3>2. s[k] = o[j] /\ s[k + 1] = o[j + 1]
            BY <1>3, <3>1
        <3>3. Follows(o[j], o[j + 1])
            BY <1>1, <3>1 DEF Follows
        <3> QED
            BY <3>2, <3>3
    <2> QED
        BY <1>2, <2>0, <2>1, <2>2, <2>3
<1>7. s[Len(s)] = o[m] /\ m \in 1..m
    BY <1>2, <1>3
<1>8. EndsAt(s, f, fid, to)
    BY <1>1, <1>7 DEF EndsAt
<1>9. Stream(s)
    BY <1>3, <1>5, <1>6 DEF Stream
<1> QED
    BY <1>4, <1>8, <1>9

\* The stream: the packets the host has follow one another, and the frame
\* under way is the one they end with.
UvcTypes ==
    /\ uvc_up \in BOOLEAN /\ power_on \in BOOLEAN /\ committed \in BOOLEAN /\ video_on \in BOOLEAN
    /\ current_fid \in BOOLEAN
    /\ {probe_interval, source_interval, frame_interval} \subseteq Intervals \cup {DefaultInterval}
    /\ frame \in UvcFrame /\ frame.id = pulled
    /\ frame_offset \in 0..frame.size /\ (frame_offset > 0 => frame_offset < frame.size)
    /\ host_packets \in Seq(UvcPacket)
UvcStream ==
    /\ host_packets # <<>> => host_packets[1].from = 0
    /\ \A k \in 1..Len(host_packets) - 1 : Follows(host_packets[k], host_packets[k + 1])
    /\ host_packets = <<>> => frame_offset = 0
    /\ host_packets # <<>> =>
          LET p == host_packets[Len(host_packets)]
          IN  /\ p.frame = frame.id /\ p.fid = current_fid
              /\ IF p.eof THEN frame_offset = 0 ELSE frame_offset > 0 /\ frame_offset = p.to
UvcClock ==
    /\ video_time \in Nat /\ frame_started_at \in 0..video_time /\ pull_gap \in Nat
    /\ pull_gap >= frame_interval
UvcInv == UvcTypes /\ UvcStream /\ UvcClock

\* Intervals are numbers below NoGap.
LEMMA IntervalsBelow ==
    /\ NoGap \in Nat /\ EndOfVideo \in Nat
    /\ \A i \in Intervals \cup {DefaultInterval} : i \in Nat /\ NoGap >= i
<1>1. EndOfVideo \in Nat /\ Intervals \cup {DefaultInterval} \subseteq 0..EndOfVideo
    BY UvcAssumption
<1> QED
    BY <1>1 DEF NoGap

\* The camera as constructed
LEMMA UvcStarts == UvcInit => UvcInv
<1> SUFFICES ASSUME UvcInit PROVE UvcInv
    OBVIOUS
<1>1. /\ frame = [id |-> 0, size |-> 0] /\ host_packets = <<>> /\ frame_offset = 0 /\ pulled = 0
      /\ frame_started_at = 0 /\ video_time = EndOfVideo /\ pull_gap = NoGap
      /\ frame_interval = DefaultInterval
    BY DEF UvcInit
<1>2. frame \in UvcFrame /\ frame.id = 0 /\ frame.size = 0
    BY <1>1 DEF UvcFrame
<1>3. host_packets \in Seq(UvcPacket) /\ Len(host_packets) = 0
    BY <1>1, EmptySeq, Zenon
<1>4. /\ uvc_up \in BOOLEAN /\ power_on \in BOOLEAN /\ committed \in BOOLEAN /\ video_on \in BOOLEAN
      /\ current_fid \in BOOLEAN
    BY Zenon DEF UvcInit
<1>5. {probe_interval, source_interval, frame_interval} \subseteq Intervals \cup {DefaultInterval}
    BY DEF UvcInit
<1>6. frame_offset \in 0..frame.size /\ ~(frame_offset > 0)
    BY <1>1, <1>2
<1>7. UvcTypes
    BY <1>1, <1>2, <1>3, <1>4, <1>5, <1>6, Zenon DEF UvcTypes
<1>8. UvcStream
    <2>1. \A k \in 1..Len(host_packets) - 1 : FALSE
        BY <1>3
    <2> QED
        BY <1>1, <2>1, Zenon DEF UvcStream
<1>9. UvcClock
    BY <1>1, IntervalsBelow DEF UvcClock
<1> QED
    BY <1>7, <1>8, <1>9 DEF UvcInv

\* The stream starts again.
LEMMA StreamCut ==
    ASSUME UvcInv, frame_offset' = 0, current_fid' = FALSE, host_packets' = <<>>,
           UNCHANGED <<frame, pulled>>,
           uvc_up' \in BOOLEAN, power_on' \in BOOLEAN, committed' \in BOOLEAN, video_on' \in BOOLEAN,
           {probe_interval', source_interval', frame_interval'} \subseteq Intervals \cup {DefaultInterval}
    PROVE  UvcTypes' /\ UvcStream'
<1>1. frame \in UvcFrame /\ frame.id = pulled /\ frame.size \in Nat
    BY DEF UvcInv, UvcTypes, UvcFrame
<1>2. host_packets' \in Seq(UvcPacket) /\ Len(host_packets') = 0
    BY EmptySeq, Zenon
<1>3. frame_offset' \in 0..frame'.size /\ ~(frame_offset' > 0)
    BY <1>1
<1>4. current_fid' \in BOOLEAN
    BY Zenon
<1>5. UvcTypes'
    BY <1>1, <1>2, <1>3, <1>4, Zenon DEF UvcTypes
<1>6. UvcStream'
    <2>1. \A k \in 1..Len(host_packets') - 1 : FALSE
        BY <1>2
    <2> QED
        BY <2>1, Zenon DEF UvcStream
<1> QED
    BY <1>5, <1>6

\* The stream stays as it is.
LEMMA StreamStays ==
    ASSUME UvcInv, UNCHANGED <<frame_offset, current_fid, host_packets, frame, pulled>>,
           uvc_up' \in BOOLEAN, power_on' \in BOOLEAN, committed' \in BOOLEAN, video_on' \in BOOLEAN,
           {probe_interval', source_interval', frame_interval'} \subseteq Intervals \cup {DefaultInterval}
    PROVE  UvcTypes' /\ UvcStream'
BY Zenon DEF UvcInv, UvcTypes, UvcStream

\* A URB is filled from a frame.
LEMMA UrbSent ==
    ASSUME UvcInv, NEW f \in UvcFrame, NEW at \in 0..f.size, at < f.size, NEW fid \in BOOLEAN,
           NEW lengths \in UrbShapes, SendFrom(f, at, fid, lengths),
           frame' = f, current_fid' = fid, pulled' = f.id,
           \/ f = frame /\ at = frame_offset /\ at > 0 /\ fid = current_fid
           \/ f.id = frame.id + 1 /\ at = 0 /\ frame_offset = 0 /\ fid = ~current_fid,
           UNCHANGED <<uvc_up, power_on, committed, video_on, probe_interval, source_interval,
                       frame_interval>>
    PROVE  UvcTypes' /\ UvcStream'
<1> PICK h : h = host_packets
    OBVIOUS
<1> PICK r : r = FillPackets(f, at, fid, lengths)
    OBVIOUS
<1>0. f.size \in Nat /\ f.id \in Nat /\ at \in Nat
    BY DEF UvcFrame
<1>1. PartOf(f, fid, at, r.out, r.at) /\ at < r.at
    BY UrbFilled
<1>2. /\ host_packets' = h \o r.out
      /\ frame_offset' = IF r.at >= f.size THEN 0 ELSE r.at
    BY DEF SendFrom
<1> PICK o : o = r.out
    OBVIOUS
<1> PICK to : to = r.at
    OBVIOUS
<1>3. /\ o \in Seq(UvcPacket) /\ o # <<>> /\ to \in at..f.size /\ o[1].from = at
      /\ o[1].frame = f.id /\ o[1].fid = fid /\ to \in Nat
    <2>1. /\ o \in Seq(UvcPacket) /\ o # <<>> /\ to \in at..f.size /\ o[1].from = at /\ to \in Nat
          /\ \A k \in 1..Len(o) : o[k].frame = f.id /\ o[k].fid = fid
        BY <1>0, <1>1 DEF PartOf
    <2>2. 1 \in 1..Len(o)
        BY <2>1, EmptySeq
    <2> QED
        BY <2>1, <2>2
<1>4. /\ h \in Seq(UvcPacket) /\ frame \in UvcFrame /\ frame.id \in Nat /\ current_fid \in BOOLEAN
      /\ \A k \in 1..Len(h) - 1 : Follows(h[k], h[k + 1])
      /\ h # <<>> => h[1].from = 0
      /\ h = <<>> => frame_offset = 0
      /\ h # <<>> => LET p == h[Len(h)]
                     IN  /\ p.frame = frame.id /\ p.fid = current_fid
                         /\ IF p.eof THEN frame_offset = 0 ELSE frame_offset > 0 /\ frame_offset = p.to
    BY DEF UvcInv, UvcTypes, UvcStream, UvcFrame
<1>a. Stream(h)
    BY <1>4 DEF Stream
<1>5. Joins(h, at, o[1])
    <2>1. CASE h = <<>>
        BY <1>0, <1>4, <2>1 DEF Joins
    <2>2. CASE h # <<>>
        <3> PICK p : p = h[Len(h)]
            OBVIOUS
        <3> PICK q : q = o[1]
            OBVIOUS
        <3>1. /\ p.frame = frame.id /\ p.fid = current_fid
              /\ IF p.eof THEN frame_offset = 0 ELSE frame_offset > 0 /\ frame_offset = p.to
            BY <1>4, <2>2
        <3>2. q.from = at /\ q.frame = f.id /\ q.fid = fid
            BY <1>3
        <3>3. CASE f = frame /\ at = frame_offset /\ at > 0 /\ fid = current_fid
            <4>1. ~p.eof /\ frame_offset = p.to
                BY <1>0, <3>1, <3>3
            <4> QED
                BY <1>4, <2>2, <3>1, <3>2, <3>3, <4>1, Zenon DEF Follows, Joins
        <3>4. CASE f.id = frame.id + 1 /\ at = 0 /\ frame_offset = 0 /\ fid = ~current_fid
            <4>1. p.eof
                BY <3>1, <3>4
            <4>2. q.frame # p.frame
                BY <1>4, <3>1, <3>2, <3>4
            <4>3. p.fid # q.fid
                BY <1>4, <3>1, <3>2, <3>4
            <4> QED
                BY <1>4, <2>2, <3>2, <3>4, <4>1, <4>2, <4>3, Zenon DEF Follows, Joins
        <3> QED
            BY <3>3, <3>4
    <2> QED
        BY <2>1, <2>2
<1> PICK s : s = h \o o
    OBVIOUS
<1>b. Stream(s) /\ s # <<>> /\ EndsAt(s, f, fid, to)
    <2>1. PartOf(f, fid, at, o, to) /\ at < to
        BY <1>1
    <2> QED
        BY <1>0, <1>5, <1>a, <2>1, StreamGrows
<1>6. /\ s \in Seq(UvcPacket) /\ s # <<>> /\ s[1].from = 0
      /\ \A k \in 1..Len(s) - 1 : Follows(s[k], s[k + 1])
      /\ LET p == s[Len(s)] IN p.frame = f.id /\ p.fid = fid /\ p.to = to /\ (p.eof <=> to = f.size)
    BY <1>b DEF Stream, EndsAt
<1>7. host_packets' = s /\ frame_offset' = IF to >= f.size THEN 0 ELSE to
    BY <1>2
<1>8. /\ frame_offset' \in 0..f.size /\ (frame_offset' > 0 => frame_offset' < f.size)
      /\ to > 0 /\ (to = f.size => frame_offset' = 0) /\ (to # f.size => frame_offset' = to)
    BY <1>0, <1>1, <1>3, <1>7
<1>9. UvcTypes'
    <2>1. /\ uvc_up' \in BOOLEAN /\ power_on' \in BOOLEAN /\ committed' \in BOOLEAN /\ video_on' \in BOOLEAN
          /\ {probe_interval', source_interval', frame_interval'} \subseteq Intervals \cup {DefaultInterval}
        BY Zenon DEF UvcInv, UvcTypes
    <2> QED
        BY <1>6, <1>7, <1>8, <2>1, Zenon DEF UvcTypes
<1>10. UvcStream'
    <2> PICK p : p = s[Len(s)]
        OBVIOUS
    <2>1. p.frame = f.id /\ p.fid = fid /\ p.to = to /\ (p.eof <=> to = f.size)
        BY <1>6
    <2>2. IF p.eof THEN frame_offset' = 0 ELSE frame_offset' > 0 /\ frame_offset' = p.to
        BY <1>8, <2>1
    <2> QED
        BY <1>6, <1>7, <2>1, <2>2, Zenon DEF UvcStream
<1> QED
    BY <1>9, <1>10

\* One action at a time.
LEMMA UvcSteps == UvcInv /\ [UvcNext]_uvcVars => UvcInv'
<1> SUFFICES ASSUME UvcInv, [UvcNext]_uvcVars PROVE UvcInv'
    OBVIOUS
<1>0. /\ uvc_up \in BOOLEAN /\ power_on \in BOOLEAN /\ committed \in BOOLEAN /\ video_on \in BOOLEAN
      /\ current_fid \in BOOLEAN
      /\ {probe_interval, source_interval, frame_interval} \subseteq Intervals \cup {DefaultInterval}
      /\ frame \in UvcFrame /\ frame.id = pulled /\ frame.id \in Nat /\ frame.size \in Nat
      /\ frame_offset \in 0..frame.size /\ (frame_offset > 0 => frame_offset < frame.size)
      /\ video_time \in Nat /\ frame_started_at \in 0..video_time /\ pull_gap \in Nat
      /\ pull_gap >= frame_interval /\ frame_interval \in Nat
    BY IntervalsBelow DEF UvcInv, UvcTypes, UvcClock, UvcFrame
\* The clock of a stream that starts again
<1>1. ASSUME frame_started_at' = 0, pull_gap' = NoGap, video_time' = video_time,
             frame_interval' \in Intervals \cup {DefaultInterval}
      PROVE  UvcClock'
    BY <1>0, <1>1, IntervalsBelow DEF UvcClock
<1>2. ASSUME UNCHANGED <<pull_gap, video_time, frame_interval>>,
             frame_started_at' = frame_started_at \/ frame_started_at' = 0
      PROVE  UvcClock'
    BY <1>0, <1>2 DEF UvcClock
<1>3. CASE UvcConnect
    <2>1. /\ uvc_up' \in BOOLEAN /\ power_on' \in BOOLEAN /\ committed' \in BOOLEAN /\ video_on' \in BOOLEAN
        BY <1>0, <1>3, Zenon DEF UvcConnect
    <2>2. /\ frame_offset' = 0 /\ current_fid' = FALSE /\ host_packets' = <<>>
          /\ UNCHANGED <<frame, pulled, probe_interval, source_interval, frame_interval, video_time>>
          /\ frame_started_at' = 0 /\ pull_gap' = NoGap
        BY <1>3 DEF UvcConnect
    <2>3. {probe_interval', source_interval', frame_interval'} \subseteq Intervals \cup {DefaultInterval}
        BY <1>0, <2>2
    <2>4. UvcTypes' /\ UvcStream'
        BY <2>1, <2>2, <2>3, StreamCut
    <2> QED
        BY <1>1, <2>2, <2>3, <2>4 DEF UvcInv
<1>4. CASE UvcDisconnect
    <2>1. /\ uvc_up' \in BOOLEAN /\ power_on' \in BOOLEAN /\ committed' \in BOOLEAN /\ video_on' \in BOOLEAN
        BY <1>0, <1>4, Zenon DEF UvcDisconnect
    <2>2. /\ UNCHANGED <<frame, pulled, frame_offset, current_fid, host_packets, probe_interval,
                         source_interval, frame_interval, video_time, pull_gap>>
          /\ frame_started_at' = 0
        BY <1>4 DEF UvcDisconnect
    <2>3. {probe_interval', source_interval', frame_interval'} \subseteq Intervals \cup {DefaultInterval}
        BY <1>0, <2>2
    <2>4. UvcTypes' /\ UvcStream'
        BY <2>1, <2>2, <2>3, StreamStays
    <2> QED
        BY <1>2, <2>2, <2>4 DEF UvcInv
<1>5. ASSUME NEW on \in BOOLEAN, PowerMode(on) PROVE UvcInv'
    <2>1. /\ uvc_up' \in BOOLEAN /\ power_on' \in BOOLEAN /\ committed' \in BOOLEAN /\ video_on' \in BOOLEAN
        BY <1>0, <1>5 DEF PowerMode
    <2>2. UNCHANGED <<frame, pulled, frame_offset, current_fid, host_packets, probe_interval,
                      source_interval, frame_interval, video_time, pull_gap, frame_started_at>>
        BY <1>5 DEF PowerMode
    <2>3. {probe_interval', source_interval', frame_interval'} \subseteq Intervals \cup {DefaultInterval}
        BY <1>0, <2>2
    <2>4. UvcTypes' /\ UvcStream'
        BY <2>1, <2>2, <2>3, StreamStays
    <2> QED
        BY <1>2, <2>2, <2>4 DEF UvcInv
<1>6. ASSUME NEW i \in Intervals, Probe(i) PROVE UvcInv'
    <2>2. /\ UNCHANGED <<frame, pulled, frame_offset, current_fid, host_packets,
                         source_interval, frame_interval, video_time, pull_gap, frame_started_at,
                         uvc_up, power_on, committed, video_on>>
          /\ probe_interval' = i
        BY <1>6 DEF Probe
    <2>1. /\ uvc_up' \in BOOLEAN /\ power_on' \in BOOLEAN /\ committed' \in BOOLEAN /\ video_on' \in BOOLEAN
        BY <1>0, <2>2, Zenon
    <2>3. {probe_interval', source_interval', frame_interval'} \subseteq Intervals \cup {DefaultInterval}
        BY <1>0, <2>2
    <2>4. UvcTypes' /\ UvcStream'
        BY <2>1, <2>2, <2>3, StreamStays
    <2> QED
        BY <1>2, <2>2, <2>4 DEF UvcInv
<1>7. ASSUME NEW i \in Intervals, Commit(i) PROVE UvcInv'
    <2>1. /\ uvc_up' \in BOOLEAN /\ power_on' \in BOOLEAN /\ committed' \in BOOLEAN /\ video_on' \in BOOLEAN
        BY <1>0, <1>7, Zenon DEF Commit
    <2>2. /\ frame_offset' = 0 /\ current_fid' = FALSE /\ host_packets' = <<>>
          /\ UNCHANGED <<frame, pulled, video_time>>
          /\ frame_started_at' = 0 /\ pull_gap' = NoGap
          /\ probe_interval' = i /\ source_interval' = i /\ frame_interval' = i
        BY <1>7 DEF Commit
    <2>3. {probe_interval', source_interval', frame_interval'} \subseteq Intervals \cup {DefaultInterval}
        BY <2>2
    <2>4. UvcTypes' /\ UvcStream'
        BY <2>1, <2>2, <2>3, StreamCut
    <2> QED
        BY <1>1, <2>2, <2>3, <2>4 DEF UvcInv
<1>8. ASSUME NEW alt \in 0..1, VsSetInterface(alt) PROVE UvcInv'
    <2>1. /\ UNCHANGED <<frame, pulled, probe_interval, source_interval, frame_interval, video_time,
                         pull_gap, frame_started_at, uvc_up, power_on, committed>>
          /\ \/ frame_offset' = 0 /\ current_fid' = FALSE /\ host_packets' = <<>>
             \/ UNCHANGED <<frame_offset, current_fid, host_packets>>
        BY <1>8 DEF VsSetInterface
    <2>2. video_on' \in BOOLEAN
        BY <1>0, <1>8, Zenon DEF VsSetInterface
    <2>3. /\ uvc_up' \in BOOLEAN /\ power_on' \in BOOLEAN /\ committed' \in BOOLEAN
          /\ {probe_interval', source_interval', frame_interval'} \subseteq Intervals \cup {DefaultInterval}
        BY <1>0, <2>1, Zenon
    <2>4. UvcTypes' /\ UvcStream'
        BY <2>1, <2>2, <2>3, StreamCut, StreamStays
    <2> QED
        BY <1>2, <2>1, <2>4 DEF UvcInv
<1>9. ASSUME NEW lengths \in UrbShapes, IsoSameFrame(lengths) PROVE UvcInv'
    <2>1. /\ frame_offset > 0 /\ SendFrom(frame, frame_offset, current_fid, lengths)
          /\ UNCHANGED <<uvc_up, power_on, committed, video_on, probe_interval, source_interval,
                         frame_interval, frame, current_fid, frame_started_at, video_time, pulled,
                         pull_gap>>
        BY <1>9 DEF IsoSameFrame
    <2> PICK f : f = frame
        OBVIOUS
    <2> PICK at : at = frame_offset
        OBVIOUS
    <2> PICK fid : fid = current_fid
        OBVIOUS
    <2>2. f \in UvcFrame /\ at \in 0..f.size /\ at < f.size /\ at > 0 /\ fid \in BOOLEAN
        BY <1>0, <2>1
    <2>3. /\ SendFrom(f, at, fid, lengths) /\ frame' = f /\ current_fid' = fid /\ pulled' = f.id
        BY <1>0, <2>1
    <2>4. UvcTypes' /\ UvcStream'
        BY <2>1, <2>2, <2>3, UrbSent
    <2> QED
        BY <1>2, <2>1, <2>4 DEF UvcInv
<1>10. ASSUME NEW lengths \in UrbShapes, NEW size \in FrameSizes, IsoNewFrame(lengths, size) PROVE UvcInv'
    <2> PICK f : f = [id |-> pulled + 1, size |-> size]
        OBVIOUS
    <2> PICK fid : fid = ~current_fid
        OBVIOUS
    <2>1. /\ frame_offset = 0 /\ ~WaitsForClock
          /\ pulled' = pulled + 1 /\ frame' = f /\ current_fid' = fid /\ frame_started_at' = video_time
          /\ pull_gap' = IF frame_started_at = 0 THEN NoGap ELSE video_time - frame_started_at
          /\ SendFrom(f, 0, fid, lengths)
          /\ UNCHANGED <<uvc_up, power_on, committed, video_on, probe_interval, source_interval,
                         frame_interval, video_time>>
        <3>1. frame' = f /\ current_fid' = fid /\ SendFrom(frame', 0, current_fid', lengths)
            BY <1>10 DEF IsoNewFrame
        <3>2. SendFrom(f, 0, fid, lengths)
            BY <3>1
        <3> QED
            BY <1>10, <3>1, <3>2 DEF IsoNewFrame
    <2>2. size \in Nat \ {0}
        BY UvcAssumption
    <2>3. f \in UvcFrame /\ f.size = size /\ f.id = frame.id + 1 /\ fid \in BOOLEAN
        BY <1>0, <2>2 DEF UvcFrame
    <2>4. 0 \in 0..f.size /\ 0 < f.size /\ pulled' = f.id
        BY <1>0, <2>1, <2>2, <2>3
    <2>5. UvcTypes' /\ UvcStream'
        BY <2>1, <2>3, <2>4, UrbSent
    <2>6. UvcClock'
        <3>1. frame_interval = 0 \/ video_time >= frame_started_at + frame_interval
            BY <1>0, <2>1 DEF WaitsForClock
        <3>2. pull_gap' \in Nat /\ pull_gap' >= frame_interval
            <4>1. NoGap \in Nat /\ NoGap >= frame_interval
                BY <1>0, IntervalsBelow
            <4> QED
                BY <1>0, <2>1, <3>1, <4>1
        <3> QED
            BY <1>0, <2>1, <3>2 DEF UvcClock
    <2> QED
        BY <2>5, <2>6 DEF UvcInv
<1>11. CASE VideoTick
    <2>1. /\ video_time' = video_time + 1
          /\ UNCHANGED <<uvc_up, power_on, committed, video_on, probe_interval, source_interval,
                         frame_interval, frame, frame_offset, current_fid, frame_started_at,
                         host_packets, pulled, pull_gap>>
        BY <1>11 DEF VideoTick
    <2>2. UvcClock'
        BY <1>0, <2>1 DEF UvcClock
    <2>3. UvcTypes' /\ UvcStream'
        BY <2>1, Zenon DEF UvcInv, UvcTypes, UvcStream
    <2> QED
        BY <2>2, <2>3 DEF UvcInv
<1>12. CASE UNCHANGED uvcVars
    BY <1>12, Zenon DEF uvcVars, UvcInv, UvcTypes, UvcStream, UvcClock
<1>13. CASE IsoNothing
    BY <1>12, <1>13 DEF IsoNothing
<1> QED
    BY <1>3, <1>4, <1>5, <1>6, <1>7, <1>8, <1>9, <1>10, <1>11, <1>12, <1>13 DEF UvcNext

\* The inductive invariant of the camera: what the host has ends in the frame
\* under way, at its offset and under its bit.
THEOREM UvcInductive == UvcSpec => []UvcInv
BY UvcStarts, UvcSteps, PTL DEF UvcSpec

\* What it says of the types, the frames and their pace
LEMMA UvcSafe == UvcInv => UvcTypeOK /\ FramesWhole /\ FramePaced
<1> SUFFICES ASSUME UvcInv PROVE UvcTypeOK /\ FramesWhole /\ FramePaced
    OBVIOUS
<1>1. UvcTypeOK
    BY Zenon DEF UvcInv, UvcTypes, UvcTypeOK
<1>2. FramesWhole
    BY Zenon DEF UvcInv, UvcStream, FramesWhole, Follows
<1>3. FramePaced
    BY Zenon DEF UvcInv, UvcClock, FramePaced
<1> QED
    BY <1>1, <1>2, <1>3

------------------------------------------------------------------------------
(* RingBuffer                                                                *)

\* The remainder of what is below twice the capacity
LEMMA Wraps ==
    ASSUME NEW c \in Nat \ {0}, NEW x \in 0..2 * c - 1
    PROVE  x % c = IF x < c THEN x ELSE x - c
<1>1. CASE x < c
    <2>1. (0 * c + x) % c = x
        BY <1>1, Divided
    <2> QED
        BY <1>1, <2>1
<1>2. CASE ~(x < c)
    <2>1. x - c \in 0..c - 1
        BY <1>2
    <2>2. (1 * c + (x - c)) % c = x - c
        BY <2>1, Divided
    <2> QED
        BY <1>2, <2>2
<1> QED
    BY <1>1, <1>2

\* The ring r holds the bytes of s, oldest first.
RingHolds(r, s) ==
    /\ r = [buffer |-> r.buffer, capacity |-> r.capacity, head |-> r.head, tail |-> r.tail, count |-> r.count]
    /\ {r.capacity, r.head, r.tail, r.count} \subseteq Nat
    /\ r.buffer \in [0..r.capacity - 1 -> Nat]
    /\ r.count <= r.capacity
    /\ r.capacity > 0 => r.head < r.capacity /\ r.tail = (r.head + r.count) % r.capacity
    /\ s \in Seq(Nat) /\ Len(s) = r.count
    /\ \A i \in 1..r.count : s[i] = r.buffer[(r.head + i - 1) % r.capacity]

\* What is peeked at is what the ring holds.
LEMMA RingPeeks ==
    ASSUME NEW r, NEW s, RingHolds(r, s)
    PROVE  Peek(r) = s
<1>1. s = [i \in 1..r.count |-> s[i]] /\ r.count \in Nat
    BY DEF RingHolds
<1>2. \A i \in 1..r.count : s[i] = r.buffer[(r.head + i - 1) % r.capacity]
    BY DEF RingHolds
<1> QED
    BY <1>1, <1>2, Zenon DEF Peek

\* A new buffer is empty.
LEMMA RingEmpty ==
    ASSUME NEW n \in Nat
    PROVE  RingHolds(EmptyRing(n), <<>>) /\ EmptyRing(n).capacity = n /\ EmptyRing(n).count = 0
<1>1. PICK r : r = EmptyRing(n)
    BY Zenon
<1>2. PICK b : b = [i \in 0..n - 1 |-> 0]
    BY Zenon
<1>3. b \in [0..n - 1 -> Nat]
    BY <1>2
<1>4. r = [buffer |-> b, capacity |-> n, head |-> 0, tail |-> 0, count |-> 0]
    BY <1>1, <1>2, Zenon DEF EmptyRing
<1>5. r.buffer = b /\ r.capacity = n /\ r.head = 0 /\ r.tail = 0 /\ r.count = 0
    BY <1>4
<1>6. n > 0 => (0 + 0) % n = 0
    BY Wraps
<1>7. <<>> \in Seq(Nat) /\ Len(<<>>) = 0
    OBVIOUS
<1>8. RingHolds(r, <<>>)
    BY <1>3, <1>4, <1>5, <1>6, <1>7 DEF RingHolds
<1> QED
    BY <1>1, <1>5, <1>8

\* A byte written where there is room is the newest one.
LEMMA ByteWritten ==
    ASSUME NEW r, NEW s, NEW x \in Nat, RingHolds(r, s), r.count < r.capacity
    PROVE  /\ RingHolds(WriteByte(r, x), Append(s, x))
           /\ WriteByte(r, x).capacity = r.capacity /\ WriteByte(r, x).count = r.count + 1
<1>1. PICK w : w = WriteByte(r, x)
    BY Zenon
<1>2. PICK c : c = r.capacity
    BY Zenon
<1>3. PICK h : h = r.head
    BY Zenon
<1>4. PICK n : n = r.count
    BY Zenon
<1>5. PICK b : b = r.buffer
    BY Zenon
<1>6. /\ c \in Nat \ {0} /\ h \in 0..c - 1 /\ n \in 0..c - 1 /\ b \in [0..c - 1 -> Nat]
      /\ r.tail = (h + n) % c
      /\ s \in Seq(Nat) /\ Len(s) = n
      /\ r = [buffer |-> b, capacity |-> c, head |-> h, tail |-> r.tail, count |-> n]
      /\ \A i \in 1..n : s[i] = b[(h + i - 1) % c]
    BY <1>2, <1>3, <1>4, <1>5 DEF RingHolds
<1>7. PICK t : t = r.tail
    BY Zenon
<1>20. c \in Nat /\ h \in Nat /\ n \in Nat /\ h < c /\ n < c
    BY <1>6
<1>21. \A y \in 0..2 * c - 1 : \A v : v = y % c => v = IF y < c THEN y ELSE y - c
    <2>1. c \in Nat \ {0}
        BY <1>6
    <2> HIDE <1>6
    <2> QED
        BY <2>1, Wraps
<1>8. t = (IF h + n < c THEN h + n ELSE h + n - c) /\ t \in 0..c - 1
    <2>1. h + n \in 0..2 * c - 1
        BY <1>20
    <2>2. t = IF h + n < c THEN h + n ELSE h + n - c
        BY <1>6, <1>7, <1>21, <2>1
    <2> QED
        BY <1>20, <2>2
<1>9. PICK d : d = [b EXCEPT ![t] = x]
    BY Zenon
<1>10. d \in [0..c - 1 -> Nat] /\ d[t] = x /\ \A j \in 0..c - 1 : j # t => d[j] = b[j]
    BY <1>6, <1>8, <1>9
<1>11. PICK u : u = (t + 1) % c
    BY Zenon
<1>12. u = (h + (n + 1)) % c /\ u \in 0..c - 1
    <2>0. t + 1 \in 0..2 * c - 1
        BY <1>20, <1>8
    <2>1. u = IF t + 1 < c THEN t + 1 ELSE t + 1 - c
        <3>1. PICK y : y = t + 1
            BY Zenon
        <3>2. y \in 0..2 * c - 1 /\ u = y % c
            BY <1>11, <2>0, <3>1
        <3>3. u = IF y < c THEN y ELSE y - c
            BY <1>21, <3>2
        <3> QED
            BY <1>8, <1>20, <3>1, <3>3
    <2>2. h + (n + 1) \in 0..2 * c - 1
        BY <1>20
    <2>3. PICK v : v = (h + (n + 1)) % c
        BY Zenon
    <2>4. v = IF h + (n + 1) < c THEN h + (n + 1) ELSE h + (n + 1) - c
        <3>1. PICK y : y = h + (n + 1)
            BY Zenon
        <3>2. y \in 0..2 * c - 1 /\ v = y % c
            BY <2>2, <2>3, <3>1
        <3>3. v = IF y < c THEN y ELSE y - c
            BY <1>21, <3>2
        <3> QED
            BY <1>8, <1>20, <3>1, <3>3
    <2>5. u = v
        BY <1>20, <1>8, <2>1, <2>4
    <2>6. u \in 0..c - 1
        BY <1>20, <1>8, <2>1
    <2> QED
        BY <2>3, <2>5, <2>6
<1>13. w = [buffer |-> d, capacity |-> c, head |-> h, tail |-> u, count |-> n + 1]
    BY <1>1, <1>2, <1>3, <1>4, <1>5, <1>6, <1>7, <1>9, <1>11 DEF WriteByte
<1>14. w.buffer = d /\ w.capacity = c /\ w.head = h /\ w.tail = u /\ w.count = n + 1
    BY <1>13
<1>15. PICK s2 : s2 = Append(s, x)
    BY Zenon
<1>16. s2 \in Seq(Nat) /\ Len(s2) = n + 1 /\ s2[n + 1] = x /\ \A i \in 1..n : s2[i] = s[i]
    BY <1>6, <1>15
<1>17. \A i \in 1..n + 1 : s2[i] = d[(h + i - 1) % c]
    <2> TAKE i \in 1..n + 1
    <2>1. CASE i = n + 1
        <3>1. (h + i - 1) % c = t
            <4>1. h + i - 1 = h + n
                BY <1>6, <2>1
            <4> QED
                BY <1>6, <1>7, <4>1
        <3> QED
            BY <1>10, <1>16, <2>1, <3>1
    <2>2. CASE i # n + 1
        <3>0. i \in 1..n /\ h + i - 1 \in 0..2 * c - 1
            BY <1>20, <2>2
        <3>1. PICK j : j = (h + i - 1) % c
            BY Zenon
        <3>2. j = IF h + i - 1 < c THEN h + i - 1 ELSE h + i - 1 - c
            <4>1. PICK y : y = h + i - 1
                BY Zenon
            <4>2. y \in 0..2 * c - 1 /\ j = y % c
                BY <3>0, <3>1, <4>1
            <4>3. j = IF y < c THEN y ELSE y - c
                BY <1>21, <4>2
            <4> QED
                BY <1>20, <4>1, <4>3
        <3>3. j \in 0..c - 1 /\ j # t
            BY <1>20, <1>8, <3>0, <3>2
        <3>4. s2[i] = s[i] /\ s[i] = b[j] /\ d[j] = b[j]
            BY <1>6, <1>10, <1>16, <3>0, <3>1, <3>3
        <3> QED
            BY <3>1, <3>4
    <2> QED
        BY <2>1, <2>2
<1>18. {c, h, u, n + 1} \subseteq Nat /\ n + 1 <= c /\ h < c
    BY <1>6, <1>12
<1>19. RingHolds(w, s2)
    BY <1>10, <1>12, <1>13, <1>14, <1>16, <1>17, <1>18 DEF RingHolds
<1> QED
    BY <1>1, <1>2, <1>4, <1>14, <1>15, <1>19

\* The loop of write, byte by byte
Writing(g, r, data, n) == g = [i \in 0..n |-> IF i = 0 THEN r ELSE WriteByte(g[i - 1], data[i])]

\* There is such a sequence of rings.
LEMMA WritingExists ==
    ASSUME NEW r, NEW data, NEW n \in Nat
    PROVE  \E g : Writing(g, r, data, n)
<1> DEFINE Good(k) == \E g : Writing(g, r, data, k)
           Bad == {k \in Nat : ~Good(k)}
<1>1. Good(0)
    <2>1. PICK g : g = [i \in 0..0 |-> r]
        BY Zenon
    <2>2. g = [i \in 0..0 |-> IF i = 0 THEN r ELSE WriteByte(g[i - 1], data[i])]
        BY <2>1
    <2> QED
        BY <2>2, Zenon DEF Writing
<1>2. ASSUME NEW k \in Nat, Good(k)
      PROVE  Good(k + 1)
    <2>1. PICK g : g = [i \in 0..k |-> IF i = 0 THEN r ELSE WriteByte(g[i - 1], data[i])]
        BY <1>2, Zenon DEF Writing
    <2>2. PICK h : h = [i \in 0..(k + 1) |-> IF i = k + 1 THEN WriteByte(g[k], data[k + 1]) ELSE g[i]]
        BY Zenon
    <2>3. \A i \in 0..(k + 1) : h[i] = IF i = 0 THEN r ELSE WriteByte(h[i - 1], data[i])
        <3> TAKE i \in 0..(k + 1)
        <3>1. CASE i = 0
            <4>1. g[0] = r /\ h[0] = g[0]
                BY <2>1, <2>2
            <4> QED
                BY <3>1, <4>1
        <3>2. CASE i \in 1..k
            <4>1. h[i] = g[i] /\ h[i - 1] = g[i - 1]
                BY <2>2, <3>2
            <4>2. g[i] = WriteByte(g[i - 1], data[i])
                BY <2>1, <3>2
            <4> QED
                BY <3>2, <4>1, <4>2
        <3>3. CASE i = k + 1
            <4>1. h[k + 1] = WriteByte(g[k], data[k + 1]) /\ h[k] = g[k] /\ i - 1 = k /\ i # 0
                BY <2>2, <3>3
            <4> QED
                BY <3>3, <4>1
        <3> QED
            BY <3>1, <3>2, <3>3
    <2>4. h = [i \in 0..(k + 1) |-> h[i]]
        BY <2>2
    <2>5. h = [i \in 0..(k + 1) |-> IF i = 0 THEN r ELSE WriteByte(h[i - 1], data[i])]
        BY <2>3, <2>4, Zenon
    <2> QED
        BY <2>5, Zenon DEF Writing
<1> HIDE DEF Good
<1>3. Bad = {}
    <2> SUFFICES ASSUME Bad # {} PROVE FALSE
        OBVIOUS
    <2>1. PICK x \in Bad : \A y \in Bad : ~(<<y, x>> \in OpToRel(<, Nat))
        BY NatLessThanWellFounded, WFMin
    <2>2. \A y \in Bad : ~(y < x)
        BY <2>1, Zenon DEF OpToRel
    <2>3. x \in Nat /\ x # 0 /\ ~Good(x)
        BY <1>1
    <2>4. x - 1 \in Nat /\ (x - 1) + 1 = x /\ x - 1 < x
        BY <2>3
    <2>5. Good(x - 1)
        BY <2>2, <2>4
    <2> QED
        BY <1>2, <2>3, <2>4, <2>5
<1>4. Good(n)
    BY <1>3
<1> QED
    BY <1>4 DEF Good

\* The first bytes of a sequence, and one more
LEMMA OneByteMore ==
    ASSUME NEW s \in Seq(Nat), NEW data \in Seq(Nat), NEW k \in 0..Len(data) - 1
    PROVE  /\ s \o SubSeq(data, 1, k) \in Seq(Nat)
           /\ Append(s \o SubSeq(data, 1, k), data[k + 1]) = s \o SubSeq(data, 1, k + 1)
<1>1. PICK a : a = SubSeq(data, 1, k)
    BY Zenon
<1>2. PICK b : b = SubSeq(data, 1, k + 1)
    BY Zenon
<1>3. /\ a \in Seq(Nat) /\ Len(a) = k /\ \A i \in 1..k : a[i] = data[i]
      /\ b \in Seq(Nat) /\ Len(b) = k + 1 /\ \A i \in 1..k + 1 : b[i] = data[i]
      /\ data[k + 1] \in Nat
    BY <1>1, <1>2
<1>4. PICK p : p = s \o a
    BY Zenon
<1>5. PICK l : l = Len(s)
    BY Zenon
<1>6. /\ l \in Nat /\ p \in Seq(Nat) /\ Len(p) = l + k
      /\ \A i \in 1..l + k : p[i] = IF i <= l THEN s[i] ELSE a[i - l]
    <2>1. l \in Nat /\ a \in Seq(Nat) /\ Len(a) = k
        BY <1>3, <1>5
    <2>2. /\ s \o a \in Seq(Nat) /\ Len(s \o a) = Len(s) + Len(a)
          /\ \A i \in 1..Len(s) + Len(a) : (s \o a)[i] = IF i <= Len(s) THEN s[i] ELSE a[i - Len(s)]
        BY <2>1, ConcatProperties
    <2> QED
        BY <1>4, <1>5, <2>1, <2>2, Zenon
<1>7. PICK x : x = Append(p, data[k + 1])
    BY Zenon
<1>8. /\ x \in Seq(Nat) /\ Len(x) = l + k + 1
      /\ \A i \in 1..l + k : x[i] = p[i]
      /\ x[l + k + 1] = data[k + 1]
    BY <1>3, <1>6, <1>7
<1>9. PICK y : y = s \o b
    BY Zenon
<1>10. /\ y \in Seq(Nat) /\ Len(y) = l + (k + 1)
       /\ \A i \in 1..l + (k + 1) : y[i] = IF i <= l THEN s[i] ELSE b[i - l]
    <2>1. b \in Seq(Nat) /\ Len(b) = k + 1
        BY <1>3
    <2>2. /\ s \o b \in Seq(Nat) /\ Len(s \o b) = Len(s) + Len(b)
          /\ \A i \in 1..Len(s) + Len(b) : (s \o b)[i] = IF i <= Len(s) THEN s[i] ELSE b[i - Len(s)]
        BY <2>1, ConcatProperties
    <2> QED
        BY <1>5, <1>9, <2>1, <2>2, Zenon
<1>11. \A i \in 1..Len(x) : x[i] = y[i]
    <2> TAKE i \in 1..Len(x)
    <2>1. i \in 1..l + (k + 1)
        BY <1>6, <1>8
    <2>0. i \in Nat /\ i >= 1 /\ i <= l + k + 1 /\ l \in Nat /\ k \in Nat
        BY <1>6, <2>1
    <2>2. CASE i <= l
        <3>1. i \in 1..l + k
            BY <2>0, <2>2
        <3>2. x[i] = p[i] /\ p[i] = s[i] /\ y[i] = s[i]
            BY <1>6, <1>8, <1>10, <2>1, <2>2, <3>1, Zenon
        <3> QED
            BY <3>2
    <2>3. CASE i > l /\ i <= l + k
        <3>1. i \in 1..l + k /\ i - l \in 1..k /\ i - l \in 1..k + 1 /\ ~(i <= l)
            BY <2>0, <2>3
        <3>2. x[i] = p[i] /\ p[i] = a[i - l] /\ y[i] = b[i - l]
            BY <1>6, <1>8, <1>10, <2>1, <3>1, Zenon
        <3>3. a[i - l] = data[i - l] /\ b[i - l] = data[i - l]
            BY <1>3, <3>1, Zenon
        <3> QED
            BY <3>2, <3>3, Zenon
    <2>4. CASE i > l + k
        <3>1. i = l + k + 1 /\ ~(i <= l) /\ i - l = k + 1 /\ k + 1 \in 1..k + 1
            BY <2>0, <2>4
        <3>2. y[i] = b[k + 1] /\ b[k + 1] = data[k + 1] /\ x[i] = data[k + 1]
            BY <1>3, <1>8, <1>10, <2>1, <3>1
        <3> QED
            BY <3>2
    <2> QED
        BY <2>0, <2>2, <2>3, <2>4
<1>12. x = y
    <2>1. Len(x) = Len(y)
        BY <1>6, <1>8, <1>10
    <2> QED
        BY <1>8, <1>10, <1>11, <2>1, SeqEqual
<1> QED
    BY <1>1, <1>2, <1>4, <1>6, <1>7, <1>9, <1>12

\* Where there is room, write appends.
LEMMA BytesWritten ==
    ASSUME NEW r, NEW s, RingHolds(r, s), NEW data \in Seq(Nat), NEW n \in 0..Len(data),
           r.count + n <= r.capacity
    PROVE  /\ RingHolds(WriteBytes(r, data, n), s \o SubSeq(data, 1, n))
           /\ WriteBytes(r, data, n).capacity = r.capacity
<1>0. n \in Nat
    OBVIOUS
<1>1. PICK g : g = CHOOSE h : Writing(h, r, data, n)
    BY Zenon
<1>2. g = [i \in 0..n |-> IF i = 0 THEN r ELSE WriteByte(g[i - 1], data[i])]
    <2>1. Writing(g, r, data, n)
        BY <1>0, <1>1, WritingExists, Zenon
    <2> QED
        BY <2>1 DEF Writing
<1>3. WriteBytes(r, data, n) = g[n]
    BY <1>1, Zenon DEF WriteBytes, Writing
<1> DEFINE Good(k) == /\ RingHolds(g[k], s \o SubSeq(data, 1, k))
                      /\ g[k].capacity = r.capacity /\ g[k].count = r.count + k
           Bad == {k \in 0..n : ~Good(k)}
<1>4. r.count \in Nat /\ r.capacity \in Nat /\ s \in Seq(Nat)
    BY DEF RingHolds
<1>5. Good(0)
    <2>1. g[0] = r
        BY <1>0, <1>2
    <2>2. s \o SubSeq(data, 1, 0) = s
        BY <1>4
    <2>3. r.count = r.count + 0
        BY <1>4
    <2> QED
        BY <2>1, <2>2, <2>3, Zenon
<1>6. ASSUME NEW k \in 0..n, k + 1 \in 0..n, Good(k)
      PROVE  Good(k + 1)
    <2>1. k + 1 \in 1..n /\ k \in Nat /\ (k + 1) - 1 = k /\ k + 1 # 0 /\ k \in 0..Len(data) - 1
        BY <1>0, <1>6
    <2>2. g[k + 1] = WriteByte(g[k], data[k + 1])
        BY <1>2, <2>1
    <2>3. PICK a : a = g[k]
        BY Zenon
    <2>4. PICK t : t = s \o SubSeq(data, 1, k)
        BY Zenon
    <2>5. RingHolds(a, t) /\ a.capacity = r.capacity /\ a.count = r.count + k
        BY <1>6, <2>3, <2>4
    <2>6. data[k + 1] \in Nat /\ a.count < a.capacity
        BY <1>4, <2>1, <2>5
    <2>7. /\ RingHolds(WriteByte(a, data[k + 1]), Append(t, data[k + 1]))
          /\ WriteByte(a, data[k + 1]).capacity = a.capacity
          /\ WriteByte(a, data[k + 1]).count = a.count + 1
        BY <2>5, <2>6, ByteWritten
    <2>8. Append(t, data[k + 1]) = s \o SubSeq(data, 1, k + 1)
        BY <1>4, <2>1, <2>4, OneByteMore
    <2>9. a.count + 1 = r.count + (k + 1)
        <3>1. \A x \in Nat : (x + k) + 1 = x + (k + 1)
            BY <2>1
        <3> QED
            BY <1>4, <2>5, <3>1, Zenon
    <2> QED
        BY <2>2, <2>3, <2>5, <2>7, <2>8, <2>9
<1> HIDE DEF Good
<1>7. Bad = {}
    <2> SUFFICES ASSUME Bad # {} PROVE FALSE
        OBVIOUS
    <2>1. Bad \subseteq Nat
        BY <1>0
    <2>2. PICK x \in Bad : \A y \in Bad : ~(<<y, x>> \in OpToRel(<, Nat))
        BY <2>1, NatLessThanWellFounded, WFMin
    <2>3. \A y \in Bad : ~(y < x)
        BY <2>1, <2>2, Zenon DEF OpToRel
    <2>4. x \in 0..n /\ x # 0 /\ ~Good(x)
        BY <1>5
    <2>5. x - 1 \in 0..n /\ (x - 1) + 1 = x /\ x - 1 < x
        BY <1>0, <2>4
    <2>6. Good(x - 1)
        BY <2>3, <2>5
    <2> QED
        BY <1>6, <2>4, <2>5, <2>6
<1>8. Good(n)
    <2>1. n \in 0..n
        BY <1>0
    <2> QED
        BY <1>7, <2>1
<1> QED
    BY <1>3, <1>8 DEF Good

\* read takes the oldest.
LEMMA BytesRead ==
    ASSUME NEW r, NEW s, RingHolds(r, s), NEW n \in 1..r.count, r.count \in Nat
    PROVE  RingHolds([r EXCEPT !.head = (@ + n) % r.capacity, !.count = @ - n], SubSeq(s, n + 1, Len(s)))
<1>1. PICK c : c = r.capacity
    BY Zenon
<1>2. PICK h : h = r.head
    BY Zenon
<1>3. PICK m : m = r.count
    BY Zenon
<1>4. PICK b : b = r.buffer
    BY Zenon
<1>5. PICK t : t = r.tail
    BY Zenon
<1>6. /\ c \in Nat \ {0} /\ h \in 0..c - 1 /\ m \in 1..c /\ n \in 1..m /\ b \in [0..c - 1 -> Nat] /\ t \in Nat
      /\ s \in Seq(Nat) /\ Len(s) = m
      /\ r = [buffer |-> b, capacity |-> c, head |-> h, tail |-> t, count |-> m]
    BY <1>1, <1>2, <1>3, <1>4, <1>5 DEF RingHolds
<1>7. t = (h + m) % c /\ \A i \in 1..m : s[i] = b[(h + i - 1) % c]
    BY <1>1, <1>2, <1>3, <1>4, <1>5, <1>6 DEF RingHolds
<1>8. PICK u : u = (h + n) % c
    BY Zenon
<1>9. u \in 0..c - 1 /\ \A i \in 1..m - n : (u + i - 1) % c = (h + (i + n) - 1) % c
    <2>1. h + n \in Nat
        BY <1>6
    <2>2. u \in 0..c - 1
        BY <1>6, <1>8, <2>1
    <2>3. ASSUME NEW i \in 1..m - n PROVE (u + i - 1) % c = (h + (i + n) - 1) % c
        <3>1. i - 1 \in Nat
            BY <1>6
        <3>2. (u + (i - 1)) % c = ((h + n) + (i - 1)) % c
            BY <1>6, <1>8, <2>1, <3>1, ModAdds
        <3>3. u + (i - 1) = u + i - 1 /\ (h + n) + (i - 1) = h + (i + n) - 1
            BY <1>6, <2>2
        <3> QED
            BY <3>2, <3>3
    <2> QED
        BY <2>2, <2>3
<1>10. t = (u + (m - n)) % c
    <2>1. h + n \in Nat /\ m - n \in Nat
        BY <1>6
    <2>2. (u + (m - n)) % c = ((h + n) + (m - n)) % c
        BY <1>6, <1>8, <2>1, ModAdds
    <2>3. (h + n) + (m - n) = h + m
        BY <1>6
    <2> QED
        BY <1>7, <2>2, <2>3
<1>11. PICK w : w = [r EXCEPT !.head = (@ + n) % r.capacity, !.count = @ - n]
    BY Zenon
<1>12. w = [buffer |-> b, capacity |-> c, head |-> u, tail |-> t, count |-> m - n]
    <2>1. w = [r EXCEPT !.head = u, !.count = m - n]
        BY <1>1, <1>2, <1>3, <1>8, <1>11, Zenon
    <2> QED
        BY <1>6, <2>1
<1>13. w.buffer = b /\ w.capacity = c /\ w.head = u /\ w.tail = t /\ w.count = m - n
    BY <1>12
<1>14. PICK s2 : s2 = SubSeq(s, n + 1, Len(s))
    BY Zenon
<1>15. s2 \in Seq(Nat) /\ Len(s2) = m - n /\ \A i \in 1..m - n : s2[i] = s[i + n]
    <2>1. \A i \in n + 1..m : s[i] \in Nat
        BY <1>6
    <2>2. n + 1 \in Int /\ m \in Int /\ s2 = SubSeq(s, n + 1, m)
        BY <1>6, <1>14
    <2>3. /\ s2 \in Seq(Nat) /\ Len(s2) = IF n + 1 <= m THEN m - (n + 1) + 1 ELSE 0
          /\ \A i \in 1..m - (n + 1) + 1 : s2[i] = s[(n + 1) + i - 1]
        BY <2>1, <2>2, SubSeqProperties
    <2>4. Len(s2) = m - n /\ m - (n + 1) + 1 = m - n
        BY <1>6, <2>3
    <2>5. ASSUME NEW i \in 1..m - n PROVE s2[i] = s[i + n]
        <3>1. (n + 1) + i - 1 = i + n
            BY <1>6
        <3> QED
            BY <2>3, <2>4, <3>1
    <2> QED
        BY <2>3, <2>4, <2>5
<1>16. \A i \in 1..m - n : s2[i] = b[(u + i - 1) % c]
    <2> TAKE i \in 1..m - n
    <2>1. i + n \in 1..m
        BY <1>6
    <2>2. s[i + n] = b[(h + (i + n) - 1) % c]
        BY <1>7, <2>1
    <2> QED
        BY <1>9, <1>15, <2>2
<1>17. {c, u, t, m - n} \subseteq Nat /\ m - n <= c /\ u < c
    BY <1>6, <1>9
<1>18. RingHolds(w, s2)
    BY <1>6, <1>10, <1>12, <1>13, <1>15, <1>16, <1>17 DEF RingHolds
<1> QED
    BY <1>11, <1>14, <1>18

\* clear forgets all.
LEMMA RingCleared ==
    ASSUME NEW r, NEW s, RingHolds(r, s)
    PROVE  RingHolds([r EXCEPT !.head = 0, !.tail = 0, !.count = 0], <<>>)
<1>1. PICK w : w = [r EXCEPT !.head = 0, !.tail = 0, !.count = 0]
    BY Zenon
<1>2. /\ r = [buffer |-> r.buffer, capacity |-> r.capacity, head |-> r.head, tail |-> r.tail, count |-> r.count]
      /\ r.capacity \in Nat /\ r.buffer \in [0..r.capacity - 1 -> Nat]
    BY DEF RingHolds
<1>3. w = [buffer |-> r.buffer, capacity |-> r.capacity, head |-> 0, tail |-> 0, count |-> 0]
    BY <1>1, <1>2
<1>4. w.buffer = r.buffer /\ w.capacity = r.capacity /\ w.head = 0 /\ w.tail = 0 /\ w.count = 0
    BY <1>3
<1>5. PICK c : c = r.capacity
    BY Zenon
<1>6. c > 0 => (0 + 0) % c = 0
    BY <1>2, <1>5, Wraps
<1>7. <<>> \in Seq(Nat) /\ Len(<<>>) = 0
    OBVIOUS
<1>8. RingHolds(w, <<>>)
    BY <1>2, <1>3, <1>4, <1>5, <1>6, <1>7 DEF RingHolds
<1> QED
    BY <1>1, <1>8

\* resize keeps the oldest bytes, as many as fit.
LEMMA RingResized ==
    ASSUME NEW r, NEW s, RingHolds(r, s), NEW n \in Nat
    PROVE  RingHolds(RingResize(r, n), SubSeq(s, 1, IF Len(s) < n THEN Len(s) ELSE n))
<1>1. s \in Seq(Nat) /\ Len(s) = r.count /\ r.count \in Nat
    BY DEF RingHolds
<1>2. RingHolds(EmptyRing(n), <<>>) /\ EmptyRing(n).capacity = n /\ EmptyRing(n).count = 0
    BY RingEmpty
<1>3. CASE n = 0
    <2>1. SubSeq(s, 1, IF Len(s) < n THEN Len(s) ELSE n) = <<>>
        BY <1>1, <1>3
    <2> QED
        BY <1>2, <1>3, <2>1 DEF RingResize
<1>4. CASE n # 0
    <2>1. PICK k : k = IF r.count < n THEN r.count ELSE n
        BY Zenon
    <2>2. k \in 0..Len(s) /\ k <= n
        BY <1>1, <2>1
    <2>3. RingResize(r, n) = WriteBytes(EmptyRing(n), s, k)
        BY <1>4, <2>1, RingPeeks DEF RingResize
    <2>4. EmptyRing(n).count + k <= EmptyRing(n).capacity
        BY <1>2, <2>2
    <2>5. RingHolds(WriteBytes(EmptyRing(n), s, k), <<>> \o SubSeq(s, 1, k))
        BY <1>1, <1>2, <2>2, <2>4, BytesWritten
    <2>6. <<>> \o SubSeq(s, 1, k) = SubSeq(s, 1, k)
        <3>1. SubSeq(s, 1, k) \in Seq(Nat)
            BY <1>1, <2>2
        <3> QED
            BY <3>1
    <2> QED
        BY <1>1, <2>1, <2>3, <2>5, <2>6
<1> QED
    BY <1>3, <1>4

------------------------------------------------------------------------------
(* SmallVector                                                               *)

\* The vector v holds the elements of s, those of unknown value excepted.
VectorHolds(v, s) ==
    /\ v = [stack |-> v.stack, heap |-> v.heap, size |-> v.size, on_heap |-> v.on_heap]
    /\ v.stack \in [0..InlineSize - 1 -> Nat] /\ v.heap \in Seq(Nat) /\ v.on_heap \in BOOLEAN
    /\ s \in Seq(Nat) /\ v.size = Len(s)
    /\ v.on_heap => Len(v.heap) = v.size /\ \A i \in 1..Len(s) : s[i] # AnyElement => v.heap[i] = s[i]
    /\ ~v.on_heap => /\ v.heap = <<>> /\ v.size <= InlineSize
                     /\ \A i \in 1..Len(s) : s[i] # AnyElement => v.stack[i - 1] = s[i]

\* A vector with its elements on the heap
LEMMA VectorOnHeap ==
    ASSUME NEW stack \in [0..InlineSize - 1 -> Nat], NEW cells \in Seq(Nat), NEW s \in Seq(Nat),
           Len(cells) = Len(s), \A i \in 1..Len(s) : s[i] # AnyElement => cells[i] = s[i]
    PROVE  VectorHolds([stack |-> stack, heap |-> cells, size |-> Len(s), on_heap |-> TRUE], s)
<1>1. PICK v : v = [stack |-> stack, heap |-> cells, size |-> Len(s), on_heap |-> TRUE]
    BY Zenon
<1>2. v.stack = stack /\ v.heap = cells /\ v.size = Len(s) /\ v.on_heap = TRUE
    BY <1>1
<1>3. VectorHolds(v, s)
    BY <1>1, <1>2 DEF VectorHolds
<1> QED
    BY <1>1, <1>3

\* A vector with its elements in place
LEMMA VectorInline ==
    ASSUME NEW stack \in [0..InlineSize - 1 -> Nat], NEW s \in Seq(Nat), Len(s) <= InlineSize,
           \A i \in 1..Len(s) : s[i] # AnyElement => stack[i - 1] = s[i]
    PROVE  VectorHolds([stack |-> stack, heap |-> <<>>, size |-> Len(s), on_heap |-> FALSE], s)
<1>1. PICK v : v = [stack |-> stack, heap |-> <<>>, size |-> Len(s), on_heap |-> FALSE]
    BY Zenon
<1>2. v.stack = stack /\ v.heap = <<>> /\ v.size = Len(s) /\ v.on_heap = FALSE
    BY <1>1
<1>3. <<>> \in Seq(Nat)
    OBVIOUS
<1>4. VectorHolds(v, s)
    BY <1>1, <1>2, <1>3 DEF VectorHolds
<1> QED
    BY <1>1, <1>4

\* The move to the heap keeps the elements.
LEMMA VectorMigrated ==
    ASSUME NEW v, NEW s, VectorHolds(v, s), ~v.on_heap
    PROVE  VectorHolds(MigrateToHeap(v), s) /\ MigrateToHeap(v).on_heap
<1>0. /\ v = [stack |-> v.stack, heap |-> v.heap, size |-> v.size, on_heap |-> v.on_heap]
      /\ v.stack \in [0..InlineSize - 1 -> Nat] /\ s \in Seq(Nat) /\ v.size = Len(s)
      /\ v.heap = <<>> /\ v.size <= InlineSize /\ Len(s) \in Nat /\ InlineSize \in Nat
      /\ \A i \in 1..Len(s) : s[i] # AnyElement => v.stack[i - 1] = s[i]
    BY ContainersAssumption DEF VectorHolds
<1>1. PICK stack : stack = v.stack
    BY Zenon
<1>2. PICK h : h = [i \in 1..Len(s) |-> stack[i - 1]]
    BY Zenon
<1>3. \A i \in 1..Len(s) : i - 1 \in 0..InlineSize - 1
    BY <1>0
<1>4. h \in [1..Len(s) -> Nat]
    BY <1>0, <1>1, <1>2, <1>3
<1>5. h \in Seq(Nat) /\ Len(h) = Len(s) /\ \A i \in 1..Len(s) : h[i] = stack[i - 1]
    BY <1>0, <1>2, <1>4
<1>6. <<>> \o h = h
    BY <1>5, ConcatEmptySeq
<1>7. MigrateToHeap(v) = [v EXCEPT !.heap = h, !.on_heap = TRUE]
    BY <1>0, <1>1, <1>2, <1>6 DEF MigrateToHeap
<1>8. MigrateToHeap(v) = [stack |-> stack, heap |-> h, size |-> Len(s), on_heap |-> TRUE]
    BY <1>0, <1>1, <1>7
<1>9. VectorHolds(MigrateToHeap(v), s)
    BY <1>0, <1>1, <1>5, <1>8, VectorOnHeap
<1>10. MigrateToHeap(v).on_heap
    BY <1>8
<1> QED
    BY <1>9, <1>10

\* push_back, to where the elements are
LEMMA VectorPushedOnHeap ==
    ASSUME NEW v, NEW s, VectorHolds(v, s), v.on_heap, NEW x \in Nat
    PROVE  VectorHolds([v EXCEPT !.heap = Append(@, x), !.size = @ + 1], Append(s, x))
<1>0. /\ v = [stack |-> v.stack, heap |-> v.heap, size |-> v.size, on_heap |-> v.on_heap]
      /\ v.stack \in [0..InlineSize - 1 -> Nat] /\ s \in Seq(Nat) /\ v.size = Len(s) /\ v.on_heap = TRUE
      /\ v.heap \in Seq(Nat) /\ Len(v.heap) = Len(s)
      /\ \A i \in 1..Len(s) : s[i] # AnyElement => v.heap[i] = s[i]
    BY DEF VectorHolds
<1>1. PICK h : h = Append(v.heap, x)
    BY Zenon
<1>2. PICK t : t = Append(s, x)
    BY Zenon
<1>3. PICK n : n = Len(s)
    BY Zenon
<1>4. /\ n \in Nat /\ h \in Seq(Nat) /\ Len(h) = n + 1 /\ h[n + 1] = x /\ \A i \in 1..n : h[i] = v.heap[i]
      /\ t \in Seq(Nat) /\ Len(t) = n + 1 /\ t[n + 1] = x /\ \A i \in 1..n : t[i] = s[i]
    BY <1>0, <1>1, <1>2, <1>3
<1>5. \A i \in 1..n + 1 : t[i] # AnyElement => h[i] = t[i]
    <2> TAKE i \in 1..n + 1
    <2>1. i \in 1..n \/ i = n + 1
        BY <1>4
    <2> QED
        BY <1>0, <1>3, <1>4, <2>1
<1>6. PICK w : w = [v EXCEPT !.heap = Append(@, x), !.size = @ + 1]
    BY Zenon
<1>7. w = [v EXCEPT !.heap = h, !.size = Len(t)]
    BY <1>0, <1>1, <1>3, <1>4, <1>6
<1>8. w = [stack |-> v.stack, heap |-> h, size |-> Len(t), on_heap |-> TRUE]
    BY <1>0, <1>7
<1>9. VectorHolds(w, t)
    BY <1>0, <1>4, <1>5, <1>8, VectorOnHeap
<1> QED
    BY <1>2, <1>6, <1>9

\* push_back, in place
LEMMA VectorPushedInline ==
    ASSUME NEW v, NEW s, VectorHolds(v, s), ~v.on_heap, v.size # InlineSize, NEW x \in Nat
    PROVE  VectorHolds([v EXCEPT !.stack[v.size] = x, !.size = @ + 1], Append(s, x))
<1>0. /\ v = [stack |-> v.stack, heap |-> v.heap, size |-> v.size, on_heap |-> v.on_heap]
      /\ v.stack \in [0..InlineSize - 1 -> Nat] /\ s \in Seq(Nat) /\ v.size = Len(s) /\ v.on_heap = FALSE
      /\ v.heap = <<>> /\ v.size <= InlineSize /\ InlineSize \in Nat
      /\ \A i \in 1..Len(s) : s[i] # AnyElement => v.stack[i - 1] = s[i]
    BY ContainersAssumption DEF VectorHolds
<1>1. PICK n : n = v.size
    BY Zenon
<1>2. PICK t : t = Append(s, x)
    BY Zenon
<1>3. /\ n \in 0..InlineSize - 1 /\ Len(s) = n
      /\ t \in Seq(Nat) /\ Len(t) = n + 1 /\ t[n + 1] = x /\ \A i \in 1..n : t[i] = s[i]
    BY <1>0, <1>1, <1>2
<1>4. PICK a : a = [v.stack EXCEPT ![n] = x]
    BY Zenon
<1>5. a \in [0..InlineSize - 1 -> Nat] /\ a[n] = x /\ \A i \in 0..n - 1 : a[i] = v.stack[i]
    BY <1>0, <1>3, <1>4
<1>6. \A i \in 1..n + 1 : t[i] # AnyElement => a[i - 1] = t[i]
    <2> TAKE i \in 1..n + 1
    <2>1. CASE i \in 1..n
        <3>1. i - 1 \in 0..n - 1
            BY <1>3, <2>1
        <3> QED
            BY <1>0, <1>3, <1>5, <2>1, <3>1
    <2>2. CASE i = n + 1
        <3>1. i - 1 = n
            BY <1>3, <2>2
        <3> QED
            BY <1>3, <1>5, <2>2, <3>1
    <2> QED
        BY <1>3, <2>1, <2>2
<1>7. PICK w : w = [v EXCEPT !.stack[v.size] = x, !.size = @ + 1]
    BY Zenon
<1>8. w = [v EXCEPT !.stack = a, !.size = Len(t)]
    BY <1>0, <1>1, <1>3, <1>4, <1>7
<1>9. w = [stack |-> a, heap |-> <<>>, size |-> Len(t), on_heap |-> FALSE]
    BY <1>0, <1>8
<1>10. Len(t) <= InlineSize
    BY <1>0, <1>3
<1>11. VectorHolds(w, t)
    BY <1>3, <1>5, <1>6, <1>9, <1>10, VectorInline
<1> QED
    BY <1>2, <1>7, <1>11

\* All but the last
LEMMA FrontOf ==
    ASSUME NEW q \in Seq(Nat), NEW n \in Nat, Len(q) = n + 1
    PROVE  Front(q) \in Seq(Nat) /\ Len(Front(q)) = n /\ \A i \in 1..n : Front(q)[i] = q[i]
<1>1. Front(q) = SubSeq(q, 1, n)
    BY DEF Front
<1>2. \A i \in 1..n : q[i] \in Nat
    OBVIOUS
<1>3. /\ SubSeq(q, 1, n) \in Seq(Nat)
      /\ Len(SubSeq(q, 1, n)) = IF 1 <= n THEN n - 1 + 1 ELSE 0
      /\ \A i \in 1..n - 1 + 1 : SubSeq(q, 1, n)[i] = q[1 + i - 1]
    BY <1>2, SubSeqProperties
<1> QED
    BY <1>1, <1>3

\* pop_back
LEMMA VectorPopped ==
    ASSUME NEW v, NEW s, VectorHolds(v, s), v.size > 0
    PROVE  VectorHolds([v EXCEPT !.heap = IF v.on_heap THEN Front(@) ELSE @, !.size = @ - 1], Front(s))
<1>0. /\ v = [stack |-> v.stack, heap |-> v.heap, size |-> v.size, on_heap |-> v.on_heap]
      /\ v.stack \in [0..InlineSize - 1 -> Nat] /\ v.heap \in Seq(Nat) /\ v.on_heap \in BOOLEAN
      /\ s \in Seq(Nat) /\ v.size = Len(s) /\ InlineSize \in Nat
    BY ContainersAssumption DEF VectorHolds
<1>1. /\ v.on_heap => Len(v.heap) = v.size /\ \A i \in 1..Len(s) : s[i] # AnyElement => v.heap[i] = s[i]
      /\ ~v.on_heap => /\ v.heap = <<>> /\ v.size <= InlineSize
                       /\ \A i \in 1..Len(s) : s[i] # AnyElement => v.stack[i - 1] = s[i]
    BY DEF VectorHolds
<1>2. PICK n : n = v.size - 1
    BY Zenon
<1>3. PICK t : t = Front(s)
    BY Zenon
<1>4. n \in Nat /\ Len(s) = n + 1 /\ t \in Seq(Nat) /\ Len(t) = n /\ \A i \in 1..n : t[i] = s[i]
    <2>1. n \in Nat /\ Len(s) = n + 1
        BY <1>0, <1>2
    <2> QED
        BY <1>0, <1>3, <2>1, FrontOf
<1>5. PICK w : w = [v EXCEPT !.heap = IF v.on_heap THEN Front(@) ELSE @, !.size = @ - 1]
    BY Zenon
<1>6. CASE v.on_heap
    <2>1. PICK h : h = Front(v.heap)
        BY Zenon
    <2>2. h \in Seq(Nat) /\ Len(h) = n /\ \A i \in 1..n : h[i] = v.heap[i]
        <3>1. v.heap \in Seq(Nat) /\ Len(v.heap) = n + 1
            BY <1>0, <1>1, <1>4, <1>6
        <3> QED
            BY <1>4, <2>1, <3>1, FrontOf
    <2>3. w = [v EXCEPT !.heap = h, !.size = n]
        BY <1>2, <1>5, <1>6, <2>1
    <2>4. w = [stack |-> v.stack, heap |-> h, size |-> Len(t), on_heap |-> TRUE]
        BY <1>0, <1>4, <1>6, <2>3
    <2>5. \A i \in 1..Len(t) : t[i] # AnyElement => h[i] = t[i]
        BY <1>1, <1>4, <1>6, <2>2
    <2>6. VectorHolds(w, t)
        BY <1>0, <1>4, <2>2, <2>4, <2>5, VectorOnHeap
    <2> QED
        BY <1>3, <1>5, <2>6
<1>7. CASE ~v.on_heap
    <2>1. w = [v EXCEPT !.heap = v.heap, !.size = n]
        BY <1>2, <1>5, <1>7
    <2>2. w = [stack |-> v.stack, heap |-> <<>>, size |-> Len(t), on_heap |-> FALSE]
        BY <1>0, <1>1, <1>4, <1>7, <2>1
    <2>3. Len(t) <= InlineSize /\ \A i \in 1..Len(t) : t[i] # AnyElement => v.stack[i - 1] = t[i]
        BY <1>0, <1>1, <1>4, <1>7
    <2>4. VectorHolds(w, t)
        BY <1>0, <1>4, <2>2, <2>3, VectorInline
    <2> QED
        BY <1>3, <1>5, <2>4
<1> QED
    BY <1>6, <1>7

\* clear, and the elements are in place again
LEMMA VectorCleared ==
    ASSUME NEW v, NEW s, VectorHolds(v, s)
    PROVE  VectorHolds([v EXCEPT !.heap = IF v.on_heap THEN <<>> ELSE @, !.size = 0, !.on_heap = FALSE], <<>>)
<1>1. /\ v = [stack |-> v.stack, heap |-> v.heap, size |-> v.size, on_heap |-> v.on_heap]
      /\ v.stack \in [0..InlineSize - 1 -> Nat] /\ (~v.on_heap => v.heap = <<>>)
    BY DEF VectorHolds
<1>2. PICK e : e = <<>>
    BY Zenon
<1>3. e \in Seq(Nat) /\ Len(e) = 0 /\ 0 <= InlineSize
    BY <1>2, ContainersAssumption
<1>4. PICK w : w = [v EXCEPT !.heap = IF v.on_heap THEN <<>> ELSE @, !.size = 0, !.on_heap = FALSE]
    BY Zenon
<1>5. w = [v EXCEPT !.heap = e, !.size = 0, !.on_heap = FALSE]
    BY <1>1, <1>2, <1>4
<1>6. w = [stack |-> v.stack, heap |-> <<>>, size |-> Len(e), on_heap |-> FALSE]
    BY <1>1, <1>2, <1>3, <1>5
<1>7. VectorHolds(w, e)
    <2>1. Len(e) <= InlineSize /\ \A i \in 1..Len(e) : e[i] # AnyElement => v.stack[i - 1] = e[i]
        BY <1>3
    <2> QED
        BY <1>1, <1>3, <1>6, <2>1, VectorInline
<1> QED
    BY <1>2, <1>4, <1>7

\* What resize leaves
Resized(v, n) ==
    LET kept == IF v.size < n THEN v.size ELSE n
    IN  IF n <= InlineSize
        THEN [v EXCEPT !.stack = IF v.on_heap
                                 THEN [i \in DOMAIN @ |-> IF i < kept THEN v.heap[i + 1] ELSE @[i]]
                                 ELSE @,
                       !.heap = IF v.on_heap THEN <<>> ELSE @, !.on_heap = FALSE, !.size = n]
        ELSE LET h == IF v.on_heap THEN v ELSE MigrateToHeap(v)
             IN  [h EXCEPT !.heap = [i \in 1..n |-> IF i <= v.size THEN @[i] ELSE 0], !.size = n]
ResizedRef(s, n, old) ==
    [i \in 1..n |-> IF i <= old THEN s[i] ELSE IF n <= InlineSize THEN AnyElement ELSE 0]

\* resize keeps the elements there are, on whichever side of the inline size
\* the old and the new size are.
LEMMA VectorResized ==
    ASSUME NEW v, NEW s, VectorHolds(v, s), NEW n \in Nat
    PROVE  VectorHolds(Resized(v, n), ResizedRef(s, n, v.size))
<1>0. /\ v = [stack |-> v.stack, heap |-> v.heap, size |-> v.size, on_heap |-> v.on_heap]
      /\ v.stack \in [0..InlineSize - 1 -> Nat] /\ v.heap \in Seq(Nat) /\ v.on_heap \in BOOLEAN
      /\ s \in Seq(Nat) /\ v.size = Len(s) /\ v.size \in Nat /\ InlineSize \in Nat /\ AnyElement \in Nat
    BY ContainersAssumption DEF VectorHolds, AnyElement
<1>1. /\ v.on_heap => Len(v.heap) = v.size /\ \A i \in 1..Len(s) : s[i] # AnyElement => v.heap[i] = s[i]
      /\ ~v.on_heap => /\ v.heap = <<>> /\ v.size <= InlineSize
                       /\ \A i \in 1..Len(s) : s[i] # AnyElement => v.stack[i - 1] = s[i]
    BY DEF VectorHolds
<1>2. PICK m : m = v.size
    BY Zenon
<1>3. PICK t : t = ResizedRef(s, n, m)
    BY Zenon
<1>4. /\ t \in Seq(Nat) /\ Len(t) = n
      /\ \A i \in 1..n : t[i] = IF i <= m THEN s[i] ELSE IF n <= InlineSize THEN AnyElement ELSE 0
    <2>1. t = [i \in 1..n |-> IF i <= m THEN s[i] ELSE IF n <= InlineSize THEN AnyElement ELSE 0]
        BY <1>3 DEF ResizedRef
    <2>2. \A i \in 1..n : (IF i <= m THEN s[i] ELSE IF n <= InlineSize THEN AnyElement ELSE 0) \in Nat
        BY <1>0, <1>2
    <2>3. t \in [1..n -> Nat]
        BY <2>1, <2>2
    <2> QED
        BY <2>1, <2>3
<1>5. PICK w : w = Resized(v, n)
    BY Zenon
<1>6. CASE n <= InlineSize /\ v.on_heap
    <2>1. PICK k : k = IF m < n THEN m ELSE n
        BY Zenon
    <2>2. PICK a : a = [i \in 0..InlineSize - 1 |-> IF i < k THEN v.heap[i + 1] ELSE v.stack[i]]
        BY Zenon
    <2>3. k \in Nat /\ k <= m /\ k <= n
        BY <1>0, <1>2, <2>1
    <2>4. a \in [0..InlineSize - 1 -> Nat]
        <3>1. \A i \in 0..InlineSize - 1 : (IF i < k THEN v.heap[i + 1] ELSE v.stack[i]) \in Nat
            <4> TAKE i \in 0..InlineSize - 1
            <4>1. CASE i < k
                <5>1. i + 1 \in 1..Len(v.heap)
                    BY <1>0, <1>1, <1>2, <1>6, <2>3, <4>1
                <5> QED
                    BY <1>0, <4>1, <5>1
            <4>2. CASE ~(i < k)
                BY <1>0, <4>2
            <4> QED
                BY <4>1, <4>2
        <3> QED
            BY <2>2, <3>1
    <2>5. \A i \in 1..n : t[i] # AnyElement => a[i - 1] = t[i]
        <3> TAKE i \in 1..n
        <3>1. CASE i <= m
            <4>1. i - 1 \in 0..InlineSize - 1 /\ i - 1 < k /\ (i - 1) + 1 = i /\ i \in 1..Len(s)
                BY <1>0, <1>2, <1>6, <2>1, <3>1
            <4>2. a[i - 1] = v.heap[i] /\ t[i] = s[i]
                BY <1>4, <2>2, <3>1, <4>1
            <4> QED
                BY <1>1, <1>6, <4>1, <4>2
        <3>2. CASE ~(i <= m)
            BY <1>4, <1>6, <3>2
        <3> QED
            BY <3>1, <3>2
    <2>6. w = [v EXCEPT !.stack = a, !.heap = <<>>, !.on_heap = FALSE, !.size = n]
        <3>1. DOMAIN v.stack = 0..InlineSize - 1
            BY <1>0
        <3>2. a = [i \in DOMAIN v.stack |-> IF i < k THEN v.heap[i + 1] ELSE v.stack[i]]
            BY <2>2, <3>1
        <3> QED
            BY <1>2, <1>5, <1>6, <2>1, <3>2 DEF Resized
    <2>7. w = [stack |-> a, heap |-> <<>>, size |-> Len(t), on_heap |-> FALSE]
        BY <1>0, <1>4, <2>6
    <2> QED
        BY <1>2, <1>3, <1>4, <1>5, <1>6, <2>4, <2>5, <2>7, VectorInline
<1>7. CASE n <= InlineSize /\ ~v.on_heap
    <2>1. \A i \in 1..n : t[i] # AnyElement => v.stack[i - 1] = t[i]
        BY <1>0, <1>1, <1>2, <1>4, <1>7
    <2>2. w = [v EXCEPT !.stack = v.stack, !.heap = v.heap, !.on_heap = FALSE, !.size = n]
        BY <1>5, <1>7 DEF Resized
    <2>3. w = [stack |-> v.stack, heap |-> <<>>, size |-> Len(t), on_heap |-> FALSE]
        BY <1>0, <1>1, <1>4, <1>7, <2>2
    <2> QED
        BY <1>0, <1>2, <1>3, <1>4, <1>5, <1>7, <2>1, <2>3, VectorInline
<1>8. CASE ~(n <= InlineSize)
    <2>1. PICK h : h = IF v.on_heap THEN v ELSE MigrateToHeap(v)
        BY Zenon
    <2>2. VectorHolds(h, s) /\ h.on_heap
        BY <2>1, VectorMigrated
    <2>3. /\ h = [stack |-> h.stack, heap |-> h.heap, size |-> h.size, on_heap |-> h.on_heap]
          /\ h.stack \in [0..InlineSize - 1 -> Nat] /\ h.heap \in Seq(Nat) /\ h.on_heap = TRUE
          /\ Len(h.heap) = Len(s) /\ \A i \in 1..Len(s) : s[i] # AnyElement => h.heap[i] = s[i]
        BY <2>2 DEF VectorHolds
    <2>4. PICK b : b = [i \in 1..n |-> IF i <= m THEN h.heap[i] ELSE 0]
        BY Zenon
    <2>5. b \in Seq(Nat) /\ Len(b) = n /\ \A i \in 1..n : b[i] = IF i <= m THEN h.heap[i] ELSE 0
        <3>1. \A i \in 1..n : (IF i <= m THEN h.heap[i] ELSE 0) \in Nat
            BY <1>0, <1>2, <2>3
        <3>2. b \in [1..n -> Nat]
            BY <2>4, <3>1
        <3> QED
            BY <2>4, <3>2
    <2>6. \A i \in 1..n : t[i] # AnyElement => b[i] = t[i]
        <3> TAKE i \in 1..n
        <3>1. CASE i <= m
            <4>1. i \in 1..Len(s)
                BY <1>0, <1>2, <3>1
            <4> QED
                BY <1>4, <2>3, <2>5, <3>1, <4>1
        <3>2. CASE ~(i <= m)
            BY <1>4, <1>8, <2>5, <3>2
        <3> QED
            BY <3>1, <3>2
    <2>7. w = [h EXCEPT !.heap = b, !.size = n]
        BY <1>2, <1>5, <1>8, <2>1, <2>4 DEF Resized
    <2>8. w = [stack |-> h.stack, heap |-> b, size |-> Len(t), on_heap |-> TRUE]
        BY <1>4, <2>3, <2>7
    <2> QED
        BY <1>2, <1>3, <1>4, <1>5, <2>3, <2>5, <2>6, <2>8, VectorOnHeap
<1> QED
    BY <1>6, <1>7, <1>8

------------------------------------------------------------------------------
(* ReuseMap                                                                  *)

\* The first of some slots is one of them.
LEMMA FirstIsOne ==
    ASSUME NEW S \in SUBSET Nat, S # {}
    PROVE FirstOf(S) \in S
<1>1. PICK x \in S : \A y \in S : ~(<<y, x>> \in OpToRel(<, Nat))
    BY NatLessThanWellFounded, WFMin
<1>2. \A y \in S : ~(y < x)
    BY <1>1, Zenon DEF OpToRel
<1>3. \A y \in S : x <= y
    BY <1>2
<1> QED
    BY <1>3, Zenon DEF FirstOf

Slot == [key : Elements, value : Elements, occupied : BOOLEAN]

\* The slots sl hold the map mr, a key once.
MapHolds(sl, mr) ==
    /\ sl \in Seq(Slot)
    /\ \A i, j \in 1..Len(sl) : sl[i].occupied /\ sl[j].occupied /\ sl[i].key = sl[j].key => i = j
    /\ DOMAIN mr \subseteq Elements
    /\ \A k \in Elements : k \in DOMAIN mr <=> \E i \in 1..Len(sl) : sl[i].occupied /\ sl[i].key = k
    /\ \A i \in 1..Len(sl) : sl[i].occupied => mr[sl[i].key] = sl[i].value

\* The map mr and a new key
WithKey(mr, k, x) == [j \in DOMAIN mr \cup {k} |-> IF j = k THEN x ELSE mr[j]]

\* insert, into the slot f that is free or new
LEMMA MapAdds ==
    ASSUME NEW sl, NEW mr, MapHolds(sl, mr), NEW k \in Elements, NEW x \in Elements, k \notin DOMAIN mr,
           NEW sl2, sl2 \in Seq(Slot), NEW f \in 1..Len(sl2), Len(sl) <= Len(sl2),
           \A i \in 1..Len(sl2) : i = f \/ (i \in 1..Len(sl) /\ sl2[i] = sl[i]),
           f \in 1..Len(sl) => ~sl[f].occupied,
           sl2[f] = [key |-> k, value |-> x, occupied |-> TRUE]
    PROVE  MapHolds(sl2, WithKey(mr, k, x))
<1>1. PICK mr2 : mr2 = WithKey(mr, k, x)
    BY Zenon
<1>2. /\ DOMAIN mr2 = DOMAIN mr \cup {k} /\ mr2[k] = x
      /\ \A j \in DOMAIN mr : j # k => mr2[j] = mr[j]
    BY <1>1 DEF WithKey
<1>3. sl2[f].key = k /\ sl2[f].value = x /\ sl2[f].occupied
    OBVIOUS
<1>4. Len(sl) \in Nat /\ Len(sl2) \in Nat /\ 1..Len(sl) \subseteq 1..Len(sl2) /\ sl \in Seq(Slot)
      /\ \A i \in 1..Len(sl) : sl[i] \in Slot
    BY DEF MapHolds
<1>5. \A i \in 1..Len(sl) : sl[i].occupied => sl[i].key \in DOMAIN mr /\ sl[i].key # k
    BY <1>4, Zenon DEF MapHolds, Slot
<1>6. \A i \in 1..Len(sl2) : sl2[i].occupied /\ i # f =>
          i \in 1..Len(sl) /\ sl2[i] = sl[i] /\ sl[i].occupied /\ sl2[i].key # k
    BY <1>5
<1>7. ASSUME NEW i \in 1..Len(sl2), NEW j \in 1..Len(sl2), sl2[i].occupied, sl2[j].occupied, sl2[i].key = sl2[j].key
      PROVE  i = j
    BY <1>3, <1>6, <1>7 DEF MapHolds
<1>8. DOMAIN mr2 \subseteq Elements
    BY <1>2 DEF MapHolds
<1>9. ASSUME NEW h \in Elements
      PROVE  h \in DOMAIN mr2 <=> \E i \in 1..Len(sl2) : sl2[i].occupied /\ sl2[i].key = h
    <2>1. CASE h = k
        BY <1>2, <1>3, <2>1
    <2>2. CASE h # k
        <3>1. ASSUME h \in DOMAIN mr2 PROVE \E i \in 1..Len(sl2) : sl2[i].occupied /\ sl2[i].key = h
            <4>1. PICK i \in 1..Len(sl) : sl[i].occupied /\ sl[i].key = h
                BY <1>2, <2>2, <3>1 DEF MapHolds
            <4>2. i \in 1..Len(sl2) /\ i # f
                BY <1>4, <4>1
            <4>3. sl2[i] = sl[i]
                BY <4>2
            <4> QED
                BY <4>1, <4>2, <4>3
        <3>2. ASSUME NEW i \in 1..Len(sl2), sl2[i].occupied, sl2[i].key = h PROVE h \in DOMAIN mr2
            <4>1. i # f
                BY <1>3, <2>2, <3>2
            <4> QED
                BY <1>2, <1>5, <1>6, <3>2, <4>1
        <3> QED
            BY <3>1, <3>2
    <2> QED
        BY <2>1, <2>2
<1>10. ASSUME NEW i \in 1..Len(sl2), sl2[i].occupied
       PROVE  mr2[sl2[i].key] = sl2[i].value
    <2>1. CASE i = f
        BY <1>2, <1>3, <2>1
    <2>2. CASE i # f
        <3>1. i \in 1..Len(sl) /\ sl2[i] = sl[i] /\ sl[i].occupied /\ sl2[i].key # k
            BY <1>6, <1>10, <2>2
        <3>2. mr[sl[i].key] = sl[i].value
            BY <3>1 DEF MapHolds
        <3> QED
            BY <1>2, <1>5, <3>1, <3>2
    <2> QED
        BY <2>1, <2>2
<1>11. MapHolds(sl2, mr2)
    BY <1>7, <1>8, <1>9, <1>10 DEF MapHolds
<1> QED
    BY <1>1, <1>11

\* erase, of the slots f that no longer are occupied
LEMMA MapDrops ==
    ASSUME NEW sl, NEW mr, MapHolds(sl, mr), NEW K \in SUBSET Elements,
           NEW sl2, sl2 \in Seq(Slot), Len(sl2) = Len(sl),
           \A i \in 1..Len(sl) : /\ sl2[i].key = sl[i].key /\ sl2[i].value = sl[i].value
                                 /\ sl2[i].occupied <=> sl[i].occupied /\ sl[i].key \notin K
    PROVE  MapHolds(sl2, [j \in DOMAIN mr \ K |-> mr[j]])
<1>1. PICK mr2 : mr2 = [j \in DOMAIN mr \ K |-> mr[j]]
    BY Zenon
<1>2. DOMAIN mr2 = DOMAIN mr \ K /\ \A j \in DOMAIN mr2 : mr2[j] = mr[j]
    BY <1>1
<1>4. \A i \in 1..Len(sl) : sl[i] \in Slot
    BY DEF MapHolds
<1>5. \A i \in 1..Len(sl) : sl[i].occupied => sl[i].key \in DOMAIN mr
    BY <1>4, Zenon DEF MapHolds, Slot
<1>7. ASSUME NEW i \in 1..Len(sl), NEW j \in 1..Len(sl), sl2[i].occupied, sl2[j].occupied, sl2[i].key = sl2[j].key
      PROVE  i = j
    BY <1>7 DEF MapHolds
<1>8. DOMAIN mr2 \subseteq Elements
    BY <1>2 DEF MapHolds
<1>9. ASSUME NEW h \in Elements
      PROVE  h \in DOMAIN mr2 <=> \E i \in 1..Len(sl) : sl2[i].occupied /\ sl2[i].key = h
    <2>1. h \in DOMAIN mr <=> \E i \in 1..Len(sl) : sl[i].occupied /\ sl[i].key = h
        BY DEF MapHolds
    <2> QED
        BY <1>2, <2>1
<1>10. ASSUME NEW i \in 1..Len(sl), sl2[i].occupied
       PROVE  mr2[sl2[i].key] = sl2[i].value
    <2>1. sl[i].occupied /\ sl[i].key \in DOMAIN mr2
        BY <1>2, <1>5, <1>10
    <2>2. mr[sl[i].key] = sl[i].value
        BY <2>1 DEF MapHolds
    <2> QED
        BY <1>2, <2>1, <2>2
<1>11. MapHolds(sl2, mr2)
    BY <1>7, <1>8, <1>9, <1>10 DEF MapHolds
<1> QED
    BY <1>1, <1>11

\* insert: a key that is there keeps its value.
LEMMA MapInserted ==
    ASSUME MapHolds(slots, map_ref), NEW k \in Elements, NEW x \in Elements, MapInsert(k, x)
    PROVE  MapHolds(slots', map_ref')
<1>1. PICK slot : slot = [key |-> k, value |-> x, occupied |-> TRUE]
    BY Zenon
<1>2. slot \in Slot
    BY <1>1 DEF Slot
<1>3. /\ slots \in Seq(Slot) /\ DOMAIN slots = 1..Len(slots) /\ Len(slots) \in Nat
      /\ \A i \in 1..Len(slots) : slots[i] \in Slot
    BY DEF MapHolds
<1>4. k \in DOMAIN map_ref <=> SlotOf(k) # {}
    BY <1>3 DEF MapHolds, SlotOf
<1>5. /\ slots' = IF SlotOf(k) # {} THEN slots
                  ELSE IF FreeSlots # {} THEN [slots EXCEPT ![FirstOf(FreeSlots)] = slot]
                  ELSE Append(slots, slot)
      /\ map_ref' = IF k \in DOMAIN map_ref THEN map_ref
                    ELSE WithKey(map_ref, k, x)
    BY <1>1 DEF MapInsert, WithKey
<1>6. CASE SlotOf(k) # {}
    BY <1>4, <1>5, <1>6
<1>7. CASE SlotOf(k) = {} /\ FreeSlots # {}
    <2>1. PICK f : f = FirstOf(FreeSlots)
        BY Zenon
    <2>2. FreeSlots \in SUBSET Nat
        BY <1>3 DEF FreeSlots
    <2>3. f \in FreeSlots
        BY <1>7, <2>1, <2>2, FirstIsOne
    <2>4. f \in 1..Len(slots) /\ ~slots[f].occupied
        BY <1>3, <2>3 DEF FreeSlots
    <2>5. PICK s2 : s2 = [slots EXCEPT ![f] = slot]
        BY Zenon
    <2>6. s2 \in Seq(Slot) /\ Len(s2) = Len(slots) /\ s2[f] = slot /\ \A i \in 1..Len(slots) : i # f => s2[i] = slots[i]
        BY <1>2, <1>3, <2>4, <2>5, ExceptSeq
    <2>7. \A i \in 1..Len(s2) : i = f \/ (i \in 1..Len(slots) /\ s2[i] = slots[i])
        BY <2>6
    <2>8. f \in 1..Len(s2) /\ Len(slots) <= Len(s2)
        BY <1>3, <2>4, <2>6
    <2>9. MapHolds(s2, WithKey(map_ref, k, x))
        <3>1. k \notin DOMAIN map_ref /\ s2[f] = [key |-> k, value |-> x, occupied |-> TRUE]
            BY <1>1, <1>4, <1>7, <2>6
        <3> QED
            BY <2>4, <2>6, <2>7, <2>8, <3>1, MapAdds
    <2> QED
        BY <1>4, <1>5, <1>7, <2>1, <2>5, <2>9
<1>8. CASE SlotOf(k) = {} /\ FreeSlots = {}
    <2>5. PICK s2 : s2 = Append(slots, slot)
        BY Zenon
    <2>1. PICK f : f = Len(slots) + 1
        BY Zenon
    <2>6. s2 \in Seq(Slot) /\ Len(s2) = f /\ s2[f] = slot /\ \A i \in 1..Len(slots) : s2[i] = slots[i]
        BY <1>2, <1>3, <2>1, <2>5
    <2>7. \A i \in 1..Len(s2) : i = f \/ (i \in 1..Len(slots) /\ s2[i] = slots[i])
        BY <1>3, <2>1, <2>6
    <2>8. f \in 1..Len(s2) /\ Len(slots) <= Len(s2) /\ f \notin 1..Len(slots)
        BY <1>3, <2>1, <2>6
    <2>9. MapHolds(s2, WithKey(map_ref, k, x))
        <3>1. k \notin DOMAIN map_ref /\ s2[f] = [key |-> k, value |-> x, occupied |-> TRUE]
            BY <1>1, <1>4, <1>8, <2>6
        <3> QED
            BY <2>6, <2>7, <2>8, <3>1, MapAdds
    <2> QED
        BY <1>4, <1>5, <1>8, <2>5, <2>9
<1> QED
    BY <1>6, <1>7, <1>8

\* erase: the slot stays for the next key.
LEMMA MapErased ==
    ASSUME MapHolds(slots, map_ref), NEW k \in Elements, MapErase(k)
    PROVE  MapHolds(slots', map_ref')
<1>3. /\ slots \in Seq(Slot) /\ DOMAIN slots = 1..Len(slots) /\ Len(slots) \in Nat
      /\ \A i \in 1..Len(slots) : slots[i] \in Slot
    BY DEF MapHolds
<1>4. /\ slots' = IF SlotOf(k) = {} THEN slots ELSE [slots EXCEPT ![FirstOf(SlotOf(k))].occupied = FALSE]
      /\ map_ref' = [j \in DOMAIN map_ref \ {k} |-> map_ref[j]]
    BY DEF MapErase
<1>5. CASE SlotOf(k) = {}
    <2>1. \A i \in 1..Len(slots) : slots[i].occupied <=> slots[i].occupied /\ slots[i].key \notin {k}
        BY <1>3, <1>5 DEF SlotOf
    <2>2. MapHolds(slots, [j \in DOMAIN map_ref \ {k} |-> map_ref[j]])
        BY <1>3, <2>1, MapDrops
    <2> QED
        BY <1>4, <1>5, <2>2
<1>6. CASE SlotOf(k) # {}
    <2>1. PICK f : f = FirstOf(SlotOf(k))
        BY Zenon
    <2>2. SlotOf(k) \in SUBSET Nat
        BY <1>3 DEF SlotOf
    <2>3. f \in SlotOf(k)
        BY <1>6, <2>1, <2>2, FirstIsOne
    <2>4. f \in 1..Len(slots) /\ slots[f].occupied /\ slots[f].key = k
        BY <1>3, <2>3 DEF SlotOf
    <2>5. PICK e : e = [slots[f] EXCEPT !.occupied = FALSE]
        BY Zenon
    <2>6. e \in Slot /\ e.key = k /\ e.value = slots[f].value /\ e.occupied = FALSE
        BY <1>3, <2>4, <2>5 DEF Slot
    <2>7. PICK s2 : s2 = [slots EXCEPT ![f] = e]
        BY Zenon
    <2>8. s2 \in Seq(Slot) /\ Len(s2) = Len(slots) /\ s2[f] = e /\ \A i \in 1..Len(slots) : i # f => s2[i] = slots[i]
        BY <1>3, <2>4, <2>6, <2>7, ExceptSeq
    <2>9. ASSUME NEW i \in 1..Len(slots)
          PROVE  /\ s2[i].key = slots[i].key /\ s2[i].value = slots[i].value
                 /\ s2[i].occupied <=> slots[i].occupied /\ slots[i].key \notin {k}
        <3>1. CASE i = f
            BY <2>4, <2>6, <2>8, <3>1
        <3>2. CASE i # f
            <4>1. slots[i].occupied => slots[i].key # k
                BY <2>4, <3>2 DEF MapHolds
            <4> QED
                BY <2>8, <3>2, <4>1
        <3> QED
            BY <3>1, <3>2
    <2>10. MapHolds(s2, [j \in DOMAIN map_ref \ {k} |-> map_ref[j]])
        BY <2>8, <2>9, MapDrops
    <2>11. slots' = s2
        BY <1>4, <1>6, <2>1, <2>5, <2>7
    <2> QED
        BY <1>4, <2>10, <2>11
<1> QED
    BY <1>5, <1>6

\* clear: no slot is occupied.
LEMMA MapCleared ==
    ASSUME MapHolds(slots, map_ref), MapClear
    PROVE  MapHolds(slots', map_ref')
<1>3. /\ slots \in Seq(Slot) /\ DOMAIN slots = 1..Len(slots) /\ Len(slots) \in Nat
      /\ \A i \in 1..Len(slots) : slots[i] \in Slot
    BY DEF MapHolds
<1>4. slots' = [i \in 1..Len(slots) |-> [slots[i] EXCEPT !.occupied = FALSE]] /\ map_ref' = <<>>
    BY <1>3 DEF MapClear
<1>5. PICK s2 : s2 = slots'
    BY Zenon
<1>6. \A i \in 1..Len(slots) : s2[i] = [slots[i] EXCEPT !.occupied = FALSE] /\ s2[i] \in Slot /\ s2[i].occupied = FALSE
    BY <1>3, <1>4, <1>5 DEF Slot
<1>7. s2 \in [1..Len(slots) -> Slot]
    BY <1>4, <1>5, <1>6
<1>8. s2 \in Seq(Slot) /\ Len(s2) = Len(slots)
    BY <1>3, <1>7
<1>9. PICK m : m = <<>>
    BY Zenon
<1>10. DOMAIN m = {}
    BY <1>9
<1>11. MapHolds(s2, m)
    BY <1>6, <1>8, <1>10 DEF MapHolds
<1> QED
    BY <1>4, <1>5, <1>9, <1>11

\* No slot and no key
LEMMA MapEmpty == MapHolds(<<>>, <<>>)
<1>1. PICK m : m = <<>>
    BY Zenon
<1>2. DOMAIN m = {} /\ m \in Seq(Slot) /\ Len(m) = 0
    BY <1>1
<1>3. MapHolds(m, m)
    BY <1>2 DEF MapHolds
<1> QED
    BY <1>1, <1>3

\* A key has one slot, with its value, or none.
LEMMA MapAgrees ==
    ASSUME MapHolds(slots, map_ref)
    PROVE  /\ \A k \in Elements : Cardinality(SlotOf(k)) = IF k \in DOMAIN map_ref THEN 1 ELSE 0
           /\ \A k \in DOMAIN map_ref : slots[FirstOf(SlotOf(k))].value = map_ref[k]
<1>1. DOMAIN slots = 1..Len(slots) /\ Len(slots) \in Nat /\ DOMAIN map_ref \subseteq Elements
    BY DEF MapHolds
<1>2. ASSUME NEW k \in Elements, k \notin DOMAIN map_ref PROVE Cardinality(SlotOf(k)) = 0
    <2>1. SlotOf(k) = {}
        BY <1>1, <1>2 DEF MapHolds, SlotOf
    <2> QED
        BY <2>1, FS_EmptySet
<1>3. ASSUME NEW k \in DOMAIN map_ref
      PROVE  Cardinality(SlotOf(k)) = 1 /\ slots[FirstOf(SlotOf(k))].value = map_ref[k]
    <2>1. PICK i \in 1..Len(slots) : slots[i].occupied /\ slots[i].key = k
        BY <1>1 DEF MapHolds
    <2>2. SlotOf(k) = {i}
        BY <1>1, <2>1 DEF MapHolds, SlotOf
    <2>3. Cardinality(SlotOf(k)) = 1
        BY <2>2, FS_Singleton
    <2>4. FirstOf(SlotOf(k)) \in SlotOf(k)
        <3>1. SlotOf(k) \in SUBSET Nat /\ SlotOf(k) # {}
            BY <2>2
        <3> QED
            BY <3>1, FirstIsOne
    <2>5. FirstOf(SlotOf(k)) = i
        BY <2>2, <2>4
    <2>6. map_ref[k] = slots[i].value
        BY <2>1 DEF MapHolds
    <2> QED
        BY <2>3, <2>5, <2>6
<1> QED
    BY <1>1, <1>2, <1>3

------------------------------------------------------------------------------
(* ObjectPool                                                                *)

\* An object of the pool is on the free stack, once, or lent, once.
PoolInv ==
    /\ pool \in [0..PoolSize - 1 -> BOOLEAN]
    /\ free_stack \in [0..PoolSize - 1 -> 0..PoolSize - 1] /\ free_top \in 0..PoolSize
    /\ lent \in [Objects -> {0, 1}]
    /\ \A o \in 0..PoolSize - 1 : pool[o] <=> lent[o] = 1
    /\ \A i, j \in 0..free_top - 1 : free_stack[i] = free_stack[j] => i = j
    /\ \A o \in 0..PoolSize - 1 : ~pool[o] <=> \E i \in 0..free_top - 1 : free_stack[i] = o

\* All objects of the pool are objects, those created outside are others.
LEMMA PoolObjects ==
    /\ PoolSize \in Nat \ {0} /\ 0..PoolSize - 1 \subseteq Objects /\ Created \subseteq Objects
    /\ \A o \in Created : o \notin 0..PoolSize - 1
BY ContainersAssumption DEF Objects, Created

\* The full stack
LEMMA PoolFull ==
    ASSUME NEW n \in Nat \ {0}, NEW f, f = [i \in 0..n - 1 |-> i]
    PROVE  /\ f \in [0..n - 1 -> 0..n - 1] /\ n \in 0..n
           /\ \A i, j \in 0..n - 1 : f[i] = f[j] => i = j
           /\ \A o \in 0..n - 1 : \E i \in 0..n - 1 : f[i] = o
<1>1. \A i \in 0..n - 1 : f[i] = i
    OBVIOUS
<1> QED
    BY <1>1

\* While an object is lent the stack has room for it.
LEMMA PoolRoom ==
    ASSUME PoolInv, NEW o \in 0..PoolSize - 1, pool[o]
    PROVE  free_top \in 0..PoolSize - 1
<1>1. SUFFICES ASSUME free_top = PoolSize PROVE FALSE
    BY PoolObjects DEF PoolInv
<1> DEFINE S == 0..PoolSize - 1
           T == S \ {o}
<1>2. IsFiniteSet(S) /\ Cardinality(S) = PoolSize
    <2>1. 0 \in Int /\ PoolSize - 1 \in Int /\ ~(0 > PoolSize - 1) /\ (PoolSize - 1) - 0 + 1 = PoolSize
        BY PoolObjects
    <2>2. IsFiniteSet(0..PoolSize - 1)
          /\ Cardinality(0..PoolSize - 1) = IF 0 > PoolSize - 1 THEN 0 ELSE (PoolSize - 1) - 0 + 1
        BY <2>1, FS_Interval
    <2> QED
        BY <2>1, <2>2
<1>3. IsFiniteSet(T) /\ Cardinality(T) = PoolSize - 1
    BY <1>2, FS_RemoveElement
<1>4. Cardinality(T) < Cardinality(S)
    BY <1>2, <1>3, PoolObjects
<1>5. free_stack \in [S -> T]
    <2>1. \A i \in S : free_stack[i] # o
        BY <1>1 DEF PoolInv
    <2> QED
        BY <2>1 DEF PoolInv
<1>6. \E x, y \in S : x # y /\ free_stack[x] = free_stack[y]
    BY <1>2, <1>3, <1>4, <1>5, FS_PigeonHole
<1> QED
    BY <1>1, <1>6 DEF PoolInv

\* An object from the top of the stack, or another one
LEMMA PoolAllocates ==
    ASSUME PoolInv, PoolAlloc
    PROVE PoolInv'
<1>1. CASE free_top > 0
    <2>1. PICK t : t = free_top - 1
        BY Zenon
    <2>2. PICK x : x = free_stack[t]
        BY Zenon
    <2>3. /\ free_top' = t /\ pool' = [pool EXCEPT ![x] = TRUE] /\ lent' = [lent EXCEPT ![x] = @ + 1]
          /\ free_stack' = free_stack
        BY <1>1, <2>1, <2>2 DEF PoolAlloc
    <2>4. t \in 0..PoolSize - 1 /\ t \in 0..free_top - 1 /\ x \in 0..PoolSize - 1 /\ free_top = t + 1 /\ x \in Objects
        BY <1>1, <2>1, <2>2, PoolObjects DEF PoolInv
    <2>5. ~pool[x] /\ lent[x] = 0
        BY <2>2, <2>4 DEF PoolInv
    <2>6. pool' \in [0..PoolSize - 1 -> BOOLEAN] /\ pool'[x] /\ \A o \in 0..PoolSize - 1 : o # x => pool'[o] = pool[o]
        BY <2>3, <2>4 DEF PoolInv
    <2>7. lent' \in [Objects -> {0, 1}] /\ lent'[x] = 1 /\ \A o \in Objects : o # x => lent'[o] = lent[o]
        BY <2>3, <2>4, <2>5 DEF PoolInv
    <2>8. \A i \in 0..t - 1 : i \in 0..free_top - 1 /\ i # t
        BY <2>4
    <2>9. \A i \in 0..t - 1 : free_stack[i] # x
        BY <2>2, <2>4, <2>8 DEF PoolInv
    <2>10. \A i \in 0..free_top - 1 : i = t \/ i \in 0..t - 1
        BY <2>4
    <2>11. ASSUME NEW o \in 0..PoolSize - 1 PROVE ~pool'[o] <=> \E i \in 0..t - 1 : free_stack[i] = o
        <3>1. CASE o = x
            BY <2>6, <2>9, <3>1
        <3>2. CASE o # x
            <4>1. ~pool[o] <=> \E i \in 0..free_top - 1 : free_stack[i] = o
                BY DEF PoolInv
            <4> QED
                BY <2>2, <2>6, <2>8, <2>10, <3>2, <4>1
        <3> QED
            BY <3>1, <3>2
    <2>12. \A i, j \in 0..t - 1 : free_stack[i] = free_stack[j] => i = j
        BY <2>8 DEF PoolInv
    <2>13. \A o \in 0..PoolSize - 1 : pool'[o] <=> lent'[o] = 1
        BY <2>6, <2>7, PoolObjects DEF PoolInv
    <2>14. t \in 0..PoolSize /\ free_stack' \in [0..PoolSize - 1 -> 0..PoolSize - 1]
        BY <2>3, <2>4, PoolObjects DEF PoolInv
    <2> QED
        BY <2>3, <2>6, <2>7, <2>11, <2>12, <2>13, <2>14 DEF PoolInv
<1>2. CASE ~(free_top > 0)
    <2>1. PICK x \in Created : lent[x] = 0 /\ lent' = [lent EXCEPT ![x] = 1]
        BY <1>2 DEF PoolAlloc
    <2>2. pool' = pool /\ free_stack' = free_stack /\ free_top' = free_top
        BY <1>2 DEF PoolAlloc
    <2>3. lent' \in [Objects -> {0, 1}] /\ \A o \in Objects : o # x => lent'[o] = lent[o]
        BY <2>1, PoolObjects DEF PoolInv
    <2>4. \A o \in 0..PoolSize - 1 : lent'[o] = lent[o]
        BY <2>1, <2>3, PoolObjects
    <2> QED
        BY <2>2, <2>3, <2>4 DEF PoolInv
<1> QED
    BY <1>1, <1>2

\* An object is taken back if it is one that is lent out, and else let be.
LEMMA PoolFrees ==
    ASSUME PoolInv, NEW x \in Objects, PoolFree(x)
    PROVE PoolInv'
<1>1. lent' = [lent EXCEPT ![x] = IF @ > 0 THEN @ - 1 ELSE 0]
    BY DEF PoolFree
<1>2. lent' \in [Objects -> {0, 1}] /\ lent'[x] = 0 /\ \A o \in Objects : o # x => lent'[o] = lent[o]
    BY <1>1 DEF PoolInv
<1>0. DOMAIN pool = 0..PoolSize - 1 /\ DOMAIN free_stack = 0..PoolSize - 1 /\ 0..PoolSize - 1 \subseteq Objects
    BY PoolObjects DEF PoolInv
<1>3. CASE PoolTakes(x)
    <2>1. PICK t : t = free_top
        BY Zenon
    <2>2. x \in 0..PoolSize - 1 /\ pool[x]
        BY <1>0, <1>3 DEF PoolTakes
    <2>3. t \in 0..PoolSize - 1 /\ t \in Nat
        BY <2>1, <2>2, PoolRoom
    <2>4. /\ pool' = [pool EXCEPT ![x] = FALSE] /\ free_top' = t + 1
          /\ free_stack' = [i \in DOMAIN free_stack \cup {t} |-> IF i = t THEN x ELSE free_stack[i]]
        BY <1>3, <2>1 DEF PoolFree
    <2>5. /\ free_stack' \in [0..PoolSize - 1 -> 0..PoolSize - 1] /\ free_stack'[t] = x
          /\ \A i \in 0..t - 1 : free_stack'[i] = free_stack[i] /\ free_stack[i] \in 0..PoolSize - 1
        <3>1. DOMAIN free_stack \cup {t} = 0..PoolSize - 1 /\ PoolSize \in Nat
            BY <1>0, <2>3, PoolObjects
        <3>2. free_stack' = [i \in 0..PoolSize - 1 |-> IF i = t THEN x ELSE free_stack[i]]
            BY <2>4, <3>1
        <3>3. free_stack \in [0..PoolSize - 1 -> 0..PoolSize - 1]
            BY DEF PoolInv
        <3>4. \A i \in 0..t - 1 : i \in 0..PoolSize - 1 /\ i # t
            BY <2>3, <3>1
        <3> QED
            BY <2>2, <2>3, <3>2, <3>3, <3>4
    <2>6. pool' \in [0..PoolSize - 1 -> BOOLEAN] /\ ~pool'[x] /\ \A o \in 0..PoolSize - 1 : o # x => pool'[o] = pool[o]
        BY <2>2, <2>4 DEF PoolInv
    <2>7. \A i \in 0..t : i = t \/ i \in 0..t - 1
        BY <2>3
    <2>8. \A i \in 0..t - 1 : i \in 0..free_top - 1 /\ i \in 0..t /\ free_stack[i] # x
        <3>1. \A i \in 0..free_top - 1 : free_stack[i] # x
            BY <2>2 DEF PoolInv
        <3> QED
            BY <2>1, <2>3, <3>1
    <2>9. \A i, j \in 0..t : free_stack'[i] = free_stack'[j] => i = j
        <3>1. \A i, j \in 0..t - 1 : free_stack[i] = free_stack[j] => i = j
            BY <2>1 DEF PoolInv
        <3> QED
            BY <2>5, <2>7, <2>8, <3>1
    <2>10. ASSUME NEW o \in 0..PoolSize - 1 PROVE ~pool'[o] <=> \E i \in 0..t : free_stack'[i] = o
        <3>1. t \in 0..t
            BY <2>3
        <3>2. CASE o = x
            BY <2>5, <2>6, <3>1, <3>2
        <3>3. CASE o # x
            <4>1. ~pool[o] <=> \E i \in 0..t - 1 : free_stack[i] = o
                BY <2>1 DEF PoolInv
            <4>2. \A i \in 0..t : free_stack'[i] = o <=> i \in 0..t - 1 /\ free_stack[i] = o
                BY <2>3, <2>5, <2>7, <3>3
            <4> QED
                BY <2>6, <2>8, <3>3, <4>1, <4>2
        <3> QED
            BY <3>2, <3>3
    <2>11. \A o \in 0..PoolSize - 1 : pool'[o] <=> lent'[o] = 1
        BY <1>0, <1>2, <2>6 DEF PoolInv
    <2>12. free_top' - 1 = t /\ free_top' \in 0..PoolSize
        BY <2>3, <2>4, PoolObjects
    <2>13. \A i, j \in 0..free_top' - 1 : free_stack'[i] = free_stack'[j] => i = j
        BY <2>9, <2>12, Zenon
    <2>14. \A o \in 0..PoolSize - 1 : ~pool'[o] <=> \E i \in 0..free_top' - 1 : free_stack'[i] = o
        BY <2>10, <2>12, Zenon
    <2> QED
        BY <1>2, <2>5, <2>6, <2>11, <2>12, <2>13, <2>14, Zenon DEF PoolInv
<1>4. CASE ~PoolTakes(x)
    <2>1. pool' = pool /\ free_stack' = free_stack /\ free_top' = free_top
        BY <1>4 DEF PoolFree
    <2>2. x \in 0..PoolSize - 1 => lent[x] = 0
        BY <1>0, <1>4 DEF PoolInv, PoolTakes
    <2>3. \A o \in 0..PoolSize - 1 : lent'[o] = lent[o]
        BY <1>0, <1>2, <2>2
    <2> QED
        BY <1>2, <2>1, <2>3 DEF PoolInv
<1> QED
    BY <1>3, <1>4

\* All in the pool again
LEMMA PoolResets ==
    ASSUME PoolInv, PoolReset
    PROVE PoolInv'
<1>1. /\ pool' = [i \in 0..PoolSize - 1 |-> FALSE] /\ free_stack' = FullStack /\ free_top' = PoolSize
      /\ lent' = [o \in Objects |-> 0]
    BY DEF PoolInv, PoolReset
<1>2. PICK f : f = free_stack'
    BY Zenon
<1>3. /\ f \in [0..PoolSize - 1 -> 0..PoolSize - 1] /\ PoolSize \in 0..PoolSize
      /\ \A i, j \in 0..PoolSize - 1 : f[i] = f[j] => i = j
      /\ \A o \in 0..PoolSize - 1 : \E i \in 0..PoolSize - 1 : f[i] = o
    BY <1>1, <1>2, PoolFull, PoolObjects DEF FullStack
<1>4. pool' \in [0..PoolSize - 1 -> BOOLEAN] /\ lent' \in [Objects -> {0, 1}]
      /\ \A o \in 0..PoolSize - 1 : ~pool'[o] /\ lent'[o] = 0
    BY <1>1, PoolObjects
<1>5. \A i, j \in 0..free_top' - 1 : free_stack'[i] = free_stack'[j] => i = j
    BY <1>1, <1>2, <1>3, Zenon
<1>6. \A o \in 0..PoolSize - 1 : ~pool'[o] <=> \E i \in 0..free_top' - 1 : free_stack'[i] = o
    BY <1>1, <1>2, <1>3, <1>4, Zenon
<1>7. \A o \in 0..PoolSize - 1 : pool'[o] <=> lent'[o] = 1
    BY <1>4
<1> QED
    BY <1>1, <1>2, <1>3, <1>4, <1>5, <1>6, <1>7, Zenon DEF PoolInv

\* Each object once, on the stack or with its user
LEMMA PoolAgrees ==
    ASSUME PoolInv
    PROVE  /\ \A o \in Objects : lent[o] \in {0, 1}
           /\ \A o \in DOMAIN pool : Cardinality({i \in 0..free_top - 1 : free_stack[i] = o}) = 1 - lent[o]
           /\ DOMAIN free_stack = DOMAIN pool
<1>1. DOMAIN pool = 0..PoolSize - 1 /\ DOMAIN free_stack = 0..PoolSize - 1 /\ \A o \in Objects : lent[o] \in {0, 1}
    BY DEF PoolInv
<1>2. ASSUME NEW o \in 0..PoolSize - 1
      PROVE  Cardinality({i \in 0..free_top - 1 : free_stack[i] = o}) = 1 - lent[o]
    <2> DEFINE S == {i \in 0..free_top - 1 : free_stack[i] = o}
    <2>0. o \in Objects
        BY PoolObjects
    <2>1. CASE pool[o]
        <3>1. S = {} /\ lent[o] = 1
            BY <2>1 DEF PoolInv
        <3>2. Cardinality(S) = 0
            BY <3>1, FS_EmptySet
        <3> QED
            BY <3>1, <3>2
    <2>2. CASE ~pool[o]
        <3>1. PICK i \in 0..free_top - 1 : free_stack[i] = o
            BY <2>2 DEF PoolInv
        <3>2. S = {i}
            BY <3>1 DEF PoolInv
        <3>3. lent[o] = 0
            BY <1>1, <2>0, <2>2 DEF PoolInv
        <3>4. Cardinality(S) = 1
            BY <3>2, FS_Singleton
        <3> QED
            BY <3>3, <3>4
    <2> QED
        BY <2>1, <2>2
<1> QED
    BY <1>1, <1>2

------------------------------------------------------------------------------
(* The containers                                                            *)

\* Each container holds what the sequence, the map or the pool's users say.
ContainersInv ==
    /\ container \in {"ring", "vector", "map", "pool"}
    /\ container = "ring" => RingHolds(ring, seq_ref)
    /\ container = "vector" => VectorHolds(vector, seq_ref)
    /\ container = "map" => MapHolds(slots, map_ref)
    /\ container = "pool" => PoolInv

\* Empty, and a pool of which nothing is lent
LEMMA ContainersStart == ContainerInit => ContainersInv
<1> SUFFICES ASSUME ContainerInit PROVE ContainersInv
    OBVIOUS
<1>1. RingHolds(ring, seq_ref)
    BY RingEmpty DEF ContainerInit
<1>2. VectorHolds(vector, seq_ref)
    <2>1. PICK e : e = <<>>
        BY Zenon
    <2>2. PICK a : a = [i \in 0..InlineSize - 1 |-> 0]
        BY Zenon
    <2>3. a \in [0..InlineSize - 1 -> Nat] /\ e \in Seq(Nat) /\ Len(e) = 0 /\ 0 <= InlineSize
        BY <2>1, <2>2, ContainersAssumption
    <2>4. VectorHolds([stack |-> a, heap |-> <<>>, size |-> Len(e), on_heap |-> FALSE], e)
        <3>1. Len(e) <= InlineSize /\ \A i \in 1..Len(e) : e[i] # AnyElement => a[i - 1] = e[i]
            BY <2>3
        <3> QED
            BY <2>3, <3>1, VectorInline
    <2>5. vector = [stack |-> a, heap |-> <<>>, size |-> 0, on_heap |-> FALSE] /\ seq_ref = e
        BY <2>1, <2>2 DEF ContainerInit
    <2> QED
        BY <2>3, <2>4, <2>5
<1>3. MapHolds(slots, map_ref)
    BY MapEmpty DEF ContainerInit
<1>4. PoolInv
    <2>1. /\ pool = [i \in 0..PoolSize - 1 |-> FALSE] /\ free_stack = FullStack /\ free_top = PoolSize
          /\ lent = [o \in Objects |-> 0]
        BY DEF ContainerInit
    <2>2. /\ free_stack \in [0..PoolSize - 1 -> 0..PoolSize - 1] /\ PoolSize \in 0..PoolSize
          /\ \A i, j \in 0..PoolSize - 1 : free_stack[i] = free_stack[j] => i = j
          /\ \A o \in 0..PoolSize - 1 : \E i \in 0..PoolSize - 1 : free_stack[i] = o
        BY <2>1, PoolFull, PoolObjects DEF FullStack
    <2>3. pool \in [0..PoolSize - 1 -> BOOLEAN] /\ lent \in [Objects -> {0, 1}]
          /\ \A o \in 0..PoolSize - 1 : ~pool[o] /\ lent[o] = 0
        BY <2>1, PoolObjects
    <2>4. \A i, j \in 0..free_top - 1 : free_stack[i] = free_stack[j] => i = j
        BY <2>1, <2>2, Zenon
    <2>5. \A o \in 0..PoolSize - 1 : ~pool[o] <=> \E i \in 0..free_top - 1 : free_stack[i] = o
        BY <2>1, <2>2, <2>3, Zenon
    <2>6. \A o \in 0..PoolSize - 1 : pool[o] <=> lent[o] = 1
        BY <2>3
    <2> QED
        BY <2>1, <2>2, <2>3, <2>4, <2>5, <2>6, Zenon DEF PoolInv
<1>5. container \in {"ring", "vector", "map", "pool"}
    BY DEF ContainerInit
<1> QED
    BY <1>1, <1>2, <1>3, <1>4, <1>5 DEF ContainersInv

\* The four operations of a ring
SomeWrite == \E data \in {<<1>>, <<1, 2>>} : RingWrite(data)
LEMMA RingSteps ==
    ASSUME RingHolds(ring, seq_ref),
           \/ SomeWrite
           \/ \E k \in 1..2 : RingRead(k)
           \/ \E n \in RingSizes : RingResizes(n)
           \/ RingClear
    PROVE  RingHolds(ring', seq_ref')
<1>0. ring.count \in Nat /\ ring.capacity \in Nat /\ ring.count <= ring.capacity /\ seq_ref \in Seq(Nat)
    BY DEF RingHolds
<1>1. CASE SomeWrite
    <2>1. PICK data \in {<<1>>, <<1, 2>>} : RingWrite(data)
        BY <1>1 DEF SomeWrite
    <2>2. data \in Seq(Nat) /\ Len(data) \in Nat
        <3>1. <<1>> \in Seq(Nat) /\ <<1, 2>> \in Seq(Nat)
            OBVIOUS
        <3> QED
            BY <3>1, LenProperties
    <2>3. PICK n : n = IF Len(data) < Room(ring) THEN Len(data) ELSE Room(ring)
        BY Zenon
    <2>4. n \in 0..Len(data) /\ ring.count + n <= ring.capacity
        BY <1>0, <2>2, <2>3 DEF Room
    <2>5. ring' = WriteBytes(ring, data, n) /\ seq_ref' = seq_ref \o SubSeq(data, 1, n)
        BY <2>1, <2>3 DEF RingWrite
    <2>6. RingHolds(WriteBytes(ring, data, n), seq_ref \o SubSeq(data, 1, n))
        BY <2>2, <2>4, BytesWritten
    <2> QED
        BY <2>5, <2>6
<1>2. CASE \E k \in 1..2 : RingRead(k)
    <2>1. PICK k \in 1..2 : RingRead(k)
        BY <1>2
    <2>2. PICK n : n = IF k < ring.count THEN k ELSE ring.count
        BY Zenon
    <2>3. /\ ring' = [ring EXCEPT !.head = (@ + n) % ring.capacity, !.count = @ - n]
          /\ seq_ref' = SubSeq(seq_ref, n + 1, Len(seq_ref)) /\ n > 0
        BY <2>1, <2>2 DEF RingRead
    <2>4. n \in 1..ring.count
        BY <1>0, <2>2, <2>3
    <2>5. RingHolds([ring EXCEPT !.head = (@ + n) % ring.capacity, !.count = @ - n], SubSeq(seq_ref, n + 1, Len(seq_ref)))
        BY <1>0, <2>4, BytesRead
    <2> QED
        BY <2>3, <2>5
<1>3. CASE \E n \in RingSizes : RingResizes(n)
    <2>1. PICK n \in RingSizes : RingResizes(n)
        BY <1>3
    <2>2. n \in Nat
        BY ContainersAssumption
    <2>3. ring' = RingResize(ring, n) /\ seq_ref' = SubSeq(seq_ref, 1, IF Len(seq_ref) < n THEN Len(seq_ref) ELSE n)
        BY <2>1 DEF RingResizes
    <2> QED
        BY <2>2, <2>3, RingResized
<1>4. CASE RingClear
    BY <1>4, RingCleared DEF RingClear
<1> QED
    BY <1>1, <1>2, <1>3, <1>4

\* The four of a vector
LEMMA VectorSteps ==
    ASSUME VectorHolds(vector, seq_ref),
           \/ \E x \in Elements : PushBack(x)
           \/ PopBack \/ VectorClear
           \/ \E n \in 0..InlineSize + 1 : VectorResize(n)
    PROVE  VectorHolds(vector', seq_ref')
<1>1. CASE \E x \in Elements : PushBack(x)
    <2>1. PICK x \in Elements : PushBack(x)
        BY <1>1
    <2>2. x \in Nat
        BY DEF Elements
    <2>3. PICK v : v = IF ~vector.on_heap /\ vector.size = InlineSize THEN MigrateToHeap(vector) ELSE vector
        BY Zenon
    <2>4. VectorHolds(v, seq_ref) /\ (~v.on_heap => v.size # InlineSize)
        BY <2>3, VectorMigrated
    <2>5. /\ vector' = IF v.on_heap THEN [v EXCEPT !.heap = Append(@, x), !.size = @ + 1]
                       ELSE [v EXCEPT !.stack[v.size] = x, !.size = @ + 1]
          /\ seq_ref' = Append(seq_ref, x)
        BY <2>1, <2>3 DEF PushBack
    <2>6. CASE v.on_heap
        <3>1. VectorHolds([v EXCEPT !.heap = Append(@, x), !.size = @ + 1], Append(seq_ref, x))
            BY <2>2, <2>4, <2>6, VectorPushedOnHeap
        <3> QED
            BY <2>5, <2>6, <3>1
    <2>7. CASE ~v.on_heap
        <3>1. VectorHolds([v EXCEPT !.stack[v.size] = x, !.size = @ + 1], Append(seq_ref, x))
            BY <2>2, <2>4, <2>7, VectorPushedInline
        <3> QED
            BY <2>5, <2>7, <3>1
    <2> QED
        BY <2>6, <2>7
<1>2. CASE PopBack
    <2>1. /\ vector' = [vector EXCEPT !.heap = IF vector.on_heap THEN Front(@) ELSE @, !.size = @ - 1]
          /\ seq_ref' = Front(seq_ref) /\ vector.size > 0
        BY <1>2 DEF PopBack
    <2> QED
        BY <2>1, VectorPopped
<1>3. CASE VectorClear
    <2>1. /\ vector' = [vector EXCEPT !.heap = IF vector.on_heap THEN <<>> ELSE @, !.size = 0, !.on_heap = FALSE]
          /\ seq_ref' = <<>>
        BY <1>3 DEF VectorClear
    <2> QED
        BY <2>1, VectorCleared
<1>4. CASE \E n \in 0..InlineSize + 1 : VectorResize(n)
    <2>1. PICK n \in 0..InlineSize + 1 : VectorResize(n)
        BY <1>4
    <2>2. n \in Nat
        OBVIOUS
    <2>3. vector' = Resized(vector, n) /\ seq_ref' = ResizedRef(seq_ref, n, vector.size)
        BY <2>1 DEF VectorResize, Resized, ResizedRef
    <2> QED
        BY <2>2, <2>3, VectorResized
<1> QED
    BY <1>1, <1>2, <1>3, <1>4

\* Every operation keeps what its container holds.
LEMMA ContainersKept == ContainersInv /\ [ContainerNext]_containerVars => ContainersInv'
<1> SUFFICES ASSUME ContainersInv, [ContainerNext]_containerVars PROVE ContainersInv'
    OBVIOUS
<1>1. CASE UNCHANGED containerVars
    BY <1>1, Zenon DEF ContainersInv, containerVars, PoolInv
<1>2. CASE \/ \E data \in {<<1>>, <<1, 2>>} : RingWrite(data)
           \/ \E k \in 1..2 : RingRead(k)
           \/ \E n \in RingSizes : RingResizes(n)
           \/ RingClear
    <2>1. container = "ring" /\ container' = "ring"
        BY <1>2 DEF RingWrite, RingRead, RingResizes, RingClear, ContainerOp
    <2>2. RingHolds(ring', seq_ref')
        BY <1>2, <2>1, RingSteps DEF ContainersInv, SomeWrite
    <2> QED
        BY <2>1, <2>2 DEF ContainersInv
<1>3. CASE \/ \E x \in Elements : PushBack(x)
           \/ PopBack \/ VectorClear
           \/ \E n \in 0..InlineSize + 1 : VectorResize(n)
    <2>1. container = "vector" /\ container' = "vector"
        BY <1>3 DEF PushBack, PopBack, VectorClear, VectorResize, ContainerOp
    <2>2. VectorHolds(vector', seq_ref')
        BY <1>3, <2>1, VectorSteps DEF ContainersInv
    <2> QED
        BY <2>1, <2>2 DEF ContainersInv
<1>4. CASE \/ \E k, x \in Elements : MapInsert(k, x)
           \/ \E k \in Elements : MapErase(k)
           \/ MapClear
    <2>1. container = "map" /\ container' = "map"
        BY <1>4 DEF MapInsert, MapErase, MapClear, ContainerOp
    <2>2. MapHolds(slots', map_ref')
        BY <1>4, <2>1, MapInserted, MapErased, MapCleared DEF ContainersInv
    <2> QED
        BY <2>1, <2>2 DEF ContainersInv
<1>5. CASE PoolAlloc \/ PoolReset \/ \E o \in Objects : PoolFree(o)
    <2>1. container = "pool" /\ container' = "pool"
        BY <1>5 DEF PoolAlloc, PoolReset, PoolFree, ContainerOp
    <2>2. PoolInv
        BY <2>1 DEF ContainersInv
    <2>3. PoolInv'
        BY <1>5, <2>2, PoolAllocates, PoolFrees, PoolResets
    <2> QED
        BY <2>1, <2>3 DEF ContainersInv
<1> QED
    BY <1>1, <1>2, <1>3, <1>4, <1>5 DEF ContainerNext

\* The inductive invariant of the containers
THEOREM ContainersInductive == ContainerSpec => []ContainersInv
    BY ContainersStart, ContainersKept, PTL DEF ContainerSpec

\* Each container agrees with what it stands for, as ContainersAgree puts it.
LEMMA ContainersSafe == ContainersInv => ContainersAgree
<1> SUFFICES ASSUME ContainersInv PROVE ContainersAgree
    OBVIOUS
<1>1. ASSUME container = "ring"
      PROVE  Peek(ring) = seq_ref /\ (ring.capacity > 0 => ring.tail = (ring.head + ring.count) % ring.capacity)
    <2>1. RingHolds(ring, seq_ref)
        BY <1>1 DEF ContainersInv
    <2>2. Peek(ring) = seq_ref
        BY <2>1, RingPeeks
    <2>3. ring.capacity > 0 => ring.tail = (ring.head + ring.count) % ring.capacity
        BY <2>1, Zenon DEF RingHolds
    <2> QED
        BY <2>2, <2>3
<1>2. ASSUME container = "vector"
      PROVE  /\ vector.size = Len(seq_ref)
             /\ \A i \in DOMAIN seq_ref : seq_ref[i] # AnyElement => At(vector, i - 1) = seq_ref[i]
    <2>1. VectorHolds(vector, seq_ref)
        BY <1>2 DEF ContainersInv
    <2>2. seq_ref \in Seq(Nat) /\ vector.size = Len(seq_ref) /\ DOMAIN seq_ref = 1..Len(seq_ref)
        BY <2>1 DEF VectorHolds
    <2>3. ASSUME NEW i \in 1..Len(seq_ref), seq_ref[i] # AnyElement PROVE At(vector, i - 1) = seq_ref[i]
        <3>1. (i - 1) + 1 = i
            OBVIOUS
        <3> QED
            BY <2>1, <2>3, <3>1 DEF VectorHolds, At
    <2> QED
        BY <2>2, <2>3
<1>3. ASSUME container = "map"
      PROVE  /\ \A k \in Elements : Cardinality(SlotOf(k)) = IF k \in DOMAIN map_ref THEN 1 ELSE 0
             /\ \A k \in DOMAIN map_ref : slots[FirstOf(SlotOf(k))].value = map_ref[k]
    <2>1. MapHolds(slots, map_ref)
        BY <1>3 DEF ContainersInv
    <2> QED
        BY <2>1, MapAgrees
<1>4. ASSUME container = "pool"
      PROVE  /\ \A o \in Objects : lent[o] \in {0, 1}
             /\ \A o \in DOMAIN pool : Cardinality({i \in 0..free_top - 1 : free_stack[i] = o}) = 1 - lent[o]
             /\ DOMAIN free_stack = DOMAIN pool
    <2>1. PoolInv
        BY <1>4 DEF ContainersInv
    <2> QED
        BY <2>1, PoolAgrees
<1> QED
    BY <1>1, <1>2, <1>3, <1>4 DEF ContainersAgree

------------------------------------------------------------------------------
(* Camera, microphone and speaker, in the composition                        *)

\* StreamingCorrect for any host: frames arrive whole, under alternating bits
\* and no faster than agreed, the rate is exact until the stream is set under a
\* URB, the source is sent without a gap, and the recorded file can be played
\* unless an attempt to open it had failed or it outgrew its header.
THEOREM ClassesStreaming == ClassesSpec => []StreamingCorrect
<1>1. ClassesSpec => [](FramesWhole /\ FramePaced)
    BY UvcSafe, UvcInductive, ClassesHasUvc, PTL
<1>2. ClassesSpec => [](RateExact /\ SourceContinuous /\ WavPlayable)
    BY UacRateExact, UacSource, UacWav, ClassesHasUac, PTL
<1>3. FramesWhole /\ FramePaced /\ RateExact /\ SourceContinuous /\ WavPlayable => StreamingCorrect
    BY DEF StreamingCorrect
<1> QED
    BY <1>1, <1>2, <1>3, PTL

------------------------------------------------------------------------------
(* The containers, in the composition                                        *)

\* ContainersAgree for every capacity, inline size and pool size: a ring gives
\* back its bytes in order, a vector keeps its elements on whichever side it
\* has them, a map has one slot for a key, and an object of a pool is never
\* lent to two users nor on the free stack twice.
THEOREM ClassesContainers == ClassesSpec => []ContainersAgree
    BY ContainersSafe, ContainersInductive, ClassesHasContainers, PTL

------------------------------------------------------------------------------
(* The wire, in the composition                                              *)

\* WireInSync for every URB that a client may send and every list of devices:
\* both sides read exactly what the other wrote, the host gets what the device
\* put into each packet, and every transfer handle is held by the handler.
THEOREM ClassesWire == ClassesSpec => []WireInSync
<1>1. WireInv => WireInSync
    BY WireInvIsSync DEF WireInSync
<1> QED
    BY <1>1, WireInductive, ClassesHasWire, PTL

==============================================================================
