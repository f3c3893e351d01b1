-------------------------- MODULE StorageWireProofs --------------------------
(***************************************************************************)
(* Proofs about MscBulkOnly, for any device, any staging limit, any block  *)
(* and number width, and any number of commands and connections; and, in   *)
(* the second half, about UsbIpWire, for any URBs and devices.             *)
(*                                                                         *)
(* Mass storage.  The state machine of the handler, what the host has sent *)
(* and received, and the answers in the queue of the sender describe one   *)
(* command in flight from three places.  The invariant says, phase by      *)
(* phase, how far each of them is: the answers queued are consecutive      *)
(* pieces of what the command has to send, and what was received so far is *)
(* a prefix of what the command has to write.  The image that the host     *)
(* believes in, the data it read and the status it gets are read off that; *)
(* the contents only while the splice pipe held nothing of an earlier      *)
(* client (leftover) and no hole grew beyond what was asked for (widened). *)
(*                                                                         *)
(* The wire.  Each of the two streams is divided into whole messages: the  *)
(* commands that the server has not read yet, and the answers to those it  *)
(* has.  A message is laid out so that the reader who knows its first      *)
(* fields takes all of it and nothing else, and an answer holds what the   *)
(* device put into the packets of its URB.                                 *)
(***************************************************************************)
EXTENDS MscBulkOnly, UsbIpWire, FiniteSetTheorems, SequenceTheorems, NaturalsInduction,
        WellFoundedInduction, TLAPS

\* The values of the variables: a command, an answer, the handler, the host.
Ops == {"none", "short", "signature", "reply", "page", "read", "write", "same", "sameunmap",
        "unmap", "unsupported"}
Command == [op : Ops, lba : Nat, cnt : Nat, len : Nat, desc : Seq(Int), tag : Nat]

\* Answers in the queue of the sender.
DataAnswer == [kind : {"file", "staging"}, owner : Nat, from : Nat, n : Nat \ {0}]
CswAnswer == [kind : {"csw"}, tag : Nat, failed : BOOLEAN, residue : Nat]
PlainAnswer == [kind : {"ack", "empty", "stall"}]
MscAnswer == DataAnswer \cup CswAnswer \cup PlainAnswer

MscRecord ==
    [state : {"Idle", "DataIn", "DataOut", "Status"}, cbw : Command, staging : Seq(Int),
     owner : Nat, offset : Nat, residue : Nat, failed : BOOLEAN,
     out : {"write", "same", "unmap"}, lba : Nat, cnt : Nat, mapped : BOOLEAN, acc : Nat]
Host ==
    [phase : {"ready", "command", "data", "status", "skipped"}, cmd : Command, left : Nat,
     urbs : Seq(Nat), got : Seq(Int), csw : Seq(MscAnswer), retried : BOOLEAN]

MscTypes ==
    /\ read_only \in BOOLEAN /\ io \in {"staging", "mapped", "spliced"}
    /\ msc \in MscRecord /\ host \in Host
    /\ disk \in [Units -> Int] /\ image \in [Units -> Int]
    /\ sendq \in Seq(MscAnswer) /\ recving \in Seq(Int)
    /\ pipe \in Seq(Int) /\ leftover \in Nat /\ widened \in BOOLEAN
    /\ ncmd \in Nat /\ mscconn \in Nat

\* A command as a host that keeps to the protocol makes it.
Proper(c) ==
    /\ c \in Command
    /\ c.op \in {"none", "unsupported", "short", "signature", "sameunmap"} => c.len = 0
    /\ c.op \in {"page", "read", "write"} => c.len > 0
    /\ c.op \in {"read", "write"} => c.len = Count(c) * BlockUnits /\ Count(c) \in 1..CountWidth - 1
    /\ c.op = "same" => c.len >= BlockUnits
    /\ c.op = "unmap" => c.len = Len(c.desc) /\ c.len < CountWidth

Out(c) == c.op \in {"write", "same", "unmap"}
InFlight == host.phase # "ready"
IsData(a) == a.kind \in {"file", "staging"}

\* An answer for each URB.
UrbsAnswered == Len(host.urbs) = Len(sendq) + IF recving = <<>> THEN 0 ELSE 1

\* The image and the host agree: the pipe holds nothing of an earlier client
\* and no hole grew.
Exact == leftover = 0 /\ ~widened

\* Between two commands nothing is on its way.
AtRest ==
    host.phase = "ready" =>
        /\ sendq = <<>> /\ piped = {} /\ msc.state = "Idle" /\ recving = <<>>
        /\ Exact => disk = image
        /\ host.cmd.tag > 0 => /\ host.csw # <<>>
                               /\ host.csw[1].tag = host.cmd.tag \/ host.cmd.op = "short"

\* The members of the handler that a command relies on being reset.
Clean ==
    /\ msc.state # "DataIn" => msc.offset = 0
    /\ msc.state # "DataOut" => msc.out = "write" /\ recving = <<>>
    /\ msc.state \in {"Idle", "DataIn", "DataOut"} => ~msc.failed
    /\ msc.mapped => io # "staging"
    /\ recving # <<>> => msc.mapped /\ io = "spliced"

\* The command in flight, and its place in each phase.
Started ==
    InFlight => /\ Proper(host.cmd) /\ host.left <= host.cmd.len
                /\ msc.state # "Idle" => (msc.cbw.tag = host.cmd.tag \/ host.cmd.op = "short")
                /\ msc.state = "DataIn" => In(host.cmd)
                /\ msc.state = "DataOut" => Out(host.cmd)
                /\ msc.failed => msc.staging = <<>> /\ ~msc.mapped
InCommand ==
    host.phase = "command" =>
        /\ sendq = <<Ack>> /\ recving = <<>> /\ host.got = <<>> /\ host.left = host.cmd.len
        /\ msc.state # "Idle" /\ ~host.retried
        /\ msc.state = "DataIn" => msc.offset = 0
InDataOut ==
    host.phase = "data" /\ ~In(host.cmd) =>
        /\ \A i \in 1..Len(sendq) : sendq[i] = Ack
        /\ msc.state \in {"DataOut", "Status"}
        /\ host.left = 0 => host.urbs # <<>>
InDataIn ==
    host.phase = "data" /\ In(host.cmd) =>
        /\ recving = <<>> /\ host.cmd.len > 0 /\ msc.state # "DataOut"
        /\ \A i \in 1..Len(sendq) : sendq[i].kind # "ack"
        /\ msc.state # "Idle" => \A i \in 1..Len(sendq) : sendq[i].kind \notin {"csw", "stall"}
        /\ msc.state = "Idle" => \E i \in 1..Len(sendq) : sendq[i].kind = "csw"
        /\ \A i, j \in 1..Len(sendq) :
              i < j /\ sendq[i].kind \in {"csw", "stall"} => sendq[j].kind = "stall"
        /\ sendq # <<>> => sendq[1].kind # "stall"
        /\ host.left = 0 /\ host.urbs = <<>> => FALSE
        /\ msc.state = "DataIn" =>
              /\ \A i \in 1..Len(sendq) : IsData(sendq[i]) /\ sendq[i].n = host.urbs[i]
              /\ msc.offset = host.cmd.len - host.left
InStatus ==
    host.phase = "status" =>
        /\ recving = <<>> /\ piped = {} /\ Len(sendq) <= 1
        /\ sendq = <<>> => \/ msc.state = "Status"
                           \/ msc.state = "DataIn" /\ InTotal(msc) = 0 /\ ~host.retried
        /\ sendq # <<>> => \/ sendq[1].kind = "csw" /\ msc.state = "Idle"
                           \/ sendq[1].kind = "empty" /\ msc.state = "Status" /\ ~host.retried
InSkipped ==
    host.phase = "skipped" =>
        /\ sendq # <<>> /\ recving = <<>> /\ piped = {} /\ msc.state = "Idle"
        /\ Exact => disk = image
        /\ \A i \in 1..Len(sendq) : sendq[i].kind = "stall"
        /\ host.csw # <<>>
        /\ host.csw[1].tag = host.cmd.tag \/ host.cmd.op = "short"

Phases == AtRest /\ Started /\ InCommand /\ InDataOut /\ InDataIn /\ InStatus /\ InSkipped

\* How far the answer to an IN command is queued, and where it begins.
Queued == IF msc.state = "DataIn" THEN msc.offset ELSE InTotal(msc)
Base == IF msc.mapped THEN msc.lba * BlockUnits ELSE 0
Sending == host.phase \in {"command", "data", "status"} /\ In(host.cmd)
Pieces ==
    Sending =>
        /\ InTotal(msc) <= host.cmd.len
        /\ msc.state = "DataIn" => \/ msc.offset < InTotal(msc)
                                   \/ msc.offset = 0 /\ InTotal(msc) = 0
        /\ \A i \in 1..Len(sendq) - 1 : IsData(sendq[i + 1]) => IsData(sendq[i])
        /\ \A i \in 1..Len(sendq) : IsData(sendq[i]) =>
              /\ sendq[i].owner = msc.owner /\ (sendq[i].kind = "file" <=> msc.mapped)
              /\ sendq[i].from >= Base /\ sendq[i].from + sendq[i].n <= Base + InTotal(msc)
              /\ i = 1 => sendq[i].from = Base + Len(host.got)
              /\ IF i < Len(sendq) /\ IsData(sendq[i + 1])
                 THEN sendq[i + 1].from = sendq[i].from + sendq[i].n
                 ELSE sendq[i].from + sendq[i].n = Base + Queued
        /\ (sendq = <<>> \/ ~IsData(sendq[1])) => Len(host.got) = Queued

\* Of a READ, the data.
CswGood == \E i \in 1..Len(sendq) : sendq[i].kind = "csw" /\ ~sendq[i].failed
Reading ==
    /\ host.phase \in {"command", "data", "status"} /\ host.cmd.op = "read"
    /\ ~msc.failed /\ (msc.state = "Idle" => CswGood)
ReadOk ==
    /\ Reading => /\ InTotal(msc) = host.cmd.len
                  /\ msc.mapped => msc.lba = host.cmd.lba
                  /\ ~msc.mapped =>
                        msc.staging = ReadAt(disk, host.cmd.lba * BlockUnits, host.cmd.len)
                  /\ leftover = 0 =>
                        host.got = ReadAt(disk, host.cmd.lba * BlockUnits, Len(host.got))
    /\ (host.phase = "skipped" /\ host.cmd.op = "read" /\ ~host.csw[1].failed /\ leftover = 0) =>
            host.got = ReadAt(disk, host.cmd.lba * BlockUnits, host.cmd.len)

\* The data of the host so far, and where they are.
Sent == host.cmd.len - host.left - Len(recving)
Collecting == InFlight /\ msc.state = "DataOut"
DataOutOk ==
    Collecting =>
        /\ host.phase \in {"command", "data"} /\ msc.out = host.cmd.op
        /\ msc.mapped => msc.out = "write" /\ msc.acc = Sent /\ msc.staging = <<>>
        /\ ~msc.mapped => msc.acc = 0 /\ msc.staging = HostData(host.cmd, 0, Sent)
        /\ recving # <<>> => recving = HostData(host.cmd, Sent, Len(recving))
        /\ Sent \in Nat /\ Sent < Wanted(msc) /\ Wanted(msc) <= host.cmd.len
        /\ msc.out \in {"write", "unmap"} => Wanted(msc) = host.cmd.len /\ msc.cnt < CountWidth
        /\ msc.out \in {"write", "same"} => msc.lba = host.cmd.lba
        /\ msc.out = "same" => msc.cnt = SameCount(host.cmd)

\* The image, against what the host will believe.
Failing == msc.failed \/ \E i \in 1..Len(sendq) : sendq[i].kind = "csw" /\ sendq[i].failed
DiskOk ==
    Exact /\ host.phase \in {"command", "data", "status"} =>
        /\ msc.state = "DataOut" /\ msc.mapped =>
              disk = WriteAt(image, host.cmd.lba * BlockUnits, HostData(host.cmd, 0, Sent))
        /\ msc.state = "DataOut" /\ ~msc.mapped => disk = image
        /\ msc.state # "DataOut" => disk = IF Failing THEN image ELSE Effect(host.cmd, host.got)

CswOk == \A i \in 1..Len(sendq) : sendq[i].kind = "csw" =>
            (sendq[i].tag = host.cmd.tag \/ host.cmd.op = "short")

\* What is in the pipe: what was there, and behind it the data of one thread.
PipeOk ==
    \/ piped = {} /\ Len(pipe) = leftover
    \/ /\ piped = {"receiver"} /\ recving # <<>> /\ Len(pipe) = leftover + Len(recving)
       /\ leftover = 0 => pipe = recving
    \/ /\ piped = {"sender"} /\ io = "spliced" /\ sendq # <<>> /\ sendq[1].kind = "file"
       /\ Len(pipe) = leftover + sendq[1].n
       /\ leftover = 0 => pipe = ReadAt(disk, sendq[1].from, sendq[1].n)

MscInv ==
    /\ MscTypes /\ UrbsAnswered /\ Phases /\ Clean /\ Pieces /\ ReadOk /\ DataOutOk /\ DiskOk
    /\ CswOk /\ PipeOk /\ ReadReturnsDisk

------------------------------------------------------------------------------
(* The operators.                                                            *)

\* The constants, in the form in which the steps cite them.
LEMMA Sizes ==
    /\ Blocks \in Nat \ {0} /\ BlockUnits \in Nat \ {0} /\ LbaWidth \in Nat \ {0}
    /\ CountWidth \in Nat \ {0} /\ ZeroCount \in Nat \ {0} /\ ReplySize \in Nat \ {0}
    /\ Blocks + ZeroCount < LbaWidth /\ ZeroCount < CountWidth /\ 2 < CountWidth
BY MscAssumption

\* A number below the width is not changed by it.
LEMMA SmallMod ==
    ASSUME NEW a \in Nat, NEW b \in Nat \ {0}
    PROVE  /\ a < b => a % b = a
           /\ a % b \in Nat /\ a % b < b
OBVIOUS

\* The product of two counts, without its nonlinear term in sight.
LEMMA Product ==
    ASSUME NEW a \in Nat, NEW b \in Nat
    PROVE  a * b \in Nat /\ (a > 0 /\ b > 0 => a * b >= a /\ a * b > 0)
OBVIOUS

\* A sequence in two parts.
LEMMA Joined ==
    ASSUME NEW s \in Seq(Int), NEW t \in Seq(Int), NEW e \in Seq(Int),
           Len(e) = Len(s) + Len(t),
           \A i \in 1..Len(s) : s[i] = e[i],
           \A i \in 1..Len(t) : t[i] = e[Len(s) + i]
    PROVE  s \o t = e
<1>1. /\ s \o t \in Seq(Int) /\ Len(s \o t) = Len(s) + Len(t)
      /\ \A i \in 1..Len(s) + Len(t) : (s \o t)[i] = IF i <= Len(s) THEN s[i] ELSE t[i - Len(s)]
    OBVIOUS
<1>2. ASSUME NEW i \in 1..Len(s) + Len(t) PROVE (s \o t)[i] = e[i]
    <2>1. CASE i <= Len(s)
        BY <1>1, <2>1
    <2>2. CASE i > Len(s)
        <3>1. i - Len(s) \in 1..Len(t) /\ Len(s) + (i - Len(s)) = i
            BY <2>2
        <3> QED
            BY <1>1, <2>2, <3>1
    <2> QED
        BY <2>1, <2>2
<1> QED
    BY <1>1, <1>2, SeqEqual

\* Writing keeps the device a device.
LEMMA WriteAtType ==
    ASSUME NEW d \in [Units -> Int], NEW u \in Nat, NEW s \in Seq(Int)
    PROVE  WriteAt(d, u, s) \in [Units -> Int]
BY DEF WriteAt, Units

\* Two writes, one behind the other, are one.
LEMMA WritesJoin ==
    ASSUME NEW d \in [Units -> Int], NEW u \in Nat, NEW s \in Seq(Int), NEW t \in Seq(Int),
           NEW w \in Nat, w = u + Len(s)
    PROVE  WriteAt(WriteAt(d, u, s), w, t) = WriteAt(d, u, s \o t)
<1>1. ASSUME NEW v \in Units
      PROVE  WriteAt(WriteAt(d, u, s), w, t)[v] = WriteAt(d, u, s \o t)[v]
    <2>1. v \in Nat
        BY Sizes DEF Units
    <2>2. CASE v < u
        BY <2>1, <2>2 DEF WriteAt
    <2>3. CASE u <= v /\ v < u + Len(s)
        <3>1. v - u + 1 \in 1..Len(s) /\ ~(v - w + 1 \in 1..Len(t))
            BY <2>1, <2>3
        <3> QED
            BY <2>1, <3>1 DEF WriteAt
    <2>4. CASE u + Len(s) <= v
        <3>1. /\ ~(v - u + 1 \in 1..Len(s))
              /\ (v - w + 1 \in 1..Len(t) <=> v - u + 1 \in 1..Len(s) + Len(t))
              /\ (v - u + 1) - Len(s) = v - w + 1
            BY <2>1, <2>4
        <3> QED
            BY <2>1, <3>1 DEF WriteAt
    <2> QED
        BY <2>1, <2>2, <2>3, <2>4
<1> QED
    BY <1>1, Zenon DEF WriteAt

\* A write of no data.
LEMMA NothingWritten ==
    ASSUME NEW d \in [Units -> Int], NEW u \in Nat
    PROVE  WriteAt(d, u, <<>>) = d
BY DEF WriteAt, Units

\* A read returns as many units as were asked for.
LEMMA ReadType ==
    ASSUME NEW d \in [Units -> Int], NEW u \in Nat, NEW n \in Nat
    PROVE  ReadAt(d, u, n) \in Seq(Int) /\ Len(ReadAt(d, u, n)) = n
<1>1. \A i \in 1..n : (IF u + i - 1 \in Units THEN d[u + i - 1] ELSE -1) \in Int
    OBVIOUS
<1> QED
    BY <1>1, IsASeq DEF ReadAt

\* Two reads, one behind the other, are one.
LEMMA ReadsJoin ==
    ASSUME NEW d \in [Units -> Int], NEW u \in Nat, NEW k \in Nat, NEW n \in Nat
    PROVE  ReadAt(d, u, k) \o ReadAt(d, u + k, n) = ReadAt(d, u, k + n)
<1> DEFINE a == ReadAt(d, u, k)
           b == ReadAt(d, u + k, n)
           c == ReadAt(d, u, k + n)
<1>1. /\ a \in Seq(Int) /\ Len(a) = k /\ b \in Seq(Int) /\ Len(b) = n
      /\ c \in Seq(Int) /\ Len(c) = k + n
    BY ReadType
<1>2. \A i \in 1..k : a[i] = c[i]
    BY DEF ReadAt
<1>3. ASSUME NEW i \in 1..n PROVE b[i] = c[k + i]
    <2>1. k + i \in 1..k + n /\ (u + k) + i - 1 = u + (k + i) - 1
        OBVIOUS
    <2> QED
        BY <2>1 DEF ReadAt
<1> HIDE DEF a, b, c
<1>4. a \o b = c
    BY <1>1, <1>2, <1>3, Joined
<1> QED
    BY <1>4 DEF a, b, c

\* A piece of what was read.
LEMMA PieceOfRead ==
    ASSUME NEW d \in [Units -> Int], NEW u \in Nat, NEW m \in Nat, NEW k \in Nat, NEW n \in Nat,
           k + n <= m
    PROVE  SubSeq(ReadAt(d, u, m), k + 1, k + n) = ReadAt(d, u + k, n)
<1> DEFINE a == SubSeq(ReadAt(d, u, m), k + 1, k + n)
           b == ReadAt(d, u + k, n)
<1>1. ReadAt(d, u, m) \in Seq(Int) /\ Len(ReadAt(d, u, m)) = m /\ b \in Seq(Int) /\ Len(b) = n
    BY ReadType
<1>2. a \in Seq(Int) /\ Len(a) = n
    BY <1>1
<1>3. ASSUME NEW i \in 1..n PROVE a[i] = b[i]
    <2>1. a[i] = ReadAt(d, u, m)[k + i] /\ k + i \in 1..m
        <3>1. ASSUME NEW z \in Seq(Int), Len(z) = m
              PROVE  SubSeq(z, k + 1, k + n)[i] = z[k + i] /\ k + i \in 1..m
            BY <3>1
        <3> QED
            BY <1>1, <3>1
    <2>2. u + (k + i) - 1 = (u + k) + i - 1
        OBVIOUS
    <2> QED
        BY <2>1, <2>2 DEF ReadAt
<1> HIDE DEF a, b
<1>4. a = b
    BY <1>1, <1>2, <1>3, SeqEqual
<1> QED
    BY <1>4 DEF a, b

\* The data of a command, from any place in it.
LEMMA HostDataType ==
    ASSUME NEW c, Proper(c), NEW k \in Nat, NEW n \in Nat, k + n <= c.len
    PROVE  HostData(c, k, n) \in Seq(Int) /\ Len(HostData(c, k, n)) = n
<1>1. \A i \in 1..n : (IF c.op = "unmap" THEN c.desc[k + i] ELSE 10 * c.tag + k + i) \in Int
    BY DEF Proper, Command
<1> QED
    BY <1>1, IsASeq DEF HostData

\* The data of a command in two parts.
LEMMA HostDataJoins ==
    ASSUME NEW c, Proper(c), NEW k \in Nat, NEW n \in Nat, k + n <= c.len
    PROVE  HostData(c, 0, k) \o HostData(c, k, n) = HostData(c, 0, k + n)
<1> DEFINE a == HostData(c, 0, k)
           b == HostData(c, k, n)
           e == HostData(c, 0, k + n)
<1>1. c.len \in Nat /\ c.tag \in Nat
    BY DEF Proper, Command
<1>2. /\ a \in Seq(Int) /\ Len(a) = k /\ b \in Seq(Int) /\ Len(b) = n
      /\ e \in Seq(Int) /\ Len(e) = k + n
    BY <1>1, HostDataType
<1>3. \A i \in 1..k : a[i] = e[i]
    BY <1>1 DEF HostData
<1>4. ASSUME NEW i \in 1..n PROVE b[i] = e[k + i]
    <2>1. k + i \in 1..k + n /\ 0 + (k + i) = k + i /\ 10 * c.tag + k + i = 10 * c.tag + 0 + (k + i)
        BY <1>1
    <2> QED
        BY <2>1 DEF HostData
<1> HIDE DEF a, b, e
<1>5. a \o b = e
    BY <1>2, <1>3, <1>4, Joined
<1> QED
    BY <1>5 DEF a, b, e

\* The commands are those of a host that keeps to the protocol.
LEMMA CommandsProper ==
    ASSUME NEW t \in Nat \ {0}, NEW c \in Commands(t)
    PROVE  Proper(c) /\ c.tag = t
<1> DEFINE Cmd(op, lba, cnt, len, desc) ==
               [op |-> op, lba |-> lba, cnt |-> cnt, len |-> len, desc |-> desc, tag |-> t]
           Data(cnt) == (IF cnt = 0 THEN ZeroCount ELSE cnt) * BlockUnits
<1>1. /\ <<>> \in Seq(Int) /\ Len(<<>>) = 0
      /\ <<10 * (Blocks - 1) + 1, 1>> \in Seq(Int) /\ Len(<<10 * (Blocks - 1) + 1, 1>>) = 2
    BY Sizes
<1>2. ASSUME NEW op \in Ops, NEW lba \in Nat, NEW cnt \in Nat, NEW len \in Nat,
             NEW desc \in Seq(Int), c = Cmd(op, lba, cnt, len, desc),
             op \in {"none", "unsupported", "short", "signature", "sameunmap"} => len = 0,
             op \in {"page", "read", "write"} => len > 0,
             op \in {"read", "write"} => cnt \in 0..1 /\ len = Data(cnt),
             op = "same" => len >= BlockUnits,
             op = "unmap" => len = Len(desc) /\ len < CountWidth
      PROVE  Proper(c) /\ c.tag = t
    <2>1. /\ c.op = op /\ c.lba = lba /\ c.cnt = cnt /\ c.len = len /\ c.desc = desc /\ c.tag = t
          /\ c \in Command
        BY <1>2 DEF Command
    <2>2. op \in {"read", "write"} => /\ Count(c) \in 1..CountWidth - 1
                                      /\ Data(cnt) = Count(c) * BlockUnits
      <3>1. c.cnt = cnt /\ c.op = op
          BY <2>1
      <3> QED
          BY <1>2, <3>1, Sizes DEF Count
    <2> HIDE DEF Data, Cmd
    <2> QED
        BY <1>2, <2>1, <2>2 DEF Proper
<1> HIDE DEF Cmd
<1>3. ASSUME NEW cnt \in 0..1 PROVE Data(cnt) \in Nat /\ Data(cnt) > 0
    BY Sizes, Product
<1> HIDE DEF Data
<1>4. /\ 2 < CountWidth /\ ReplySize \in Nat /\ ReplySize > 0 /\ 0..1 \subseteq Nat
      /\ 0..Blocks \subseteq Nat /\ 0..ReplySize + 1 \subseteq Nat
      /\ BlockUnits..BlockUnits + 1 \subseteq Nat /\ 0 < CountWidth /\ 0 \in Nat /\ 2 \in Nat
    BY Sizes
<1>5. CASE c \in {Cmd("none", 0, 0, 0, <<>>), Cmd("page", 0, 0, ReplySize, <<>>),
                  Cmd("unsupported", 0, 0, 0, <<>>), Cmd("short", 0, 0, 0, <<>>),
                  Cmd("signature", 0, 0, 0, <<>>)}
    BY <1>5, <1>1, <1>2, <1>4 DEF Ops
<1>6. CASE c \in {Cmd("reply", 0, 0, len, <<>>) : len \in 0..ReplySize + 1}
    BY <1>6, <1>1, <1>2, <1>4 DEF Ops
<1>7. CASE c \in {Cmd(op, lba, cnt, Data(cnt), <<>>) :
                     op \in {"read", "write"}, lba \in 0..Blocks, cnt \in 0..1}
    <2>1. PICK op \in {"read", "write"}, lba \in 0..Blocks, cnt \in 0..1 :
              c = Cmd(op, lba, cnt, Data(cnt), <<>>)
        BY <1>7
    <2>2. op \in Ops /\ lba \in Nat /\ cnt \in Nat /\ Data(cnt) \in Nat /\ Data(cnt) > 0
        BY <1>3, <1>4 DEF Ops
    <2> QED
        BY <2>1, <2>2, <1>1, <1>2
<1>8. CASE c \in {Cmd("same", lba, cnt, len, <<>>) :
                     lba \in 0..Blocks, cnt \in 0..1, len \in BlockUnits..BlockUnits + 1}
    <2>1. PICK lba \in 0..Blocks, cnt \in 0..1, len \in BlockUnits..BlockUnits + 1 :
              c = Cmd("same", lba, cnt, len, <<>>)
        BY <1>8
    <2>2. lba \in Nat /\ cnt \in Nat /\ len \in Nat /\ len >= BlockUnits
        BY Sizes
    <2> QED
        BY <2>1, <2>2, <1>1, <1>2 DEF Ops
<1>9. CASE c \in {Cmd("sameunmap", lba, cnt, 0, <<>>) : lba \in 0..Blocks, cnt \in 0..1}
    <2>1. PICK lba \in 0..Blocks, cnt \in 0..1 : c = Cmd("sameunmap", lba, cnt, 0, <<>>)
        BY <1>9
    <2> QED
        BY <2>1, <1>1, <1>2, <1>4 DEF Ops
<1>10. CASE c \in {Cmd("unmap", 0, 0, 0, <<>>),
                   Cmd("unmap", 0, 0, 2, <<10 * (Blocks - 1) + 1, 1>>)}
    BY <1>10, <1>1, <1>2, <1>4 DEF Ops
<1>11. \/ c \in {Cmd("none", 0, 0, 0, <<>>), Cmd("page", 0, 0, ReplySize, <<>>),
                 Cmd("unsupported", 0, 0, 0, <<>>), Cmd("short", 0, 0, 0, <<>>),
                 Cmd("signature", 0, 0, 0, <<>>)}
       \/ c \in {Cmd("reply", 0, 0, len, <<>>) : len \in 0..ReplySize + 1}
       \/ c \in {Cmd(op, lba, cnt, Data(cnt), <<>>) :
                     op \in {"read", "write"}, lba \in 0..Blocks, cnt \in 0..1}
       \/ c \in {Cmd("same", lba, cnt, len, <<>>) :
                     lba \in 0..Blocks, cnt \in 0..1, len \in BlockUnits..BlockUnits + 1}
       \/ c \in {Cmd("sameunmap", lba, cnt, 0, <<>>) : lba \in 0..Blocks, cnt \in 0..1}
       \/ c \in {Cmd("unmap", 0, 0, 0, <<>>),
                 Cmd("unmap", 0, 0, 2, <<10 * (Blocks - 1) + 1, 1>>)}
    BY DEF Commands, Cmd, Data
<1> QED
    BY <1>5, <1>6, <1>7, <1>8, <1>9, <1>10, <1>11

------------------------------------------------------------------------------
(* A command block wrapper.                                                  *)

\* What a CBW of command c leaves in the handler, and in the image.
AfterCbw(k, c) ==
    /\ k \in MscRecord /\ k.state # "Idle" /\ k.offset = 0
    /\ k.cbw.tag = c.tag \/ c.op = "short"
    /\ k.state # "DataOut" => k.out = "write"
    /\ k.failed => k.state = "Status"
    /\ k.state = "Status" => /\ k.staging = <<>> /\ ~k.mapped
                             /\ k.failed \/ c.op \in {"none", "sameunmap", "unmap"}
    /\ k.mapped => io # "staging"
    /\ k.state = "DataIn" =>
          /\ In(c) /\ InTotal(k) <= c.len
          /\ c.op = "read" =>
                /\ InTotal(k) = c.len
                /\ k.mapped => k.lba = c.lba
                /\ ~k.mapped => k.staging = ReadAt(disk, c.lba * BlockUnits, c.len)
    /\ k.state = "DataOut" =>
          /\ Out(c) /\ k.out = c.op /\ k.acc = 0 /\ k.staging = <<>>
          /\ k.mapped => k.out = "write"
          /\ 0 < Wanted(k) /\ Wanted(k) <= c.len
          /\ k.out \in {"write", "unmap"} => Wanted(k) = c.len /\ k.cnt < CountWidth
          /\ k.out \in {"write", "same"} => k.lba = c.lba
          /\ k.out = "same" => k.cnt = SameCount(c)
    /\ Exact /\ ~(Punches(c) /\ TooWide(c.lba, SameCount(c))) =>
          DiskOnCbw(c) = IF k.state = "Status" /\ ~k.failed THEN Effect(c, <<>>) ELSE image

\* The Idle branch, one case for each command.
LEMMA CbwLemma ==
    ASSUME MscTypes, msc.state = "Idle", ~msc.failed, msc.offset = 0, msc.out = "write",
           Exact => disk = image, NEW c, Proper(c)
    PROVE  AfterCbw(OnCbw(msc, c), c)
<1> DEFINE h == DropBuffers(msc, c)
           k == [h EXCEPT !.cbw = c]
<1>1. c \in Command /\ c.op \in Ops /\ c.len \in Nat /\ c.lba \in Nat /\ c.cnt \in Nat /\ c.tag \in Nat
    BY DEF Proper, Command
<1>0. <<>> \in Seq(Int) /\ Len(<<>>) = 0
    OBVIOUS
<1>2. /\ k \in MscRecord /\ k.offset = 0 /\ k.out = "write" /\ ~k.failed /\ k.staging = <<>>
      /\ ~k.mapped /\ k.acc = 0 /\ k.cbw = c
    BY <1>0, <1>1 DEF MscTypes, MscRecord, DropBuffers
<1>3. /\ h \in MscRecord /\ h.offset = 0 /\ h.out = "write" /\ ~h.failed /\ h.staging = <<>>
      /\ ~h.mapped /\ h.acc = 0
    BY <1>0, <1>1 DEF MscTypes, MscRecord, DropBuffers
<1> HIDE DEF h, k
<1>4. ASSUME NEW x \in MscRecord, x.offset = 0, x.out = "write", ~x.failed, x.staging = <<>>,
             ~x.mapped, x.acc = 0, x.cbw.tag = c.tag \/ c.op = "short",
             Exact => DiskOnCbw(c) = image
      PROVE  AfterCbw(Fail(x), c)
    BY <1>4 DEF AfterCbw, Fail, ToStatus, MscRecord
<1>5. CASE c.op \in {"short", "signature"}
    BY <1>1, <1>2, <1>3, <1>4, <1>5 DEF OnCbw, BadCbw, DiskOnCbw, Punches, h, k
<1>6. CASE c.op = "none"
    BY <1>1, <1>2, <1>6 DEF OnCbw, AfterCbw, ToStatus, MscRecord, DiskOnCbw, Punches, Effect, h, k
<1>7. CASE c.op \in {"reply", "page"}
    <2> DEFINE n == IF c.op = "page" THEN 0 ELSE Lo(c.len, ReplySize)
               z == [i \in 1..n |-> 0]
    <2>1. n \in Nat /\ n <= c.len
        BY <1>1, Sizes DEF Lo
    <2> HIDE DEF n
    <2>2. z \in Seq(Int) /\ Len(z) = n
        BY <2>1, IsASeq
    <2> HIDE DEF z
    <2>3. OnCbw(msc, c) = [k EXCEPT !.staging = z, !.offset = 0, !.state = "DataIn"]
        BY <1>7 DEF OnCbw, Reply, n, z, h, k
    <2>4. Exact => DiskOnCbw(c) = image
        BY <1>7 DEF DiskOnCbw, Punches
    <2> QED
        BY <1>1, <1>2, <1>7, <2>1, <2>2, <2>3, <2>4 DEF AfterCbw, MscRecord, InTotal, In
<1>8. CASE c.op = "read"
    <2>1. /\ Count(c) \in Nat /\ c.len = Count(c) * BlockUnits /\ Count(c) * BlockUnits \in Nat
          /\ c.lba * BlockUnits \in Nat
        BY <1>1, <1>8, Sizes, Product DEF Proper
    <2>2. OnCbw(msc, c) = Read10(k, c) /\ (Exact => DiskOnCbw(c) = image)
        BY <1>8 DEF OnCbw, DiskOnCbw, Punches, h, k
    <2>3. /\ ReadAt(disk, c.lba * BlockUnits, Count(c) * BlockUnits) \in Seq(Int)
          /\ Len(ReadAt(disk, c.lba * BlockUnits, Count(c) * BlockUnits)) = c.len
        BY <2>1, ReadType DEF MscTypes
    <2>4. CASE ~InRange(c.lba, Count(c))
        BY <1>2, <1>4, <2>2, <2>4 DEF Read10
    <2>5. CASE InRange(c.lba, Count(c)) /\ HasDirectBuffer
        <3>1. OnCbw(msc, c) = [k EXCEPT !.offset = 0, !.lba = c.lba, !.cnt = Count(c),
                                        !.mapped = TRUE, !.staging = <<>>, !.state = "DataIn"]
            BY <2>2, <2>5 DEF Read10
        <3> DEFINE y == OnCbw(msc, c)
        <3>2. /\ y \in MscRecord /\ y.state = "DataIn" /\ y.offset = 0 /\ y.out = "write"
              /\ ~y.failed /\ y.mapped /\ y.lba = c.lba /\ y.cnt = Count(c) /\ y.cbw = c
            BY <1>0, <1>1, <1>2, <2>1, <3>1 DEF MscRecord
        <3> HIDE DEF y
        <3>3. InTotal(y) = c.len /\ io # "staging"
            BY <2>1, <2>5, <3>2 DEF InTotal, HasDirectBuffer
        <3>4. AfterCbw(y, c)
            BY <1>1, <1>8, <2>2, <3>2, <3>3 DEF AfterCbw, In
        <3> QED
            BY <3>4 DEF y
    <2>6. CASE InRange(c.lba, Count(c)) /\ ~HasDirectBuffer
        <3> DEFINE z == ReadAt(disk, c.lba * BlockUnits, Count(c) * BlockUnits)
        <3>1. OnCbw(msc, c) = [k EXCEPT !.offset = 0, !.lba = c.lba, !.cnt = Count(c),
                                        !.mapped = FALSE, !.staging = z, !.state = "DataIn"]
            <4>1. HasDirectBuffer = FALSE
                BY <2>6 DEF HasDirectBuffer
            <4>2. OnCbw(msc, c) = [k EXCEPT !.offset = 0, !.lba = c.lba, !.cnt = Count(c),
                                            !.mapped = HasDirectBuffer, !.staging = z,
                                            !.state = "DataIn"]
                BY <2>2, <2>6, Zenon DEF Read10
            <4> QED
                BY <4>1, <4>2, Zenon
        <3>2. z = ReadAt(disk, c.lba * BlockUnits, c.len)
            BY <2>1
        <3>3. z \in Seq(Int) /\ Len(z) = c.len
            BY <2>3
        <3> HIDE DEF z
        <3> DEFINE y == OnCbw(msc, c)
        <3>4. /\ y \in MscRecord /\ y.state = "DataIn" /\ y.offset = 0 /\ y.out = "write"
              /\ ~y.failed /\ ~y.mapped /\ y.staging = z /\ y.cbw = c
            BY <1>1, <1>2, <2>1, <3>1, <3>3 DEF MscRecord
        <3> HIDE DEF y
        <3>5. InTotal(y) = c.len
            BY <3>3, <3>4 DEF InTotal
        <3>6. AfterCbw(y, c)
            BY <1>1, <1>8, <2>2, <3>2, <3>4, <3>5 DEF AfterCbw, In
        <3> QED
            BY <3>6 DEF y
    <2> QED
        BY <2>4, <2>5, <2>6
<1>9. CASE c.op = "write"
    <2>1. /\ Count(c) \in Nat /\ c.len = Count(c) * BlockUnits /\ Count(c) < CountWidth
          /\ Count(c) % CountWidth = Count(c) /\ c.len > 0
        BY <1>1, <1>9, Sizes DEF Proper
    <2>2. OnCbw(msc, c) = Write10(k, c) /\ (Exact => DiskOnCbw(c) = image)
        BY <1>9 DEF OnCbw, DiskOnCbw, Punches, h, k
    <2>4. CASE ~InRange(c.lba, Count(c)) \/ read_only
        BY <1>2, <1>4, <2>2, <2>4 DEF Write10
    <2>5. CASE InRange(c.lba, Count(c)) /\ ~read_only
        <3>1. OnCbw(msc, c) = [k EXCEPT !.lba = c.lba, !.cnt = Count(c), !.acc = 0,
                                        !.mapped = HasDirectBuffer, !.state = "DataOut"]
            BY <2>1, <2>2, <2>5 DEF Write10
        <3>2. HasDirectBuffer \in BOOLEAN
            BY DEF HasDirectBuffer
        <3> DEFINE y == OnCbw(msc, c)
        <3>3. /\ y \in MscRecord /\ y.state = "DataOut" /\ y.offset = 0 /\ y.out = "write"
              /\ ~y.failed /\ y.mapped = HasDirectBuffer /\ y.lba = c.lba /\ y.cnt = Count(c)
              /\ y.cbw = c /\ y.acc = 0 /\ y.staging = <<>>
            BY <1>1, <1>2, <2>1, <3>1, <3>2 DEF MscRecord
        <3> HIDE DEF y
        <3>4. Wanted(y) = c.len
            BY <2>1, <3>3 DEF Wanted
        <3>5. AfterCbw(y, c)
            <4>1. y.mapped => io # "staging"
                BY <3>3 DEF HasDirectBuffer
            <4> QED
                BY <1>1, <1>9, <2>1, <2>2, <3>3, <3>4, <4>1 DEF AfterCbw, Out
        <3> QED
            BY <3>5 DEF y
    <2> QED
        BY <2>4, <2>5
<1>10. CASE c.op = "same"
    <2>1. OnCbw(msc, c) = WriteSame(k, c) /\ (Exact => DiskOnCbw(c) = image) /\ c.len >= BlockUnits
        BY <1>10 DEF OnCbw, DiskOnCbw, Punches, h, k, Proper
    <2>2. CASE SameFails(c)
        BY <1>2, <1>4, <2>1, <2>2 DEF WriteSame
    <2>3. CASE ~SameFails(c)
        <3> DEFINE r == IF c.len > BlockUnits THEN c.len - BlockUnits ELSE 0
        <3>0. r \in Nat
            BY <1>1, Sizes
        <3>1.
                 OnCbw(msc, c) = [k EXCEPT !.lba = c.lba, !.cnt = SameCount(c), !.out = "same",
                                           !.offset = 0, !.residue = r, !.state = "DataOut"]
            BY <1>10, <2>1, <2>3 DEF WriteSame
        <3> HIDE DEF r
        <3>2. SameCount(c) \in Nat
            BY <1>1, <2>3, Sizes DEF SameFails, SameCount
        <3> DEFINE y == OnCbw(msc, c)
        <3>3. /\ y \in MscRecord /\ y.state = "DataOut" /\ y.offset = 0 /\ y.out = "same"
              /\ ~y.failed /\ ~y.mapped /\ y.lba = c.lba /\ y.cnt = SameCount(c)
              /\ y.cbw = c /\ y.acc = 0 /\ y.staging = <<>>
            BY <1>1, <1>2, <2>1, <3>0, <3>1, <3>2 DEF MscRecord
        <3> HIDE DEF y
        <3>4. Wanted(y) = BlockUnits
            BY <3>3 DEF Wanted
        <3>5. AfterCbw(y, c)
            BY <1>1, <1>10, <2>1, <3>3, <3>4, Sizes DEF AfterCbw, Out
        <3> QED
            BY <3>5 DEF y
    <2> QED
        BY <2>2, <2>3
<1>11. CASE c.op = "sameunmap"
    <2>1. OnCbw(msc, c) = WriteSame(k, c)
        BY <1>11 DEF OnCbw, h, k
    <2>2. CASE SameFails(c)
        BY <1>2, <1>4, <1>11, <2>1, <2>2 DEF WriteSame, DiskOnCbw, Punches
    <2>3. CASE ~SameFails(c)
        <3>1. OnCbw(msc, c) = ToStatus(k)
            BY <1>11, <2>1, <2>3 DEF WriteSame
        <3>2. Exact /\ ~(Punches(c) /\ TooWide(c.lba, SameCount(c))) => DiskOnCbw(c) = Effect(c, <<>>)
            <4>1. Punches(c)
                BY <1>11, <2>3 DEF Punches
            <4>2. DiskOnCbw(c) = Cleared(disk, Punched(c.lba, SameCount(c)))
                BY <4>1 DEF DiskOnCbw, PunchHole
            <4>3. Effect(c, <<>>) = Cleared(image, Extent(c.lba, SameCount(c)))
                BY <1>11 DEF Effect
            <4> QED
                BY <4>1, <4>2, <4>3 DEF TooWide
        <3> QED
            BY <1>2, <1>11, <3>1, <3>2 DEF AfterCbw, ToStatus, MscRecord
    <2> QED
        BY <2>2, <2>3
<1>12. CASE c.op = "unmap"
    <2>1. /\ OnCbw(msc, c) = Unmap(k, c) /\ (Exact => DiskOnCbw(c) = image)
          /\ c.len = Len(c.desc) /\ c.len < CountWidth /\ c.desc \in Seq(Int)
        BY <1>12 DEF OnCbw, DiskOnCbw, Punches, h, k, Proper, Command
    <2>2. CASE read_only
        BY <1>2, <1>4, <2>1, <2>2 DEF Unmap
    <2>3. CASE ~read_only /\ c.len = 0
        <3>1. OnCbw(msc, c) = ToStatus(k)
            BY <2>1, <2>3 DEF Unmap
        <3>2. Effect(c, <<>>) = [v \in Units |-> image[v]]
            <4>1. DOMAIN c.desc = {}
                <5>1. DOMAIN c.desc = 1..Len(c.desc) /\ Len(c.desc) = 0
                    BY <2>1, <2>3, LenProperties
                <5> QED
                    BY <5>1
            <4>2. {Extent(Hole(c.desc[i]).lba, Hole(c.desc[i]).cnt) : i \in DOMAIN c.desc} = {}
                BY <4>1
            <4>3. Effect(c, <<>>) = Cleared(image, UNION {})
                BY <1>12, <4>2 DEF Effect
            <4> QED
                BY <4>3 DEF Cleared
        <3>3. Effect(c, <<>>) = image
            BY <3>2 DEF MscTypes
        <3> QED
            BY <1>2, <1>12, <2>1, <3>1, <3>3 DEF AfterCbw, ToStatus, MscRecord
    <2>4. CASE ~read_only /\ c.len # 0
        <3>1. c.len % CountWidth = c.len
            BY <1>1, <2>1, Sizes, SmallMod
        <3>2. OnCbw(msc, c) = [k EXCEPT !.cnt = c.len, !.out = "unmap", !.offset = 0,
                                        !.state = "DataOut"]
            BY <2>1, <2>4, <3>1 DEF Unmap
        <3> DEFINE y == OnCbw(msc, c)
        <3>3. /\ y \in MscRecord /\ y.state = "DataOut" /\ y.offset = 0 /\ y.out = "unmap"
              /\ ~y.failed /\ ~y.mapped /\ y.cnt = c.len
              /\ y.cbw = c /\ y.acc = 0 /\ y.staging = <<>>
            BY <1>1, <1>2, <3>2 DEF MscRecord
        <3> HIDE DEF y
        <3>4. Wanted(y) = c.len
            BY <3>3 DEF Wanted
        <3>5. AfterCbw(y, c)
            BY <1>1, <1>12, <2>1, <2>4, <3>3, <3>4 DEF AfterCbw, Out
        <3> QED
            BY <3>5 DEF y
    <2> QED
        BY <2>2, <2>3, <2>4
<1>13. CASE c.op = "unsupported"
    BY <1>2, <1>4, <1>13 DEF OnCbw, DiskOnCbw, Punches, h, k
<1> QED
    BY <1>1, <1>5, <1>6, <1>7, <1>8, <1>9, <1>10, <1>11, <1>12, <1>13 DEF Ops

------------------------------------------------------------------------------
(* The steps.                                                                *)

\* What a command has to send is a length.
LEMMA InTotalNat ==
    ASSUME NEW h \in MscRecord
    PROVE  InTotal(h) \in Nat
BY Sizes, Product DEF InTotal, MscRecord

\* A read of no data.
LEMMA NothingRead ==
    ASSUME NEW d \in [Units -> Int], NEW u \in Nat
    PROVE  ReadAt(d, u, 0) = <<>>
BY ReadType, EmptySeq

\* A command that writes nothing leaves the image.
LEMMA NoEffect ==
    ASSUME NEW c, In(c), NEW g
    PROVE  Effect(c, g) = image
BY DEF In, Effect

\* No data of a command.
LEMMA NoData ==
    ASSUME NEW c, Proper(c)
    PROVE  HostData(c, 0, 0) = <<>>
<1>1. c.len \in Nat /\ 0 + 0 <= c.len
    BY DEF Proper, Command
<1>2. HostData(c, 0, 0) \in Seq(Int) /\ Len(HostData(c, 0, 0)) = 0
    BY <1>1, HostDataType
<1> QED
    BY <1>2, EmptySeq

\* handle_bulk_out of a CBW: the host sends it, and the handler is in the phase it names.
LEMMA CommandStep ==
    ASSUME MscInv, NEW c \in Commands(ncmd + 1), HostCommand(c)
    PROVE  MscInv'
<1>1. /\ MscTypes /\ msc.state = "Idle" /\ ~msc.failed /\ msc.offset = 0 /\ msc.out = "write"
      /\ sendq = <<>> /\ piped = {} /\ Len(pipe) = leftover /\ recving = <<>> /\ (Exact => disk = image)
    BY DEF MscInv, Phases, AtRest, Clean, HostCommand, PipeOk
<1>2. Proper(c) /\ c.tag \in Nat /\ c.len \in Nat /\ c \in Command /\ c.lba \in Nat
    <2>1. ncmd + 1 \in Nat \ {0}
        BY <1>1 DEF MscTypes
    <2> QED
        BY <2>1, CommandsProper DEF Proper, Command
<1>3. AfterCbw(msc', c) /\ disk' = DiskOnCbw(c)
    BY <1>1, <1>2, CbwLemma DEF HostCommand
<1>4. /\ host' = [IdleHost EXCEPT !.phase = "command", !.cmd = c, !.left = c.len, !.urbs = <<0>>]
      /\ sendq' = <<Ack>> /\ pipe' = pipe /\ piped' = {} /\ leftover' = leftover
      /\ recving' = <<>> /\ image' = image
      /\ read_only' = read_only /\ io' = io /\ ncmd' = ncmd + 1 /\ mscconn' = mscconn
      /\ widened' = (widened \/ (Punches(c) /\ TooWide(c.lba, SameCount(c))))
    BY <1>1 DEF HostCommand
<1>5. /\ host'.phase = "command" /\ host'.cmd = c /\ host'.left = c.len /\ host'.urbs = <<0>>
      /\ host'.got = <<>> /\ host'.csw = <<>> /\ ~host'.retried
      /\ host' \in Host
    <2>1. /\ <<>> \in Seq(Int) /\ <<>> \in Seq(MscAnswer) /\ <<0>> \in Seq(Nat)
        BY EmptySeq
    <2> QED
        BY <1>2, <1>4, <2>1 DEF IdleHost, Host
<1>6. disk' \in [Units -> Int]
    BY <1>1, <1>3 DEF DiskOnCbw, PunchHole, Cleared, MscTypes
<1>7. Sent' = 0 /\ HostData(host'.cmd, 0, Sent') = <<>> /\ Len(sendq') = 1 /\ sendq'[1] = Ack
    BY <1>2, <1>4, <1>5, NoData DEF Sent
<1>8. MscTypes'
    BY <1>1, <1>3, <1>4, <1>5, <1>6 DEF MscTypes, AfterCbw, MscAnswer, PlainAnswer, Ack
<1>9. UrbsAnswered'
    BY <1>4, <1>5 DEF UrbsAnswered
<1>10. Phases'
    BY <1>2, <1>3, <1>4, <1>5 DEF Phases, AtRest, Started, InFlight, InCommand, InDataOut, InDataIn, InStatus, InSkipped, AfterCbw
<1>11. Clean'
    BY <1>3, <1>4 DEF Clean, AfterCbw
<1>12. Pieces'
    <2>1. Len(host'.got) = 0 /\ InTotal(msc') \in Nat
        BY <1>3, <1>5, InTotalNat DEF AfterCbw
    <2>2. msc'.state = "Status" => InTotal(msc') = 0
        BY <1>3 DEF AfterCbw, InTotal
    <2>3. ~IsData(sendq'[1]) /\ Len(sendq') = 1
        BY <1>7 DEF IsData, Ack
    <2>4. In(c) => msc'.state \in {"DataIn", "Status"}
        BY <1>3 DEF AfterCbw, In, Out, MscRecord
    <2>5. msc'.state = "DataIn" => InTotal(msc') <= c.len /\ msc'.offset = 0
        BY <1>3 DEF AfterCbw
    <2> QED
        BY <1>2, <1>5, <1>7, <2>1, <2>2, <2>3, <2>4, <2>5 DEF Pieces, Sending, Queued
<1>13. ReadOk'
    <2>1. ReadAt(disk', c.lba * BlockUnits, Len(host'.got)) = <<>>
        BY <1>6, <1>2, <1>5, Sizes, Product, NothingRead
    <2>0. c.op = "read" => disk' = disk
        BY <1>3 DEF DiskOnCbw, Punches
    <2>2. c.op = "read" /\ ~msc'.failed => msc'.state = "DataIn"
        BY <1>3 DEF AfterCbw, Out, MscRecord
    <2>3. msc'.state = "DataIn" /\ c.op = "read" =>
             /\ InTotal(msc') = c.len
             /\ msc'.mapped => msc'.lba = c.lba
             /\ ~msc'.mapped => msc'.staging = ReadAt(disk, c.lba * BlockUnits, c.len)
        BY <1>3 DEF AfterCbw
    <2>4. Reading' => c.op = "read" /\ ~msc'.failed
        BY <1>5 DEF Reading
    <2> QED
        BY <1>4, <1>5, <2>0, <2>1, <2>2, <2>3, <2>4 DEF ReadOk
<1>14. DataOutOk'
    BY <1>2, <1>3, <1>4, <1>5, <1>7 DEF DataOutOk, AfterCbw, Collecting
<1>15. ASSUME Exact' PROVE DiskOk'
    <2>0. Exact /\ ~(Punches(c) /\ TooWide(c.lba, SameCount(c)))
        BY <1>4, <1>15 DEF Exact
    <2>1. WriteAt(image, c.lba * BlockUnits, <<>>) = image
        BY <1>1, <1>2, Sizes, Product, NothingWritten DEF MscTypes
    <2>2. Failing' <=> msc'.failed
        BY <1>7 DEF Failing, Ack
    <2>3. Effect(host.cmd, host.got)' = Effect(c, <<>>)
        BY <1>4, <1>5 DEF Effect
    <2>4. disk' = IF msc'.state = "Status" /\ ~msc'.failed THEN Effect(c, <<>>) ELSE image
        BY <1>3, <2>0 DEF AfterCbw
    <2>5. msc'.state # "Idle" /\ (msc'.state = "DataIn" => ~msc'.failed)
        BY <1>3 DEF AfterCbw
    <2>6. Failing' \in BOOLEAN /\ msc'.failed \in BOOLEAN /\ msc'.state \in {"DataIn", "DataOut", "Status"}
        BY <2>5, <1>3 DEF AfterCbw, MscRecord, Failing
    <2>7. msc'.failed => msc'.state = "Status"
        BY <1>3 DEF AfterCbw
    <2>8. msc'.state # "DataOut" => disk' = IF Failing' THEN image ELSE Effect(c, <<>>)
        <3>1. msc'.state = "DataIn" => Effect(c, <<>>) = image
            BY <1>3, NoEffect DEF AfterCbw
        <3> QED
            BY <2>2, <2>4, <2>5, <2>6, <3>1
    <2>9. msc'.state = "DataOut" => disk' = image
        BY <2>4
    <2> QED
        BY <1>4, <1>5, <1>7, <2>1, <2>3, <2>8, <2>9 DEF DiskOk
<1>b. DiskOk'
    BY <1>15 DEF DiskOk
<1>16. CswOk' /\ PipeOk'
    BY <1>1, <1>4, <1>7 DEF CswOk, PipeOk, Ack
<1>17. ReadReturnsDisk'
    BY <1>5 DEF ReadReturnsDisk
<1> QED
    BY <1>8, <1>9, <1>10, <1>11, <1>12, <1>13, <1>14, <1>b, <1>16, <1>17 DEF MscInv

------------------------------------------------------------------------------
(* Data from the host.                                                       *)

\* The handler and the image once the host's first m units are collected; x
\* says that the image took what was sent.
Collected(k, d, m, x) ==
    /\ k \in MscRecord /\ k.offset = 0 /\ ~k.failed /\ k.cbw = msc.cbw
    /\ k.mapped => msc.mapped
    /\ d \in [Units -> Int]
    /\ \/ k.state = "Status" /\ k.out = "write" /\ (x => d = Effect(host.cmd, host.got))
       \/ /\ k.state = "DataOut" /\ k.out = msc.out /\ k.lba = msc.lba /\ k.cnt = msc.cnt
          /\ k.mapped = msc.mapped /\ m < Wanted(msc)
          /\ IF msc.mapped
             THEN /\ k.acc = m /\ k.staging = <<>>
                  /\ x => d = WriteAt(image, host.cmd.lba * BlockUnits, HostData(host.cmd, 0, m))
             ELSE k.acc = 0 /\ k.staging = HostData(host.cmd, 0, m) /\ (x => d = image)

\* What is known of a handler that collects.
CollectingFacts ==
    /\ Proper(host.cmd) /\ host.cmd \in Command /\ Out(host.cmd) /\ ~In(host.cmd)
    /\ msc \in MscRecord /\ msc.offset = 0 /\ ~msc.failed
    /\ host.phase \in {"command", "data"} /\ msc.out = host.cmd.op
    /\ Sent \in Nat /\ Sent < Wanted(msc) /\ Wanted(msc) <= host.cmd.len
    /\ host.cmd.len \in Nat /\ host.cmd.lba \in Nat /\ host.cmd.lba * BlockUnits \in Nat
    /\ disk \in [Units -> Int] /\ image \in [Units -> Int] /\ recving \in Seq(Int)
    /\ HostData(host.cmd, 0, Sent) \in Seq(Int) /\ Len(HostData(host.cmd, 0, Sent)) = Sent
    /\ Wanted(msc) \in Nat /\ msc.state = "DataOut"

\* In the data-out phase nothing of the answer is sent yet.
LEMMA WhileCollecting ==
    ASSUME MscInv, Collecting
    PROVE  CollectingFacts
<1>1. /\ Proper(host.cmd) /\ host.cmd \in Command /\ Out(host.cmd) /\ ~In(host.cmd)
      /\ msc \in MscRecord /\ msc.offset = 0 /\ ~msc.failed
      /\ disk \in [Units -> Int] /\ image \in [Units -> Int] /\ recving \in Seq(Int)
    BY DEF MscInv, Collecting, MscTypes, Clean, Phases, Started, Host, Out, In
<1>2. /\ host.phase \in {"command", "data"} /\ msc.out = host.cmd.op
      /\ Sent \in Nat /\ Sent < Wanted(msc) /\ Wanted(msc) <= host.cmd.len
    BY DEF MscInv, Collecting, DataOutOk
<1>3. host.cmd.len \in Nat /\ host.cmd.lba \in Nat
    BY <1>1 DEF Command
<1>4. host.cmd.lba * BlockUnits \in Nat
    BY <1>3, Sizes, Product
<1>5. Wanted(msc) \in Nat
    BY <1>1, Sizes, Product DEF Wanted, MscRecord
<1>6. Sent <= host.cmd.len
    BY <1>2, <1>3, <1>5
<1>7. HostData(host.cmd, 0, Sent) \in Seq(Int) /\ Len(HostData(host.cmd, 0, Sent)) = Sent
    BY <1>1, <1>2, <1>3, <1>6, HostDataType
<1> QED
    BY <1>1, <1>2, <1>3, <1>4, <1>5, <1>7 DEF Collecting, CollectingFacts

\* Into the mapping, or with splice into the file.
LEMMA MappedData ==
    ASSUME MscInv, Collecting, msc.mapped, NEW n \in Nat \ {0}, Sent + n <= host.cmd.len,
           NEW data \in Seq(Int), Exact => data = HostData(host.cmd, Sent, n)
    PROVE  Collected(OnOutData(msc, n), WriteAt(disk, WriteOffset(msc), data), Sent + n, Exact)
<1> DEFINE k == OnOutData(msc, n)
           d == WriteAt(disk, WriteOffset(msc), data)
           u == host.cmd.lba * BlockUnits
<1>0. CollectingFacts
    BY WhileCollecting
<1>a. /\ Proper(host.cmd) /\ Sent \in Nat /\ n \in Nat /\ host.cmd.len \in Nat
      /\ Sent + n \in Nat /\ Sent + n <= host.cmd.len
    BY <1>0 DEF CollectingFacts
<1>b. msc \in MscRecord /\ msc.offset = 0 /\ ~msc.failed /\ msc.state = "DataOut"
    BY <1>0 DEF CollectingFacts
<1>c. /\ disk \in [Units -> Int] /\ image \in [Units -> Int]
      /\ HostData(host.cmd, 0, Sent) \in Seq(Int) /\ Len(HostData(host.cmd, 0, Sent)) = Sent
    BY <1>0 DEF CollectingFacts
<1>d. <<>> \in Seq(Int)
    OBVIOUS
<1>1. /\ msc.out = "write" /\ msc.acc = Sent /\ msc.staging = <<>> /\ msc.lba = host.cmd.lba
      /\ Wanted(msc) = host.cmd.len /\ host.cmd.op = "write" /\ msc.state = "DataOut"
      /\ Exact => disk = WriteAt(image, u, HostData(host.cmd, 0, Sent))
    BY <1>0 DEF CollectingFacts, MscInv, DataOutOk, DiskOk, Collecting
<1>2. data \in Seq(Int)
    OBVIOUS
<1>3. u \in Nat /\ WriteOffset(msc) = u + Len(HostData(host.cmd, 0, Sent))
    BY <1>1, <1>0 DEF CollectingFacts, WriteOffset
<1>4. ASSUME Exact PROVE d = WriteAt(image, u, HostData(host.cmd, 0, Sent) \o data)
    <2> DEFINE e == HostData(host.cmd, 0, Sent)
    <2>1. e \in Seq(Int) /\ WriteOffset(msc) = u + Len(e) /\ disk = WriteAt(image, u, e)
        BY <1>1, <1>3, <1>4, <1>c
    <2> HIDE DEF u, e
    <2>2. WriteAt(WriteAt(image, u, e), WriteOffset(msc), data) = WriteAt(image, u, e \o data)
        <3> DEFINE w == WriteOffset(msc)
        <3>1. w \in Nat
            BY <1>3, <1>c, <2>1
        <3> HIDE DEF w
        <3>2. w = u + Len(e)
            BY <2>1 DEF w
        <3>3. WriteAt(WriteAt(image, u, e), w, data) = WriteAt(image, u, e \o data)
            <4>1. image \in [Units -> Int] /\ u \in Nat /\ e \in Seq(Int) /\ data \in Seq(Int)
                BY <1>2, <1>3, <1>c, <2>1
            <4> QED
                <5>1. \A d1 \in [Units -> Int], u1 \in Nat, s1 \in Seq(Int), t1 \in Seq(Int), w1 \in Nat :
                         w1 = u1 + Len(s1) => WriteAt(WriteAt(d1, u1, s1), w1, t1) = WriteAt(d1, u1, s1 \o t1)
                    BY WritesJoin, Zenon
                <5>2. \A s1 \in Seq(Int), t1 \in Seq(Int), w1 \in Nat :
                         w1 = u + Len(s1) => WriteAt(WriteAt(image, u, s1), w1, t1) = WriteAt(image, u, s1 \o t1)
                    BY <4>1, <5>1, Zenon
                <5>3. e \in Seq(Int) /\ data \in Seq(Int) /\ w \in Nat /\ w = u + Len(e)
                    BY <3>1, <3>2, <4>1, Zenon
                <5> QED
                    BY <5>2, <5>3, Zenon
        <3> QED
            BY <3>3 DEF w
    <2>3. d = WriteAt(image, u, e \o data)
        BY <2>1, <2>2
    <2> QED
        BY <2>3 DEF e
<1>5. ASSUME Exact PROVE HostData(host.cmd, 0, Sent) \o data = HostData(host.cmd, 0, Sent + n)
    <2>1. data = HostData(host.cmd, Sent, n)
        BY <1>5
    <2>2. HostData(host.cmd, 0, Sent) \o HostData(host.cmd, Sent, n) = HostData(host.cmd, 0, Sent + n)
        BY <1>a, HostDataJoins
    <2> QED
        BY <2>1, <2>2
<1>6. Exact => d = WriteAt(image, u, HostData(host.cmd, 0, Sent + n))
    BY <1>4, <1>5
<1>7. d \in [Units -> Int]
    <2>1. WriteOffset(msc) \in Nat
        BY <1>3, <1>c
    <2> QED
        BY <1>2, <1>c, <2>1, WriteAtType
<1>8. PhaseEnds(msc, n) <=> Sent + n >= host.cmd.len
    BY <1>1 DEF PhaseEnds
<1> HIDE DEF d, u
<1>9. CASE Sent + n = host.cmd.len
    <2>1. k = [msc EXCEPT !.staging = <<>>, !.acc = 0, !.mapped = FALSE, !.state = "Status",
                          !.out = "write", !.residue = 0]
        BY <1>1, <1>8, <1>9, <1>0 DEF CollectingFacts, OnOutData
    <2>2. k \in MscRecord /\ k.state = "Status" /\ k.out = "write" /\ k.offset = 0
          /\ ~k.failed /\ ~k.mapped /\ k.cbw = msc.cbw
        BY <2>1, <1>b, <1>d DEF MscRecord
    <2>3. Exact => d = Effect(host.cmd, host.got)
        BY <1>1, <1>6, <1>9 DEF Effect, u
    <2> HIDE DEF k
    <2>4. Collected(k, d, Sent + n, Exact)
        BY <1>7, <2>2, <2>3 DEF Collected
    <2> QED
        BY <2>4 DEF k, d
<1>10. CASE Sent + n < host.cmd.len
    <2>1. k = [msc EXCEPT !.acc = Sent + n]
        BY <1>1, <1>8, <1>10, <1>0 DEF CollectingFacts, OnOutData
    <2>2. /\ k \in MscRecord /\ k.state = "DataOut" /\ k.out = msc.out /\ k.offset = 0
          /\ ~k.failed /\ k.mapped = msc.mapped /\ k.cbw = msc.cbw /\ k.lba = msc.lba
          /\ k.cnt = msc.cnt /\ k.acc = Sent + n /\ k.staging = <<>>
        BY <1>1, <2>1, <1>a, <1>b DEF MscRecord
    <2> HIDE DEF k
    <2>4. Collected(k, d, Sent + n, Exact)
        BY <1>1, <1>6, <1>7, <1>10, <2>2 DEF Collected, u
    <2> QED
        BY <2>4 DEF k, d
<1> QED
    <2>1. Sent + n = host.cmd.len \/ Sent + n < host.cmd.len
        BY <1>a
    <2> QED
        BY <1>9, <1>10, <2>1 DEF d

\* Into the staging buffer, and at the end of the phase into the image.
LEMMA StagedData ==
    ASSUME MscInv, Collecting, ~msc.mapped, NEW n \in Nat \ {0}, Sent + n <= host.cmd.len
    PROVE  LET data == HostData(host.cmd, Sent, n)
               h == Stage(msc, data)
           IN  Collected(OnOutData(h, n), DiskOnOutData(h, data), Sent + n,
                         Exact /\ ~WidensOnOutData(h, n))
<1> DEFINE c == host.cmd
           data == HostData(c, Sent, n)
           h == Stage(msc, data)
           k == OnOutData(h, n)
           d == DiskOnOutData(h, data)
           m == Sent + n
           x == Exact /\ ~WidensOnOutData(h, n)
<1>0. CollectingFacts
    BY WhileCollecting
<1>a. /\ Proper(host.cmd) /\ Sent \in Nat /\ n \in Nat /\ host.cmd.len \in Nat
      /\ Sent + n \in Nat /\ Sent + n <= host.cmd.len
    BY <1>0 DEF CollectingFacts
<1>b. msc \in MscRecord /\ msc.offset = 0 /\ ~msc.failed /\ msc.state = "DataOut"
    BY <1>0 DEF CollectingFacts
<1>c. /\ disk \in [Units -> Int] /\ image \in [Units -> Int]
      /\ HostData(host.cmd, 0, Sent) \in Seq(Int) /\ Len(HostData(host.cmd, 0, Sent)) = Sent
    BY <1>0 DEF CollectingFacts
<1>d. <<>> \in Seq(Int)
    OBVIOUS
<1>1. /\ msc.acc = 0 /\ msc.staging = HostData(c, 0, Sent) /\ (Exact => disk = image)
      /\ msc.out \in {"write", "unmap"} => Wanted(msc) = c.len
      /\ msc.out \in {"write", "same"} => msc.lba = c.lba
      /\ msc.out = "same" => msc.cnt = SameCount(c)
      /\ msc.state = "DataOut"
    BY <1>0 DEF CollectingFacts, MscInv, DataOutOk, DiskOk, Collecting
<1>2. data \in Seq(Int) /\ Len(data) = n
    BY <1>0, HostDataType DEF CollectingFacts
<1>3. /\ m \in Nat /\ m <= c.len
      /\ HostData(c, 0, m) \in Seq(Int) /\ Len(HostData(c, 0, m)) = m
    BY <1>0, HostDataType DEF CollectingFacts
<1>4. h = [msc EXCEPT !.staging = HostData(c, 0, m)]
    <2>1. HostData(c, 0, Sent) \o data = HostData(c, 0, m)
        BY <1>a, HostDataJoins
    <2>2. h = [msc EXCEPT !.staging = msc.staging \o data]
        BY <1>1 DEF Stage
    <2> HIDE DEF h, m, data
    <2> QED
        BY <1>1, <2>1, <2>2
<1> HIDE DEF h, data
<1>5. /\ h \in MscRecord /\ h.state = "DataOut" /\ h.out = msc.out /\ h.offset = 0 /\ ~h.failed
      /\ ~h.mapped /\ h.mapped = msc.mapped /\ h.cbw = msc.cbw /\ h.lba = msc.lba /\ h.cnt = msc.cnt /\ h.acc = 0
      /\ h.staging = HostData(c, 0, m)
    BY <1>1, <1>3, <1>4, <1>0 DEF CollectingFacts, MscRecord
<1>6. Wanted(h) = Wanted(msc)
    BY <1>5 DEF Wanted
<1>7. (PhaseEnds(h, n) <=> m >= Wanted(msc)) /\ (PhaseEnds(h, Len(data)) <=> m >= Wanted(msc))
    BY <1>2, <1>3, <1>5, <1>6 DEF PhaseEnds
<1>8. CASE m >= Wanted(msc)
    <2>1. /\ k \in MscRecord /\ k.state = "Status" /\ k.out = "write" /\ k.offset = 0
          /\ ~k.failed /\ ~k.mapped /\ k.cbw = msc.cbw
        <3>1. PICK r \in Nat :
                 k = [h EXCEPT !.staging = <<>>, !.acc = 0, !.mapped = FALSE, !.state = "Status",
                               !.out = "write", !.residue = r]
            BY <1>5, <1>7, <1>8 DEF OnOutData, MscRecord
        <3> QED
            BY <1>5, <1>d, <3>1 DEF MscRecord
    <2>2. ASSUME x PROVE d = Effect(c, host.got)
        <3>0. disk = image
            BY <1>1, <2>2
        <3>1. CASE msc.out = "write"
            <4>1. d = WriteAt(disk, h.lba * BlockUnits, h.staging)
                BY <1>5, <1>7, <1>8, <3>1 DEF DiskOnOutData
            <4>2. m = c.len /\ h.lba = c.lba
                <5>1. Wanted(msc) = c.len /\ msc.lba = c.lba
                    BY <1>1, <3>1
                <5> QED
                    BY <1>a, <1>5, <1>8, <5>1
            <4>3. Effect(c, host.got) = WriteAt(image, c.lba * BlockUnits, HostData(c, 0, c.len))
                BY <3>1, <1>0 DEF CollectingFacts, Effect
            <4> HIDE DEF m
            <4> QED
                BY <3>0, <1>5, <4>1, <4>2, <4>3
        <3>2. CASE msc.out = "same"
            <4>1. d = [v \in Units |-> IF v \in Extent(h.lba, h.cnt)
                                       THEN h.staging[(v % BlockUnits) + 1] ELSE disk[v]]
                BY <1>5, <1>7, <1>8, <3>2 DEF DiskOnOutData
            <4>2. ASSUME NEW v \in Units
                  PROVE  h.staging[(v % BlockUnits) + 1] = HostData(c, 0, BlockUnits)[(v % BlockUnits) + 1]
                <5>1. v % BlockUnits \in Nat /\ v % BlockUnits < BlockUnits
                    BY Sizes, SmallMod DEF Units
                <5>2. BlockUnits <= m
                    BY <1>8, <3>2 DEF Wanted
                <5> HIDE DEF m
                <5>3. /\ (v % BlockUnits) + 1 \in 1..BlockUnits /\ (v % BlockUnits) + 1 \in 1..m
                    BY <5>1, <5>2, <1>3, Sizes
                <5> QED
                    BY <1>5, <5>3 DEF HostData
            <4>3. Effect(c, host.got) = [v \in Units |-> IF v \in Extent(c.lba, SameCount(c))
                                           THEN HostData(c, 0, BlockUnits)[(v % BlockUnits) + 1]
                                           ELSE image[v]]
                BY <3>2, <1>0 DEF CollectingFacts, Effect
            <4> QED
                BY <3>0, <1>1, <1>5, <3>2, <4>1, <4>2, <4>3
        <3>3. CASE msc.out = "unmap"
            <4>1. d = PunchHoles(disk, h.staging)
                BY <1>5, <1>7, <1>8, <3>3 DEF DiskOnOutData
            <4>2. m = c.len /\ c.op = "unmap" /\ c.desc \in Seq(Int) /\ Len(c.desc) = c.len
                <5>1. Wanted(msc) = c.len /\ c.op = "unmap"
                    BY <1>0, <1>1, <3>3 DEF CollectingFacts
                <5>2. m = c.len
                    BY <1>a, <1>8, <5>1
                <5> QED
                    BY <1>a, <5>1, <5>2 DEF Proper, Command
            <4>3. DOMAIN h.staging = DOMAIN c.desc /\ DOMAIN c.desc = 1..m
                BY <1>3, <1>5, <4>2, LenProperties
            <4>4. \A i \in 1..m : h.staging[i] = c.desc[i]
                BY <1>5, <4>2 DEF HostData
            <4>5. \A i \in DOMAIN h.staging :
                     Punched(Hole(h.staging[i]).lba, Hole(h.staging[i]).cnt)
                        = Extent(Hole(h.staging[i]).lba, Hole(h.staging[i]).cnt)
                BY <1>5, <1>7, <1>8, <2>2, <3>3 DEF WidensOnOutData, TooWide
            <4>6. Effect(c, host.got) =
                     Cleared(image, UNION {Extent(Hole(c.desc[i]).lba, Hole(c.desc[i]).cnt) :
                                              i \in DOMAIN c.desc})
                BY <4>2 DEF Effect
            <4> DEFINE S == {Punched(Hole(h.staging[i]).lba, Hole(h.staging[i]).cnt) :
                                i \in DOMAIN h.staging}
                       T == {Extent(Hole(c.desc[i]).lba, Hole(c.desc[i]).cnt) : i \in DOMAIN c.desc}
            <4> HIDE DEF m, c
            <4>7. S = T
                BY <4>3, <4>4, <4>5
            <4>8. d = Cleared(disk, UNION S) /\ Effect(c, host.got) = Cleared(image, UNION T)
                BY <4>1, <4>6 DEF PunchHoles
            <4> QED
                BY <3>0, <4>7, <4>8
        <3> QED
            BY <3>1, <3>2, <3>3, <1>0 DEF CollectingFacts, MscRecord
    <2>3. d \in [Units -> Int]
        <3>1. msc.out \in {"write", "same", "unmap"}
            BY <1>0 DEF CollectingFacts, MscRecord
        <3>2. CASE msc.out = "write"
            <4>1. d = WriteAt(disk, h.lba * BlockUnits, h.staging)
                BY <1>5, <1>7, <1>8, <3>2 DEF DiskOnOutData
            <4> DEFINE w == h.lba * BlockUnits
            <4>2. w \in Nat
                BY <1>5, Sizes, Product DEF MscRecord
            <4> HIDE DEF w
            <4>3. WriteAt(disk, w, h.staging) \in [Units -> Int]
                BY <1>3, <1>5, <1>c, <4>2, WriteAtType
            <4> QED
                BY <4>1, <4>3 DEF w
        <3>3. CASE msc.out = "same"
            <4>1. d = [v \in Units |-> IF v \in Extent(h.lba, h.cnt)
                                       THEN h.staging[(v % BlockUnits) + 1] ELSE disk[v]]
                BY <1>5, <1>7, <1>8, <3>3 DEF DiskOnOutData
            <4>2. ASSUME NEW v \in Units PROVE h.staging[(v % BlockUnits) + 1] \in Int
                <5>1. v % BlockUnits \in Nat /\ v % BlockUnits < BlockUnits
                    BY Sizes, SmallMod DEF Units
                <5>2. BlockUnits <= m
                    BY <1>8, <3>3 DEF Wanted
                <5> HIDE DEF m
                <5>3. (v % BlockUnits) + 1 \in 1..m
                    BY <5>1, <5>2, <1>3, Sizes
                <5> QED
                    BY <1>3, <1>5, <5>3, ElementOfSeq
            <4> QED
                BY <4>1, <4>2, <1>0 DEF CollectingFacts
        <3>4. CASE msc.out = "unmap"
            <4>1. d = PunchHoles(disk, h.staging)
                BY <1>5, <1>7, <1>8, <3>4 DEF DiskOnOutData
            <4> QED
                BY <4>1, <1>0 DEF CollectingFacts, PunchHoles, Cleared
        <3> QED
            BY <3>1, <3>2, <3>3, <3>4
    <2> HIDE DEF k, d, m, x
    <2>4. Collected(k, d, m, x)
        BY <2>1, <2>2, <2>3 DEF Collected
    <2> QED
        BY <2>4 DEF k, d, m, x, h, data
<1>9. CASE m < Wanted(msc)
    <2>0. x => disk = image
        BY <1>1
    <2>1. k = h /\ d = disk
        <3>1. ~PhaseEnds(h, n) /\ ~PhaseEnds(h, Len(data))
            BY <1>3, <1>7, <1>9, <1>0 DEF CollectingFacts
        <3>2. d = disk
            BY <1>5, <3>1 DEF DiskOnOutData
        <3>3. k = [h EXCEPT !.acc = h.acc]
            BY <1>5, <3>1 DEF OnOutData
        <3> QED
            BY <1>5, <3>2, <3>3 DEF MscRecord
    <2> HIDE DEF k, d, m, x
    <2>2. Collected(k, d, m, x)
        BY <1>1, <1>5, <1>9, <1>b, <1>c, <2>0, <2>1 DEF Collected
    <2> QED
        BY <2>2 DEF k, d, m, x, h, data
<1> QED
    BY <1>3, <1>8, <1>9, <1>0 DEF CollectingFacts

\* An OUT URB whose data are collected: what MscInv becomes.
LEMMA CollectStep ==
    ASSUME MscInv, Collecting, host.phase = "data", NEW m \in Nat, m <= host.cmd.len,
           NEW x \in BOOLEAN, Exact' => x, Collected(msc', disk', m, x), host' \in Host, host'.phase = "data", host'.cmd = host.cmd,
           host'.left = host.cmd.len - m, host'.got = host.got, host'.csw = host.csw,
           host'.urbs # <<>>, Len(host'.urbs) = Len(sendq) + 1,
           sendq' = Append(sendq, Ack), recving' = <<>>,
           pipe' \in Seq(Int), Len(pipe') = leftover, piped' = {}, widened' \in BOOLEAN,
           UNCHANGED <<image, connUnchanged>>
    PROVE  MscInv'
<1>0. CollectingFacts
    BY WhileCollecting
<1>1. /\ Proper(host.cmd) /\ Out(host.cmd) /\ ~In(host.cmd) /\ host.cmd.len \in Nat
      /\ Wanted(msc) \in Nat /\ Wanted(msc) <= host.cmd.len /\ msc.out = host.cmd.op
    BY <1>0 DEF CollectingFacts
<1>2. /\ sendq \in Seq(MscAnswer) /\ \A i \in 1..Len(sendq) : sendq[i] = Ack
      /\ msc.cbw.tag = host.cmd.tag \/ host.cmd.op = "short"
      /\ msc.mapped => io # "staging" /\ msc.out = "write"
    <2>1. msc.state = "DataOut" /\ InFlight
        BY DEF Collecting
    <2> QED
        BY <1>1, <2>1 DEF MscInv, MscTypes, Phases, InDataOut, Started, Clean, DataOutOk, Collecting
<1>3. /\ sendq' \in Seq(MscAnswer) /\ Len(sendq') = Len(sendq) + 1
      /\ \A i \in 1..Len(sendq') : sendq'[i] = Ack
    <2>1. Ack \in MscAnswer
        BY DEF Ack, MscAnswer, PlainAnswer
    <2> QED
        BY <1>2, <2>1
<1>4. Ack.kind = "ack"
    BY DEF Ack
<1>5. Sent' = m
    BY <1>1 DEF Sent
<1>6. msc' \in MscRecord /\ msc'.offset = 0 /\ ~msc'.failed /\ msc'.cbw = msc.cbw
      /\ (msc'.mapped => msc.mapped) /\ disk' \in [Units -> Int]
    BY DEF Collected
<1>7. image' = image /\ io' = io /\ read_only' = read_only /\ ncmd' = ncmd /\ mscconn' = mscconn
      /\ leftover' = leftover
    BY DEF connUnchanged
<1>8. msc'.state \in {"Status", "DataOut"}
    BY DEF Collected
<1>9. /\ msc'.state = "Status" => msc'.out = "write" /\ (Exact' => disk' = Effect(host.cmd, host.got))
      /\ msc'.state = "DataOut" =>
            /\ msc'.out = msc.out /\ msc'.lba = msc.lba /\ msc'.cnt = msc.cnt
            /\ msc'.mapped = msc.mapped /\ m < Wanted(msc) /\ Wanted(msc') = Wanted(msc)
    BY DEF Collected, Wanted
<1>10. MscTypes'
    BY <1>3, <1>6, <1>7, EmptySeq DEF MscTypes, MscInv
<1>11. UrbsAnswered'
    BY <1>3 DEF UrbsAnswered
<1>12. Phases'
    BY <1>1, <1>2, <1>3, <1>6, <1>7, <1>8
       DEF Phases, AtRest, Started, InFlight, InCommand, InDataOut, InDataIn, InStatus, InSkipped
<1>13. Clean'
    BY <1>2, <1>6, <1>7, <1>8, <1>9 DEF Clean
<1>14. Pieces' /\ ReadOk'
    BY <1>1 DEF Pieces, Sending, ReadOk, Reading, Out, In
<1>15. DataOutOk'
    BY <1>0, <1>1, <1>5, <1>9 DEF DataOutOk, Collecting, InFlight, Collected, MscInv
<1>16. DiskOk'
    <2>1. ~Failing'
        BY <1>3, <1>4, <1>6 DEF Failing
    <2>2. Effect(host.cmd, host.got)' = Effect(host.cmd, host.got)
        BY <1>7 DEF Effect
    <2>3. msc'.state = "DataOut" /\ Exact' =>
             /\ msc'.mapped => disk' = WriteAt(image, host.cmd.lba * BlockUnits, HostData(host.cmd, 0, m))
             /\ ~msc'.mapped => disk' = image
        BY DEF Collected
    <2> QED
        BY <1>5, <1>7, <1>8, <1>9, <2>1, <2>2, <2>3 DEF DiskOk
<1>17. CswOk' /\ PipeOk'
    <2>1. CswOk'
        BY <1>3, <1>4 DEF CswOk
    <2>2. PipeOk'
        BY <1>7 DEF PipeOk
    <2> QED
        BY <2>1, <2>2
<1>18. ReadReturnsDisk'
    BY DEF ReadReturnsDisk
<1> QED
    BY <1>10, <1>11, <1>12, <1>13, <1>14, <1>15, <1>16, <1>17, <1>18 DEF MscInv

\* An OUT URB in staging or mapped mode.
LEMMA OutStep ==
    ASSUME MscInv, NEW n \in Nat, HostOut(n)
    PROVE  MscInv'
<1> DEFINE data == HostData(host.cmd, host.cmd.len - host.left, n)
           h == Stage(msc, data)
<1>1. /\ host.phase = "data" /\ ~In(host.cmd) /\ n \in 1..host.left /\ recving = <<>>
      /\ msc' = OnOutData(h, n) /\ disk' = DiskOnOutData(h, data)
      /\ host' = [host EXCEPT !.left = host.left - n, !.urbs = Append(host.urbs, n)]
      /\ sendq' = Append(sendq, Ack)
      /\ widened' = (widened \/ WidensOnOutData(h, n))
      /\ UNCHANGED <<pipe, piped, recving, image, connUnchanged>>
    BY DEF HostOut
<1>2. /\ MscTypes /\ Proper(host.cmd) /\ host.left <= host.cmd.len
      /\ \A i \in 1..Len(sendq) : sendq[i] = Ack
      /\ msc.state \in {"DataOut", "Status"}
    BY <1>1 DEF MscInv, Phases, Started, InFlight, InDataOut
<1>3. /\ host.left \in Nat /\ host.cmd.len \in Nat /\ n > 0 /\ n <= host.left
      /\ host \in Host /\ sendq \in Seq(MscAnswer) /\ host.urbs \in Seq(Nat)
    BY <1>1, <1>2 DEF MscTypes, Host, Command
<1>a. /\ host.left \in Nat /\ host.cmd.len \in Nat /\ n \in Nat /\ n > 0 /\ n <= host.left
      /\ host.left <= host.cmd.len
    BY <1>2, <1>3
<1>4. /\ host' \in Host /\ host'.phase = "data" /\ host'.cmd = host.cmd
      /\ host'.left = host.left - n /\ host'.got = host.got /\ host'.csw = host.csw
      /\ host'.urbs = Append(host.urbs, n) /\ host'.urbs # <<>>
      /\ Len(host'.urbs) = Len(host.urbs) + 1
    <2> DEFINE z == Append(host.urbs, n)
               l == host.left - n
    <2>1. z \in Seq(Nat) /\ Len(z) = Len(host.urbs) + 1 /\ l \in Nat /\ z # <<>>
        <3>1. l \in Nat
            BY <1>a
        <3>2. host.urbs \in Seq(Nat) /\ n \in Nat
            BY <1>3
        <3>3. z \in Seq(Nat) /\ Len(z) = Len(host.urbs) + 1
            BY <3>2
        <3>4. z # <<>>
            BY <3>2
        <3> QED
            BY <3>1, <3>3, <3>4
    <2>2. host' = [host EXCEPT !.left = l, !.urbs = z]
        BY <1>1
    <2> HIDE DEF z, l
    <2>3. /\ host' \in Host /\ host'.phase = "data" /\ host'.cmd = host.cmd
          /\ host'.left = l /\ host'.got = host.got /\ host'.csw = host.csw
          /\ host'.urbs = z
        BY <1>1, <1>3, <2>1, <2>2 DEF Host
    <2> QED
        BY <2>1, <2>3 DEF z, l
<1>5. Len(host.urbs) = Len(sendq)
    BY <1>1, <1>3 DEF MscInv, UrbsAnswered
<1>6. piped = {} /\ Len(pipe) = leftover /\ pipe \in Seq(Int)
    <2>1. sendq # <<>> => sendq[1].kind = "ack"
        <3>1. sendq # <<>> => 1 \in 1..Len(sendq)
            BY <1>3, EmptySeq
        <3> QED
            BY <1>2, <3>1 DEF Ack
    <2>2. recving = <<>>
        BY <1>1
    <2> QED
        BY <2>1, <2>2 DEF MscInv, PipeOk, MscTypes
<1>7. CASE msc.state = "DataOut"
    <2>1. Collecting
        BY <1>1, <1>7 DEF Collecting, InFlight
    <2>2. Sent = host.cmd.len - host.left /\ Sent + n <= host.cmd.len /\ Sent + n \in Nat
        <3>1. Len(recving) = 0
            BY <1>1
        <3> QED
            BY <1>a, <3>1 DEF Sent
    <2> DEFINE x == Exact /\ ~WidensOnOutData(h, n)
    <2>a. /\ x \in BOOLEAN /\ (Exact' => x) /\ widened' \in BOOLEAN
          /\ pipe' \in Seq(Int) /\ Len(pipe') = leftover /\ piped' = {} /\ recving' = <<>>
          /\ UNCHANGED <<image, connUnchanged>>
        BY <1>1, <1>2, <1>6 DEF Exact, WidensOnOutData, connUnchanged, MscTypes
    <2>b. Sent = host.cmd.len - host.left
        BY <2>2
    <2>3. Collected(msc', disk', Sent + n, x)
        <3>1. CASE ~msc.mapped
            <4>1. n \in Nat \ {0}
                BY <1>3
            <4> QED
                BY <1>1, <4>1, <2>1, <2>2, <2>b, <3>1, StagedData
        <3>2. CASE msc.mapped
            <4>1. h = msc
                BY <3>2 DEF Stage
            <4>2. disk' = WriteAt(disk, WriteOffset(msc), data)
                BY <1>1, <1>7, <3>2, <4>1 DEF DiskOnOutData
            <4>3. data \in Seq(Int) /\ Len(data) = n /\ data = HostData(host.cmd, Sent, n)
                  /\ n \in Nat \ {0}
                BY <1>2, <1>3, <2>2, <2>b, HostDataType
            <4>4. x <=> Exact
                BY <3>2, <4>1 DEF WidensOnOutData
            <4>5. msc' = OnOutData(msc, n)
                BY <1>1, <4>1
            <4> HIDE DEF data, h
            <4>6. Collected(OnOutData(msc, n), WriteAt(disk, WriteOffset(msc), data), Sent + n, Exact)
                BY <2>1, <2>2, <3>2, <4>3, MappedData
            <4> QED
                BY <4>2, <4>4, <4>5, <4>6 DEF Collected
        <3> QED
            BY <3>1, <3>2
    <2>4. host'.left = host.cmd.len - (Sent + n)
        BY <1>3, <1>4, <2>2
    <2> QED
        <3> HIDE DEF x
        <3>1. sendq' = Append(sendq, Ack) /\ host.phase = "data"
            BY <1>1
        <3>2. Sent + n \in Nat /\ Sent + n <= host.cmd.len
            BY <2>2
        <3>3. Len(host'.urbs) = Len(sendq) + 1
            BY <1>4, <1>5
        <3> QED
            BY <1>4, <2>1, <2>3, <2>4, <2>a, <3>1, <3>2, <3>3, CollectStep
<1>8. CASE msc.state = "Status"
    <2>1. h = msc /\ msc' = msc /\ disk' = disk /\ widened' = widened
        BY <1>1, <1>2, <1>8 DEF Stage, OnOutData, DiskOnOutData, WidensOnOutData, MscTypes
    <2>2. /\ sendq' \in Seq(MscAnswer) /\ Len(sendq') = Len(sendq) + 1
          /\ \A i \in 1..Len(sendq') : sendq'[i] = Ack
          /\ Ack.kind = "ack"
        <3>1. Ack \in MscAnswer /\ Ack.kind = "ack"
            BY DEF Ack, MscAnswer, PlainAnswer
        <3> QED
            BY <1>1, <1>2, <1>3, <3>1
    <2>3. MscTypes'
        BY <1>1, <1>2, <1>4, <2>1, <2>2 DEF MscTypes, connUnchanged
    <2>4. UrbsAnswered'
        BY <1>1, <1>4, <1>5, <2>2 DEF UrbsAnswered
    <2>5. Phases'
        <3>1. /\ msc.cbw.tag = host.cmd.tag \/ host.cmd.op = "short"
              /\ msc.failed => msc.staging = <<>> /\ ~msc.mapped
            BY <1>1, <1>8 DEF MscInv, Phases, Started, InFlight
        <3>2. Started'
            BY <1>2, <1>4, <1>8, <1>a, <2>1, <3>1 DEF Started, InFlight
        <3>3. InDataOut'
            BY <1>4, <1>8, <2>1, <2>2 DEF InDataOut
        <3>4. InDataIn'
            BY <1>1, <1>4 DEF InDataIn
        <3> QED
            BY <1>4, <3>2, <3>3, <3>4 DEF Phases, AtRest, InCommand, InStatus, InSkipped
    <2>6. Clean'
        BY <1>1, <2>1 DEF Clean, MscInv, connUnchanged
    <2>7. Pieces' /\ ReadOk'
        BY <1>1, <1>4 DEF Pieces, Sending, ReadOk, Reading, In
    <2>8. DataOutOk'
        BY <1>8, <2>1 DEF DataOutOk, Collecting
    <2>9. ASSUME Exact' PROVE DiskOk'
        <3>0. Exact
            BY <1>1, <2>1, <2>9 DEF Exact, connUnchanged
        <3>1. Failing' <=> msc.failed
            BY <2>1, <2>2 DEF Failing
        <3>2. Failing <=> msc.failed
            BY <1>2, <2>2 DEF Failing
        <3>3. disk = IF msc.failed THEN image ELSE Effect(host.cmd, host.got)
            BY <1>1, <1>8, <3>0, <3>2 DEF MscInv, DiskOk
        <3>4. Effect(host.cmd, host.got)' = Effect(host.cmd, host.got)
            BY <1>1, <1>4 DEF Effect
        <3> QED
            BY <1>1, <1>8, <2>1, <3>1, <3>3, <3>4 DEF DiskOk
    <2>b. DiskOk'
        BY <2>9 DEF DiskOk
    <2>10. CswOk' /\ PipeOk'
        BY <1>1, <1>6, <2>2 DEF CswOk, PipeOk, connUnchanged
    <2>11. ReadReturnsDisk'
        BY <1>4 DEF ReadReturnsDisk
    <2> QED
        BY <2>3, <2>4, <2>5, <2>6, <2>7, <2>8, <2>b, <2>10, <2>11 DEF MscInv
<1> QED
    BY <1>2, <1>7, <1>8

\* What the image holds does not depend on these.
LEMMA EffectSame ==
    ASSUME image' = image, host'.cmd = host.cmd, host'.got = host.got
    PROVE  Effect(host.cmd, host.got)' = Effect(host.cmd, host.got)
BY DEF Effect

\* recv_direct takes the data off the socket.
LEMMA DirectStep ==
    ASSUME MscInv, NEW n \in Nat, RecvDirect(n)
    PROVE  MscInv'
<1> DEFINE data == HostData(host.cmd, host.cmd.len - host.left, n)
<1>1. /\ host.phase = "data" /\ ~In(host.cmd) /\ n \in 1..host.left /\ recving = <<>>
      /\ msc.state = "DataOut" /\ msc.mapped /\ io = "spliced"
      /\ recving' = data
      /\ host' = [host EXCEPT !.left = host.left - n, !.urbs = Append(host.urbs, n)]
      /\ UNCHANGED <<msc, disk, sendq, pipe, piped, image, widened, connUnchanged>>
    BY DEF RecvDirect
<1>0. CollectingFacts
    BY <1>1, WhileCollecting DEF Collecting, InFlight
<1>2. /\ MscTypes /\ Proper(host.cmd) /\ host.left <= host.cmd.len
      /\ \A i \in 1..Len(sendq) : sendq[i] = Ack
    BY <1>1 DEF MscInv, Phases, Started, InFlight, InDataOut
<1>3. /\ host.left \in Nat /\ host.cmd.len \in Nat /\ n > 0 /\ n <= host.left
      /\ host \in Host /\ sendq \in Seq(MscAnswer) /\ host.urbs \in Seq(Nat)
    BY <1>1, <1>2 DEF MscTypes, Host, Command
<1>a. /\ host.left \in Nat /\ host.cmd.len \in Nat /\ n \in Nat /\ n > 0 /\ n <= host.left
      /\ host.left <= host.cmd.len
    BY <1>2, <1>3
<1>4. /\ host' \in Host /\ host'.phase = "data" /\ host'.cmd = host.cmd
      /\ host'.left = host.left - n /\ host'.got = host.got /\ host'.csw = host.csw
      /\ host'.urbs = Append(host.urbs, n) /\ host'.urbs # <<>>
      /\ Len(host'.urbs) = Len(host.urbs) + 1
    <2> DEFINE z == Append(host.urbs, n)
               l == host.left - n
    <2>1. l \in Nat
        BY <1>a
    <2>2. z \in Seq(Nat) /\ Len(z) = Len(host.urbs) + 1
        BY <1>3
    <2>3. z # <<>>
        BY <1>3
    <2>4. host' = [host EXCEPT !.left = l, !.urbs = z]
        BY <1>1
    <2> HIDE DEF z, l
    <2>5. /\ host' \in Host /\ host'.phase = "data" /\ host'.cmd = host.cmd
          /\ host'.left = l /\ host'.got = host.got /\ host'.csw = host.csw
          /\ host'.urbs = z
        BY <1>1, <1>3, <2>1, <2>2, <2>4 DEF Host
    <2> QED
        BY <2>2, <2>3, <2>5 DEF z, l
<1>5. data \in Seq(Int) /\ Len(data) = n /\ data # <<>>
    <2>1. /\ host.cmd.len - host.left \in Nat /\ (host.cmd.len - host.left) + n <= host.cmd.len
        BY <1>a
    <2>2. data \in Seq(Int) /\ Len(data) = n
        BY <1>2, <1>a, <2>1, HostDataType
    <2> QED
        BY <1>a, <2>2, EmptySeq
<1> HIDE DEF data
<1>6. /\ Sent = host.cmd.len - host.left /\ Sent' = Sent
    <2>1. Len(recving) = 0 /\ Len(recving') = n
        BY <1>1, <1>5
    <2> QED
        BY <1>a, <1>4, <2>1 DEF Sent
<1>7. data = HostData(host.cmd, Sent, n)
    BY <1>6 DEF data
<1>8. MscTypes'
    BY <1>1, <1>2, <1>4, <1>5 DEF MscTypes, connUnchanged
<1>9. UrbsAnswered'
    <2>1. Len(host.urbs) = Len(sendq) + 0
        BY <1>1 DEF MscInv, UrbsAnswered
    <2>2. recving' # <<>>
        BY <1>1, <1>5
    <2> QED
        BY <1>1, <1>4, <2>1, <2>2 DEF UrbsAnswered
<1>10. Phases'
    <2>1. Started'
        <3>1. /\ msc.cbw.tag = host.cmd.tag \/ host.cmd.op = "short"
              /\ msc.failed => msc.staging = <<>> /\ ~msc.mapped
              /\ Out(host.cmd)
            BY <1>1 DEF MscInv, Phases, Started, InFlight
        <3> QED
            BY <1>1, <1>2, <1>4, <1>a, <3>1 DEF Started, InFlight
    <2>2. InDataOut'
        BY <1>1, <1>2, <1>4 DEF InDataOut
    <2>3. InDataIn'
        BY <1>1, <1>4 DEF InDataIn
    <2> QED
        BY <1>4, <2>1, <2>2, <2>3 DEF Phases, AtRest, InCommand, InStatus, InSkipped
<1>11. Clean'
    BY <1>1 DEF Clean, MscInv, connUnchanged
<1>12. Pieces' /\ ReadOk'
    BY <1>1, <1>4 DEF Pieces, Sending, ReadOk, Reading, In
<1>13. DataOutOk'
    <2>1. /\ msc.out = host.cmd.op
          /\ msc.mapped => msc.out = "write" /\ msc.acc = Sent /\ msc.staging = <<>>
          /\ Sent \in Nat /\ Sent < Wanted(msc) /\ Wanted(msc) <= host.cmd.len
          /\ msc.out \in {"write", "unmap"} => Wanted(msc) = host.cmd.len /\ msc.cnt < CountWidth
          /\ msc.out \in {"write", "same"} => msc.lba = host.cmd.lba
          /\ msc.out = "same" => msc.cnt = SameCount(host.cmd)
        BY <1>1 DEF MscInv, DataOutOk, Collecting, InFlight
    <2> QED
        BY <1>1, <1>4, <1>5, <1>6, <1>7, <2>1 DEF DataOutOk, Collecting, SameCount, Wanted
<1>14. ASSUME Exact' PROVE DiskOk'
    <2>0. Exact
        BY <1>1, <1>14 DEF Exact, connUnchanged
    <2>1. disk = WriteAt(image, host.cmd.lba * BlockUnits, HostData(host.cmd, 0, Sent))
        BY <1>1, <2>0 DEF MscInv, DiskOk
    <2> QED
        BY <1>1, <1>4, <1>6, <2>1 DEF DiskOk
<1>b. DiskOk'
    BY <1>14 DEF DiskOk
<1>15. CswOk'
    BY <1>1, <1>2 DEF CswOk, Ack
<1>16. PipeOk'
    <2>1. piped = {} /\ Len(pipe) = leftover
        <3>1. sendq # <<>> => sendq[1] = Ack
            <4>1. sendq # <<>> => 1 \in 1..Len(sendq)
                BY <1>1, EmptySeq DEF MscInv, MscTypes
            <4> QED
                BY <1>2, <4>1
        <3>2. recving = <<>>
            BY <1>1
        <3> QED
            BY <3>1, <3>2 DEF MscInv, PipeOk, Ack
    <2> QED
        BY <1>1, <2>1 DEF PipeOk, connUnchanged
<1>17. ReadReturnsDisk'
    BY <1>4 DEF ReadReturnsDisk
<1> QED
    BY <1>8, <1>9, <1>10, <1>11, <1>12, <1>13, <1>b, <1>15, <1>16, <1>17 DEF MscInv

\* While recv_direct has data in hand, the command is a WRITE that collects.
LEMMA WhileReceiving ==
    ASSUME MscInv, recving # <<>>
    PROVE  /\ Collecting /\ host.phase = "data" /\ msc.mapped /\ io = "spliced"
           /\ recving = HostData(host.cmd, Sent, Len(recving)) /\ Len(recving) \in Nat \ {0}
           /\ Sent + Len(recving) = host.cmd.len - host.left
           /\ \A i \in 1..Len(sendq) : sendq[i] = Ack
<1>1. msc.state = "DataOut" /\ msc.mapped /\ io = "spliced" /\ InFlight
    BY DEF MscInv, Clean, Phases, AtRest, InFlight
<1>2. Collecting
    BY <1>1 DEF Collecting
<1>3. host.phase \in {"command", "data"} /\ recving = HostData(host.cmd, Sent, Len(recving))
    BY <1>2 DEF MscInv, DataOutOk
<1>4. host.phase = "data" /\ ~In(host.cmd)
    <2>1. host.phase # "command"
        BY DEF MscInv, Phases, InCommand
    <2>2. Out(host.cmd)
        BY <1>1 DEF MscInv, Phases, Started
    <2> QED
        BY <1>3, <2>1, <2>2 DEF Out, In
<1>5. Len(recving) \in Nat \ {0}
    BY EmptySeq DEF MscInv, MscTypes
<1>6. host.cmd.len \in Nat /\ host.left \in Nat
    BY DEF MscInv, MscTypes, Host, Command
<1>7. Sent + Len(recving) = host.cmd.len - host.left
    BY <1>5, <1>6 DEF Sent
<1>8. \A i \in 1..Len(sendq) : sendq[i] = Ack
    BY <1>4 DEF MscInv, Phases, InDataOut
<1> QED
    BY <1>1, <1>2, <1>3, <1>4, <1>5, <1>7, <1>8

\* The receiver splices the data of a URB from the socket into the pipe.
LEMMA ToPipeStep ==
    ASSUME MscInv, RecvToPipe
    PROVE  MscInv'
<1>1. /\ recving # <<>> /\ "receiver" \notin piped
      /\ pipe' = pipe \o recving /\ piped' = piped \cup {"receiver"}
      /\ UNCHANGED <<msc, disk, sendq, recving, host, image, widened, connUnchanged>>
    BY DEF RecvToPipe
<1>2. host.phase = "data" /\ \A i \in 1..Len(sendq) : sendq[i] = Ack
    BY <1>1, WhileReceiving
<1>3. piped = {} /\ Len(pipe) = leftover
    <2>1. sendq # <<>> => sendq[1].kind = "ack"
        <3>1. sendq # <<>> => 1 \in 1..Len(sendq)
            BY EmptySeq DEF MscInv, MscTypes
        <3> QED
            BY <1>2, <3>1 DEF Ack
    <2> QED
        BY <1>1, <2>1 DEF MscInv, PipeOk
<1>4. pipe \in Seq(Int) /\ recving \in Seq(Int) /\ leftover \in Nat
    BY DEF MscInv, MscTypes
<1>5. /\ pipe' \in Seq(Int) /\ Len(pipe') = leftover + Len(recving)
      /\ leftover = 0 => pipe' = recving
    <2>1. leftover = 0 => pipe = <<>>
        BY <1>3, <1>4, EmptySeq
    <2>2. /\ pipe \o recving \in Seq(Int)
          /\ Len(pipe \o recving) = Len(pipe) + Len(recving)
        BY <1>4, ConcatProperties
    <2>3. <<>> \o recving = recving
        BY <1>4, ConcatEmptySeq
    <2> QED
        BY <1>1, <1>3, <2>1, <2>2, <2>3
<1>6. MscTypes'
    BY <1>1, <1>5 DEF MscInv, MscTypes, connUnchanged
<1>7. Phases'
    BY <1>1, <1>2 DEF MscInv, Phases, AtRest, Exact, connUnchanged, Started, InFlight, InCommand, InDataOut, InDataIn,
                      InStatus, InSkipped, IsData
<1>8. UrbsAnswered' /\ Clean'
    BY <1>1 DEF MscInv, UrbsAnswered, Clean, connUnchanged
<1>9. Pieces' /\ ReadOk'
    BY <1>1 DEF MscInv, Pieces, Sending, Base, Queued, InTotal, IsData, ReadOk, Reading, CswGood, connUnchanged
<1>10. DataOutOk' /\ DiskOk'
    BY <1>1 DEF MscInv, DataOutOk, Collecting, InFlight, Sent, Wanted, DiskOk, Failing, Effect, Exact, connUnchanged
<1>11. CswOk' /\ ReadReturnsDisk'
    BY <1>1 DEF MscInv, CswOk, ReadReturnsDisk, connUnchanged
<1>12. PipeOk'
    BY <1>1, <1>3, <1>5 DEF PipeOk, connUnchanged
<1> QED
    BY <1>6, <1>7, <1>8, <1>9, <1>10, <1>11, <1>12 DEF MscInv

\* The receiver splices the pipe into the file: the whole URB, and perhaps the last.
LEMMA ToFileStep ==
    ASSUME MscInv, RecvToFile
    PROVE  MscInv'
<1>1. /\ recving # <<>> /\ "receiver" \in piped
      /\ disk' = WriteAt(disk, WriteOffset(msc), SubSeq(pipe, 1, Len(recving)))
      /\ pipe' = SubSeq(pipe, Len(recving) + 1, Len(pipe)) /\ piped' = piped \ {"receiver"}
      /\ msc' = OnOutData(msc, Len(recving)) /\ recving' = <<>>
      /\ sendq' = Append(sendq, Ack)
      /\ UNCHANGED <<host, image, widened, connUnchanged>>
    BY DEF RecvToFile
<1>2. /\ Collecting /\ host.phase = "data" /\ msc.mapped
      /\ recving = HostData(host.cmd, Sent, Len(recving)) /\ Len(recving) \in Nat \ {0}
      /\ Sent + Len(recving) = host.cmd.len - host.left
      /\ \A i \in 1..Len(sendq) : sendq[i] = Ack
    BY <1>1, WhileReceiving
<1> DEFINE data == SubSeq(pipe, 1, Len(recving))
<1>3. /\ data \in Seq(Int) /\ Len(data) = Len(recving)
      /\ leftover = 0 => data = recving
      /\ pipe' \in Seq(Int) /\ Len(pipe') = leftover /\ piped' = {}
    <2>1. /\ pipe \in Seq(Int) /\ recving \in Seq(Int) /\ leftover \in Nat
          /\ Len(recving) \in Nat \ {0}
        BY <1>2 DEF MscInv, MscTypes
    <2>2. /\ piped = {"receiver"} /\ Len(pipe) = leftover + Len(recving)
          /\ leftover = 0 => pipe = recving
        BY <1>1 DEF MscInv, PipeOk
    <2>3. /\ data \in Seq(Int) /\ Len(data) = Len(recving)
          /\ \A i \in 1..Len(recving) : data[i] = pipe[i]
        BY <2>1, <2>2
    <2>4. leftover = 0 => data = recving
        BY <2>1, <2>2, <2>3, SeqEqual
    <2>5. pipe' \in Seq(Int) /\ Len(pipe') = leftover
        BY <1>1, <2>1, <2>2
    <2> QED
        BY <1>1, <2>2, <2>3, <2>4, <2>5
<1>4. /\ host \in Host /\ host.left \in Nat /\ host.cmd.len \in Nat /\ host.left <= host.cmd.len
      /\ sendq \in Seq(MscAnswer) /\ host.urbs \in Seq(Nat)
    BY <1>2 DEF MscInv, MscTypes, Host, Command, Phases, Started, InFlight
<1>5. Len(host.urbs) = Len(sendq) + 1 /\ host.urbs # <<>>
    BY <1>1, <1>4 DEF MscInv, UrbsAnswered
<1> DEFINE m == Sent + Len(recving)
<1>6. m \in Nat /\ m <= host.cmd.len /\ host.left = host.cmd.len - m
    BY <1>2, <1>4
<1>7. Collected(msc', disk', m, Exact)
    <2>1. msc' = OnOutData(msc, Len(recving)) /\ disk' = WriteAt(disk, WriteOffset(msc), data)
        BY <1>1
    <2> HIDE DEF data
    <2>2. Exact => data = HostData(host.cmd, Sent, Len(recving))
        BY <1>2, <1>3 DEF Exact
    <2> PICK k : k = Len(recving)
        OBVIOUS
    <2>3. k \in Nat \ {0} /\ Sent + k <= host.cmd.len /\ data \in Seq(Int)
        BY <1>2, <1>3, <1>6
    <2>4. Exact => data = HostData(host.cmd, Sent, k)
        BY <2>2
    <2>5. Collected(OnOutData(msc, k), WriteAt(disk, WriteOffset(msc), data), Sent + k, Exact)
        <3>1. \A j \in Nat \ {0}, z \in Seq(Int) :
                  Sent + j <= host.cmd.len /\ (Exact => z = HostData(host.cmd, Sent, j))
                  => Collected(OnOutData(msc, j), WriteAt(disk, WriteOffset(msc), z), Sent + j, Exact)
            BY <1>2, MappedData
        <3> QED
            BY <2>3, <2>4, <3>1, Zenon
    <2> QED
        BY <2>1, <2>5
<1>8. /\ Exact \in BOOLEAN /\ (Exact' => Exact) /\ widened' \in BOOLEAN
      /\ UNCHANGED <<image, connUnchanged>>
    BY <1>1 DEF Exact, connUnchanged, MscInv, MscTypes
<1> HIDE DEF m
<1> QED
    <2>1. /\ host' \in Host /\ host'.phase = "data" /\ host'.cmd = host.cmd
          /\ host'.left = host.cmd.len - m /\ host'.got = host.got /\ host'.csw = host.csw
          /\ host'.urbs # <<>> /\ Len(host'.urbs) = Len(sendq) + 1
        BY <1>1, <1>2, <1>4, <1>5, <1>6
    <2>2. sendq' = Append(sendq, Ack) /\ recving' = <<>>
        BY <1>1
    <2> QED
        BY <1>2, <1>3, <1>6, <1>7, <1>8, <2>1, <2>2, CollectStep

------------------------------------------------------------------------------
(* Connections, and data to the host.                                        *)

\* A host that has just connected.
LEMMA FreshType ==
    /\ FreshMsc \in MscRecord /\ IdleHost \in Host
    /\ FreshMsc.state = "Idle" /\ ~FreshMsc.failed /\ FreshMsc.offset = 0 /\ FreshMsc.out = "write"
    /\ ~FreshMsc.mapped /\ IdleHost.phase = "ready" /\ IdleHost.cmd.tag = 0
    /\ IdleHost.cmd.op = "none" /\ IdleHost.urbs = <<>>
<1>1. NoCommand \in Command /\ NoCommand.tag = 0 /\ NoCommand.op = "none"
    BY EmptySeq DEF NoCommand, Command, Ops
<1>2. <<>> \in Seq(Int) /\ <<>> \in Seq(Nat) /\ <<>> \in Seq(MscAnswer)
    BY EmptySeq
<1> QED
    BY <1>1, <1>2 DEF FreshMsc, IdleHost, MscRecord, Host

\* A connection that is new or that has taken the place of one that broke off.
LEMMA ConnectStep ==
    ASSUME MscInv, MscConnect \/ MscReconnect
    PROVE  MscInv'
<1>1. /\ msc' = FreshMsc /\ sendq' = <<>> /\ recving' = <<>> /\ piped' = {} /\ pipe' = pipe
      /\ leftover' \in Nat /\ Len(pipe') = leftover' /\ widened' \in BOOLEAN
      /\ host'.phase = "ready" /\ host' \in Host /\ image' \in [Units -> Int] /\ disk' = disk
      /\ mscconn' = mscconn + 1 /\ ncmd' \in Nat /\ read_only' = read_only /\ io' = io
      /\ host' = host \/ host' = IdleHost
    <2>1. CASE MscConnect
        <3>1. piped = {} /\ recving = <<>> /\ Len(pipe) = leftover
            BY <2>1 DEF MscConnect, MscInv, Phases, AtRest, PipeOk
        <3> QED
            BY <2>1, <3>1 DEF MscConnect, MscInv, MscTypes
    <2>2. CASE MscReconnect
        <3>1. /\ msc' = FreshMsc /\ sendq' = <<>> /\ recving' = <<>> /\ piped' = {} /\ pipe' = pipe
              /\ leftover' = Len(pipe) /\ widened' = FALSE /\ host' = IdleHost /\ image' = disk
              /\ disk' = disk /\ mscconn' = mscconn + 1 /\ ncmd' = 0 /\ read_only' = read_only
              /\ io' = io
            BY <2>2 DEF MscReconnect
        <3>2. disk \in [Units -> Int] /\ pipe \in Seq(Int)
            BY DEF MscInv, MscTypes
        <3>3. IdleHost.phase = "ready" /\ IdleHost \in Host
            BY FreshType DEF IdleHost
        <3>4. leftover' \in Nat /\ Len(pipe') = leftover'
            BY <3>1, <3>2
        <3> QED
            BY <3>1, <3>2, <3>3, <3>4
    <2> QED
        BY <2>1, <2>2
<1>2. MscTypes'
    BY <1>1, FreshType, EmptySeq DEF MscInv, MscTypes
<1>3. AtRest' /\ ReadReturnsDisk' /\ UrbsAnswered'
    <2>1. CASE MscConnect
        <3>1. host' = host /\ host.phase = "ready" /\ image' = image /\ recving = <<>> /\ sendq = <<>>
              /\ leftover' = leftover /\ widened' = widened
            BY <2>1, <1>1 DEF MscConnect, MscInv, Phases, AtRest
        <3>2. AtRest'
            BY <1>1, <3>1, FreshType DEF AtRest, MscInv, Phases, Exact
        <3>3. UrbsAnswered'
            BY <1>1, <3>1 DEF MscInv, UrbsAnswered
        <3>4. ReadReturnsDisk'
            BY <1>1, <3>1 DEF MscInv, ReadReturnsDisk
        <3> QED
            BY <3>2, <3>3, <3>4
    <2>2. CASE MscReconnect
        <3>1. host' = IdleHost /\ image' = disk
            BY <2>2 DEF MscReconnect
        <3>2. AtRest'
            BY <1>1, <3>1, FreshType DEF AtRest
        <3>3. UrbsAnswered'
            BY <1>1, <3>1, FreshType DEF UrbsAnswered
        <3>4. ReadReturnsDisk'
            BY <1>1, <3>1, FreshType DEF ReadReturnsDisk
        <3> QED
            BY <3>2, <3>3, <3>4
    <2> QED
        BY <2>1, <2>2
<1>4. Phases'
    BY <1>1, <1>3 DEF Phases, Started, InFlight, InCommand, InDataOut, InDataIn, InStatus, InSkipped
<1>5. Clean'
    BY <1>1, FreshType DEF Clean
<1>6. Pieces' /\ ReadOk' /\ DataOutOk' /\ DiskOk'
    BY <1>1 DEF Pieces, Sending, ReadOk, Reading, DataOutOk, Collecting, InFlight, DiskOk
<1>7. CswOk' /\ PipeOk'
    BY <1>1 DEF CswOk, PipeOk
<1> QED
    BY <1>2, <1>3, <1>4, <1>5, <1>6, <1>7 DEF MscInv

\* The sender splices a piece of the file into the pipe.
LEMMA SendPipeStep ==
    ASSUME MscInv, SendToPipe
    PROVE  MscInv'
<1>1. /\ sendq # <<>> /\ Head(sendq).kind = "file" /\ io = "spliced"
      /\ "sender" \notin piped
      /\ pipe' = pipe \o ReadAt(disk, Head(sendq).from, Head(sendq).n)
      /\ piped' = piped \cup {"sender"}
      /\ UNCHANGED <<sendq, host, image, senderUnchanged>>
    BY DEF SendToPipe
<1>2. /\ sendq \in Seq(MscAnswer) /\ Head(sendq) = sendq[1] /\ 1 \in 1..Len(sendq)
      /\ sendq[1] \in MscAnswer
    <2>1. sendq \in Seq(MscAnswer) /\ Len(sendq) \in Nat \ {0}
        BY <1>1, EmptySeq DEF MscInv, MscTypes
    <2> QED
        BY <2>1, ElementOfSeq
<1>3. sendq[1].kind = "file" /\ sendq[1].from \in Nat /\ sendq[1].n \in Nat
    BY <1>1, <1>2 DEF MscAnswer, DataAnswer, CswAnswer, PlainAnswer
<1>4. recving = <<>>
    BY <1>2, <1>3, WhileReceiving DEF Ack
<1>5. piped = {} /\ Len(pipe) = leftover
    BY <1>1, <1>4 DEF MscInv, PipeOk
<1> DEFINE z == ReadAt(disk, Head(sendq).from, Head(sendq).n)
<1>6. z \in Seq(Int) /\ z = ReadAt(disk, sendq[1].from, sendq[1].n) /\ Len(z) = sendq[1].n
    <2>1. disk \in [Units -> Int]
        BY DEF MscInv, MscTypes
    <2>2. z = ReadAt(disk, sendq[1].from, sendq[1].n)
        BY <1>2
    <2> HIDE DEF z
    <2> QED
        BY <1>3, <2>1, <2>2, ReadType
<1>7. pipe' = pipe \o z
    BY <1>1
<1> HIDE DEF z
<1>8. /\ pipe' \in Seq(Int) /\ Len(pipe') = leftover + sendq[1].n
      /\ leftover = 0 => pipe' = z
    <2>1. pipe \in Seq(Int) /\ leftover \in Nat
        BY DEF MscInv, MscTypes
    <2>2. leftover = 0 => pipe = <<>>
        BY <1>5, <2>1, EmptySeq
    <2>3. pipe \o z \in Seq(Int) /\ Len(pipe \o z) = Len(pipe) + Len(z)
        BY <1>6, <2>1, ConcatProperties
    <2>4. <<>> \o z = z
        BY <1>6, ConcatEmptySeq
    <2> QED
        BY <1>5, <1>6, <1>7, <2>2, <2>3, <2>4
<1>a. /\ UNCHANGED <<msc, disk, recving, sendq, host, image, read_only, io, ncmd, mscconn,
                     leftover, widened>>
      /\ host.phase # "ready"
    BY <1>1 DEF senderUnchanged, connUnchanged, MscInv, Phases, AtRest
<1>9. MscTypes'
    BY <1>a, <1>8 DEF MscInv, MscTypes
<1>10. Phases'
    <2>1. host.phase \notin {"status", "skipped"}
        BY <1>1, <1>2, <1>3 DEF MscInv, Phases, InStatus, InSkipped
    <2> QED
        BY <1>a, <2>1 DEF MscInv, Phases, AtRest, Exact, Started, InFlight, InCommand, InDataOut, InDataIn,
                      InStatus, InSkipped, IsData
<1>11. UrbsAnswered' /\ Clean'
    BY <1>a DEF MscInv, UrbsAnswered, Clean
<1>12. Pieces' /\ ReadOk'
    BY <1>a DEF MscInv, Pieces, Sending, Base, Queued, InTotal, IsData, ReadOk, Reading, CswGood
<1>13. DataOutOk' /\ DiskOk'
    BY <1>a DEF MscInv, DataOutOk, Collecting, InFlight, Sent, Wanted, DiskOk, Failing, Effect, Exact
<1>14. CswOk' /\ ReadReturnsDisk'
    BY <1>a DEF MscInv, CswOk, ReadReturnsDisk
<1>15. PipeOk'
    <2>1. piped' = {"sender"}
        BY <1>1, <1>5
    <2> QED
        BY <1>a, <1>1, <1>2, <1>3, <1>6, <1>8, <2>1 DEF PipeOk
<1> QED
    BY <1>9, <1>10, <1>11, <1>12, <1>13, <1>14, <1>15 DEF MscInv

------------------------------------------------------------------------------
(* An IN URB.                                                                *)

\* One more answer in the queue.
LEMMA Queue ==
    ASSUME NEW q \in Seq(MscAnswer), NEW a \in MscAnswer, NEW r, r = Append(q, a)
    PROVE  /\ r \in Seq(MscAnswer) /\ Len(r) = Len(q) + 1 /\ r # <<>> /\ Len(q) \in Nat
           /\ \A i \in 1..Len(q) : r[i] = q[i]
           /\ r[Len(q) + 1] = a
           /\ q = <<>> <=> Len(q) = 0
BY EmptySeq

\* What an IN URB of n units is answered in the data phase.
LEMMA PieceLemma ==
    ASSUME MscInv, msc.state = "DataIn", NEW n \in Nat \ {0}
    PROVE  LET k == InTransfer(msc, n)
               a == InAnswer(msc, n)
           IN  /\ k \in MscRecord /\ a \in MscAnswer
               /\ k.cbw = msc.cbw /\ k.staging = msc.staging /\ k.owner = msc.owner
               /\ k.failed = msc.failed /\ k.out = msc.out /\ k.lba = msc.lba /\ k.cnt = msc.cnt
               /\ k.mapped = msc.mapped
               /\ \/ /\ InTotal(msc) = 0 /\ msc.offset = 0 /\ a.kind = "empty"
                     /\ k.state = "Status" /\ k.offset = 0
                  \/ /\ msc.offset < InTotal(msc)
                     /\ a.kind = (IF msc.mapped THEN "file" ELSE "staging") /\ a.owner = msc.owner
                     /\ a.from = Base + msc.offset /\ a.n \in Nat \ {0}
                     /\ \/ k.state = "Status" /\ k.offset = 0 /\ msc.offset + a.n = InTotal(msc)
                        \/ /\ k.state = "DataIn" /\ k.offset = msc.offset + n /\ a.n = n
                           /\ k.offset < InTotal(msc)
<1> DEFINE k == InTransfer(msc, n)
           a == InAnswer(msc, n)
           c == Chunk(msc, n)
<1>1. /\ msc \in MscRecord /\ InFlight /\ In(host.cmd) /\ host.phase \in {"command", "data", "status"}
      /\ msc.owner \in Nat /\ msc.offset \in Nat
    <2>1. msc \in MscRecord /\ host \in Host
        BY DEF MscInv, MscTypes
    <2>2. host.phase \notin {"ready", "skipped"}
        BY DEF MscInv, Phases, AtRest, InSkipped
    <2> QED
        BY <2>1, <2>2 DEF MscInv, Phases, Started, InFlight, MscRecord, Host
<1>2. InTotal(msc) \in Nat
    BY <1>1, InTotalNat
<1>3. msc.offset < InTotal(msc) \/ (msc.offset = 0 /\ InTotal(msc) = 0)
    BY <1>1 DEF MscInv, Pieces, Sending
<1>4. CASE msc.offset = 0 /\ InTotal(msc) = 0
    <2>1. c = 0
        BY <1>4 DEF Chunk, Lo
    <2> HIDE DEF c
    <2>2. a = [kind |-> "empty"] /\ k = [msc EXCEPT !.offset = 0, !.residue = 0, !.state = "Status"]
        BY <1>4, <2>1 DEF InAnswer, InTransfer, c
    <2>3. a \in MscAnswer /\ a.kind = "empty"
        BY <2>2 DEF MscAnswer, PlainAnswer
    <2> HIDE DEF a
    <2> QED
        BY <1>1, <1>4, <2>2, <2>3 DEF MscRecord, a
<1>5. CASE msc.offset < InTotal(msc)
    <2>1. c \in Nat /\ c > 0 /\ c <= n /\ msc.offset + c <= InTotal(msc)
          /\ (c = n \/ msc.offset + c = InTotal(msc))
        BY <1>1, <1>2, <1>5 DEF Chunk, Lo
    <2> HIDE DEF c
    <2>2. a = [kind |-> IF msc.mapped THEN "file" ELSE "staging", owner |-> msc.owner,
               from |-> msc.offset + Base, n |-> c]
        BY <2>1 DEF InAnswer, c, Base
    <2>3. Base \in Nat
        BY <1>1, Sizes, Product DEF Base, MscRecord
    <2>4. /\ a \in MscAnswer /\ a.kind = (IF msc.mapped THEN "file" ELSE "staging")
          /\ a.owner = msc.owner /\ a.from = Base + msc.offset /\ a.n = c
        BY <1>1, <2>1, <2>2, <2>3 DEF MscAnswer, DataAnswer
    <2>5. CASE msc.offset + c >= InTotal(msc)
        <3>1. k = [msc EXCEPT !.offset = 0, !.residue = 0, !.state = "Status"]
            BY <2>5 DEF InTransfer, c
        <3> HIDE DEF a, k
        <3>2. /\ k \in MscRecord /\ k.state = "Status" /\ k.offset = 0
              /\ k.cbw = msc.cbw /\ k.staging = msc.staging /\ k.owner = msc.owner
              /\ k.failed = msc.failed /\ k.out = msc.out /\ k.lba = msc.lba /\ k.cnt = msc.cnt
              /\ k.mapped = msc.mapped
            BY <1>1, <3>1 DEF MscRecord
        <3>3. msc.offset + c = InTotal(msc)
            BY <1>1, <1>2, <2>1, <2>5
        <3>4. a.n \in Nat \ {0} /\ msc.offset + a.n = InTotal(msc)
            BY <2>1, <2>4, <3>3
        <3> QED
            BY <1>5, <2>4, <3>2, <3>4 DEF a, k
    <2>6. CASE msc.offset + c < InTotal(msc)
        <3>1. k = [msc EXCEPT !.offset = msc.offset + c]
            BY <1>1, <1>2, <2>1, <2>6 DEF InTransfer, c
        <3>0. msc.offset + c \in Nat
            BY <1>1, <2>1
        <3> HIDE DEF a, k
        <3>2. /\ k \in MscRecord /\ k.state = "DataIn" /\ k.offset = msc.offset + c
              /\ k.cbw = msc.cbw /\ k.staging = msc.staging /\ k.owner = msc.owner
              /\ k.failed = msc.failed /\ k.out = msc.out /\ k.lba = msc.lba /\ k.cnt = msc.cnt
              /\ k.mapped = msc.mapped
            BY <1>1, <3>0, <3>1 DEF MscRecord
        <3>3. c = n
            BY <1>1, <1>2, <2>1, <2>6
        <3>4. a.n \in Nat \ {0} /\ a.n = n /\ k.offset = msc.offset + n /\ k.offset < InTotal(msc)
            BY <2>4, <2>6, <3>2, <3>3
        <3> QED
            BY <1>5, <2>4, <3>2, <3>4 DEF a, k
    <2> QED
        BY <1>1, <1>2, <2>1, <2>5, <2>6
<1> QED
    BY <1>3, <1>4, <1>5

\* The pieces stay in order when an answer joins the queue.
LEMMA PiecesStep ==
    ASSUME MscInv, NEW a \in MscAnswer, host.phase \in {"data", "status"}, In(host.cmd),
           sendq' = Append(sendq, a), msc' \in MscRecord, msc'.owner = msc.owner, msc'.lba = msc.lba,
           msc'.mapped = msc.mapped, InTotal(msc') = InTotal(msc),
           host'.cmd = host.cmd, host'.got = host.got,
           msc'.state = "DataIn" => msc'.offset < InTotal(msc),
           IsData(a) => /\ \A i \in 1..Len(sendq) : IsData(sendq[i])
                        /\ a.owner = msc.owner /\ (a.kind = "file" <=> msc.mapped)
                        /\ a.n \in Nat /\ a.from = Base + Queued
                        /\ a.from + a.n = Base + Queued' /\ Queued \in Nat,
           Queued' <= InTotal(msc),
           ~IsData(a) => Queued' = Queued
    PROVE  Pieces'
<1> DEFINE L == Len(sendq)
<1>1. /\ sendq \in Seq(MscAnswer) /\ sendq' \in Seq(MscAnswer) /\ Len(sendq') = L + 1 /\ L \in Nat
      /\ \A i \in 1..L : sendq'[i] = sendq[i]
      /\ sendq'[L + 1] = a /\ sendq' # <<>> /\ (sendq = <<>> <=> L = 0)
    <2>1. sendq \in Seq(MscAnswer)
        BY DEF MscInv, MscTypes
    <2>2. sendq' = Append(sendq, a)
        OBVIOUS
    <2> QED
        BY <2>1, <2>2, Queue
<1>2. Base' = Base /\ Base \in Nat /\ InTotal(msc) \in Nat
    BY Sizes, Product, InTotalNat DEF Base, MscInv, MscTypes, MscRecord
<1>3. /\ InTotal(msc) <= host.cmd.len
      /\ \A i \in 1..Len(sendq) - 1 : IsData(sendq[i + 1]) => IsData(sendq[i])
      /\ \A i \in 1..Len(sendq) : IsData(sendq[i]) =>
            /\ sendq[i].owner = msc.owner /\ (sendq[i].kind = "file" <=> msc.mapped)
            /\ sendq[i].from >= Base /\ sendq[i].from + sendq[i].n <= Base + InTotal(msc)
            /\ i = 1 => sendq[i].from = Base + Len(host.got)
            /\ IF i < Len(sendq) /\ IsData(sendq[i + 1])
               THEN sendq[i + 1].from = sendq[i].from + sendq[i].n
               ELSE sendq[i].from + sendq[i].n = Base + Queued
      /\ (sendq = <<>> \/ ~IsData(sendq[1])) => Len(host.got) = Queued
    BY DEF MscInv, Pieces, Sending
<1> DEFINE Good(i) ==
              /\ sendq'[i].owner = msc'.owner /\ (sendq'[i].kind = "file" <=> msc'.mapped)
              /\ sendq'[i].from >= Base /\ sendq'[i].from + sendq'[i].n <= Base + InTotal(msc)
              /\ i = 1 => sendq'[i].from = Base + Len(host.got)
              /\ IF i < Len(sendq') /\ IsData(sendq'[i + 1])
                 THEN sendq'[i + 1].from = sendq'[i].from + sendq'[i].n
                 ELSE sendq'[i].from + sendq'[i].n = Base + Queued'
<1> HIDE DEF L
<1>4. ASSUME NEW i \in 1..L + 1, IsData(sendq'[i]) PROVE Good(i)
    <2>1. CASE i < L
        <3>1. i \in 1..L /\ i + 1 \in 1..L /\ i < L + 1
            BY <1>1, <2>1
        <3>2. sendq'[i] = sendq[i] /\ sendq'[i + 1] = sendq[i + 1]
            BY <1>1, <3>1
        <3>3. IsData(sendq[i])
            BY <1>4, <3>2
        <3>4. IsData(sendq[i + 1]) \/ sendq[i].from + sendq[i].n = Base + Queued
            BY <1>3, <2>1, <3>1, <3>3 DEF L
        <3>5. ~IsData(sendq[i + 1]) => ~IsData(a)
            BY <3>1 DEF L
        <3> QED
            BY <1>1, <1>3, <2>1, <3>1, <3>2, <3>3, <3>4, <3>5 DEF L
    <2>2. CASE i = L
        <3>1. i \in 1..L /\ i < L + 1 /\ sendq'[i + 1] = a /\ sendq'[i] = sendq[i] /\ ~(i < L)
            BY <1>1, <2>2
        <3>2. IsData(sendq[i])
            BY <1>4, <3>1
        <3>3. /\ sendq[i].owner = msc.owner /\ (sendq[i].kind = "file" <=> msc.mapped)
              /\ sendq[i].from >= Base /\ sendq[i].from + sendq[i].n <= Base + InTotal(msc)
              /\ i = 1 => sendq[i].from = Base + Len(host.got)
              /\ sendq[i].from + sendq[i].n = Base + Queued
            BY <1>3, <3>1, <3>2 DEF L
        <3> QED
            BY <1>1, <3>1, <3>3
    <2>3. CASE i = L + 1
        <3>1. sendq'[i] = a /\ IsData(a) /\ ~(i < Len(sendq'))
            BY <1>1, <1>4, <2>3
        <3>2. a.owner = msc.owner /\ (a.kind = "file" <=> msc.mapped) /\ a.from = Base + Queued
              /\ a.from + a.n = Base + Queued' /\ Queued \in Nat
            BY <3>1
        <3>3. i = 1 => sendq = <<>>
            BY <1>1, <2>3
        <3>4. i = 1 => Len(host.got) = Queued
            BY <1>3, <3>3
        <3> QED
            <4>1. Queued' \in Nat
                BY <1>2 DEF Queued, MscRecord
            <4> QED
                BY <1>2, <3>1, <3>2, <3>4, <4>1
    <2> QED
        BY <1>1, <2>1, <2>2, <2>3
<1>5. \A i \in 1..L : IsData(sendq'[i + 1]) => IsData(sendq'[i])
    <2> SUFFICES ASSUME NEW i \in 1..L, IsData(sendq'[i + 1]) PROVE IsData(sendq'[i])
        OBVIOUS
    <2>1. CASE i < L
        <3>1. i \in 1..L - 1 /\ i + 1 \in 1..L
            BY <1>1, <2>1
        <3> QED
            BY <1>1, <1>3, <3>1 DEF L
    <2>2. CASE i = L
        <3>1. IsData(a)
            BY <1>1, <2>2
        <3> QED
            BY <1>1, <3>1 DEF L
    <2> QED
        BY <1>1, <2>1, <2>2
<1>6. ~IsData(sendq'[1]) => Len(host.got) = Queued'
    <2>1. CASE L = 0
        BY <1>1, <1>3, <2>1
    <2>2. CASE L # 0
        <3>1. 1 \in 1..L /\ sendq'[1] = sendq[1]
            BY <1>1, <2>2
        <3> QED
            BY <1>3, <3>1 DEF L
    <2> QED
        BY <2>1, <2>2
<1>7. \A i \in 1..Len(sendq') : IsData(sendq'[i]) => Good(i)
    BY <1>1, <1>4
<1>8. /\ msc'.state = "DataIn" => msc'.offset < InTotal(msc)
      /\ InTotal(msc') = InTotal(msc) /\ Len(sendq') = L + 1 /\ sendq' # <<>>
      /\ host'.cmd = host.cmd /\ host'.got = host.got
    BY <1>1
<1>9. \A i \in 1..Len(sendq') - 1 : IsData(sendq'[i + 1]) => IsData(sendq'[i])
    <2> DEFINE z == Len(sendq')
    <2>1. z = L + 1 /\ L \in Nat
        BY <1>1
    <2> HIDE DEF z
    <2>2. z - 1 = L
        BY <2>1
    <2> QED
        BY <1>5, <2>2, Zenon DEF z
<1>10. \A i \in 1..Len(sendq') : IsData(sendq'[i]) =>
            /\ sendq'[i].owner = msc'.owner /\ (sendq'[i].kind = "file" <=> msc'.mapped)
            /\ sendq'[i].from >= Base' /\ sendq'[i].from + sendq'[i].n <= Base' + InTotal(msc')
            /\ i = 1 => sendq'[i].from = Base' + Len(host'.got)
            /\ IF i < Len(sendq') /\ IsData(sendq'[i + 1])
               THEN sendq'[i + 1].from = sendq'[i].from + sendq'[i].n
               ELSE sendq'[i].from + sendq'[i].n = Base' + Queued'
    BY <1>2, <1>7, <1>8
<1>11. /\ InTotal(msc') <= host'.cmd.len
       /\ msc'.state = "DataIn" => msc'.offset < InTotal(msc')
       /\ ~IsData(sendq'[1]) => Len(host'.got) = Queued'
    BY <1>3, <1>6, <1>8, Zenon
<1> HIDE DEF Good
<1> QED
    BY <1>8, <1>9, <1>10, <1>11, Zenon DEF Pieces

\* Whatever is answered, a URB of an IN command leaves these alone.
LEMMA InFrame ==
    ASSUME MscInv, NEW n \in Nat \ {0}, HostIn(n)
    PROVE  /\ MscTypes /\ Proper(host.cmd) /\ In(host.cmd) /\ host.phase = "data"
           /\ recving = <<>> /\ msc.state \in {"Idle", "DataIn", "Status"}
           /\ host.cmd.len \in Nat /\ host.left \in Nat /\ n <= host.left
           /\ host.left <= host.cmd.len
           /\ msc \in MscRecord /\ sendq \in Seq(MscAnswer) /\ host.urbs \in Seq(Nat)
           /\ host' \in Host /\ host'.phase = "data" /\ host'.cmd = host.cmd
           /\ host'.left = host.left - n /\ host'.got = host.got /\ host'.csw = host.csw
           /\ host'.urbs = Append(host.urbs, n) /\ host'.urbs # <<>>
           /\ Len(host'.urbs) = Len(host.urbs) + 1
           /\ Len(host.urbs) = Len(sendq) /\ Len(sendq) \in Nat
           /\ \A i \in 1..Len(host.urbs) : host'.urbs[i] = host.urbs[i]
           /\ host'.urbs[Len(host.urbs) + 1] = n
           /\ msc' = InTransfer(msc, n) /\ sendq' = Append(sendq, InAnswer(msc, n))
           /\ disk' = disk /\ pipe' = pipe /\ recving' = recving /\ image' = image
           /\ piped' = piped /\ leftover' = leftover /\ widened' = widened
           /\ read_only' = read_only /\ io' = io /\ ncmd' = ncmd /\ mscconn' = mscconn
<1>1. /\ host.phase = "data" /\ In(host.cmd) /\ n \in 1..host.left
      /\ msc' = InTransfer(msc, n) /\ sendq' = Append(sendq, InAnswer(msc, n))
      /\ host' = [host EXCEPT !.left = host.left - n, !.urbs = Append(host.urbs, n)]
      /\ disk' = disk /\ pipe' = pipe /\ recving' = recving /\ image' = image
      /\ piped' = piped /\ leftover' = leftover /\ widened' = widened
      /\ read_only' = read_only /\ io' = io /\ ncmd' = ncmd /\ mscconn' = mscconn
    BY DEF HostIn, connUnchanged
<1>2. /\ MscTypes /\ Proper(host.cmd) /\ host.left <= host.cmd.len /\ recving = <<>>
      /\ msc.state # "DataOut"
    BY <1>1 DEF MscInv, Phases, Started, InFlight, InDataIn
<1>3. /\ host.left \in Nat /\ host.cmd.len \in Nat /\ n <= host.left
      /\ host \in Host /\ sendq \in Seq(MscAnswer) /\ host.urbs \in Seq(Nat) /\ msc \in MscRecord
    BY <1>1, <1>2 DEF MscTypes, Host, Command
<1>a. host.left \in Nat /\ n \in Nat /\ n <= host.left
    BY <1>3
<1>4. /\ host' \in Host /\ host'.phase = "data" /\ host'.cmd = host.cmd
      /\ host'.left = host.left - n /\ host'.got = host.got /\ host'.csw = host.csw
      /\ host'.urbs = Append(host.urbs, n) /\ host'.urbs # <<>>
      /\ Len(host'.urbs) = Len(host.urbs) + 1
      /\ \A i \in 1..Len(host.urbs) : host'.urbs[i] = host.urbs[i]
      /\ host'.urbs[Len(host.urbs) + 1] = n
    <2> DEFINE z == Append(host.urbs, n)
               l == host.left - n
    <2>1. l \in Nat
        BY <1>a
    <2>2. /\ z \in Seq(Nat) /\ Len(z) = Len(host.urbs) + 1
          /\ \A i \in 1..Len(host.urbs) : z[i] = host.urbs[i]
          /\ z[Len(host.urbs) + 1] = n
        BY <1>3
    <2>3. z # <<>>
        <3>1. host.urbs \in Seq(Nat) /\ n \in Nat
            BY <1>3
        <3> QED
            BY <3>1
    <2>4. host' = [host EXCEPT !.left = l, !.urbs = z]
        BY <1>1
    <2> HIDE DEF z, l
    <2>5. /\ host' \in Host /\ host'.phase = "data" /\ host'.cmd = host.cmd
          /\ host'.left = l /\ host'.got = host.got /\ host'.csw = host.csw
          /\ host'.urbs = z
        BY <1>1, <1>3, <2>1, <2>2, <2>4 DEF Host
    <2> QED
        BY <2>2, <2>3, <2>5 DEF z, l
<1>5. Len(host.urbs) = Len(sendq) /\ Len(sendq) \in Nat
    BY <1>2, <1>3 DEF MscInv, UrbsAnswered
<1>6. msc.state \in {"Idle", "DataIn", "Status"}
    BY <1>2, <1>3 DEF MscRecord
<1> QED
    BY <1>1, <1>2, <1>3, <1>4, <1>5, <1>6

\* An IN URB of the data phase: a piece of the data, or the empty answer.
LEMMA PieceStep ==
    ASSUME MscInv, NEW n \in Nat \ {0}, HostIn(n), msc.state = "DataIn"
    PROVE  MscInv'
<1> DEFINE a == InAnswer(msc, n)
           L == Len(sendq)
<1>1. /\ MscTypes /\ Proper(host.cmd) /\ In(host.cmd) /\ host.phase = "data"
      /\ recving = <<>> /\ host.cmd.len \in Nat /\ host.left \in Nat /\ n <= host.left
      /\ host.left <= host.cmd.len
      /\ msc \in MscRecord /\ sendq \in Seq(MscAnswer)
      /\ host' \in Host /\ host'.phase = "data" /\ host'.cmd = host.cmd
      /\ host'.left = host.left - n /\ host'.got = host.got /\ host'.csw = host.csw
      /\ host'.urbs # <<>> /\ Len(host'.urbs) = L + 1 /\ L \in Nat
      /\ \A i \in 1..L : host'.urbs[i] = host.urbs[i]
      /\ host'.urbs[L + 1] = n /\ Len(host.urbs) = L
      /\ msc' = InTransfer(msc, n) /\ sendq' = Append(sendq, a)
      /\ disk' = disk /\ pipe' = pipe /\ recving' = recving /\ image' = image
      /\ piped' = piped /\ leftover' = leftover /\ widened' = widened
      /\ read_only' = read_only /\ io' = io /\ ncmd' = ncmd /\ mscconn' = mscconn
    BY InFrame
<1>2. /\ msc' \in MscRecord /\ a \in MscAnswer
      /\ msc'.cbw = msc.cbw /\ msc'.staging = msc.staging /\ msc'.owner = msc.owner
      /\ msc'.failed = msc.failed /\ msc'.out = msc.out /\ msc'.lba = msc.lba
      /\ msc'.cnt = msc.cnt /\ msc'.mapped = msc.mapped
      /\ \/ /\ InTotal(msc) = 0 /\ msc.offset = 0 /\ a.kind = "empty"
            /\ msc'.state = "Status" /\ msc'.offset = 0
         \/ /\ msc.offset < InTotal(msc)
            /\ a.kind = (IF msc.mapped THEN "file" ELSE "staging") /\ a.owner = msc.owner
            /\ a.from = Base + msc.offset /\ a.n \in Nat \ {0}
            /\ \/ msc'.state = "Status" /\ msc'.offset = 0 /\ msc.offset + a.n = InTotal(msc)
               \/ /\ msc'.state = "DataIn" /\ msc'.offset = msc.offset + n /\ a.n = n
                  /\ msc'.offset < InTotal(msc)
    BY <1>1, PieceLemma
<1>3. /\ sendq' \in Seq(MscAnswer) /\ Len(sendq') = L + 1 /\ sendq' # <<>>
      /\ \A i \in 1..L : sendq'[i] = sendq[i]
      /\ sendq'[L + 1] = a /\ (sendq = <<>> <=> L = 0)
    <2>1. sendq \in Seq(MscAnswer) /\ a \in MscAnswer /\ sendq' = Append(sendq, a)
        BY <1>1, <1>2 DEF MscTypes
    <2> HIDE DEF a
    <2> QED
        BY <2>1, Queue
<1>4. InTotal(msc') = InTotal(msc) /\ InTotal(msc) \in Nat /\ msc.offset \in Nat
    <2>1. InTotal(msc') = InTotal(msc)
        BY <1>2 DEF InTotal
    <2> QED
        BY <1>1, <2>1, InTotalNat DEF MscRecord
<1>5. a.kind \in {"file", "staging", "empty"} /\ (IsData(a) <=> a.kind # "empty")
    BY <1>2 DEF IsData
<1> HIDE DEF a, L
<1>6. /\ \A i \in 1..L : IsData(sendq[i]) /\ sendq[i].n = host.urbs[i]
      /\ msc.offset = host.cmd.len - host.left /\ host.cmd.len > 0
      /\ ~msc.failed
    BY <1>1 DEF MscInv, Phases, InDataIn, Clean, L
<1>7. ASSUME NEW i \in 1..L PROVE sendq'[i].kind \in {"file", "staging"}
    BY <1>3, <1>6, <1>7 DEF IsData
<1>8. \A i \in 1..L + 1 : sendq'[i].kind \in {"file", "staging", "empty"}
    <2> SUFFICES ASSUME NEW i \in 1..L + 1 PROVE sendq'[i].kind \in {"file", "staging", "empty"}
        OBVIOUS
    <2>1. i \in 1..L \/ i = L + 1
        BY <1>1
    <2> QED
        BY <1>3, <1>5, <1>7, <2>1
<1>9. MscTypes'
    BY <1>1, <1>2, <1>3 DEF MscTypes
<1>10. UrbsAnswered'
    BY <1>1, <1>3 DEF UrbsAnswered
<1>11. Phases'
    <2>1. Started'
        <3>1. msc.cbw.tag = host.cmd.tag \/ host.cmd.op = "short"
            BY <1>1 DEF MscInv, Phases, Started, InFlight
        <3>2. host'.left <= host.cmd.len
            BY <1>1
        <3>3. msc'.state \in {"Status", "DataIn"}
            BY <1>2
        <3> QED
            BY <1>1, <1>2, <1>6, <3>1, <3>2, <3>3 DEF Started, InFlight
    <2>2. InDataIn'
        <3>1. msc'.state = "DataIn" => msc'.offset = host.cmd.len - host'.left
            BY <1>1, <1>2, <1>4, <1>6
        <3>2. ASSUME msc'.state = "DataIn", NEW i \in 1..L + 1
              PROVE  IsData(sendq'[i]) /\ sendq'[i].n = host'.urbs[i]
            <4>1. CASE i \in 1..L
                BY <1>1, <1>3, <1>6, <4>1
            <4>2. CASE i = L + 1
                BY <1>1, <1>2, <1>3, <1>5, <3>2, <4>2
            <4>3. i \in 1..L \/ i = L + 1
                BY <1>1
            <4> QED
                BY <4>1, <4>2, <4>3
        <3>3. sendq'[1].kind # "stall"
            <4>1. 1 \in 1..L + 1
                BY <1>1
            <4> QED
                BY <1>8, <4>1
        <3>4. msc'.state \in {"Status", "DataIn"}
            BY <1>2
        <3> QED
            BY <1>1, <1>3, <1>6, <1>8, <3>1, <3>2, <3>3, <3>4 DEF InDataIn
    <2> QED
        BY <1>1, <2>1, <2>2 DEF Phases, AtRest, InCommand, InDataOut, InStatus, InSkipped
<1>12. Clean'
    BY <1>1, <1>2 DEF MscInv, Clean
<1>13. Pieces'
    <2>1. Queued = msc.offset
        BY DEF Queued
    <2>2. Queued' = IF msc'.state = "DataIn" THEN msc'.offset ELSE InTotal(msc)
        BY <1>4 DEF Queued
    <2>3. /\ msc'.state = "DataIn" => msc'.offset < InTotal(msc)
          /\ Queued' <= InTotal(msc)
          /\ ~IsData(a) => Queued' = Queued
        BY <1>2, <1>4, <1>5, <2>1, <2>2
    <2>4. Base \in Nat
        BY <1>1, Sizes, Product DEF Base, MscRecord
    <2>5. IsData(a) =>
             /\ a.owner = msc.owner /\ (a.kind = "file" <=> msc.mapped)
             /\ a.n \in Nat /\ a.from = Base + Queued
             /\ a.from + a.n = Base + Queued' /\ Queued \in Nat
        BY <1>2, <1>4, <1>5, <2>1, <2>2, <2>4
    <2>6. \A i \in 1..Len(sendq) : IsData(sendq[i])
        BY <1>6 DEF L
    <2> QED
        BY <1>1, <1>2, <1>4, <2>3, <2>5, <2>6, PiecesStep
<1>14. ReadOk'
    BY <1>1, <1>2, <1>4, <1>6 DEF MscInv, ReadOk, Reading
<1>15. DataOutOk'
    BY <1>2 DEF DataOutOk, Collecting
<1>16. DiskOk'
    <2> SUFFICES ASSUME Exact, Exact' PROVE DiskOk'
        BY <1>1 DEF DiskOk, Exact
    <2>1. ~Failing'
        BY <1>2, <1>3, <1>6, <1>8 DEF Failing
    <2>2. ~Failing
        BY <1>6 DEF Failing, IsData, L
    <2>3. msc'.state # "DataOut"
        BY <1>2
    <2>4. disk = Effect(host.cmd, host.got)
        BY <1>1, <2>2 DEF MscInv, DiskOk
    <2> QED
        BY <1>1, <2>1, <2>3, <2>4, EffectSame DEF DiskOk
<1>17. CswOk'
    BY <1>3, <1>8 DEF CswOk
<1>18. PipeOk'
    <2>1. L # 0 => sendq'[1] = sendq[1]
        BY <1>1, <1>3
    <2> QED
        BY <1>1, <1>3, <2>1 DEF MscInv, PipeOk
<1>19. ReadReturnsDisk'
    BY <1>1 DEF ReadReturnsDisk
<1> QED
    BY <1>9, <1>10, <1>11, <1>12, <1>13, <1>14, <1>15, <1>16, <1>17, <1>18, <1>19 DEF MscInv

\* The status as the answer to an IN URB: the command is done for the handler.
LEMMA StatusLemma ==
    ASSUME MscInv, msc.state = "Status", NEW n \in Nat
    PROVE  LET k == InTransfer(msc, n)
               a == InAnswer(msc, n)
           IN  /\ k \in MscRecord /\ a \in MscAnswer
               /\ k.cbw = msc.cbw /\ k.staging = msc.staging /\ k.owner = msc.owner
               /\ k.out = msc.out /\ k.lba = msc.lba /\ k.cnt = msc.cnt
               /\ k.mapped = msc.mapped /\ k.offset = msc.offset
               /\ k.state = "Idle" /\ ~k.failed
               /\ a.kind = "csw" /\ a.tag = msc.cbw.tag /\ a.failed = msc.failed
               /\ InTotal(k) = InTotal(msc)
<1> DEFINE k == InTransfer(msc, n)
           a == InAnswer(msc, n)
<1>1. msc \in MscRecord /\ msc.cbw \in Command
    BY DEF MscInv, MscTypes, MscRecord
<1>2. k = [msc EXCEPT !.failed = FALSE, !.state = "Idle"]
    BY DEF InTransfer
<1>3. a = [kind |-> "csw", tag |-> msc.cbw.tag, failed |-> msc.failed,
           residue |-> IF msc.failed THEN msc.cbw.len ELSE msc.residue]
    BY DEF InAnswer, Csw
<1> HIDE DEF k, a
<1>4. /\ k \in MscRecord /\ k.cbw = msc.cbw /\ k.staging = msc.staging /\ k.owner = msc.owner
      /\ k.out = msc.out /\ k.lba = msc.lba /\ k.cnt = msc.cnt
      /\ k.mapped = msc.mapped /\ k.offset = msc.offset /\ k.state = "Idle" /\ ~k.failed
    BY <1>1, <1>2 DEF MscRecord
<1>5. a \in CswAnswer
    BY <1>1, <1>3 DEF MscRecord, Command, CswAnswer
<1>6. a \in MscAnswer /\ a.kind = "csw" /\ a.tag = msc.cbw.tag /\ a.failed = msc.failed
    BY <1>3, <1>5 DEF MscAnswer
<1>7. InTotal(k) = InTotal(msc)
    BY <1>4 DEF InTotal
<1> QED
    BY <1>4, <1>6, <1>7 DEF k, a

\* An IN URB that comes after the last piece: the status, or a stall.
LEMMA LateInStep ==
    ASSUME MscInv, NEW n \in Nat \ {0}, HostIn(n), msc.state # "DataIn"
    PROVE  MscInv'
<1> DEFINE a == InAnswer(msc, n)
           L == Len(sendq)
<1>1. /\ MscTypes /\ Proper(host.cmd) /\ In(host.cmd) /\ host.phase = "data"
      /\ recving = <<>> /\ host.cmd.len \in Nat /\ host.left \in Nat /\ n <= host.left
      /\ host.left <= host.cmd.len /\ msc.state \in {"Idle", "Status"}
      /\ msc \in MscRecord /\ sendq \in Seq(MscAnswer)
      /\ host' \in Host /\ host'.phase = "data" /\ host'.cmd = host.cmd
      /\ host'.left = host.left - n /\ host'.got = host.got /\ host'.csw = host.csw
      /\ host'.urbs # <<>> /\ Len(host'.urbs) = L + 1 /\ L \in Nat
      /\ Len(host.urbs) = L
      /\ msc' = InTransfer(msc, n) /\ sendq' = Append(sendq, a)
      /\ disk' = disk /\ pipe' = pipe /\ recving' = recving /\ image' = image
      /\ piped' = piped /\ leftover' = leftover /\ widened' = widened
      /\ read_only' = read_only /\ io' = io /\ ncmd' = ncmd /\ mscconn' = mscconn
    BY InFrame
<1>2. /\ msc' \in MscRecord /\ a \in MscAnswer
      /\ msc'.cbw = msc.cbw /\ msc'.staging = msc.staging /\ msc'.owner = msc.owner
      /\ msc'.out = msc.out /\ msc'.lba = msc.lba /\ msc'.cnt = msc.cnt
      /\ msc'.mapped = msc.mapped /\ msc'.offset = msc.offset /\ msc'.state = "Idle"
      /\ ~msc'.failed /\ InTotal(msc') = InTotal(msc)
      /\ \/ /\ msc.state = "Status" /\ a.kind = "csw" /\ a.tag = msc.cbw.tag
            /\ a.failed = msc.failed
         \/ msc.state = "Idle" /\ a.kind = "stall" /\ msc' = msc
    <2>1. CASE msc.state = "Status"
        BY <1>1, <2>1, StatusLemma
    <2>2. CASE msc.state = "Idle"
        <3>1. msc' = msc /\ a = [kind |-> "stall"]
            BY <1>1, <2>2 DEF InTransfer, InAnswer
        <3>2. ~msc.failed
            BY <2>2 DEF MscInv, Clean
        <3> QED
            BY <1>1, <2>2, <3>1, <3>2 DEF MscAnswer, PlainAnswer
    <2> QED
        BY <1>1, <2>1, <2>2
<1>3. /\ sendq' \in Seq(MscAnswer) /\ Len(sendq') = L + 1 /\ sendq' # <<>>
      /\ \A i \in 1..L : sendq'[i] = sendq[i]
      /\ sendq'[L + 1] = a /\ (sendq = <<>> <=> L = 0)
    BY <1>1, <1>2, Queue
<1>4. InTotal(msc) \in Nat /\ msc.offset = 0 /\ ~IsData(a)
    <2>1. msc.offset = 0
        BY <1>1 DEF MscInv, Clean
    <2> QED
        BY <1>1, <1>2, <2>1, InTotalNat DEF IsData
<1> HIDE DEF a, L
<1>5. /\ \A i \in 1..L : sendq[i].kind # "ack"
      /\ msc.state = "Status" => \A i \in 1..L : sendq[i].kind \notin {"csw", "stall"}
      /\ msc.state = "Idle" => \E i \in 1..L : sendq[i].kind = "csw"
      /\ \A i, j \in 1..L : i < j /\ sendq[i].kind \in {"csw", "stall"} => sendq[j].kind = "stall"
      /\ sendq # <<>> => sendq[1].kind # "stall"
      /\ host.cmd.len > 0
    BY <1>1 DEF MscInv, Phases, InDataIn, L
<1>6. MscTypes'
    BY <1>1, <1>2, <1>3 DEF MscTypes
<1>7. UrbsAnswered'
    BY <1>1, <1>3 DEF UrbsAnswered
<1>8. msc.state = "Status" => (msc.cbw.tag = host.cmd.tag \/ host.cmd.op = "short")
    BY <1>1 DEF MscInv, Phases, Started, InFlight
<1>9. Phases'
    <2>1. Started'
        <3>1. host'.left <= host.cmd.len
            BY <1>1
        <3> QED
            BY <1>1, <1>2, <3>1 DEF Started, InFlight
    <2>2. InDataIn'
        <3>1. ASSUME NEW i \in 1..L + 1 PROVE sendq'[i].kind # "ack"
            <4>1. i \in 1..L \/ i = L + 1
                BY <1>1
            <4> QED
                BY <1>2, <1>3, <1>5, <4>1
        <3>2. \E i \in 1..L + 1 : sendq'[i].kind = "csw"
            <4>1. L + 1 \in 1..L + 1 /\ \A i \in 1..L : i \in 1..L + 1
                BY <1>1
            <4> QED
                BY <1>2, <1>3, <1>5, <4>1
        <3>3. ASSUME NEW i \in 1..L + 1, NEW j \in 1..L + 1, i < j,
                     sendq'[i].kind \in {"csw", "stall"}
              PROVE  sendq'[j].kind = "stall"
            <4>1. i \in 1..L /\ (j \in 1..L \/ j = L + 1)
                BY <1>1, <3>3
            <4>2. msc.state = "Idle"
                BY <1>2, <1>3, <1>5, <3>3, <4>1
            <4> QED
                BY <1>2, <1>3, <1>5, <3>3, <4>1, <4>2
        <3>4. sendq'[1].kind # "stall"
            <4>1. L # 0 => 1 \in 1..L
                BY <1>1
            <4>2. L = 0 => msc.state = "Status" /\ sendq'[1] = a
                BY <1>1, <1>3, <1>5
            <4> QED
                BY <1>2, <1>3, <1>5, <4>1, <4>2
        <3> QED
            BY <1>1, <1>2, <1>3, <1>5, <3>1, <3>2, <3>3, <3>4 DEF InDataIn
    <2> QED
        BY <1>1, <2>1, <2>2 DEF Phases, AtRest, InCommand, InDataOut, InStatus, InSkipped
<1>10. Clean'
    BY <1>1, <1>2, <1>4 DEF MscInv, Clean
<1>11. Pieces'
    <2>1. Queued = InTotal(msc) /\ Queued' = InTotal(msc)
        BY <1>1, <1>2 DEF Queued
    <2> QED
        BY <1>1, <1>2, <1>4, <2>1, PiecesStep
<1>12. ReadOk'
    <2>1. Reading' => Reading
        <3> SUFFICES ASSUME Reading' PROVE Reading
            OBVIOUS
        <3>1. host.cmd.op = "read" /\ \E i \in 1..L + 1 : sendq'[i].kind = "csw" /\ ~sendq'[i].failed
            BY <1>1, <1>2, <1>3 DEF Reading, CswGood
        <3>2. CASE msc.state = "Status"
            <4>1. ~msc.failed
                <5>1. PICK i \in 1..L + 1 : sendq'[i].kind = "csw" /\ ~sendq'[i].failed
                    BY <3>1
                <5>2. i \in 1..L \/ i = L + 1
                    BY <1>1
                <5> QED
                    BY <1>2, <1>3, <1>5, <3>2, <5>1, <5>2
            <4> QED
                BY <1>1, <3>1, <3>2, <4>1 DEF Reading
        <3>3. CASE msc.state = "Idle"
            <4>1. PICK i \in 1..L + 1 : sendq'[i].kind = "csw" /\ ~sendq'[i].failed
                BY <3>1
            <4>2. i \in 1..L \/ i = L + 1
                BY <1>1
            <4>3. i \in 1..L /\ sendq[i].kind = "csw" /\ ~sendq[i].failed
                BY <1>2, <1>3, <3>3, <4>1, <4>2
            <4> QED
                BY <1>1, <1>2, <3>1, <3>3, <4>3 DEF Reading, CswGood, L
        <3> QED
            BY <1>1, <3>2, <3>3
    <2> QED
        BY <1>1, <1>2, <2>1 DEF MscInv, ReadOk
<1>13. DataOutOk'
    BY <1>2 DEF DataOutOk, Collecting
<1>14. DiskOk'
    <2> SUFFICES ASSUME Exact, Exact' PROVE DiskOk'
        BY <1>1 DEF DiskOk, Exact
    <2>1. Failing' <=> Failing
        <3>1. ASSUME Failing' PROVE Failing
            <4>1. PICK i \in 1..L + 1 : sendq'[i].kind = "csw" /\ sendq'[i].failed
                BY <1>2, <1>3, <3>1 DEF Failing
            <4>2. i \in 1..L \/ i = L + 1
                BY <1>1
            <4> QED
                BY <1>2, <1>3, <4>1, <4>2 DEF Failing, L
        <3>2. ASSUME Failing PROVE Failing'
            <4>1. CASE msc.failed
                <5>1. L + 1 \in 1..L + 1 /\ a.kind = "csw" /\ a.failed
                    <6>1. msc.state = "Status" /\ msc.failed \in BOOLEAN
                        BY <1>1, <4>1 DEF MscInv, Clean, MscRecord
                    <6>2. a.kind = "csw" /\ a.failed = msc.failed
                        BY <1>2, <6>1
                    <6> QED
                        BY <1>1, <4>1, <6>2
                <5> QED
                    BY <1>3, <5>1 DEF Failing
            <4>2. CASE \E i \in 1..L : sendq[i].kind = "csw" /\ sendq[i].failed
                <5>1. \A i \in 1..L : i \in 1..L + 1
                    BY <1>1
                <5> QED
                    BY <1>3, <4>2, <5>1 DEF Failing
            <4> QED
                BY <3>2, <4>1, <4>2 DEF Failing, L
        <3> QED
            BY <3>1, <3>2
    <2>2. disk = IF Failing THEN image ELSE Effect(host.cmd, host.got)
        BY <1>1 DEF MscInv, DiskOk
    <2> QED
        BY <1>1, <1>2, <2>1, <2>2, EffectSame DEF DiskOk
<1>15. CswOk'
    <2> SUFFICES ASSUME NEW i \in 1..L + 1, sendq'[i].kind = "csw"
                 PROVE  sendq'[i].tag = host.cmd.tag \/ host.cmd.op = "short"
        BY <1>1, <1>3 DEF CswOk
    <2>1. i \in 1..L \/ i = L + 1
        BY <1>1
    <2> QED
        BY <1>2, <1>3, <1>8, <2>1 DEF MscInv, CswOk, L
<1>16. PipeOk'
    <2>1. L # 0 => sendq'[1] = sendq[1]
        BY <1>1, <1>3
    <2> QED
        BY <1>1, <1>3, <2>1 DEF MscInv, PipeOk
<1>17. ReadReturnsDisk'
    BY <1>1 DEF ReadReturnsDisk
<1> QED
    BY <1>6, <1>7, <1>9, <1>10, <1>11, <1>12, <1>13, <1>14, <1>15, <1>16, <1>17 DEF MscInv

\* The IN URB for the status.
LEMMA StatusStep ==
    ASSUME MscInv, HostStatus
    PROVE  MscInv'
<1> DEFINE a == InAnswer(msc, 1)
<1>1. /\ host.phase = "status" /\ host.urbs = <<>>
      /\ msc' = InTransfer(msc, 1) /\ sendq' = Append(sendq, a)
      /\ host' = [host EXCEPT !.urbs = <<1>>]
      /\ disk' = disk /\ pipe' = pipe /\ recving' = recving /\ image' = image
      /\ piped' = piped /\ leftover' = leftover /\ widened' = widened
      /\ read_only' = read_only /\ io' = io /\ ncmd' = ncmd /\ mscconn' = mscconn
    BY DEF HostStatus, connUnchanged
<1>2. /\ MscTypes /\ host \in Host /\ sendq \in Seq(MscAnswer) /\ msc \in MscRecord
      /\ Proper(host.cmd) /\ host.cmd.len \in Nat /\ host.left <= host.cmd.len
      /\ recving = <<>> /\ piped = {}
      /\ \/ msc.state = "Status"
         \/ msc.state = "DataIn" /\ InTotal(msc) = 0 /\ ~host.retried
      /\ sendq = <<>>
    <2>1. /\ MscTypes /\ host \in Host /\ sendq \in Seq(MscAnswer) /\ msc \in MscRecord
          /\ Proper(host.cmd) /\ recving = <<>> /\ piped = {} /\ host.left <= host.cmd.len
        BY <1>1 DEF MscInv, MscTypes, Phases, InStatus, Started, InFlight
    <2>2. Len(sendq) = 0
        BY <1>1, <2>1 DEF MscInv, UrbsAnswered
    <2>3. sendq = <<>>
        BY <2>1, <2>2, EmptySeq
    <2> QED
        BY <1>1, <2>1, <2>3 DEF MscInv, Phases, InStatus, Host, Command
<1>3. /\ msc.state # "Idle" => (msc.cbw.tag = host.cmd.tag \/ host.cmd.op = "short")
      /\ msc.state = "DataIn" => In(host.cmd)
      /\ msc.failed => msc.staging = <<>> /\ ~msc.mapped
      /\ msc.offset \in Nat
    BY <1>1, <1>2 DEF MscInv, Phases, Started, InFlight, MscRecord
<1>4. /\ host' \in Host /\ host'.phase = "status" /\ host'.cmd = host.cmd
      /\ host'.left = host.left /\ host'.got = host.got /\ host'.csw = host.csw
      /\ host'.urbs = <<1>> /\ host'.retried = host.retried /\ Len(host'.urbs) = 1
    <2>1. <<1>> \in Seq(Nat) /\ Len(<<1>>) = 1
        OBVIOUS
    <2> QED
        BY <1>1, <1>2, <2>1 DEF Host
<1>5. /\ msc' \in MscRecord /\ a \in MscAnswer
      /\ msc'.cbw = msc.cbw /\ msc'.staging = msc.staging /\ msc'.owner = msc.owner
      /\ msc'.out = msc.out /\ msc'.lba = msc.lba /\ msc'.cnt = msc.cnt
      /\ msc'.mapped = msc.mapped /\ InTotal(msc') = InTotal(msc) /\ ~IsData(a)
      /\ \/ /\ msc.state = "Status" /\ a.kind = "csw" /\ a.tag = msc.cbw.tag
            /\ a.failed = msc.failed /\ msc'.state = "Idle" /\ ~msc'.failed
            /\ msc'.offset = msc.offset
         \/ /\ msc.state = "DataIn" /\ a.kind = "empty" /\ msc'.state = "Status"
            /\ InTotal(msc) = 0 /\ msc.offset = 0 /\ msc'.offset = 0 /\ msc'.failed = msc.failed
            /\ ~host.retried
    <2>1. CASE msc.state = "Status"
        BY <1>1, <2>1, StatusLemma DEF IsData
    <2>2. CASE msc.state = "DataIn"
        <3>1. InTotal(msc) = 0 /\ ~host.retried
            BY <1>2, <2>2
        <3>2. ~(msc.offset < InTotal(msc))
            BY <1>3, <3>1
        <3>3. InTotal(msc') = InTotal(msc)
            BY <1>1, <2>2, PieceLemma DEF InTotal
        <3> QED
            BY <1>1, <2>2, <3>1, <3>2, <3>3, PieceLemma DEF IsData
    <2> QED
        BY <1>2, <2>1, <2>2
<1> HIDE DEF a
<1>6. sendq' = <<a>> /\ Len(sendq') = 1 /\ sendq'[1] = a /\ sendq' # <<>>
    BY <1>1, <1>2
<1>7. MscTypes'
    <2>1. <<a>> \in Seq(MscAnswer)
        BY <1>5
    <2> QED
        BY <1>1, <1>2, <1>4, <1>5, <1>6, <2>1 DEF MscTypes
<1>8. UrbsAnswered'
    BY <1>1, <1>2, <1>4, <1>6 DEF UrbsAnswered
<1>9. Phases'
    <2>1. Started'
        BY <1>2, <1>3, <1>4, <1>5 DEF Started, InFlight
    <2>2. InStatus'
        BY <1>1, <1>2, <1>4, <1>5, <1>6 DEF InStatus
    <2> QED
        BY <1>4, <2>1, <2>2 DEF Phases, AtRest, InCommand, InDataOut, InDataIn, InSkipped
<1>10. Clean'
    BY <1>1, <1>2, <1>5 DEF MscInv, Clean
<1>11. Pieces'
    <2> SUFFICES ASSUME In(host.cmd) PROVE Pieces'
        BY <1>4 DEF Pieces, Sending
    <2>1. Queued = InTotal(msc)
        BY <1>5 DEF Queued
    <2>2. Queued' = InTotal(msc)
        BY <1>5 DEF Queued
    <2>3. InTotal(msc) \in Nat
        BY <1>2, InTotalNat
    <2> QED
        BY <1>1, <1>4, <1>5, <2>1, <2>2, <2>3, PiecesStep
<1>12. ReadOk'
    <2>1. Reading' => Reading
        BY <1>1, <1>2, <1>4, <1>5, <1>6 DEF Reading, CswGood
    <2> QED
        BY <1>1, <1>4, <1>5, <2>1 DEF MscInv, ReadOk
<1>13. DataOutOk'
    BY <1>5 DEF DataOutOk, Collecting
<1>14. DiskOk'
    <2> SUFFICES ASSUME Exact, Exact' PROVE DiskOk'
        BY <1>1 DEF DiskOk, Exact
    <2>1. Failing <=> msc.failed
        BY <1>2 DEF Failing
    <2>2. Failing' <=> msc.failed
        <3>1. msc.failed \in BOOLEAN
            BY <1>2 DEF MscRecord
        <3> QED
            BY <1>5, <1>6, <3>1 DEF Failing
    <2>3. disk = IF msc.failed THEN image ELSE Effect(host.cmd, host.got)
        BY <1>1, <1>2, <2>1 DEF MscInv, DiskOk
    <2> QED
        BY <1>1, <1>4, <1>5, <2>2, <2>3, EffectSame DEF DiskOk
<1>15. CswOk'
    BY <1>3, <1>4, <1>5, <1>6 DEF CswOk
<1>16. PipeOk'
    BY <1>1, <1>2 DEF PipeOk, MscInv
<1>17. ReadReturnsDisk'
    BY <1>4 DEF ReadReturnsDisk
<1> QED
    BY <1>7, <1>8, <1>9, <1>10, <1>11, <1>12, <1>13, <1>14, <1>15, <1>16, <1>17 DEF MscInv

------------------------------------------------------------------------------
(* The host gets an answer.                                                  *)

\* What SendFallback and SendToSocket have in common: the first answer goes
\* out, with the data it refers to, and the sender's part of the pipe is empty.
AnswerSent(data) ==
    /\ sendq # <<>> /\ Receives(Head(sendq), data) /\ sendq' = Tail(sendq)
    /\ Head(sendq).kind = "staging" =>
          data = SubSeq(msc.staging, Head(sendq).from + 1, Head(sendq).from + Head(sendq).n)
    /\ Head(sendq).kind = "file" =>
          /\ data \in Seq(Int) /\ Len(data) = Head(sendq).n
          /\ leftover = 0 => data = ReadAt(disk, Head(sendq).from, Head(sendq).n)
    /\ ~IsData(Head(sendq)) => data = <<>>
    /\ pipe' \in Seq(Int)
    /\ \/ piped' = {} /\ Len(pipe') = leftover
       \/ piped' = piped /\ pipe' = pipe /\ piped = {"receiver"}
    /\ UNCHANGED <<msc, disk, recving, read_only, io, ncmd, mscconn, leftover, widened>>

\* What every answer leaves as it was.
LEMMA AnswerFrame ==
    ASSUME MscInv, NEW data, AnswerSent(data)
    PROVE  /\ MscTypes /\ sendq \in Seq(MscAnswer) /\ sendq' \in Seq(MscAnswer)
           /\ Head(sendq) = sendq[1] /\ sendq[1] \in MscAnswer
           /\ Len(sendq) \in Nat \ {0} /\ 1 \in 1..Len(sendq) /\ Len(sendq') = Len(sendq) - 1
           /\ \A i \in 1..Len(sendq') : i + 1 \in 1..Len(sendq) /\ sendq'[i] = sendq[i + 1]
           /\ host.urbs # <<>> /\ host.urbs \in Seq(Nat) /\ Tail(host.urbs) \in Seq(Nat)
           /\ Len(Tail(host.urbs)) = Len(host.urbs) - 1
           /\ \A i \in 1..Len(Tail(host.urbs)) : Tail(host.urbs)[i] = host.urbs[i + 1]
           /\ Head(host.urbs) = host.urbs[1]
           /\ recving = <<>> => (Tail(host.urbs) = <<>> <=> sendq' = <<>>)
           /\ host.phase # "ready" /\ Proper(host.cmd) /\ host \in Host /\ msc \in MscRecord
           /\ IsData(sendq[1]) => host.phase = "data" /\ In(host.cmd)
           /\ Len(host.urbs) = Len(sendq) + IF recving = <<>> THEN 0 ELSE 1
           /\ msc' = msc /\ disk' = disk /\ recving' = recving /\ read_only' = read_only
           /\ io' = io /\ ncmd' = ncmd /\ mscconn' = mscconn
           /\ leftover' = leftover /\ widened' = widened
<1>1. /\ MscTypes /\ sendq \in Seq(MscAnswer) /\ host \in Host /\ msc \in MscRecord
      /\ host.urbs \in Seq(Nat) /\ sendq # <<>> /\ sendq' = Tail(sendq)
      /\ msc' = msc /\ disk' = disk /\ recving' = recving /\ read_only' = read_only
      /\ io' = io /\ ncmd' = ncmd /\ mscconn' = mscconn
           /\ leftover' = leftover /\ widened' = widened
    BY DEF AnswerSent, MscInv, MscTypes, Host
<1>2. /\ Len(sendq) \in Nat \ {0} /\ Head(sendq) = sendq[1]
      /\ sendq' \in Seq(MscAnswer) /\ Len(sendq') = Len(sendq) - 1
      /\ \A i \in 1..Len(sendq') : sendq'[i] = sendq[i + 1]
    BY <1>1
<1>3. 1 \in 1..Len(sendq) /\ \A i \in 1..Len(sendq') : i + 1 \in 1..Len(sendq)
    BY <1>2
<1>4. sendq[1] \in MscAnswer
    BY <1>1, <1>3, ElementOfSeq
<1>5. Len(host.urbs) = Len(sendq) + IF recving = <<>> THEN 0 ELSE 1
    BY DEF MscInv, UrbsAnswered
<1>6. host.urbs # <<>>
    BY <1>1, <1>2, <1>5
<1>7. /\ Tail(host.urbs) \in Seq(Nat) /\ Len(Tail(host.urbs)) = Len(host.urbs) - 1
      /\ \A i \in 1..Len(Tail(host.urbs)) : Tail(host.urbs)[i] = host.urbs[i + 1]
      /\ Head(host.urbs) = host.urbs[1]
    BY <1>1, <1>6
<1>8. recving = <<>> => (Tail(host.urbs) = <<>> <=> sendq' = <<>>)
    <2>1. Tail(host.urbs) = <<>> <=> Len(Tail(host.urbs)) = 0
        BY <1>7, EmptySeq
    <2>2. sendq' = <<>> <=> Len(sendq') = 0
        BY <1>2, EmptySeq
    <2> QED
        BY <1>2, <1>5, <1>7, <2>1, <2>2
<1>9. host.phase # "ready" /\ Proper(host.cmd)
    BY <1>1 DEF MscInv, Phases, AtRest, Started, InFlight
<1>10. IsData(sendq[1]) => host.phase = "data" /\ In(host.cmd)
    <2>1. host.phase \in {"command", "data", "status", "skipped"}
        BY <1>1, <1>9 DEF Host
    <2>2. host.phase = "command" => ~IsData(sendq[1])
        <3>1. host.phase = "command" => sendq = <<Ack>>
            BY DEF MscInv, Phases, InCommand
        <3>2. sendq = <<Ack>> => sendq[1] = Ack
            OBVIOUS
        <3> QED
            BY <3>1, <3>2 DEF Ack, IsData
    <2>3. host.phase = "data" /\ ~In(host.cmd) => ~IsData(sendq[1])
        BY <1>3 DEF MscInv, Phases, InDataOut, Ack, IsData
    <2>4. host.phase \in {"status", "skipped"} => ~IsData(sendq[1])
        BY <1>1, <1>3 DEF MscInv, Phases, InStatus, InSkipped, IsData
    <2> QED
        BY <2>1, <2>2, <2>3, <2>4
<1> QED
    BY <1>1, <1>2, <1>3, <1>4, <1>5, <1>6, <1>7, <1>8, <1>9, <1>10

\* What every answer but the status leaves as it was.
LEMMA AnswerCommon ==
    ASSUME MscInv, NEW data, AnswerSent(data), sendq[1].kind # "csw", host' \in Host,
           host.phase \in {"command", "data", "status"}, host'.phase \in {"data", "status"},
           host'.cmd = host.cmd, host'.left = host.left, image' = image,
           msc.state = "DataOut" => host'.phase = "data",
           In(host.cmd) \/ host'.got = host.got
    PROVE  /\ MscTypes' /\ Clean' /\ PipeOk' /\ DataOutOk' /\ CswOk' /\ DiskOk' /\ ReadReturnsDisk'
           /\ (CswGood' <=> CswGood)
<1> DEFINE L == Len(sendq')
<1>1. /\ MscTypes /\ sendq \in Seq(MscAnswer) /\ sendq' \in Seq(MscAnswer)
      /\ Len(sendq) \in Nat \ {0} /\ 1 \in 1..Len(sendq) /\ L = Len(sendq) - 1
      /\ \A i \in 1..L : i + 1 \in 1..Len(sendq) /\ sendq'[i] = sendq[i + 1]
      /\ msc' = msc /\ disk' = disk /\ recving' = recving /\ read_only' = read_only
      /\ io' = io /\ ncmd' = ncmd /\ mscconn' = mscconn
           /\ leftover' = leftover /\ widened' = widened
    BY AnswerFrame
<1>2. ASSUME NEW i \in 1..Len(sendq), sendq[i].kind = "csw"
      PROVE  i - 1 \in 1..L /\ sendq'[i - 1] = sendq[i]
    <2>1. i # 1
        BY <1>2
    <2>2. i - 1 \in 1..L /\ (i - 1) + 1 = i
        BY <1>1, <2>1
    <2> QED
        BY <1>1, <2>2
<1> HIDE DEF L
<1>3. MscTypes'
    BY <1>1, EmptySeq DEF MscTypes, AnswerSent
<1>4. Clean'
    BY <1>1 DEF MscInv, Clean
<1>5. PipeOk'
    BY <1>1 DEF MscInv, PipeOk, AnswerSent
<1>6. DataOutOk'
    BY <1>1 DEF MscInv, DataOutOk, Collecting, InFlight, Sent, Wanted
<1>7. CswOk'
    BY <1>1 DEF MscInv, CswOk, L
<1>a. \A i \in 1..L : i + 1 \in 1..Len(sendq) /\ sendq'[i] = sendq[i + 1]
    BY <1>1
<1>8. Failing' <=> Failing
    <2>1. (\E i \in 1..L : sendq'[i].kind = "csw" /\ sendq'[i].failed) =>
              \E i \in 1..Len(sendq) : sendq[i].kind = "csw" /\ sendq[i].failed
        BY <1>a
    <2>2. (\E i \in 1..Len(sendq) : sendq[i].kind = "csw" /\ sendq[i].failed) =>
              \E i \in 1..L : sendq'[i].kind = "csw" /\ sendq'[i].failed
        BY <1>2
    <2>3. msc' = msc
        BY <1>1
    <2> QED
        BY <2>1, <2>2, <2>3, Zenon DEF Failing, L
<1>9. CswGood' <=> CswGood
    <2>1. (\E i \in 1..L : sendq'[i].kind = "csw" /\ ~sendq'[i].failed) =>
              \E i \in 1..Len(sendq) : sendq[i].kind = "csw" /\ ~sendq[i].failed
        BY <1>a
    <2>2. (\E i \in 1..Len(sendq) : sendq[i].kind = "csw" /\ ~sendq[i].failed) =>
              \E i \in 1..L : sendq'[i].kind = "csw" /\ ~sendq'[i].failed
        BY <1>2
    <2> QED
        BY <2>1, <2>2, Zenon DEF CswGood, L
<1>10. DiskOk'
    <2> SUFFICES ASSUME Exact, Exact' PROVE DiskOk'
        BY <1>1 DEF DiskOk, Exact
    <2>1. Effect(host.cmd, host.got)' = Effect(host.cmd, host.got)
        <3>1. CASE host'.got = host.got
            BY <3>1, EffectSame
        <3>2. CASE In(host.cmd)
            BY <3>2 DEF In, Effect
        <3> QED
            BY <3>1, <3>2
    <2>2. Sent' = Sent
        BY <1>1 DEF Sent
    <2> QED
        BY <1>1, <1>8, <2>1, <2>2 DEF MscInv, DiskOk
<1>11. ReadReturnsDisk'
    BY DEF ReadReturnsDisk
<1> QED
    BY <1>3, <1>4, <1>5, <1>6, <1>7, <1>9, <1>10, <1>11

\* The acknowledgement of the CBW.
LEMMA AnswerCommand ==
    ASSUME MscInv, NEW data, AnswerSent(data), host.phase = "command"
    PROVE  MscInv'
<1>1. /\ Head(sendq) = sendq[1] /\ sendq[1] = Ack /\ Ack.kind = "ack" /\ data = <<>>
      /\ recving = <<>> /\ host.got = <<>> /\ host.left = host.cmd.len
      /\ msc.state # "Idle" /\ ~host.retried
      /\ msc.state = "DataIn" => msc.offset = 0
      /\ Len(sendq) = 1
    <2>1. sendq = <<Ack>>
        BY DEF MscInv, Phases, InCommand
    <2>2. Len(sendq) = 1 /\ sendq[1] = Ack /\ Head(sendq) = sendq[1]
        BY <2>1
    <2> QED
        BY <2>2 DEF MscInv, Phases, InCommand, AnswerSent, Ack, IsData
<1>2. /\ sendq' \in Seq(MscAnswer) /\ Len(sendq') = 0 /\ host.urbs \in Seq(Nat)
      /\ Tail(host.urbs) \in Seq(Nat) /\ (Tail(host.urbs) = <<>> <=> sendq' = <<>>)
      /\ Proper(host.cmd) /\ host \in Host /\ msc \in MscRecord
      /\ msc' = msc /\ disk' = disk /\ recving' = recving /\ io' = io
      /\ leftover' = leftover
    BY <1>1, AnswerFrame
<1>3. sendq' = <<>> /\ Tail(host.urbs) = <<>>
    BY <1>2, EmptySeq
<1>4. /\ host' = [host EXCEPT !.urbs = Tail(host.urbs), !.got = host.got \o data,
                              !.phase = IF host.left = 0 THEN "status" ELSE "data"]
      /\ image' = image
    BY <1>1 DEF AnswerSent, Receives
<1>5. /\ host' \in Host /\ host'.phase = (IF host.left = 0 THEN "status" ELSE "data")
      /\ host'.cmd = host.cmd /\ host'.left = host.left /\ host'.got = <<>>
      /\ host'.csw = host.csw /\ host'.urbs = <<>> /\ host'.retried = host.retried
    <2>1. <<>> \o <<>> = <<>> /\ <<>> \in Seq(Int) /\ <<>> \in Seq(Nat)
        BY ConcatEmptySeq, EmptySeq
    <2>2. host' = [host EXCEPT !.urbs = <<>>, !.got = <<>>,
                               !.phase = IF host.left = 0 THEN "status" ELSE "data"]
        BY <1>1, <1>3, <1>4, <2>1
    <2> QED
        BY <1>2, <2>1, <2>2 DEF Host
<1>6. /\ host.left \in Nat /\ host.cmd.len \in Nat
      /\ msc.state # "Idle" => (msc.cbw.tag = host.cmd.tag \/ host.cmd.op = "short")
      /\ msc.state = "DataIn" => In(host.cmd)
      /\ msc.state = "DataOut" => Out(host.cmd)
      /\ msc.failed => msc.staging = <<>> /\ ~msc.mapped
    BY <1>2 DEF MscInv, Phases, Started, InFlight, Host, Command
<1>7. msc.state = "DataOut" => host.left # 0
    <2> SUFFICES ASSUME msc.state = "DataOut" PROVE host.left # 0
        OBVIOUS
    <2>1. CollectingFacts
        BY WhileCollecting DEF Collecting, InFlight
    <2> QED
        BY <1>1, <2>1 DEF CollectingFacts
<1>8. /\ MscTypes' /\ Clean' /\ PipeOk' /\ DataOutOk' /\ CswOk' /\ DiskOk' /\ ReadReturnsDisk'
      /\ (CswGood' <=> CswGood)
    <2>1. sendq[1].kind # "csw" /\ host'.got = host.got
        BY <1>1, <1>5
    <2> QED
        BY <1>4, <1>5, <1>7, <2>1, AnswerCommon
<1>9. UrbsAnswered'
    BY <1>1, <1>2, <1>3, <1>5 DEF UrbsAnswered
<1>10. Pieces'
    <2> SUFFICES ASSUME In(host.cmd) PROVE Pieces'
        BY <1>5 DEF Pieces, Sending
    <2>1. /\ InTotal(msc) <= host.cmd.len
          /\ msc.state = "DataIn" => \/ msc.offset < InTotal(msc)
                                     \/ msc.offset = 0 /\ InTotal(msc) = 0
          /\ (sendq = <<>> \/ ~IsData(sendq[1])) => Len(host.got) = Queued
        BY DEF MscInv, Pieces, Sending
    <2>2. Len(host.got) = Queued
        BY <1>1, <2>1 DEF IsData
    <2>3. Queued' = Queued
        BY <1>2 DEF Queued, InTotal
    <2> QED
        BY <1>1, <1>2, <1>3, <1>5, <2>1, <2>2, <2>3 DEF Pieces
<1>11. ReadOk'
    <2>1. Reading' => Reading
        BY <1>2, <1>5, <1>8 DEF Reading
    <2> QED
        BY <1>1, <1>2, <1>4, <1>5, <2>1 DEF MscInv, ReadOk
<1>12. Phases'
    <2>1. Started'
        BY <1>1, <1>2, <1>5, <1>6 DEF Started, InFlight
    <2>2. InDataOut'
        BY <1>2, <1>3, <1>5, <1>1, <1>6 DEF InDataOut, MscRecord
    <2>3. InDataIn'
        <3>1. host.left # 0 => host.cmd.len > 0
            BY <1>1, <1>6
        <3>2. msc.state = "DataOut" => ~In(host.cmd)
            BY <1>6 DEF Out, In
        <3>3. host.cmd.len - host.left = 0
            BY <1>1, <1>6
        <3> QED
            BY <1>1, <1>2, <1>3, <1>5, <3>1, <3>2, <3>3 DEF InDataIn
    <2>4. InStatus'
        <3> SUFFICES ASSUME host.left = 0 PROVE InStatus'
            BY <1>5 DEF InStatus
        <3>1. piped' = {}
            BY <1>8, <1>2, <1>1, <1>3 DEF PipeOk
        <3>2. msc.state = "DataIn" => InTotal(msc) = 0
            <4>1. msc.state = "DataIn" => InTotal(msc) <= 0
                BY <1>1, <1>5, <1>6 DEF MscInv, Pieces, Sending
            <4> QED
                BY <1>2, <4>1, InTotalNat
        <3>3. InTotal(msc') = InTotal(msc)
            BY <1>2
        <3> QED
            BY <1>1, <1>2, <1>3, <1>5, <1>7, <3>1, <3>2, <3>3 DEF InStatus, MscRecord
    <2> QED
        BY <1>5, <2>1, <2>2, <2>3, <2>4 DEF Phases, AtRest, InCommand, InSkipped
<1> QED
    BY <1>8, <1>9, <1>10, <1>11, <1>12 DEF MscInv

\* After the status: the URBs that were left over are stalled.
LEMMA AnswerSkipped ==
    ASSUME MscInv, NEW data, AnswerSent(data), host.phase = "skipped"
    PROVE  MscInv'
<1> DEFINE rest == Tail(host.urbs)
           L == Len(sendq')
<1>1. /\ sendq # <<>> /\ recving = <<>> /\ piped = {} /\ msc.state = "Idle" /\ (Exact => disk = image)
      /\ \A i \in 1..Len(sendq) : sendq[i].kind = "stall"
      /\ host.csw # <<>>
      /\ host.csw[1].tag = host.cmd.tag \/ host.cmd.op = "short"
    BY DEF MscInv, Phases, InSkipped
<1>2. /\ MscTypes /\ sendq' \in Seq(MscAnswer) /\ Head(sendq) = sendq[1] /\ 1 \in 1..Len(sendq)
      /\ \A i \in 1..L : i + 1 \in 1..Len(sendq) /\ sendq'[i] = sendq[i + 1]
      /\ rest \in Seq(Nat) /\ (rest = <<>> <=> sendq' = <<>>)
      /\ Len(rest) = L /\ Proper(host.cmd) /\ host \in Host /\ msc \in MscRecord
      /\ msc' = msc /\ disk' = disk /\ recving' = recving /\ read_only' = read_only
      /\ io' = io /\ ncmd' = ncmd /\ mscconn' = mscconn
      /\ leftover' = leftover /\ widened' = widened
    <2>1. Len(rest) = L
        <3>1. /\ Len(rest) = Len(host.urbs) - 1 /\ L = Len(sendq) - 1 /\ Len(sendq) \in Nat
              /\ Len(host.urbs) = Len(sendq) + IF recving = <<>> THEN 0 ELSE 1
            BY AnswerFrame
        <3> QED
            BY <1>1, <3>1
    <2> QED
        BY <1>1, <2>1, AnswerFrame
<1>3. /\ host' = [host EXCEPT !.urbs = rest, !.phase = IF rest = <<>> THEN "ready" ELSE "skipped"]
      /\ image' = image
    BY <1>1, <1>2 DEF AnswerSent, Receives
<1>4. piped' = {} /\ Len(pipe') = leftover /\ pipe' \in Seq(Int)
    BY <1>1 DEF AnswerSent
<1>5. \A i \in 1..L : sendq'[i].kind = "stall"
    BY <1>1, <1>2
<1> HIDE DEF L, rest
<1>6. /\ host' \in Host /\ host'.phase = (IF rest = <<>> THEN "ready" ELSE "skipped")
      /\ host'.cmd = host.cmd /\ host'.left = host.left /\ host'.got = host.got
      /\ host'.csw = host.csw /\ host'.urbs = rest /\ host'.retried = host.retried
    BY <1>2, <1>3 DEF Host
<1>7. MscTypes'
    BY <1>2, <1>3, <1>4, <1>6, EmptySeq DEF MscTypes
<1>8. UrbsAnswered'
    BY <1>1, <1>2, <1>6 DEF UrbsAnswered, L
<1>9. Phases'
    <2>1. Started'
        BY <1>2, <1>6, <1>1 DEF MscInv, Phases, Started, InFlight
    <2>2. AtRest'
        BY <1>1, <1>2, <1>3, <1>4, <1>6 DEF AtRest, Exact
    <2>3. InSkipped'
        BY <1>1, <1>2, <1>3, <1>4, <1>5, <1>6 DEF InSkipped, L, Exact
    <2> QED
        BY <1>6, <2>1, <2>2, <2>3 DEF Phases, InCommand, InDataOut, InDataIn, InStatus
<1>10. Clean'
    BY <1>2 DEF MscInv, Clean
<1>11. Pieces'
    BY <1>6 DEF Pieces, Sending
<1>12. ReadOk'
    BY <1>2, <1>3, <1>6 DEF MscInv, ReadOk, Reading
<1>13. DataOutOk'
    BY <1>1, <1>2 DEF DataOutOk, Collecting
<1>14. DiskOk'
    BY <1>6 DEF DiskOk
<1>15. CswOk'
    BY <1>5 DEF CswOk, L
<1>16. PipeOk'
    BY <1>2, <1>4 DEF PipeOk
<1>17. ReadReturnsDisk'
    BY <1>2, <1>3, <1>6 DEF MscInv, ReadOk, ReadReturnsDisk
<1> QED
    BY <1>7, <1>8, <1>9, <1>10, <1>11, <1>12, <1>13, <1>14, <1>15, <1>16, <1>17 DEF MscInv

\* An empty answer where the host wants the status: it asks once more.
LEMMA AnswerEmpty ==
    ASSUME MscInv, NEW data, AnswerSent(data), host.phase = "status", sendq[1].kind # "csw"
    PROVE  MscInv'
<1> DEFINE rest == Tail(host.urbs)
           L == Len(sendq')
<1>1. /\ sendq # <<>> /\ recving = <<>> /\ piped = {} /\ msc.state = "Status" /\ ~host.retried
      /\ sendq[1].kind = "empty" /\ Len(sendq) <= 1
    BY DEF MscInv, Phases, InStatus, AnswerSent
<1>2. /\ MscTypes /\ sendq \in Seq(MscAnswer) /\ sendq' \in Seq(MscAnswer)
      /\ Head(sendq) = sendq[1] /\ L = Len(sendq) - 1 /\ Len(sendq) \in Nat \ {0}
      /\ Proper(host.cmd) /\ host \in Host /\ msc \in MscRecord
      /\ msc' = msc /\ disk' = disk /\ recving' = recving /\ leftover' = leftover
    BY <1>1, AnswerFrame
<1>3. sendq' = <<>> /\ L = 0 /\ Len(sendq) = 1
    BY <1>1, <1>2, EmptySeq
<1>4. /\ host' = [host EXCEPT !.urbs = <<>>, !.retried = TRUE, !.phase = "status"]
      /\ image' = image
    BY <1>1, <1>2 DEF AnswerSent, Receives, HostRetries
<1>5. piped' = {} /\ Len(pipe') = leftover /\ pipe' \in Seq(Int)
    BY <1>1 DEF AnswerSent
<1> HIDE DEF L, rest
<1>6. /\ host' \in Host /\ host'.phase = "status" /\ host'.urbs = <<>>
      /\ host'.cmd = host.cmd /\ host'.left = host.left /\ host'.got = host.got
      /\ host'.csw = host.csw
    <2>1. <<>> \in Seq(Nat)
        BY EmptySeq
    <2> QED
        BY <1>2, <1>4, <2>1 DEF Host
<1>7. /\ MscTypes' /\ Clean' /\ PipeOk' /\ DataOutOk' /\ CswOk' /\ DiskOk' /\ ReadReturnsDisk'
      /\ (CswGood' <=> CswGood)
    BY <1>1, <1>4, <1>6, AnswerCommon
<1>8. UrbsAnswered'
    BY <1>1, <1>2, <1>3, <1>6 DEF UrbsAnswered
<1>9. Phases'
    <2>1. Started'
        BY <1>2, <1>6, <1>1 DEF MscInv, Phases, Started, InFlight
    <2>2. InStatus'
        BY <1>1, <1>2, <1>3, <1>5, <1>6 DEF InStatus
    <2> QED
        BY <1>6, <2>1, <2>2 DEF Phases, AtRest, InCommand, InDataOut, InDataIn, InSkipped
<1>10. Pieces'
    <2>1. Queued' = Queued /\ InTotal(msc)' = InTotal(msc)
        BY <1>2 DEF Queued, InTotal
    <2>2. In(host.cmd) => Len(host.got) = Queued /\ InTotal(msc) <= host.cmd.len
        BY <1>1 DEF MscInv, Pieces, Sending, IsData
    <2> QED
        BY <1>1, <1>2, <1>3, <1>6, <2>1, <2>2 DEF Pieces, Sending
<1>11. ReadOk'
    <2>1. Reading' => Reading
        BY <1>2, <1>6, <1>7 DEF Reading
    <2> QED
        BY <1>1, <1>2, <1>4, <1>6, <2>1 DEF MscInv, ReadOk
<1> QED
    BY <1>7, <1>8, <1>9, <1>10, <1>11 DEF MscInv

\* What a command does to the image leaves it an image.
LEMMA EffectType ==
    ASSUME image \in [Units -> Int], NEW c, Proper(c), NEW g
    PROVE  Effect(c, g) \in [Units -> Int]
<1>1. c \in Command /\ c.len \in Nat /\ c.lba \in Nat /\ c.tag \in Nat
    BY DEF Proper, Command
<1>2. CASE c.op = "write"
    <2>1. HostData(c, 0, c.len) \in Seq(Int)
        BY <1>1, HostDataType
    <2> DEFINE w == c.lba * BlockUnits
    <2>2. w \in Nat
        BY <1>1, Sizes, Product
    <2> HIDE DEF w
    <2>3. WriteAt(image, w, HostData(c, 0, c.len)) \in [Units -> Int]
        BY <2>1, <2>2, WriteAtType
    <2> QED
        BY <1>2, <2>3 DEF Effect, w
<1>3. CASE c.op = "same"
    <2>1. ASSUME NEW v \in Units
          PROVE  HostData(c, 0, BlockUnits)[(v % BlockUnits) + 1] \in Int
        <3>1. v % BlockUnits \in Nat /\ v % BlockUnits < BlockUnits
            BY Sizes, SmallMod DEF Units
        <3>2. (v % BlockUnits) + 1 \in 1..BlockUnits
            BY <3>1, Sizes
        <3>3. BlockUnits \in Nat /\ 0 + BlockUnits <= c.len
            BY <1>3, Sizes DEF Proper
        <3>4. HostData(c, 0, BlockUnits) \in Seq(Int) /\ Len(HostData(c, 0, BlockUnits)) = BlockUnits
            BY <3>3, HostDataType
        <3> QED
            BY <3>2, <3>4, ElementOfSeq
    <2> QED
        BY <1>3, <2>1 DEF Effect
<1>4. CASE c.op \in {"sameunmap", "unmap"}
    BY <1>4 DEF Effect, Cleared
<1>5. CASE c.op \notin {"write", "same", "sameunmap", "unmap"}
    BY <1>5 DEF Effect
<1> QED
    BY <1>2, <1>3, <1>4, <1>5

\* The status: now the host takes the image for changed, and so it is.
LEMMA AnswerCsw ==
    ASSUME MscInv, NEW data, AnswerSent(data), sendq[1].kind = "csw"
    PROVE  MscInv'
<1> DEFINE rest == Tail(host.urbs)
           L == Len(sendq')
           a == sendq[1]
<1>1. /\ MscTypes /\ sendq \in Seq(MscAnswer) /\ sendq' \in Seq(MscAnswer)
      /\ Head(sendq) = a /\ a \in MscAnswer /\ 1 \in 1..Len(sendq) /\ Len(sendq) \in Nat \ {0}
      /\ L = Len(sendq) - 1
      /\ \A i \in 1..L : i + 1 \in 1..Len(sendq) /\ sendq'[i] = sendq[i + 1]
      /\ rest \in Seq(Nat) /\ Len(rest) = Len(host.urbs) - 1
      /\ Len(host.urbs) = Len(sendq) + (IF recving = <<>> THEN 0 ELSE 1)
      /\ recving = <<>> => (rest = <<>> <=> sendq' = <<>>)
      /\ host.phase # "ready" /\ Proper(host.cmd) /\ host \in Host /\ msc \in MscRecord
      /\ msc' = msc /\ disk' = disk /\ recving' = recving /\ read_only' = read_only
      /\ io' = io /\ ncmd' = ncmd /\ mscconn' = mscconn
           /\ leftover' = leftover /\ widened' = widened
    BY AnswerFrame
<1>2. a.failed \in BOOLEAN
    BY <1>1 DEF MscAnswer, DataAnswer, PlainAnswer, CswAnswer
<1>3. /\ host.phase \in {"data", "status"} /\ recving = <<>> /\ msc.state = "Idle"
      /\ \A i \in 1..Len(sendq) : i # 1 => sendq[i].kind = "stall"
    <2>1. host.phase # "command"
        <3>1. sendq = <<Ack>> => sendq[1] = Ack
            OBVIOUS
        <3>2. Ack.kind # "csw"
            BY DEF Ack
        <3> QED
            BY <3>1, <3>2 DEF MscInv, Phases, InCommand
    <2>2. host.phase # "skipped"
        BY <1>1 DEF MscInv, Phases, InSkipped
    <2>3. host.phase \in {"data", "status"}
        BY <1>1, <2>1, <2>2 DEF Host
    <2>4. CASE host.phase = "data"
        <3>1. In(host.cmd)
            BY <1>1, <2>4 DEF MscInv, Phases, InDataOut, Ack
        <3>2. /\ recving = <<>> /\ msc.state = "Idle"
              /\ \A i, j \in 1..Len(sendq) :
                    i < j /\ sendq[i].kind \in {"csw", "stall"} => sendq[j].kind = "stall"
            BY <1>1, <2>4, <3>1 DEF MscInv, Phases, InDataIn
        <3>3. \A i \in 1..Len(sendq) : i # 1 => 1 < i
            BY <1>1
        <3> QED
            BY <1>1, <2>3, <3>2, <3>3
    <2>5. CASE host.phase = "status"
        <3>1. recving = <<>> /\ msc.state = "Idle" /\ Len(sendq) <= 1
            BY <1>1, <2>5 DEF MscInv, Phases, InStatus
        <3>2. \A i \in 1..Len(sendq) : i = 1
            BY <1>1, <3>1
        <3> QED
            BY <2>3, <3>1, <3>2
    <2> QED
        BY <2>3, <2>4, <2>5
<1>4. /\ host' = [host EXCEPT !.urbs = rest, !.csw = <<a>>,
                              !.phase = IF rest = <<>> THEN "ready" ELSE "skipped"]
      /\ image' = IF a.failed THEN image ELSE Effect(host.cmd, host.got)
    BY <1>1 DEF AnswerSent, Receives
<1>5. piped' = {} /\ Len(pipe') = leftover /\ pipe' \in Seq(Int)
    <2>1. piped # {"receiver"}
        BY <1>3 DEF MscInv, PipeOk
    <2> QED
        BY <2>1 DEF AnswerSent
<1>6. \A i \in 1..L : sendq'[i].kind = "stall"
    <2> TAKE i \in 1..L
    <2>1. i + 1 # 1 /\ i + 1 \in 1..Len(sendq) /\ sendq'[i] = sendq[i + 1]
        BY <1>1
    <2> QED
        BY <1>3, <2>1
<1>7. ~msc.failed /\ (a.tag = host.cmd.tag \/ host.cmd.op = "short")
    BY <1>1, <1>3 DEF MscInv, Clean, CswOk
<1>8. Failing <=> a.failed
    BY <1>1, <1>2, <1>3, <1>7 DEF Failing
<1>9. ASSUME Exact PROVE disk = image'
    <2>1. disk = IF Failing THEN image ELSE Effect(host.cmd, host.got)
        BY <1>3, <1>9 DEF MscInv, DiskOk
    <2> QED
        BY <1>2, <1>4, <1>8, <2>1
<1> HIDE DEF L, rest, a
<1>10. /\ host' \in Host /\ host'.phase = (IF rest = <<>> THEN "ready" ELSE "skipped")
       /\ host'.cmd = host.cmd /\ host'.left = host.left /\ host'.got = host.got
       /\ host'.csw = <<a>> /\ host'.urbs = rest /\ host'.retried = host.retried
       /\ host'.csw # <<>> /\ host'.csw[1] = a
    <2>1. <<a>> \in Seq(MscAnswer) /\ <<a>> # <<>> /\ <<a>>[1] = a
        BY <1>1
    <2>2. (IF rest = <<>> THEN "ready" ELSE "skipped") \in
              {"ready", "command", "data", "status", "skipped"}
        OBVIOUS
    <2> QED
        BY <1>1, <1>4, <2>1, <2>2 DEF Host
<1>11. MscTypes'
    <2>1. image' \in [Units -> Int]
        BY <1>1, <1>4, EffectType DEF MscTypes
    <2> QED
        BY <1>1, <1>5, <1>10, <2>1, EmptySeq DEF MscTypes
<1>12. UrbsAnswered'
    BY <1>1, <1>3, <1>10 DEF UrbsAnswered, L
<1>13. Phases'
    <2>1. Started'
        BY <1>1, <1>3, <1>7, <1>10 DEF MscInv, Phases, Started, InFlight
    <2>2. AtRest'
        BY <1>1, <1>3, <1>5, <1>7, <1>9, <1>10 DEF AtRest, Exact
    <2>3. InSkipped'
        BY <1>1, <1>3, <1>5, <1>6, <1>7, <1>9, <1>10 DEF InSkipped, L, Exact
    <2> QED
        BY <1>10, <2>1, <2>2, <2>3 DEF Phases, InCommand, InDataOut, InDataIn, InStatus
<1>14. Clean'
    BY <1>1 DEF MscInv, Clean
<1>15. Pieces'
    BY <1>10 DEF Pieces, Sending
<1>16. (host.cmd.op = "read" /\ ~a.failed /\ leftover = 0) =>
            host.got = ReadAt(disk, host.cmd.lba * BlockUnits, host.cmd.len)
    <2> SUFFICES ASSUME host.cmd.op = "read", ~a.failed, leftover = 0
                 PROVE  host.got = ReadAt(disk, host.cmd.lba * BlockUnits, host.cmd.len)
        OBVIOUS
    <2>1. Reading
        BY <1>1, <1>3, <1>7 DEF Reading, CswGood, a
    <2>2. /\ InTotal(msc) = host.cmd.len
          /\ host.got = ReadAt(disk, host.cmd.lba * BlockUnits, Len(host.got))
        BY <2>1 DEF MscInv, ReadOk
    <2>3. Len(host.got) = InTotal(msc)
        <3>1. Sending /\ Queued = InTotal(msc) /\ ~IsData(sendq[1])
            BY <1>3 DEF Sending, In, Queued, IsData
        <3> QED
            BY <3>1 DEF MscInv, Pieces
    <2> QED
        BY <2>2, <2>3
<1>17. ReadOk'
    BY <1>1, <1>10, <1>16 DEF ReadOk, Reading
<1>18. DataOutOk'
    BY <1>1, <1>3 DEF DataOutOk, Collecting
<1>19. DiskOk'
    BY <1>10 DEF DiskOk
<1>20. CswOk'
    BY <1>6 DEF CswOk, L
<1>21. PipeOk'
    BY <1>1, <1>5 DEF PipeOk
<1>22. ReadReturnsDisk'
    BY <1>1, <1>10, <1>16 DEF ReadReturnsDisk
<1> QED
    BY <1>11, <1>12, <1>13, <1>14, <1>15, <1>17, <1>18, <1>19, <1>20, <1>21, <1>22 DEF MscInv

\* The acknowledgement of an OUT URB.
LEMMA AnswerOut ==
    ASSUME MscInv, NEW data, AnswerSent(data), host.phase = "data", ~In(host.cmd)
    PROVE  MscInv'
<1> DEFINE rest == Tail(host.urbs)
           L == Len(sendq')
<1>1. /\ MscTypes /\ sendq \in Seq(MscAnswer) /\ sendq' \in Seq(MscAnswer)
      /\ Head(sendq) = sendq[1] /\ 1 \in 1..Len(sendq) /\ Len(sendq) \in Nat \ {0}
      /\ L = Len(sendq) - 1
      /\ \A i \in 1..L : i + 1 \in 1..Len(sendq) /\ sendq'[i] = sendq[i + 1]
      /\ rest \in Seq(Nat) /\ Len(rest) = Len(host.urbs) - 1
      /\ Len(host.urbs) = Len(sendq) + (IF recving = <<>> THEN 0 ELSE 1)
      /\ Proper(host.cmd) /\ host \in Host /\ msc \in MscRecord
      /\ msc' = msc /\ disk' = disk /\ recving' = recving
    BY AnswerFrame
<1>2. /\ \A i \in 1..Len(sendq) : sendq[i] = Ack
      /\ msc.state \in {"DataOut", "Status"}
    BY DEF MscInv, Phases, InDataOut
<1>3. Ack.kind = "ack"
    BY DEF Ack
<1>4. sendq[1] = Ack /\ data = <<>>
    BY <1>1, <1>2, <1>3 DEF AnswerSent, IsData
<1>5. /\ host' = [host EXCEPT !.urbs = rest, !.got = @ \o data,
                              !.phase = IF rest = <<>> /\ host.left = 0 THEN "status" ELSE "data"]
      /\ image' = image
    BY <1>1, <1>3, <1>4 DEF AnswerSent, Receives
<1>6. \A i \in 1..L : sendq'[i] = Ack
    BY <1>1, <1>2
<1>7. rest = <<>> => recving = <<>> /\ L = 0 /\ sendq' = <<>>
    <2> SUFFICES ASSUME rest = <<>> PROVE recving = <<>> /\ L = 0 /\ sendq' = <<>>
        OBVIOUS
    <2>1. Len(rest) = 0
        BY <1>1, EmptySeq
    <2>2. recving = <<>> /\ L = 0
        BY <1>1, <2>1
    <2> QED
        BY <1>1, <2>2, EmptySeq
<1> HIDE DEF L, rest
<1>8. /\ host' \in Host
      /\ host'.phase = (IF rest = <<>> /\ host.left = 0 THEN "status" ELSE "data")
      /\ host'.cmd = host.cmd /\ host'.left = host.left /\ host'.got = host.got
      /\ host'.csw = host.csw /\ host'.urbs = rest /\ host'.retried = host.retried
    <2>1. host.got \in Seq(Int) /\ host.got \o <<>> = host.got
        BY <1>1, ConcatEmptySeq DEF Host
    <2>2. host' = [host EXCEPT !.urbs = rest, !.got = host.got,
                               !.phase = IF rest = <<>> /\ host.left = 0 THEN "status" ELSE "data"]
        BY <1>4, <1>5, <2>1
    <2> QED
        BY <1>1, <2>1, <2>2 DEF Host
<1>9. (rest = <<>> /\ host.left = 0) => msc.state = "Status"
    <2> SUFFICES ASSUME rest = <<>>, host.left = 0, msc.state = "DataOut" PROVE FALSE
        BY <1>2
    <2>1. Sent < Wanted(msc) /\ Wanted(msc) <= host.cmd.len /\ Sent \in Nat
        BY DEF MscInv, DataOutOk, Collecting, InFlight
    <2>2. Sent = host.cmd.len /\ host.cmd.len \in Nat
        <3>1. Len(recving) = 0 /\ host.cmd.len \in Nat
            BY <1>1, <1>7 DEF Host, Command
        <3> QED
            BY <3>1 DEF Sent
    <2>3. Wanted(msc) \in Nat
        BY <1>1, Sizes, Product DEF Wanted, MscRecord
    <2> QED
        BY <2>1, <2>2, <2>3
<1>10. /\ MscTypes' /\ Clean' /\ PipeOk' /\ DataOutOk' /\ CswOk' /\ DiskOk' /\ ReadReturnsDisk'
       /\ (CswGood' <=> CswGood)
    <2>1. sendq[1].kind # "csw"
        BY <1>3, <1>4
    <2> QED
        BY <1>5, <1>8, <1>9, <2>1, AnswerCommon
<1>11. UrbsAnswered'
    <2>1. recving' = recving /\ Len(rest) = L + (IF recving = <<>> THEN 0 ELSE 1)
        <3>1. CASE recving = <<>>
            BY <1>1, <3>1
        <3>2. CASE recving # <<>>
            BY <1>1, <3>2
        <3> QED
            BY <1>1, <3>1, <3>2
    <2> QED
        BY <1>8, <2>1 DEF UrbsAnswered, L
<1>12. Phases'
    <2>1. Started'
        BY <1>1, <1>8 DEF MscInv, Phases, Started, InFlight
    <2>2. InDataOut'
        BY <1>1, <1>2, <1>6, <1>8 DEF InDataOut, L
    <2>3. InStatus'
        <3> SUFFICES ASSUME rest = <<>>, host.left = 0 PROVE InStatus'
            BY <1>8 DEF InStatus
        <3>1. piped' = {}
            BY <1>1, <1>7, <1>10 DEF PipeOk
        <3>2. recving' = <<>> /\ sendq' = <<>> /\ Len(sendq') = 0 /\ msc'.state = "Status"
            BY <1>1, <1>7, <1>9 DEF L
        <3> QED
            BY <3>1, <3>2 DEF InStatus
    <2> QED
        BY <1>8, <2>1, <2>2, <2>3 DEF Phases, AtRest, InCommand, InDataIn, InSkipped
<1>13. Pieces'
    BY <1>8 DEF Pieces, Sending
<1>14. ReadOk'
    BY <1>8 DEF ReadOk, Reading, In
<1> QED
    BY <1>10, <1>11, <1>12, <1>13, <1>14 DEF MscInv

\* What goes out with an answer in the data phase of an IN command.
LEMMA DataLemma ==
    ASSUME MscInv, NEW data, AnswerSent(data), host.phase = "data", In(host.cmd),
           sendq[1].kind # "csw"
    PROVE  /\ data \in Seq(Int) /\ recving = <<>> /\ msc.state # "DataOut"
           /\ IsData(sendq[1]) => /\ Len(data) = sendq[1].n /\ sendq[1].n \in Nat
                                  /\ sendq[1].from = Base + Len(host.got)
                                  /\ sendq[1].from + sendq[1].n <= Base + InTotal(msc)
           /\ ~IsData(sendq[1]) => data = <<>> /\ Len(data) = 0
           /\ host.got \in Seq(Int) /\ Len(host.got) \in Nat
           /\ host.got \o data \in Seq(Int) /\ Len(host.got \o data) = Len(host.got) + Len(data)
           /\ host' \in Host /\ host'.cmd = host.cmd /\ host'.left = host.left
           /\ host'.got = host.got \o data /\ host'.csw = host.csw
           /\ host'.urbs = Tail(host.urbs) /\ host'.retried = host.retried
           /\ host'.phase = (IF /\ Tail(host.urbs) = <<>>
                                /\ host.left = 0 \/ Len(data) < host.urbs[1]
                             THEN "status" ELSE "data")
           /\ image' = image
<1> DEFINE a == sendq[1]
           rest == Tail(host.urbs)
<1>1. /\ MscTypes /\ Head(sendq) = a /\ a \in MscAnswer /\ 1 \in 1..Len(sendq)
      /\ Len(sendq) \in Nat \ {0} /\ host \in Host /\ msc \in MscRecord
      /\ rest \in Seq(Nat) /\ Head(host.urbs) = host.urbs[1] /\ sendq \in Seq(MscAnswer)
    BY AnswerFrame
<1>2. recving = <<>> /\ msc.state # "DataOut"
    BY DEF MscInv, Phases, InDataIn
<1>3. Base \in Nat /\ InTotal(msc) \in Nat
    BY <1>1, Sizes, Product, InTotalNat DEF Base, MscRecord
<1>4. IsData(a) => /\ a.n \in Nat /\ a.from \in Nat /\ (a.kind = "file" <=> msc.mapped)
                   /\ a.from = Base + Len(host.got)
                   /\ a.from + a.n <= Base + InTotal(msc)
    <2> SUFFICES ASSUME IsData(a)
                 PROVE  /\ a.n \in Nat /\ a.from \in Nat /\ (a.kind = "file" <=> msc.mapped)
                        /\ a.from = Base + Len(host.got)
                        /\ a.from + a.n <= Base + InTotal(msc)
        OBVIOUS
    <2>1. a \in DataAnswer
        BY <1>1 DEF MscAnswer, CswAnswer, PlainAnswer, IsData
    <2>2. a.n \in Nat /\ a.from \in Nat
        BY <2>1 DEF DataAnswer
    <2> QED
        BY <1>1, <2>2 DEF MscInv, Pieces, Sending
<1>5. a.kind = "staging" => data = SubSeq(msc.staging, a.from + 1, a.from + a.n)
    BY <1>1 DEF AnswerSent
<1>6. a.kind = "file" => data \in Seq(Int) /\ Len(data) = a.n
    BY <1>1 DEF AnswerSent
<1>7. ~IsData(a) => data = <<>>
    BY <1>1 DEF AnswerSent
<1>8. /\ data \in Seq(Int)
      /\ IsData(a) => Len(data) = a.n
      /\ ~IsData(a) => data = <<>> /\ Len(data) = 0
    <2>1. CASE a.kind = "staging"
        <3>1. IsData(a) /\ ~msc.mapped
            BY <1>4, <2>1 DEF IsData
        <3>2. Base = 0 /\ InTotal(msc) = Len(msc.staging) /\ msc.staging \in Seq(Int)
            BY <1>1, <3>1 DEF Base, InTotal, MscRecord
        <3>3. a.from \in Nat /\ a.n \in Nat /\ a.from + a.n <= Len(msc.staging)
            BY <1>4, <3>1, <3>2
        <3> DEFINE f == a.from
                   n == a.n
                   s == msc.staging
        <3>4. s \in Seq(Int) /\ f \in Nat /\ n \in Nat /\ f + n <= Len(s)
            BY <3>2, <3>3
        <3>5. data = SubSeq(s, f + 1, f + n)
            BY <1>5, <2>1
        <3> HIDE DEF f, n, s
        <3>6. SubSeq(s, f + 1, f + n) \in Seq(Int) /\ Len(SubSeq(s, f + 1, f + n)) = n
            BY <3>4
        <3> QED
            BY <3>1, <3>5, <3>6 DEF n
    <2>2. CASE a.kind = "file"
        <3>1. IsData(a)
            BY <2>2 DEF IsData
        <3> QED
            BY <1>6, <2>2, <3>1
    <2>3. CASE ~IsData(a)
        BY <1>7, <2>3, EmptySeq
    <2> QED
        BY <2>1, <2>2, <2>3 DEF IsData
<1>9. host.got \in Seq(Int) /\ Len(host.got) \in Nat
    BY <1>1 DEF Host
<1>10. host.got \o data \in Seq(Int) /\ Len(host.got \o data) = Len(host.got) + Len(data)
    BY <1>8, <1>9
<1>11. /\ host' = [host EXCEPT !.urbs = rest, !.got = @ \o data,
                               !.phase = IF rest = <<>> /\ (host.left = 0 \/ Len(data) < host.urbs[1])
                                         THEN "status" ELSE "data"]
       /\ image' = image
    BY <1>1 DEF AnswerSent, Receives
<1> HIDE DEF a, rest
<1>12. /\ host' \in Host /\ host'.cmd = host.cmd /\ host'.left = host.left
       /\ host'.got = host.got \o data /\ host'.csw = host.csw
       /\ host'.urbs = rest /\ host'.retried = host.retried
       /\ host'.phase = (IF rest = <<>> /\ (host.left = 0 \/ Len(data) < host.urbs[1])
                         THEN "status" ELSE "data")
    <2> DEFINE g == host.got \o data
               p == IF rest = <<>> /\ (host.left = 0 \/ Len(data) < host.urbs[1])
                    THEN "status" ELSE "data"
    <2>1. g \in Seq(Int) /\ p \in {"status", "data"}
        BY <1>10
    <2>2. host' = [host EXCEPT !.urbs = rest, !.got = g, !.phase = p]
        BY <1>11
    <2> HIDE DEF g, p
    <2>3. /\ host' \in Host /\ host'.cmd = host.cmd /\ host'.left = host.left
          /\ host'.got = g /\ host'.csw = host.csw
          /\ host'.urbs = rest /\ host'.retried = host.retried /\ host'.phase = p
        BY <1>1, <2>1, <2>2 DEF Host
    <2> QED
        BY <2>3 DEF g, p
<1> QED
    BY <1>2, <1>4, <1>8, <1>9, <1>10, <1>11, <1>12 DEF a, rest

\* The pieces that are left follow what the host has now.
LEMMA AnswerPieces ==
    ASSUME MscInv, NEW data, AnswerSent(data), host.phase = "data", In(host.cmd),
           sendq[1].kind # "csw"
    PROVE  Pieces'
<1> DEFINE L == Len(sendq')
<1>1. /\ Len(sendq) \in Nat \ {0} /\ 1 \in 1..Len(sendq) /\ L = Len(sendq) - 1
      /\ \A i \in 1..L : i + 1 \in 1..Len(sendq) /\ sendq'[i] = sendq[i + 1]
      /\ sendq' \in Seq(MscAnswer) /\ msc' = msc /\ msc \in MscRecord
    BY AnswerFrame
<1>2. /\ IsData(sendq[1]) => /\ Len(data) = sendq[1].n /\ sendq[1].n \in Nat
                             /\ sendq[1].from = Base + Len(host.got)
      /\ ~IsData(sendq[1]) => Len(data) = 0
      /\ Len(host.got) \in Nat /\ host'.got = host.got \o data
      /\ Len(host.got \o data) = Len(host.got) + Len(data)
      /\ host'.cmd = host.cmd /\ Len(host'.got) = Len(host.got) + Len(data)
    BY DataLemma
<1>3. /\ InTotal(msc) <= host.cmd.len
      /\ msc.state = "DataIn" => \/ msc.offset < InTotal(msc)
                                 \/ msc.offset = 0 /\ InTotal(msc) = 0
      /\ \A i \in 1..Len(sendq) - 1 : IsData(sendq[i + 1]) => IsData(sendq[i])
      /\ \A i \in 1..Len(sendq) : IsData(sendq[i]) =>
            /\ sendq[i].owner = msc.owner /\ (sendq[i].kind = "file" <=> msc.mapped)
            /\ sendq[i].from >= Base /\ sendq[i].from + sendq[i].n <= Base + InTotal(msc)
            /\ i = 1 => sendq[i].from = Base + Len(host.got)
            /\ IF i < Len(sendq) /\ IsData(sendq[i + 1])
               THEN sendq[i + 1].from = sendq[i].from + sendq[i].n
               ELSE sendq[i].from + sendq[i].n = Base + Queued
      /\ (sendq = <<>> \/ ~IsData(sendq[1])) => Len(host.got) = Queued
    <2>1. Pieces /\ Sending
        BY DEF MscInv, Sending
    <2> QED
        BY <2>1 DEF Pieces
<1>4. Base' = Base /\ InTotal(msc)' = InTotal(msc) /\ Queued' = Queued /\ Base \in Nat
      /\ Queued \in Nat
    <2>1. Base \in Nat
        BY <1>1, Sizes, Product DEF Base, MscRecord
    <2>2. Queued \in Nat
        BY <1>1, InTotalNat DEF Queued, MscRecord
    <2> QED
        BY <1>1, <2>1, <2>2 DEF Base, InTotal, Queued
<1> DEFINE Good(i) ==
              /\ sendq'[i].owner = msc'.owner /\ (sendq'[i].kind = "file" <=> msc'.mapped)
              /\ sendq'[i].from >= Base /\ sendq'[i].from + sendq'[i].n <= Base + InTotal(msc)
              /\ i = 1 => sendq'[i].from = Base + Len(host'.got)
              /\ IF i < Len(sendq') /\ IsData(sendq'[i + 1])
                 THEN sendq'[i + 1].from = sendq'[i].from + sendq'[i].n
                 ELSE sendq'[i].from + sendq'[i].n = Base + Queued
<1>5. ASSUME NEW i \in 1..L, IsData(sendq'[i]) PROVE Good(i)
    <2>1. i + 1 \in 1..Len(sendq) /\ sendq'[i] = sendq[i + 1] /\ IsData(sendq[i + 1])
        BY <1>1, <1>5
    <2>2. /\ sendq[i + 1].owner = msc.owner /\ (sendq[i + 1].kind = "file" <=> msc.mapped)
          /\ sendq[i + 1].from >= Base /\ sendq[i + 1].from + sendq[i + 1].n <= Base + InTotal(msc)
          /\ IF i + 1 < Len(sendq) /\ IsData(sendq[(i + 1) + 1])
             THEN sendq[(i + 1) + 1].from = sendq[i + 1].from + sendq[i + 1].n
             ELSE sendq[i + 1].from + sendq[i + 1].n = Base + Queued
        BY <1>3, <2>1
    <2>3. IF i < L /\ IsData(sendq'[i + 1])
          THEN sendq'[i + 1].from = sendq'[i].from + sendq'[i].n
          ELSE sendq'[i].from + sendq'[i].n = Base + Queued
        <3>1. i < L <=> i + 1 < Len(sendq)
            BY <1>1
        <3>2. i < L => sendq'[i + 1] = sendq[(i + 1) + 1]
            BY <1>1
        <3> QED
            BY <2>1, <2>2, <3>1, <3>2
    <2>4. i = 1 => sendq'[1].from = Base + Len(host'.got)
        <3> SUFFICES ASSUME i = 1 PROVE sendq'[1].from = Base + Len(host'.got)
            OBVIOUS
        <3>1. 1 \in 1..Len(sendq) - 1 /\ 1 < Len(sendq)
            BY <1>1
        <3>2. IsData(sendq[1 + 1])
            BY <2>1
        <3>3. IsData(sendq[1])
            BY <1>3, <3>1, <3>2
        <3>4. sendq[1 + 1].from = sendq[1].from + sendq[1].n
            BY <1>1, <1>3, <3>1, <3>2, <3>3
        <3>5. sendq'[1] = sendq[1 + 1]
            BY <2>1
        <3> DEFINE g == Len(host.got)
                   n == sendq[1].n
                   b == Base
                   f == sendq[1].from
        <3>7. /\ Len(data) = sendq[1].n /\ sendq[1].n \in Nat /\ Len(host.got) \in Nat
              /\ sendq[1].from = Base + Len(host.got)
              /\ Len(host'.got) = Len(host.got) + sendq[1].n
            BY <1>2, <3>3
        <3>8. g \in Nat /\ n \in Nat /\ b \in Nat /\ f = b + g
            BY <1>4, <3>7
        <3> HIDE DEF g, n, b, f
        <3>9. f + n = b + (g + n)
            BY <3>8
        <3>10. sendq'[1].from = f + n
            BY <3>4, <3>5, Zenon DEF f, n
        <3>11. Len(host'.got) = g + n
            BY <3>7, Zenon DEF g, n
        <3> QED
            BY <3>9, <3>10, <3>11, Zenon DEF b
    <2> QED
        BY <1>1, <2>1, <2>2, <2>3, <2>4
<1>6. ASSUME NEW i \in 1..L - 1, IsData(sendq'[i + 1]) PROVE IsData(sendq'[i])
    <2>1. i + 1 \in 1..Len(sendq) - 1 /\ i \in 1..L /\ i + 1 \in 1..L
        BY <1>1
    <2>2. sendq'[i] = sendq[i + 1] /\ sendq'[i + 1] = sendq[(i + 1) + 1]
        BY <1>1, <2>1
    <2> QED
        BY <1>3, <1>6, <2>1, <2>2
<1>7. ASSUME sendq' = <<>> \/ ~IsData(sendq'[1]) PROVE Len(host'.got) = Queued
    <2>1. CASE IsData(sendq[1])
        <3>1. ~(1 < Len(sendq) /\ IsData(sendq[1 + 1]))
            <4> SUFFICES ASSUME 1 < Len(sendq) PROVE ~IsData(sendq[1 + 1])
                OBVIOUS
            <4>1. 1 \in 1..L /\ L # 0
                BY <1>1
            <4>2. sendq' # <<>>
                BY <4>1, EmptySeq
            <4> QED
                BY <1>1, <1>7, <4>1, <4>2
        <3>2. sendq[1].from + sendq[1].n = Base + Queued
            BY <1>1, <1>3, <2>1, <3>1
        <3> DEFINE g == Len(host.got)
                   n == sendq[1].n
                   b == Base
                   f == sendq[1].from
                   q == Queued
        <3>4. /\ sendq[1].n \in Nat /\ Len(host.got) \in Nat
              /\ sendq[1].from = Base + Len(host.got)
              /\ Len(host'.got) = Len(host.got) + sendq[1].n
            BY <1>2, <2>1
        <3>5. g \in Nat /\ n \in Nat /\ b \in Nat /\ q \in Nat /\ f = b + g /\ f + n = b + q
            BY <1>4, <3>2, <3>4
        <3> HIDE DEF g, n, b, f, q
        <3>6. g + n = q
            BY <3>5
        <3>7. Len(host'.got) = g + n
            BY <3>4, Zenon DEF g, n
        <3> QED
            BY <3>6, <3>7, Zenon DEF q
    <2>2. CASE ~IsData(sendq[1])
        BY <1>2, <1>3, <2>2
    <2> QED
        BY <2>1, <2>2
<1>8. \A i \in 1..Len(sendq') : IsData(sendq'[i]) => Good(i)
    BY <1>5
<1>9. \A i \in 1..Len(sendq') - 1 : IsData(sendq'[i + 1]) => IsData(sendq'[i])
    BY <1>6
<1> HIDE DEF L
<1> QED
    BY <1>1, <1>2, <1>3, <1>4, <1>7, <1>8, <1>9 DEF Pieces

\* Of a READ, what goes out is what comes next on the disk.
LEMMA AnswerRead ==
    ASSUME MscInv, NEW data, AnswerSent(data), host.phase = "data", In(host.cmd),
           sendq[1].kind # "csw", Reading, leftover = 0
    PROVE  host.got \o data =
               ReadAt(disk, host.cmd.lba * BlockUnits, Len(host.got \o data))
<1> DEFINE u == host.cmd.lba * BlockUnits
           k == Len(host.got)
           n == sendq[1].n
           f == sendq[1].from
           m == host.cmd.len
<1>1. /\ MscTypes /\ 1 \in 1..Len(sendq) /\ Head(sendq) = sendq[1] /\ sendq[1] \in MscAnswer
      /\ Proper(host.cmd) /\ host \in Host /\ msc \in MscRecord
    BY AnswerFrame
<1>2. /\ data \in Seq(Int) /\ msc.state # "DataOut"
      /\ IsData(sendq[1]) => Len(data) = n /\ n \in Nat /\ f = Base + k
                             /\ f + n <= Base + InTotal(msc)
      /\ ~IsData(sendq[1]) => data = <<>>
      /\ host.got \in Seq(Int) /\ k \in Nat
      /\ Len(host.got \o data) = k + Len(data)
    BY DataLemma
<1>3. /\ InTotal(msc) = m
      /\ msc.mapped => msc.lba = host.cmd.lba
      /\ ~msc.mapped => msc.staging = ReadAt(disk, u, m)
      /\ host.got = ReadAt(disk, u, k)
    BY DEF MscInv, ReadOk
<1>4. u \in Nat /\ m \in Nat /\ disk \in [Units -> Int]
    BY <1>1, Sizes, Product DEF MscTypes, Host, Command
<1>6. CASE ~IsData(sendq[1])
    <2>1. host.got \o data = host.got
        BY <1>2, <1>6, ConcatEmptySeq
    <2> QED
        BY <1>3, <2>1
<1>7. CASE IsData(sendq[1])
    <2>1. data = ReadAt(disk, u + k, n)
        <3>1. CASE sendq[1].kind = "file"
            <4>1. data = ReadAt(disk, f, n)
                BY <1>1, <3>1 DEF AnswerSent
            <4>2. Base = u
                BY <1>1, <1>3, <1>7, <3>1 DEF MscInv, Pieces, Sending, Base
            <4> QED
                BY <1>2, <1>7, <4>1, <4>2
        <3>2. CASE sendq[1].kind = "staging"
            <4>1. data = SubSeq(msc.staging, f + 1, f + n)
                BY <1>1, <3>2 DEF AnswerSent
            <4>2. ~msc.mapped
                <5>1. sendq[1].kind = "file" <=> msc.mapped
                    BY <1>1, <1>7 DEF MscInv, Pieces, Sending
                <5> QED
                    BY <3>2, <5>1
            <4>3. Base = 0
                BY <4>2 DEF Base
            <4>4. f = k /\ k + n <= m /\ n \in Nat
                <5>1. n \in Nat /\ k \in Nat /\ m \in Nat /\ f = 0 + k /\ f + n <= 0 + m
                    BY <1>2, <1>3, <1>4, <1>7, <4>3
                <5> HIDE DEF k, n, f, m
                <5> QED
                    BY <5>1
            <4>5. data = SubSeq(ReadAt(disk, u, m), k + 1, k + n)
                BY <1>3, <4>1, <4>2, <4>4
            <4> HIDE DEF u, k, n, f, m
            <4>6. SubSeq(ReadAt(disk, u, m), k + 1, k + n) = ReadAt(disk, u + k, n)
                <5>1. /\ disk \in [Units -> Int] /\ u \in Nat /\ m \in Nat /\ k \in Nat
                      /\ n \in Nat /\ k + n <= m
                    BY <1>2, <1>4, <4>4
                <5>2. \A d \in [Units -> Int], x \in Nat, y \in Nat, z \in Nat, w \in Nat :
                          z + w <= y => SubSeq(ReadAt(d, x, y), z + 1, z + w) = ReadAt(d, x + z, w)
                    BY PieceOfRead, Zenon
                <5>3. \A z \in Nat, w \in Nat :
                          z + w <= m => SubSeq(ReadAt(disk, u, m), z + 1, z + w) = ReadAt(disk, u + z, w)
                    BY <5>1, <5>2, Zenon
                <5> QED
                    BY <5>1, <5>3, Zenon
            <4> QED
                BY <4>5, <4>6
        <3> QED
            BY <1>7, <3>1, <3>2 DEF IsData
    <2>2. n \in Nat /\ Len(host.got \o data) = k + n
        BY <1>2, <1>7
    <2> HIDE DEF u, k, n, f, m
    <2>3. ReadAt(disk, u, k) \o ReadAt(disk, u + k, n) = ReadAt(disk, u, k + n)
        BY <1>2, <1>4, <2>2, ReadsJoin
    <2>4. host.got \o data = ReadAt(disk, u, k) \o ReadAt(disk, u + k, n)
        BY <1>3, <2>1, Zenon
    <2> QED
        BY <2>2, <2>3, <2>4, Zenon DEF u
<1> QED
    BY <1>6, <1>7

\* An answer to an IN URB of the data phase.
LEMMA AnswerIn ==
    ASSUME MscInv, NEW data, AnswerSent(data), host.phase = "data", In(host.cmd),
           sendq[1].kind # "csw"
    PROVE  MscInv'
<1> DEFINE rest == Tail(host.urbs)
           L == Len(sendq')
           ends == rest = <<>> /\ (host.left = 0 \/ Len(data) < host.urbs[1])
<1>1. /\ MscTypes /\ sendq \in Seq(MscAnswer) /\ sendq' \in Seq(MscAnswer)
      /\ 1 \in 1..Len(sendq) /\ Len(sendq) \in Nat \ {0} /\ L = Len(sendq) - 1
      /\ \A i \in 1..L : i + 1 \in 1..Len(sendq) /\ sendq'[i] = sendq[i + 1]
      /\ rest \in Seq(Nat) /\ Len(rest) = Len(host.urbs) - 1 /\ host.urbs \in Seq(Nat)
      /\ \A i \in 1..Len(rest) : rest[i] = host.urbs[i + 1]
      /\ Len(host.urbs) = Len(sendq) + IF recving = <<>> THEN 0 ELSE 1
      /\ recving = <<>> => (rest = <<>> <=> sendq' = <<>>)
      /\ Proper(host.cmd) /\ host \in Host /\ msc \in MscRecord
      /\ msc' = msc /\ disk' = disk /\ recving' = recving /\ leftover' = leftover
    BY AnswerFrame
<1>2. /\ recving = <<>> /\ msc.state # "DataOut"
      /\ IsData(sendq[1]) => Len(data) = sendq[1].n
      /\ host' \in Host /\ host'.cmd = host.cmd /\ host'.left = host.left
      /\ host'.got = host.got \o data /\ host'.csw = host.csw
      /\ host'.urbs = rest /\ host'.retried = host.retried
      /\ host'.phase = (IF ends THEN "status" ELSE "data")
      /\ image' = image
    BY DataLemma
<1>3. /\ host.cmd.len > 0 /\ host.cmd.len \in Nat /\ host.left \in Nat
      /\ \A i \in 1..Len(sendq) : sendq[i].kind # "ack"
      /\ msc.state # "Idle" => \A i \in 1..Len(sendq) : sendq[i].kind \notin {"csw", "stall"}
      /\ msc.state = "Idle" => \E i \in 1..Len(sendq) : sendq[i].kind = "csw"
      /\ \A i, j \in 1..Len(sendq) :
            i < j /\ sendq[i].kind \in {"csw", "stall"} => sendq[j].kind = "stall"
      /\ msc.state = "DataIn" =>
            /\ \A i \in 1..Len(sendq) : IsData(sendq[i]) /\ sendq[i].n = host.urbs[i]
            /\ msc.offset = host.cmd.len - host.left
    BY <1>1 DEF MscInv, Phases, InDataIn, Host, Command
<1>4. Pieces'
    BY AnswerPieces
<1> HIDE DEF L, rest, ends
<1>5. msc.state \in {"Idle", "DataIn", "Status"}
    BY <1>1, <1>2 DEF MscRecord
<1>6. Len(sendq) = 1 => msc.state # "Idle"
    <2> SUFFICES ASSUME Len(sendq) = 1, msc.state = "Idle" PROVE FALSE
        OBVIOUS
    <2>1. PICK i \in 1..Len(sendq) : sendq[i].kind = "csw"
        BY <1>3
    <2>2. i = 1
        BY <2>1
    <2> QED
        BY <2>1, <2>2
<1>7. ends => /\ msc.state = "Status" /\ sendq' = <<>> /\ L = 0
    <2> SUFFICES ASSUME ends PROVE msc.state = "Status" /\ sendq' = <<>> /\ L = 0
        OBVIOUS
    <2>1. sendq' = <<>> /\ L = 0 /\ Len(sendq) = 1
        BY <1>1, <1>2, EmptySeq DEF ends, L
    <2>2. msc.state # "DataIn"
        <3> SUFFICES ASSUME msc.state = "DataIn" PROVE FALSE
            OBVIOUS
        <3>1. IsData(sendq[1]) /\ sendq[1].n = host.urbs[1] /\ msc.offset = host.cmd.len - host.left
            BY <1>1, <1>3
        <3>2. Len(data) = host.urbs[1] /\ host.urbs[1] \in Nat
            <4>1. 1 \in 1..Len(host.urbs)
                BY <1>1, <1>2, <2>1
            <4> QED
                BY <1>1, <1>2, <3>1, <4>1, ElementOfSeq
        <3>3. host.left = 0
            BY <3>2 DEF ends
        <3>4. Pieces /\ Sending
            BY DEF MscInv, Sending
        <3>5. /\ InTotal(msc) <= host.cmd.len
              /\ msc.offset < InTotal(msc) \/ msc.offset = 0
            BY <3>4 DEF Pieces
        <3>6. InTotal(msc) \in Nat
            BY <1>1, InTotalNat
        <3> QED
            BY <1>3, <3>1, <3>3, <3>5, <3>6
    <2> QED
        BY <1>5, <1>6, <2>1, <2>2
<1>8. /\ MscTypes' /\ Clean' /\ PipeOk' /\ DataOutOk' /\ CswOk' /\ DiskOk' /\ ReadReturnsDisk'
      /\ (CswGood' <=> CswGood)
    BY <1>2, AnswerCommon
<1>9. UrbsAnswered'
    BY <1>1, <1>2 DEF UrbsAnswered, L
<1>10. ReadOk'
    <2>1. Reading' => Reading
        BY <1>1, <1>2, <1>8 DEF Reading
    <2>2. Reading /\ leftover = 0 => host'.got = ReadAt(disk, host.cmd.lba * BlockUnits, Len(host'.got))
        BY <1>2, AnswerRead
    <2>3. InTotal(msc)' = InTotal(msc)
        BY <1>1 DEF InTotal
    <2>4. host'.phase # "skipped"
        BY <1>2
    <2> QED
        BY <1>1, <1>2, <2>1, <2>2, <2>3, <2>4 DEF MscInv, ReadOk
<1>11. Phases'
    <2>1. Started'
        BY <1>1, <1>2 DEF MscInv, Phases, Started, InFlight
    <2>2. InDataIn'
        <3> SUFFICES ASSUME ~ends PROVE InDataIn'
            BY <1>2 DEF InDataIn
        <3>1. \A i \in 1..L : sendq'[i].kind # "ack"
            <4> TAKE i \in 1..L
            <4>1. i + 1 \in 1..Len(sendq) /\ sendq'[i] = sendq[i + 1]
                BY <1>1
            <4> QED
                BY <1>3, <4>1
        <3>2. msc.state # "Idle" => \A i \in 1..L : sendq'[i].kind \notin {"csw", "stall"}
            BY <1>1, <1>3
        <3>3. msc.state = "Idle" => \E i \in 1..L : sendq'[i].kind = "csw"
            <4> SUFFICES ASSUME msc.state = "Idle" PROVE \E i \in 1..L : sendq'[i].kind = "csw"
                OBVIOUS
            <4>1. PICK i \in 1..Len(sendq) : sendq[i].kind = "csw"
                BY <1>3
            <4>2. i # 1
                BY <4>1
            <4>3. i - 1 \in 1..L /\ (i - 1) + 1 = i
                BY <1>1, <4>2
            <4> QED
                BY <1>1, <4>1, <4>3
        <3>4. ASSUME NEW i \in 1..L, NEW j \in 1..L, i < j, sendq'[i].kind \in {"csw", "stall"}
              PROVE  sendq'[j].kind = "stall"
            <4>1. i + 1 < j + 1 /\ i + 1 \in 1..Len(sendq) /\ j + 1 \in 1..Len(sendq)
                <5>1. i \in Nat /\ j \in Nat /\ L \in Nat
                    BY <1>1
                <5>2. i + 1 < j + 1
                    BY <3>4, <5>1
                <5> QED
                    BY <1>1, <5>2
            <4> QED
                BY <1>1, <1>3, <3>4, <4>1
        <3>5. sendq' # <<>> => sendq'[1].kind # "stall"
            <4> SUFFICES ASSUME sendq' # <<>>, sendq'[1].kind = "stall" PROVE FALSE
                OBVIOUS
            <4>1. 1 \in 1..L
                BY <1>1, EmptySeq DEF L
            <4>2. 1 + 1 \in 1..Len(sendq) /\ sendq[1 + 1].kind = "stall" /\ 1 < 1 + 1
                BY <1>1, <4>1
            <4>3. msc.state = "Idle"
                BY <1>3, <4>2
            <4>4. PICK i \in 1..Len(sendq) : sendq[i].kind = "csw"
                BY <1>3, <4>3
            <4>5. i # 1 /\ i # 1 + 1
                BY <4>2, <4>4
            <4>6. 1 + 1 < i
                BY <4>5
            <4> QED
                BY <1>3, <4>2, <4>4, <4>6
        <3>6. ~(host.left = 0 /\ rest = <<>>)
            BY DEF ends
        <3>7. ASSUME msc.state = "DataIn"
              PROVE  \A i \in 1..L : IsData(sendq'[i]) /\ sendq'[i].n = rest[i]
            <4> TAKE i \in 1..L
            <4>1. i \in 1..Len(rest)
                BY <1>1, <1>2
            <4> QED
                BY <1>1, <1>3, <3>7, <4>1
        <3> QED
            BY <1>1, <1>2, <1>3, <3>1, <3>2, <3>3, <3>4, <3>5, <3>6, <3>7 DEF InDataIn, L
    <2>3. InStatus'
        <3> SUFFICES ASSUME ends PROVE InStatus'
            BY <1>2 DEF InStatus
        <3>1. piped' = {}
            BY <1>1, <1>2, <1>7, <1>8 DEF PipeOk
        <3>2. recving' = <<>> /\ sendq' = <<>> /\ Len(sendq') = 0 /\ msc'.state = "Status"
            BY <1>1, <1>2, <1>7 DEF L
        <3> QED
            BY <3>1, <3>2 DEF InStatus
    <2> QED
        BY <1>2, <2>1, <2>2, <2>3 DEF Phases, AtRest, InCommand, InDataOut, InSkipped
<1> QED
    BY <1>4, <1>8, <1>9, <1>10, <1>11 DEF MscInv

\* The host receives an answer, of any kind and in any phase.
LEMMA AnswerStep ==
    ASSUME MscInv, NEW data, AnswerSent(data)
    PROVE  MscInv'
<1>1. host \in Host /\ host.phase # "ready"
    BY AnswerFrame
<1>2. host.phase \in {"command", "data", "status", "skipped"}
    BY <1>1 DEF Host
<1>3. CASE sendq[1].kind = "csw"
    BY <1>3, AnswerCsw
<1>4. CASE host.phase = "data" /\ ~In(host.cmd)
    BY <1>4, AnswerOut
<1>5. CASE host.phase = "data" /\ In(host.cmd) /\ sendq[1].kind # "csw"
    BY <1>5, AnswerIn
<1>6. CASE host.phase = "status" /\ sendq[1].kind # "csw"
    BY <1>6, AnswerEmpty
<1> QED
    BY <1>2, <1>3, <1>4, <1>5, <1>6, AnswerCommand, AnswerSkipped

\* From staging, the mapping or the answer itself.
LEMMA FallbackStep ==
    ASSUME MscInv, SendFallback
    PROVE  MscInv'
<1> DEFINE a == Head(sendq)
           data == CASE a.kind = "staging" -> SubSeq(msc.staging, a.from + 1, a.from + a.n)
                     [] a.kind = "file" -> ReadAt(disk, a.from, a.n)
                     [] OTHER -> <<>>
<1>1. /\ sendq # <<>> /\ ~(a.kind = "file" /\ io = "spliced") /\ Receives(a, data)
      /\ sendq' = Tail(sendq) /\ pipe' = pipe /\ piped' = piped
      /\ UNCHANGED <<msc, disk, recving, read_only, io, ncmd, mscconn, leftover, widened>>
    BY DEF SendFallback, senderUnchanged, connUnchanged
<1>2. /\ sendq \in Seq(MscAnswer) /\ a = sendq[1] /\ a \in MscAnswer
      /\ pipe \in Seq(Int) /\ disk \in [Units -> Int]
    <2>1. sendq \in Seq(MscAnswer) /\ Len(sendq) \in Nat \ {0}
        BY <1>1, EmptySeq DEF MscInv, MscTypes
    <2>2. 1 \in 1..Len(sendq) /\ a = sendq[1]
        BY <2>1
    <2>3. sendq[1] \in MscAnswer
        BY <2>1, <2>2, ElementOfSeq
    <2> QED
        BY <2>1, <2>2, <2>3 DEF MscInv, MscTypes
<1>3. \/ piped = {} /\ Len(pipe) = leftover
      \/ piped = {"receiver"}
    BY <1>1, <1>2 DEF MscInv, PipeOk
<1>4. /\ a.kind = "staging" => data = SubSeq(msc.staging, a.from + 1, a.from + a.n)
      /\ a.kind = "file" => data = ReadAt(disk, a.from, a.n)
      /\ ~IsData(a) => data = <<>>
    BY DEF IsData
<1>5. a.kind = "file" => data \in Seq(Int) /\ Len(data) = a.n
    <2> SUFFICES ASSUME a.kind = "file" PROVE data \in Seq(Int) /\ Len(data) = a.n
        OBVIOUS
    <2>1. a.from \in Nat /\ a.n \in Nat
        BY <1>2 DEF MscAnswer, DataAnswer, CswAnswer, PlainAnswer
    <2>2. data = ReadAt(disk, a.from, a.n)
        BY <1>4
    <2> HIDE DEF a, data
    <2> QED
        BY <1>2, <2>1, <2>2, ReadType
<1>6. AnswerSent(data)
    BY <1>1, <1>2, <1>3, <1>4, <1>5 DEF AnswerSent
<1> HIDE DEF data
<1> QED
    BY <1>6, AnswerStep

\* From the pipe.
LEMMA SocketStep ==
    ASSUME MscInv, SendToSocket
    PROVE  MscInv'
<1> DEFINE a == Head(sendq)
           n == a.n
           data == SubSeq(pipe, 1, n)
<1>1. /\ "sender" \in piped /\ Receives(a, data) /\ sendq' = Tail(sendq)
      /\ pipe' = SubSeq(pipe, n + 1, Len(pipe)) /\ piped' = piped \ {"sender"}
      /\ UNCHANGED <<msc, disk, recving, read_only, io, ncmd, mscconn, leftover, widened>>
    BY DEF SendToSocket, senderUnchanged, connUnchanged
<1>2. /\ piped = {"sender"} /\ sendq # <<>> /\ sendq[1].kind = "file"
      /\ Len(pipe) = leftover + sendq[1].n
      /\ leftover = 0 => pipe = ReadAt(disk, sendq[1].from, sendq[1].n)
    BY <1>1 DEF MscInv, PipeOk
<1>3. /\ sendq \in Seq(MscAnswer) /\ a = sendq[1] /\ a \in MscAnswer
      /\ pipe \in Seq(Int) /\ disk \in [Units -> Int] /\ leftover \in Nat
    <2>1. sendq \in Seq(MscAnswer) /\ Len(sendq) \in Nat \ {0}
        BY <1>2, EmptySeq DEF MscInv, MscTypes
    <2>2. 1 \in 1..Len(sendq) /\ a = sendq[1]
        BY <2>1
    <2>3. sendq[1] \in MscAnswer
        BY <2>1, <2>2, ElementOfSeq
    <2> QED
        BY <2>1, <2>2, <2>3 DEF MscInv, MscTypes
<1>4. a.kind = "file" /\ n \in Nat \ {0} /\ a.from \in Nat
    BY <1>2, <1>3 DEF MscAnswer, DataAnswer, CswAnswer, PlainAnswer
<1>5. /\ data \in Seq(Int) /\ Len(data) = n
      /\ \A i \in 1..n : data[i] = pipe[i]
      /\ pipe' \in Seq(Int) /\ Len(pipe') = leftover
    <2>1. Len(pipe) = leftover + n
        BY <1>2, <1>3
    <2>2. pipe' = SubSeq(pipe, n + 1, Len(pipe))
        BY <1>1
    <2> HIDE DEF n
    <2> QED
        BY <1>3, <1>4, <2>1, <2>2
<1>6. leftover = 0 => data = ReadAt(disk, a.from, n)
    <2> SUFFICES ASSUME leftover = 0 PROVE data = ReadAt(disk, a.from, n)
        OBVIOUS
    <2>1. pipe = ReadAt(disk, a.from, n) /\ Len(pipe) = n
        BY <1>2, <1>3, <1>4
    <2>2. data = pipe
        <3> HIDE DEF data, n
        <3> QED
            BY <1>3, <1>4, <1>5, <2>1, SeqEqual
    <2> QED
        BY <2>1, <2>2
<1>7. piped' = {}
    BY <1>1, <1>2
<1>8. AnswerSent(data)
    <2> HIDE DEF data
    <2> QED
        BY <1>1, <1>2, <1>4, <1>5, <1>6, <1>7 DEF AnswerSent, IsData
<1> QED
    BY <1>8, AnswerStep

------------------------------------------------------------------------------
(* The invariant.                                                            *)

\* A handler just constructed.
LEMMA MscInvInit ==
    ASSUME MscInit
    PROVE  MscInv
<1>1. /\ read_only \in BOOLEAN /\ io \in {"staging", "mapped", "spliced"}
      /\ msc = FreshMsc /\ disk = [u \in Units |-> 0] /\ sendq = <<>>
      /\ pipe = <<>> /\ piped = {} /\ recving = <<>> /\ leftover = 0 /\ widened = FALSE
      /\ host = IdleHost /\ image = disk /\ ncmd = 0 /\ mscconn = 0
    BY DEF MscInit
<1>2. /\ msc.state = "Idle" /\ msc.offset = 0 /\ msc.out = "write" /\ ~msc.failed /\ ~msc.mapped
    BY <1>1 DEF FreshMsc
<1>3. /\ host.phase = "ready" /\ host.cmd.tag = 0 /\ host.csw = <<>> /\ host.urbs = <<>>
    BY <1>1 DEF IdleHost, NoCommand
<1>4. msc \in MscRecord /\ host \in Host
    BY <1>1, FreshType
<1>5. MscTypes
    <2>1. <<>> \in Seq(MscAnswer) /\ <<>> \in Seq(Int)
        BY EmptySeq
    <2>2. [u \in Units |-> 0] \in [Units -> Int]
        OBVIOUS
    <2> QED
        BY <1>1, <1>4, <2>1, <2>2 DEF MscTypes
<1>6. UrbsAnswered
    BY <1>1, <1>3, EmptySeq DEF UrbsAnswered
<1>7. Phases
    BY <1>1, <1>2, <1>3 DEF Phases, AtRest, Started, InFlight, InCommand, InDataOut, InDataIn,
          InStatus, InSkipped
<1>8. Clean
    BY <1>1, <1>2 DEF Clean
<1>9. Pieces /\ ReadOk /\ DataOutOk /\ DiskOk
    BY <1>3 DEF Pieces, Sending, ReadOk, Reading, DataOutOk, Collecting, InFlight, DiskOk
<1>10. CswOk
    BY <1>1, EmptySeq DEF CswOk
<1>11. PipeOk /\ ReadReturnsDisk
    BY <1>1, <1>3, EmptySeq DEF PipeOk, ReadReturnsDisk
<1> QED
    BY <1>5, <1>6, <1>7, <1>8, <1>9, <1>10, <1>11 DEF MscInv

\* Every step of the model keeps the invariant.
LEMMA MscInvNext ==
    ASSUME MscInv, [MscNext]_mscVars
    PROVE  MscInv'
<1>1. CASE MscConnect \/ MscReconnect
    BY <1>1, ConnectStep
<1>2. ASSUME NEW c \in Commands(ncmd + 1), HostCommand(c) PROVE MscInv'
    BY <1>2, CommandStep
<1>3. ASSUME NEW n \in 1..Blocks * BlockUnits, HostOut(n) \/ RecvDirect(n) \/ HostIn(n)
      PROVE  MscInv'
    <2>1. n \in Nat \ {0}
        BY Sizes, Product
    <2> QED
        BY <1>3, <2>1, OutStep, DirectStep, PieceStep, LateInStep
<1>4. CASE RecvToPipe
    BY <1>4, ToPipeStep
<1>5. CASE RecvToFile
    BY <1>5, ToFileStep
<1>6. CASE HostStatus
    BY <1>6, StatusStep
<1>7. CASE SendFallback
    BY <1>7, FallbackStep
<1>8. CASE SendToPipe
    BY <1>8, SendPipeStep
<1>9. CASE SendToSocket
    BY <1>9, SocketStep
<1>10. CASE UNCHANGED mscVars
    <2>1. /\ read_only' = read_only /\ io' = io /\ msc' = msc /\ disk' = disk /\ sendq' = sendq
          /\ pipe' = pipe /\ piped' = piped /\ recving' = recving /\ host' = host
          /\ image' = image /\ leftover' = leftover /\ widened' = widened
          /\ ncmd' = ncmd /\ mscconn' = mscconn
        BY <1>10 DEF mscVars
    <2>2. MscTypes' /\ UrbsAnswered' /\ Clean' /\ CswOk' /\ PipeOk' /\ ReadReturnsDisk'
        BY <2>1 DEF MscInv, MscTypes, UrbsAnswered, Clean, CswOk, PipeOk, ReadReturnsDisk
    <2>3. Phases'
        BY <2>1 DEF MscInv, Phases, AtRest, Exact, Started, InFlight, InCommand, InDataOut, InDataIn,
              InStatus, InSkipped, InTotal
    <2>4. Pieces'
        BY <2>1 DEF MscInv, Pieces, Sending, Queued, Base, InTotal
    <2>5. ReadOk' /\ DataOutOk'
        BY <2>1 DEF MscInv, ReadOk, Reading, CswGood, DataOutOk, Collecting, InFlight, Sent, Wanted,
              InTotal
    <2>6. DiskOk'
        BY <2>1, EffectSame DEF MscInv, DiskOk, Exact, Failing, Sent
    <2> QED
        BY <2>2, <2>3, <2>4, <2>5, <2>6 DEF MscInv
<1> QED
    BY <1>1, <1>2, <1>3, <1>4, <1>5, <1>6, <1>7, <1>8, <1>9, <1>10 DEF MscNext

\* Storage: whatever the host that keeps to the Bulk-Only protocol sends, in
\* whatever pieces and through whichever of the three ways to the image, the
\* handler, the queue of the sender and the splice pipe stay as MscInv says.
THEOREM MscInvariant == MscSpec => []MscInv
<1>1. MscInit => MscInv
    BY MscInvInit
<1>2. MscInv /\ [MscNext]_mscVars => MscInv'
    BY MscInvNext
<1> QED
    BY <1>1, <1>2, PTL DEF MscSpec

\* The members of the handler stay in their ranges: offset never passes the
\* data of the answer, and what fits the 16-bit count is not cut by it.
LEMMA MscTypeLemma == MscInv => MscTypeOK
<1> SUFFICES ASSUME MscInv PROVE MscTypeOK
    OBVIOUS
<1>1. /\ MscTypes /\ msc \in MscRecord /\ host \in Host
      /\ disk \in [Units -> Int] /\ image \in [Units -> Int]
    BY DEF MscInv, MscTypes
<1>2. InTotal(msc) \in Nat /\ msc.offset \in Nat
    BY <1>1, InTotalNat DEF MscRecord
<1>3. msc.offset <= InTotal(msc)
    <2>1. CASE msc.state # "DataIn"
        BY <1>2, <2>1 DEF MscInv, Clean
    <2>2. CASE msc.state = "DataIn"
        <3>1. host.phase \in {"command", "data", "status"} /\ In(host.cmd)
            BY <1>1, <2>2 DEF MscInv, Phases, AtRest, InSkipped, Started, InFlight, Host
        <3>2. \/ msc.offset < InTotal(msc)
              \/ msc.offset = 0 /\ InTotal(msc) = 0
            BY <2>2, <3>1 DEF MscInv, Pieces, Sending
        <3> QED
            BY <1>2, <3>2
    <2> QED
        BY <2>1, <2>2
<1>4. (msc.state = "DataOut" /\ msc.out # "same") => msc.cnt < CountWidth
    <2> SUFFICES ASSUME msc.state = "DataOut", msc.out # "same" PROVE msc.cnt < CountWidth
        OBVIOUS
    <2>1. InFlight
        BY <1>1 DEF MscInv, Phases, AtRest, InFlight
    <2> QED
        BY <1>1, <2>1 DEF MscInv, DataOutOk, Collecting, MscRecord
<1>5. msc.offset \in 0..InTotal(msc)
    BY <1>2, <1>3
<1> QED
    BY <1>1, <1>4, <1>5 DEF MscTypeOK, MscRecord, Host

\* What the invariant says of the image.
LEMMA DiskLemma == MscInv => DiskIsWhatHostWrote
BY DEF MscInv, Phases, AtRest, Exact, DiskIsWhatHostWrote

\* What it says of the status.
LEMMA StatusForLemma == MscInv => StatusForEveryCommand
<1> SUFFICES ASSUME MscInv PROVE StatusForEveryCommand
    OBVIOUS
<1>1. host.phase # "reset"
    BY DEF MscInv, MscTypes, Host
<1>2. AtRest
    BY DEF MscInv, Phases
<1> QED
    BY <1>1, <1>2 DEF AtRest, StatusForEveryCommand

\* What it says of the staging buffer: an answer that points into it is of the command in flight.
LEMMA StagingLemma == MscInv => StagingOutlivesSender
<1> SUFFICES ASSUME MscInv, NEW i \in DOMAIN sendq, sendq[i].kind = "staging"
             PROVE  /\ sendq[i].owner = msc.owner
                    /\ sendq[i].from + sendq[i].n <= Len(msc.staging)
    BY DEF StagingOutlivesSender
<1>1. sendq \in Seq(MscAnswer) /\ msc \in MscRecord /\ host \in Host
    BY DEF MscInv, MscTypes
<1>2. i \in 1..Len(sendq) /\ IsData(sendq[i]) /\ sendq # <<>>
    BY <1>1 DEF IsData
<1>3. Sending
    <2>1. host.phase # "ready"
        BY <1>2 DEF MscInv, Phases, AtRest
    <2>2. host.phase # "command"
        <3> SUFFICES ASSUME host.phase = "command" PROVE FALSE
            OBVIOUS
        <3>1. sendq = <<Ack>>
            BY DEF MscInv, Phases, InCommand
        <3>2. i = 1
            BY <1>2, <3>1
        <3>3. sendq[i] = Ack
            BY <3>1, <3>2
        <3> QED
            BY <3>3 DEF Ack
    <2>3. ~(host.phase = "data" /\ ~In(host.cmd))
        BY <1>2 DEF MscInv, Phases, InDataOut, Ack
    <2>4. host.phase # "skipped"
        BY <1>2 DEF MscInv, Phases, InSkipped
    <2>5. host.phase # "status"
        <3> SUFFICES ASSUME host.phase = "status" PROVE FALSE
            OBVIOUS
        <3>1. Len(sendq) <= 1 /\ sendq[1].kind \in {"csw", "empty"}
            BY <1>2 DEF MscInv, Phases, InStatus
        <3>2. i = 1
            BY <1>1, <1>2, <3>1
        <3> QED
            BY <3>1, <3>2
    <2> QED
        BY <1>1, <2>1, <2>2, <2>3, <2>4, <2>5 DEF Sending, Host
<1>4. /\ sendq[i].owner = msc.owner /\ (sendq[i].kind = "file" <=> msc.mapped)
      /\ sendq[i].from + sendq[i].n <= Base + InTotal(msc)
    BY <1>2, <1>3 DEF MscInv, Pieces
<1>5. Base = 0 /\ InTotal(msc) = Len(msc.staging) /\ Len(msc.staging) \in Nat
    BY <1>1, <1>4 DEF Base, InTotal, MscRecord
<1> QED
    BY <1>4, <1>5

\* What it says of the splice pipe.
LEMMA PipeLemma == MscInv => PipeHasOneUser
<1> SUFFICES ASSUME MscInv PROVE PipeHasOneUser
    OBVIOUS
<1>1. /\ piped = {} \/ piped = {"receiver"} \/ piped = {"sender"}
      /\ "receiver" \in piped => Len(pipe) = leftover + Len(recving)
      /\ "sender" \in piped => sendq # <<>> /\ Len(pipe) = leftover + sendq[1].n
      /\ piped = {} => Len(pipe) = leftover
    BY DEF MscInv, PipeOk
<1>2. Cardinality(piped) <= 1
    <2>1. Cardinality({}) = 0
        BY FS_EmptySet
    <2>2. Cardinality({"receiver"}) = 1 /\ Cardinality({"sender"}) = 1
        BY FS_Singleton
    <2>3. Cardinality(piped) = 0 \/ Cardinality(piped) = 1
        BY <1>1, <2>1, <2>2, Zenon
    <2> QED
        BY <2>3
<1>3. leftover \in Nat /\ pipe \in Seq(Int) /\ recving \in Seq(Int) /\ sendq \in Seq(MscAnswer)
    BY DEF MscInv, MscTypes
<1>4. "sender" \in piped => Head(sendq) = sendq[1] /\ sendq[1].n \in Nat
    <2> SUFFICES ASSUME "sender" \in piped PROVE Head(sendq) = sendq[1] /\ sendq[1].n \in Nat
        OBVIOUS
    <2>1. sendq # <<>> /\ sendq[1].kind = "file"
        BY DEF MscInv, PipeOk
    <2>2. 1 \in 1..Len(sendq) /\ Head(sendq) = sendq[1]
        BY <1>3, <2>1, EmptySeq
    <2>3. sendq[1] \in MscAnswer
        BY <1>3, <2>2, ElementOfSeq
    <2> QED
        BY <2>1, <2>2, <2>3 DEF MscAnswer, DataAnswer, CswAnswer, PlainAnswer
<1>5. Len(recving) \in Nat
    BY <1>3
<1>6. Len(pipe) = leftover + (IF "receiver" \in piped THEN Len(recving) ELSE 0)
                           + (IF "sender" \in piped THEN Head(sendq).n ELSE 0)
    <2>1. CASE piped = {}
        BY <1>1, <1>3, <2>1
    <2>2. CASE piped = {"receiver"}
        BY <1>1, <1>3, <1>5, <2>2
    <2>3. CASE piped = {"sender"}
        BY <1>1, <1>3, <1>4, <2>3
    <2> QED
        BY <1>1, <2>1, <2>2, <2>3
<1> QED
    BY <1>2, <1>6 DEF PipeHasOneUser

\* The members of the handler stay in their ranges, and a count that a data
\* phase waits for fits the 16 bits of write_count_.
THEOREM MscTypeCorrect == MscSpec => []MscTypeOK
BY MscInvariant, MscTypeLemma, PTL

\* Between two commands the image file is what the host believes it wrote:
\* on_out_data_received has then written all of a command that succeeded and
\* nothing of one that failed.  So in a connection that found the splice pipe
\* empty and asked for no hole that the back end widens to the blocks of the
\* file system.
THEOREM DiskCorrect == MscSpec => []DiskIsWhatHostWrote
BY MscInvariant, DiskLemma, PTL

\* READ (10) gives the host the blocks it asked for, in order and complete,
\* though the sender reads them after the receiver has queued the last piece;
\* in a connection that found the splice pipe empty.
THEOREM ReadCorrect == MscSpec => []ReadReturnsDisk
<1>1. MscInv => ReadReturnsDisk
    BY DEF MscInv
<1> QED
    BY <1>1, MscInvariant, PTL

\* Every command ends with one CSW that carries its tag, and the host never
\* has to reset the device.
THEOREM StatusCorrect == MscSpec => []StatusForEveryCommand
BY MscInvariant, StatusForLemma, PTL

\* No answer in the sender's queue points into a staging buffer that a later
\* CBW has cleared.
THEOREM StagingCorrect == MscSpec => []StagingOutlivesSender
BY MscInvariant, StagingLemma, PTL

\* recv_direct and send_direct never use the splice pipe at the same time, and
\* between two transfers it holds as much as the earlier connection left in it.
THEOREM PipeCorrect == MscSpec => []PipeHasOneUser
BY MscInvariant, PipeLemma, PTL

------------------------------------------------------------------------------
(* The wire.                                                                 *)

\* What holds of 0, and of the next number below n with each, holds up to n.
LEMMA Upwards ==
    ASSUME NEW n \in Nat, NEW G, 0 \in G, \A k \in 0..n - 1 : k \in G => k + 1 \in G
    PROVE  \A k \in 0..n : k \in G
<1>1. PICK B : B = {k \in 0..n : k \notin G}
    BY Zenon
<1>2. B = {}
    <2> SUFFICES ASSUME B # {} PROVE FALSE
        OBVIOUS
    <2>0. B \subseteq Nat
        BY <1>1
    <2>1. PICK x \in B : \A y \in B : ~(<<y, x>> \in OpToRel(<, Nat))
        BY <2>0, NatLessThanWellFounded, WFMin
    <2>2. \A y \in B : ~(y < x)
        BY <2>0, <2>1, Zenon DEF OpToRel
    <2>3. x \in 0..n /\ x \notin G /\ x # 0
        BY <1>1, <2>1
    <2>4. x - 1 \in 0..n - 1 /\ x - 1 \in 0..n /\ (x - 1) + 1 = x /\ x - 1 < x
        BY <2>3
    <2>5. x - 1 \in G
        BY <1>1, <2>2, <2>4
    <2> QED
        BY <2>3, <2>4, <2>5
<1> QED
    BY <1>1, <1>2

\* A sequence of something, one made of two, and one without its first n
IsSeq(s) == \E S : s \in Seq(S)
Chained(c, a, b) == c = a \o b
Dropped(c, a, n) == n \in 0..Len(a) /\ c = Drop(a, n)

\* What is appended to a stream, and what is left of it
LEMMA ChainedParts ==
    ASSUME NEW a, NEW b, NEW c, IsSeq(a), IsSeq(b), Chained(c, a, b)
    PROVE  /\ IsSeq(c) /\ Len(a) \in Nat /\ Len(b) \in Nat /\ Len(c) = Len(a) + Len(b)
           /\ \A i \in 1..Len(a) : c[i] = a[i]
           /\ \A i \in 1..Len(b) : c[Len(a) + i] = b[i]
<1>1. PICK S : a \in Seq(S)
    BY DEF IsSeq
<1>2. PICK T : b \in Seq(T)
    BY DEF IsSeq
<1>3. PICK U : U = S \cup T
    BY Zenon
<1>4. a \in Seq(U) /\ b \in Seq(U) /\ c = a \o b
    BY <1>1, <1>2, <1>3 DEF Chained
<1>5. c \in Seq(U) /\ Len(a) \in Nat /\ Len(b) \in Nat /\ Len(c) = Len(a) + Len(b)
    BY <1>4
<1>6. \A i \in 1..Len(a) + Len(b) : c[i] = IF i <= Len(a) THEN a[i] ELSE b[i - Len(a)]
    BY <1>4, ConcatProperties
<1>7. \A i \in 1..Len(a) : c[i] = a[i]
    BY <1>5, <1>6
<1>8. ASSUME NEW i \in 1..Len(b) PROVE c[Len(a) + i] = b[i]
    <2>1. Len(a) + i \in 1..Len(a) + Len(b) /\ ~(Len(a) + i <= Len(a)) /\ (Len(a) + i) - Len(a) = i
        BY <1>5
    <2> QED
        BY <1>6, <2>1
<1> QED
    BY <1>5, <1>7, <1>8 DEF IsSeq

LEMMA DropLeaves ==
    ASSUME NEW a, IsSeq(a), NEW d, NEW c, Dropped(c, a, d)
    PROVE  /\ IsSeq(c) /\ Len(a) \in Nat /\ Len(c) = Len(a) - d
           /\ \A i \in 1..Len(a) - d : c[i] = a[d + i]
           /\ d = Len(a) => c = <<>>
<1>1. PICK S : a \in Seq(S)
    BY DEF IsSeq
<1>2. PICK l : l = Len(a)
    BY Zenon
<1>3. l \in Nat /\ d \in 0..l
    BY <1>1, <1>2 DEF Dropped
<1>4. c = SubSeq(a, d + 1, l)
    BY <1>2 DEF Drop, Dropped
<1>5. c = [i \in 1..(l - d) |-> a[i + d]]
    BY <1>1, <1>2, <1>3, <1>4
<1>6. c \in Seq(S)
    BY <1>1, <1>2, <1>3, <1>4
<1>7. Len(c) = l - d /\ \A i \in 1..l - d : c[i] = a[d + i]
    BY <1>3, <1>5
<1>8. d = l => c = <<>>
    BY <1>3, <1>6, <1>7
<1> QED
    BY <1>2, <1>3, <1>6, <1>7, <1>8 DEF IsSeq

\* x is the beginning of st.
Starts(st, x) == Len(x) \in 0..Len(st) /\ \A j \in 1..Len(x) : st[j] = x[j]

\* The stream st consists of the n messages m; message i ends at at[i].
Framed(st, n, at, m) ==
    /\ n \in Nat /\ at[0] = 0 /\ at[n] = Len(st)
    /\ \A i \in 0..n : at[i] \in Nat
    /\ \A i, j \in 0..n : i <= j => at[i] <= at[j]
    /\ \A i \in 1..n : /\ IsSeq(m[i]) /\ at[i] = at[i - 1] + Len(m[i])
                       /\ \A j \in 1..Len(m[i]) : st[at[i - 1] + j] = m[i][j]
MadeOf(st, n, m) == IsSeq(st) /\ \E at : Framed(st, n, at, m)

\* An empty stream, and one with a first message
LEMMA FramedNone == \A m : MadeOf(<<>>, 0, m)
<1> TAKE m
<1>1. PICK at : at = [i \in {0} |-> 0]
    BY Zenon
<1>2. Framed(<<>>, 0, at, m)
    BY <1>1 DEF Framed
<1>3. IsSeq(<<>>)
    BY DEF IsSeq
<1> QED
    BY <1>2, <1>3 DEF MadeOf

LEMMA FramedEnds ==
    ASSUME NEW st, NEW n, NEW m, MadeOf(st, n, m)
    PROVE  n \in Nat /\ IsSeq(st) /\ (n = 0 => st = <<>>)
<1>1. PICK at : Framed(st, n, at, m)
    BY DEF MadeOf
<1>2. PICK S : st \in Seq(S)
    BY DEF MadeOf, IsSeq
<1>3. n \in Nat /\ at[0] = 0 /\ at[n] = Len(st)
    BY <1>1 DEF Framed
<1>4. n = 0 => st = <<>>
    BY <1>2, <1>3
<1> QED
    BY <1>2, <1>3, <1>4 DEF IsSeq

LEMMA FramedFirst ==
    ASSUME NEW st, NEW n, NEW m, MadeOf(st, n, m), n # 0, NEW x, x = m[1]
    PROVE  IsSeq(x) /\ Starts(st, x) /\ 1 \in 1..n
<1>1. PICK at : Framed(st, n, at, m)
    BY DEF MadeOf
<1>2. n \in Nat /\ at[0] = 0 /\ at[n] = Len(st)
    BY <1>1 DEF Framed
<1>3. 1 \in 1..n /\ 1 \in 0..n /\ n \in 0..n /\ 1 - 1 = 0 /\ 1 <= n
    BY <1>2
<1>4. IsSeq(x) /\ at[1] = at[0] + Len(x) /\ \A j \in 1..Len(x) : st[at[0] + j] = x[j]
    BY <1>1, <1>3 DEF Framed
<1>5. at[1] <= at[n] /\ at[1] \in Nat
    BY <1>1, <1>3 DEF Framed
<1>6. Len(x) \in Nat
    BY <1>4 DEF IsSeq
<1>7. Len(x) \in 0..Len(st)
    BY <1>2, <1>4, <1>5, <1>6
<1>8. \A j \in 1..Len(x) : st[j] = x[j]
    <2> TAKE j \in 1..Len(x)
    <2>1. at[0] + j = j
        BY <1>2, <1>6
    <2> QED
        BY <1>4, <2>1
<1> QED
    BY <1>3, <1>4, <1>7, <1>8 DEF Starts

\* One message more
LEMMA FramedMore ==
    ASSUME NEW st, NEW n, NEW m, MadeOf(st, n, m), NEW x, IsSeq(x), NEW t, Chained(t, st, x),
           NEW k, \A i \in 1..n : k[i] = m[i], k[n + 1] = x
    PROVE  MadeOf(t, n + 1, k)
<1>0. IsSeq(st)
    BY DEF MadeOf
<1>1. /\ IsSeq(t) /\ Len(st) \in Nat /\ Len(x) \in Nat /\ Len(t) = Len(st) + Len(x)
      /\ \A i \in 1..Len(st) : t[i] = st[i]
      /\ \A i \in 1..Len(x) : t[Len(st) + i] = x[i]
    BY <1>0, ChainedParts
<1>2. PICK at : Framed(st, n, at, m)
    BY DEF MadeOf
<1>3. /\ n \in Nat /\ at[0] = 0 /\ at[n] = Len(st)
      /\ \A i \in 0..n : at[i] \in Nat
      /\ \A i, j \in 0..n : i <= j => at[i] <= at[j]
      /\ \A i \in 1..n : /\ IsSeq(m[i]) /\ at[i] = at[i - 1] + Len(m[i])
                         /\ \A j \in 1..Len(m[i]) : st[at[i - 1] + j] = m[i][j]
    BY <1>2 DEF Framed
<1>4. PICK b : b = [i \in 0..n + 1 |-> IF i = n + 1 THEN Len(t) ELSE at[i]]
    BY Zenon
<1>5. b[n + 1] = Len(t) /\ \A i \in 0..n : b[i] = at[i]
    BY <1>3, <1>4
<1>6. n + 1 \in Nat /\ b[0] = 0 /\ \A i \in 0..n + 1 : b[i] \in Nat
    BY <1>1, <1>3, <1>5
<1>7. \A i, j \in 0..n + 1 : i <= j => b[i] <= b[j]
    <2> TAKE i, j \in 0..n + 1
    <2> HAVE i <= j
    <2>1. CASE j \in 0..n
        <3>1. i \in 0..n /\ b[i] = at[i] /\ b[j] = at[j]
            BY <1>3, <1>5, <2>1
        <3> QED
            BY <1>3, <2>1, <3>1
    <2>2. CASE i \in 0..n /\ j = n + 1
        <3>1. at[i] <= at[n] /\ at[i] \in Nat
            BY <1>3, <2>2
        <3>2. b[i] = at[i] /\ b[j] = Len(t)
            BY <1>5, <2>2
        <3> QED
            BY <1>1, <1>3, <3>1, <3>2
    <2>3. CASE i = n + 1 /\ j = n + 1
        <3>1. b[i] \in Nat /\ b[j] = b[i]
            BY <1>6, <2>3
        <3> QED
            BY <3>1
    <2> QED
        BY <1>3, <2>1, <2>2, <2>3
<1>8. \A i \in 1..n + 1 : /\ IsSeq(k[i]) /\ b[i] = b[i - 1] + Len(k[i])
                          /\ \A j \in 1..Len(k[i]) : t[b[i - 1] + j] = k[i][j]
    <2> TAKE i \in 1..n + 1
    <2>1. CASE i \in 1..n
        <3>0. PICK y, p, q : y = m[i] /\ p = at[i - 1] /\ q = at[i]
            BY Zenon
        <3>1. i \in 0..n /\ i - 1 \in 0..n /\ n \in 0..n /\ i <= n
            BY <1>3, <2>1
        <3>2. IsSeq(y) /\ q = p + Len(y) /\ \A j \in 1..Len(y) : st[p + j] = y[j]
            BY <1>3, <2>1, <3>0
        <3>3. b[i] = q /\ b[i - 1] = p /\ k[i] = y /\ p \in Nat /\ q \in Nat
            BY <1>3, <1>5, <2>1, <3>0, <3>1
        <3>4. q <= Len(st)
            BY <1>3, <3>0, <3>1
        <3>5. Len(y) \in Nat
            BY <3>2 DEF IsSeq
        <3>6. ASSUME NEW j \in 1..Len(y) PROVE t[p + j] = y[j]
            <4>1. p + j \in 1..Len(st)
                BY <1>1, <3>2, <3>3, <3>4, <3>5
            <4> QED
                BY <1>1, <3>2, <4>1
        <3> QED
            BY <3>2, <3>3, <3>6
    <2>2. CASE i = n + 1
        <3>1. i - 1 = n /\ n \in 0..n
            BY <1>3, <2>2
        <3>2. b[i - 1] = Len(st) /\ b[i] = Len(t) /\ k[i] = x
            BY <1>3, <1>5, <2>2, <3>1
        <3> QED
            BY <1>1, <3>2
    <2> QED
        BY <1>3, <2>1, <2>2
<1>9. Framed(t, n + 1, b, k)
    BY <1>5, <1>6, <1>7, <1>8 DEF Framed
<1> QED
    BY <1>1, <1>9 DEF MadeOf

\* One message less, the first
LEMMA FramedLess ==
    ASSUME NEW st, NEW n, NEW m, MadeOf(st, n, m), n # 0, NEW x, x = m[1],
           NEW t, t = Drop(st, Len(x)), NEW k, \A i \in 1..n - 1 : k[i] = m[i + 1]
    PROVE  MadeOf(t, n - 1, k)
<1>1. PICK l : l = Len(x)
    BY Zenon
<1>2. IsSeq(st) /\ l \in 0..Len(st)
    BY <1>1, FramedFirst DEF MadeOf, Starts
<1>3. /\ IsSeq(t) /\ Len(st) \in Nat /\ Len(t) = Len(st) - l
      /\ \A i \in 1..Len(st) - l : t[i] = st[l + i]
      /\ l = Len(st) => t = <<>>
    <2>1. Dropped(t, st, l)
        BY <1>1, <1>2 DEF Dropped
    <2>2. IsSeq(st)
        BY <1>2
    <2> QED
        BY <2>1, <2>2, DropLeaves
<1>4. PICK at : Framed(st, n, at, m)
    BY DEF MadeOf
<1>5. /\ n \in Nat /\ at[0] = 0 /\ at[n] = Len(st)
      /\ \A i \in 0..n : at[i] \in Nat
      /\ \A i, j \in 0..n : i <= j => at[i] <= at[j]
      /\ \A i \in 1..n : /\ IsSeq(m[i]) /\ at[i] = at[i - 1] + Len(m[i])
                         /\ \A j \in 1..Len(m[i]) : st[at[i - 1] + j] = m[i][j]
    BY <1>4 DEF Framed
<1>6. n >= 1 /\ 1 \in 1..n /\ 1 \in 0..n /\ 1 - 1 = 0 /\ l \in Nat
    BY <1>2, <1>3, <1>5
<1>7. at[1] = l
    <2>1. at[1] = at[1 - 1] + Len(m[1])
        BY <1>5, <1>6
    <2> QED
        BY <1>1, <1>5, <1>6, <2>1
<1>8. PICK b : b = [i \in 0..n - 1 |-> at[i + 1] - l]
    BY Zenon
<1>9. \A i \in 0..n - 1 : b[i] = at[i + 1] - l /\ i + 1 \in 0..n /\ at[i + 1] \in Nat /\ l <= at[i + 1]
    <2> TAKE i \in 0..n - 1
    <2>1. i + 1 \in 0..n /\ 1 <= i + 1
        BY <1>5, <1>6
    <2>2. at[1] <= at[i + 1] /\ at[i + 1] \in Nat
        BY <1>5, <1>6, <2>1
    <2> QED
        BY <1>7, <1>8, <2>1, <2>2
<1>10. n - 1 \in Nat /\ b[0] = 0 /\ b[n - 1] = Len(t) /\ \A i \in 0..n - 1 : b[i] \in Nat
    <2>1. 0 \in 0..n - 1 /\ n - 1 \in 0..n - 1 /\ 0 + 1 = 1 /\ (n - 1) + 1 = n /\ n - 1 \in Nat
        BY <1>5, <1>6
    <2>2. b[0] = at[0 + 1] - l /\ b[n - 1] = at[(n - 1) + 1] - l
        BY <1>9, <2>1
    <2>3. b[0] = 0 /\ b[n - 1] = Len(t)
        BY <1>3, <1>5, <1>6, <1>7, <2>1, <2>2
    <2>4. \A i \in 0..n - 1 : b[i] \in Nat
        BY <1>6, <1>9
    <2> QED
        BY <2>1, <2>3, <2>4
<1>11. \A i, j \in 0..n - 1 : i <= j => b[i] <= b[j]
    <2> TAKE i, j \in 0..n - 1
    <2> HAVE i <= j
    <2>1. i + 1 \in 0..n /\ j + 1 \in 0..n /\ i + 1 <= j + 1
        BY <1>5
    <2>2. at[i + 1] <= at[j + 1]
        BY <1>5, <2>1
    <2> QED
        BY <1>6, <1>9, <2>2
<1>12. \A i \in 1..n - 1 : /\ IsSeq(k[i]) /\ b[i] = b[i - 1] + Len(k[i])
                           /\ \A j \in 1..Len(k[i]) : t[b[i - 1] + j] = k[i][j]
    <2> TAKE i \in 1..n - 1
    <2>1. PICK y, p, q : y = m[i + 1] /\ p = at[i] /\ q = at[i + 1]
        BY Zenon
    <2>2. /\ i + 1 \in 1..n /\ (i + 1) - 1 = i /\ i - 1 \in 0..n - 1 /\ (i - 1) + 1 = i
          /\ i \in 0..n - 1 /\ i + 1 \in 0..n /\ n \in 0..n /\ i + 1 <= n
        <3>1. n \in Nat /\ i \in Int /\ 1 <= i /\ i <= n - 1
            BY <1>5
        <3> HIDE <1>5
        <3> QED
            BY <3>1
    <2>3. IsSeq(y) /\ q = p + Len(y) /\ \A j \in 1..Len(y) : st[p + j] = y[j]
        BY <1>5, <2>1, <2>2
    <2>4. p \in Nat /\ l <= p /\ q \in Nat /\ b[i] = q - l /\ b[i - 1] = p - l /\ k[i] = y
        BY <1>9, <2>1, <2>2
    <2>5. q <= Len(st)
        BY <1>5, <2>1, <2>2
    <2>6. Len(y) \in Nat
        BY <2>3 DEF IsSeq
    <2>7. ASSUME NEW j \in 1..Len(y) PROVE t[b[i - 1] + j] = y[j]
        <3>1. b[i - 1] + j \in 1..Len(st) - l /\ l + (b[i - 1] + j) = p + j
            BY <1>3, <1>6, <2>3, <2>4, <2>5, <2>6
        <3> QED
            BY <1>3, <2>3, <3>1
    <2>8. b[i] = b[i - 1] + Len(y)
        BY <1>6, <2>3, <2>4, <2>6
    <2> QED
        BY <2>3, <2>4, <2>7, <2>8
<1>13. Framed(t, n - 1, b, k)
    BY <1>10, <1>11, <1>12 DEF Framed
<1> QED
    BY <1>3, <1>13 DEF MadeOf

\* The function that FlattenSeq defines exists.
Flat(g, ms, n) == g = [i \in 1..n |-> IF i = 1 THEN ms[i] ELSE g[i - 1] \o ms[i]]
LEMMA FlatExists ==
    ASSUME NEW ms, NEW n \in Nat
    PROVE  \E g : Flat(g, ms, n)
<1>1. PICK G : G = {k \in Nat : \E g : Flat(g, ms, k)}
    BY Zenon
<1>2. 0 \in G
    <2>1. PICK g : g = [i \in 1..0 |-> 0]
        BY Zenon
    <2>2. g = [i \in 1..0 |-> IF i = 1 THEN ms[i] ELSE g[i - 1] \o ms[i]]
        BY <2>1
    <2> QED
        BY <1>1, <2>2 DEF Flat
<1>3. ASSUME NEW k \in 0..n - 1, k \in G PROVE k + 1 \in G
    <2>1. PICK g : Flat(g, ms, k)
        BY <1>1, <1>3
    <2>2. PICK z : z = IF k = 0 THEN ms[1] ELSE g[k] \o ms[k + 1]
        BY Zenon
    <2>3. PICK h : h = [i \in 1..k + 1 |-> IF i = k + 1 THEN z ELSE g[i]]
        BY Zenon
    <2>4. \A i \in 1..k + 1 : h[i] = IF i = 1 THEN ms[i] ELSE h[i - 1] \o ms[i]
        <3> TAKE i \in 1..k + 1
        <3>1. CASE i \in 1..k
            <4>0. h[i] = g[i]
                BY <2>3, <3>1
            <4>1. g[i] = IF i = 1 THEN ms[i] ELSE g[i - 1] \o ms[i]
                BY <2>1, <3>1, Zenon DEF Flat
            <4>2. i # 1 => h[i - 1] = g[i - 1]
                BY <2>3, <3>1
            <4> QED
                BY <4>0, <4>1, <4>2
        <3>2. CASE i = k + 1 /\ k = 0
            <4>1. h[i] = ms[1] /\ i = 1
                BY <2>2, <2>3, <3>2
            <4> QED
                BY <4>1
        <3>3. CASE i = k + 1 /\ k # 0
            <4>1. i # 1 /\ i - 1 = k /\ h[k] = g[k]
                BY <2>3, <3>3
            <4>2. h[i] = g[k] \o ms[k + 1]
                BY <2>2, <2>3, <3>3
            <4> QED
                BY <3>3, <4>1, <4>2
        <3> QED
            BY <3>1, <3>2, <3>3
    <2>5. h = [i \in 1..k + 1 |-> h[i]]
        BY <2>3
    <2>6. h = [i \in 1..k + 1 |-> IF i = 1 THEN ms[i] ELSE h[i - 1] \o ms[i]]
        BY <2>4, <2>5, Zenon
    <2>7. k + 1 \in Nat
        OBVIOUS
    <2> QED
        BY <1>1, <2>6, <2>7, Zenon DEF Flat
<1>4. \A k \in 0..n : k \in G
    BY <1>2, <1>3, Upwards
<1> QED
    BY <1>1, <1>4

\* A sequence of messages, one after the other, is a stream of them.
LEMMA FlattenFramed ==
    ASSUME NEW ms, NEW n, IsSeq(ms), n = Len(ms), \A i \in 1..n : IsSeq(ms[i])
    PROVE  MadeOf(FlattenSeq(ms), n, ms)
<1>1. n \in Nat /\ (n = 0 => ms = <<>>)
    BY DEF IsSeq
<1>2. CASE n = 0
    BY <1>1, <1>2, FramedNone DEF FlattenSeq
<1>3. CASE n # 0
    <2>1. PICK h : h = CHOOSE g : Flat(g, ms, n)
        BY Zenon
    <2>2. FlattenSeq(ms) = h[n]
        BY <1>3, <2>1, Zenon DEF FlattenSeq, Flat
    <2>3. Flat(h, ms, n)
        BY <1>1, <2>1, FlatExists, Zenon
    <2>4. PICK G : G = {k \in Nat : k # 0 => MadeOf(h[k], k, ms)}
        BY Zenon
    <2>5. 0 \in G
        BY <2>4
    <2>6. ASSUME NEW k \in 0..n - 1, k \in G PROVE k + 1 \in G
        <3>1. k + 1 \in 1..n /\ k + 1 \in Nat /\ (k + 1) - 1 = k /\ k \in Nat
            BY <1>1
        <3>2. PICK x, t : x = ms[k + 1] /\ t = h[k + 1]
            BY Zenon
        <3>3. IsSeq(x)
            BY <3>1, <3>2
        <3>4. t = IF k + 1 = 1 THEN x ELSE h[k] \o x
            BY <2>3, <3>1, <3>2 DEF Flat
        <3>5. MadeOf(t, k + 1, ms)
            <4>1. CASE k = 0
                <5>1. t = <<>> \o x
                    <6>1. t = x
                        BY <3>4, <4>1
                    <6>2. PICK S : x \in Seq(S)
                        BY <3>3 DEF IsSeq
                    <6> QED
                        BY <6>1, <6>2, ConcatEmptySeq
                <5>2. PICK e : e = <<>>
                    BY Zenon
                <5>3. MadeOf(e, 0, ms) /\ Chained(t, e, x)
                    BY <5>1, <5>2, FramedNone DEF Chained
                <5>4. (\A i \in 1..0 : ms[i] = ms[i]) /\ ms[0 + 1] = x
                    BY <3>2, <4>1
                <5>5. MadeOf(t, 0 + 1, ms)
                    BY <3>3, <5>3, <5>4, FramedMore
                <5> QED
                    BY <4>1, <5>5
            <4>2. CASE k # 0
                <5>1. PICK st : st = h[k]
                    BY Zenon
                <5>2. MadeOf(st, k, ms)
                    BY <2>4, <2>6, <4>2, <5>1
                <5>3. Chained(t, st, x)
                    BY <3>1, <3>4, <4>2, <5>1 DEF Chained
                <5>4. \A i \in 1..k : ms[i] = ms[i]
                    OBVIOUS
                <5> QED
                    BY <3>2, <3>3, <5>2, <5>3, <5>4, FramedMore
            <4> QED
                BY <4>1, <4>2
        <3> QED
            BY <2>4, <3>1, <3>2, <3>5, Zenon
    <2>7. \A k \in 0..n : k \in G
        BY <1>1, <2>5, <2>6, Upwards
    <2> QED
        BY <1>1, <1>3, <2>2, <2>4, <2>7
<1> QED
    BY <1>2, <1>3

\* What adds up the first n elements of s is their sum.
Sums(g, w, n) == g = [i \in 0..n |-> IF i = 0 THEN 0 ELSE g[i - 1] + w[i]]
LEMMA SumToIs ==
    ASSUME NEW s, NEW n \in Nat, NEW g, g[0] = 0,
           \A i \in 1..n : s[i] \in Nat /\ g[i] = g[i - 1] + s[i]
    PROVE  SumTo(s, n) = g[n] /\ g[n] \in Nat
<1>1. PICK f : f = [i \in 0..n |-> g[i]]
    BY Zenon
<1>2. f = [i \in 0..n |-> f[i]] /\ \A i \in 0..n : f[i] = IF i = 0 THEN 0 ELSE f[i - 1] + s[i]
    <2>1. f = [i \in 0..n |-> f[i]]
        BY <1>1
    <2>2. ASSUME NEW i \in 0..n PROVE f[i] = IF i = 0 THEN 0 ELSE f[i - 1] + s[i]
        <3>1. f[i] = g[i] /\ (i # 0 => f[i - 1] = g[i - 1])
            BY <1>1
        <3>2. i # 0 => g[i] = g[i - 1] + s[i]
            OBVIOUS
        <3> QED
            BY <3>1, <3>2
    <2> QED
        BY <2>1, <2>2
<1>3. Sums(f, s, n)
    BY <1>2, Zenon DEF Sums
<1>4. PICK h : h = CHOOSE x : Sums(x, s, n)
    BY Zenon
<1>5. Sums(h, s, n)
    BY <1>3, <1>4, Zenon
<1>6. SumTo(s, n) = h[n]
    BY <1>4, Zenon DEF SumTo, Sums
<1>7. PICK G : G = {k \in 0..n : h[k] = g[k] /\ g[k] \in Nat}
    BY Zenon
<1>8. 0 \in G
    BY <1>5, <1>7 DEF Sums
<1>9. ASSUME NEW k \in 0..n - 1, k \in G PROVE k + 1 \in G
    <2>1. k + 1 \in 1..n /\ (k + 1) - 1 = k /\ k + 1 \in 0..n
        OBVIOUS
    <2>2. h[k + 1] = h[k] + s[k + 1] /\ g[k + 1] = g[k] + s[k + 1] /\ s[k + 1] \in Nat
        BY <1>5, <2>1 DEF Sums
    <2> QED
        BY <1>7, <1>9, <2>1, <2>2
<1>10. \A k \in 0..n : k \in G
    BY <1>8, <1>9, Upwards
<1> QED
    BY <1>6, <1>7, <1>10

\* What is given place by place is a sequence.
LEMMA PlacesMakeSeq ==
    ASSUME NEW n \in Nat, NEW f, f = [i \in 1..n |-> f[i]]
    PROVE  IsSeq(f) /\ Len(f) = n
<1>1. PICK S : S = {f[i] : i \in 1..n}
    BY Zenon
<1>2. \A i \in 1..n : f[i] \in S
    BY <1>1
<1>3. f \in [1..n -> S]
    BY <1>2
<1>4. f \in Seq(S)
    BY <1>3
<1> QED
    BY <1>3, <1>4 DEF IsSeq

\* A header, data and descriptors in one message
Message(x, h, d, p) == x = h \o d \o p
LEMMA ThreeParts ==
    ASSUME NEW h, NEW d, NEW p, IsSeq(h), IsSeq(d), IsSeq(p), NEW x, Message(x, h, d, p)
    PROVE  /\ IsSeq(x) /\ Len(h) \in Nat /\ Len(d) \in Nat /\ Len(p) \in Nat
           /\ Len(x) = Len(h) + Len(d) + Len(p)
           /\ \A i \in 1..Len(h) : x[i] = h[i]
           /\ \A i \in 1..Len(d) : x[Len(h) + i] = d[i]
           /\ \A i \in 1..Len(p) : x[Len(h) + Len(d) + i] = p[i]
<1>1. PICK y : y = h \o d
    BY Zenon
<1>2. Chained(y, h, d) /\ Chained(x, y, p)
    BY <1>1, Zenon DEF Chained, Message
<1>3. /\ IsSeq(y) /\ Len(h) \in Nat /\ Len(d) \in Nat /\ Len(y) = Len(h) + Len(d)
      /\ \A i \in 1..Len(h) : y[i] = h[i]
      /\ \A i \in 1..Len(d) : y[Len(h) + i] = d[i]
    BY <1>2, ChainedParts
<1>4. /\ IsSeq(x) /\ Len(y) \in Nat /\ Len(p) \in Nat /\ Len(x) = Len(y) + Len(p)
      /\ \A i \in 1..Len(y) : x[i] = y[i]
      /\ \A i \in 1..Len(p) : x[Len(y) + i] = p[i]
    <2>1. IsSeq(y) /\ IsSeq(p)
        BY <1>3
    <2>2. Chained(x, y, p)
        BY <1>2
    <2> QED
        BY <2>1, <2>2, ChainedParts
<1>5. \A i \in 1..Len(h) : x[i] = h[i]
    BY <1>3, <1>4
<1>6. \A i \in 1..Len(d) : x[Len(h) + i] = d[i]
    BY <1>3, <1>4
<1>7. \A i \in 1..Len(p) : x[Len(h) + Len(d) + i] = p[i]
    BY <1>3, <1>4
<1> QED
    BY <1>3, <1>4, <1>5, <1>6, <1>7

\* Bytes as cells of a stream
LEMMA PayloadCells ==
    ASSUME NEW b, IsSeq(b), NEW d, d = Payload(b)
    PROVE  /\ IsSeq(d) /\ Len(d) = Len(b) /\ Len(b) \in Nat
           /\ \A i \in 1..Len(b) : Is(d[i], "data", 1) /\ d[i].v = b[i]
<1>1. PICK n : n = Len(b)
    BY Zenon
<1>2. n \in Nat /\ DOMAIN b = 1..n
    BY <1>1 DEF IsSeq
<1>3. d = [i \in 1..n |-> Cell("data", 1, b[i])]
    BY <1>2 DEF Payload
<1>4. d = [i \in 1..n |-> d[i]]
    BY <1>3
<1>5. IsSeq(d) /\ Len(d) = n
    BY <1>2, <1>4, PlacesMakeSeq
<1>6. \A i \in 1..n : Is(d[i], "data", 1) /\ d[i].v = b[i]
    BY <1>3 DEF Cell, Is
<1> QED
    BY <1>1, <1>2, <1>5, <1>6

\* The fixed fields of a CMD_SUBMIT
LEMMA SubmitHeader ==
    ASSUME NEW s, NEW urb, NEW h,
           h = <<Cell("command", 4, "submit"), Cell("seqnum", 4, s), Cell("devid", 4, 0),
                 Cell("direction", 4, urb.in), Cell("ep", 4, IF urb.ep0 THEN 0 ELSE 1),
                 Cell("transfer_flags", 4, 0), Cell("transfer_buffer_length", 4, urb.len),
                 Cell("start_frame", 4, 0), Cell("number_of_packets", 4, WirePackets(urb)),
                 Cell("interval", 4, 0), Cell("setup", 8, 0)>>
    PROVE  /\ IsSeq(h) /\ Len(h) = 11
           /\ \A i \in 1..11 : Is(h[i], SubmitFields[i], SubmitWidths[i])
           /\ h[1].v = "submit" /\ h[2].v = s /\ h[4].v = urb.in /\ h[7].v = urb.len
           /\ h[9].v = WirePackets(urb)
<1>1. h = [i \in 1..11 |-> h[i]]
    OBVIOUS
<1>2. IsSeq(h) /\ Len(h) = 11
    BY <1>1, PlacesMakeSeq
<1>3. \A i \in 1..11 : Is(h[i], SubmitFields[i], SubmitWidths[i])
    BY DEF Is, Cell, SubmitFields, SubmitWidths
<1>4. /\ h[1].v = "submit" /\ h[2].v = s /\ h[4].v = urb.in /\ h[7].v = urb.len
      /\ h[9].v = WirePackets(urb)
    BY DEF Cell
<1> QED
    BY <1>2, <1>3, <1>4

\* A CMD_SUBMIT as the reader takes it apart
SubmitAt(x, s, urb) ==
    /\ IsSeq(x) /\ \A i \in 1..11 : Is(x[i], SubmitFields[i], SubmitWidths[i])
    /\ x[1].v = "submit" /\ x[2].v = s /\ x[4].v = urb.in /\ x[7].v = urb.len
    /\ x[9].v = WirePackets(urb)
    /\ OutLength(urb.in, urb.len) \in Nat /\ Len(urb.packets) \in Nat
    /\ Len(x) = 11 + OutLength(urb.in, urb.len) + Len(urb.packets)
    /\ \A i \in 12..11 + OutLength(urb.in, urb.len) : Is(x[i], "data", 1)
    /\ \A i \in 12 + OutLength(urb.in, urb.len)..Len(x) : Is(x[i], "iso", 16)

LEMMA SubmitWritten ==
    ASSUME NEW s, NEW urb \in WireUrbs, NEW x, x = CmdSubmit(s, urb)
    PROVE  SubmitAt(x, s, urb)
<1>1. PICK h : h = <<Cell("command", 4, "submit"), Cell("seqnum", 4, s), Cell("devid", 4, 0),
                     Cell("direction", 4, urb.in), Cell("ep", 4, IF urb.ep0 THEN 0 ELSE 1),
                     Cell("transfer_flags", 4, 0), Cell("transfer_buffer_length", 4, urb.len),
                     Cell("start_frame", 4, 0), Cell("number_of_packets", 4, WirePackets(urb)),
                     Cell("interval", 4, 0), Cell("setup", 8, 0)>>
    BY Zenon
<1>2. PICK d : d = IF urb.in THEN <<>> ELSE Payload([i \in 1..urb.len |-> <<s, i>>])
    BY Zenon
<1>3. PICK p : p = [i \in DOMAIN urb.packets |->
                       IsoDesc(SumTo(urb.packets, i - 1), urb.packets[i],
                               IF urb.in THEN 0 ELSE urb.packets[i])]
    BY Zenon
<1>4. x = h \o d \o p
    BY <1>1, <1>2, <1>3, Zenon DEF CmdSubmit
<1>5. /\ IsSeq(h) /\ Len(h) = 11
      /\ \A i \in 1..11 : Is(h[i], SubmitFields[i], SubmitWidths[i])
      /\ h[1].v = "submit" /\ h[2].v = s /\ h[4].v = urb.in /\ h[7].v = urb.len
      /\ h[9].v = WirePackets(urb)
    BY <1>1, SubmitHeader
<1>6. PICK D, N : D = OutLength(urb.in, urb.len) /\ N = Len(urb.packets)
    BY Zenon
<1>7. urb.in \in BOOLEAN /\ urb.len \in Nat /\ urb.packets \in Seq(Nat)
    BY UsbIpWireAssumption
<1>8. D \in Nat /\ N \in Nat /\ DOMAIN urb.packets = 1..N
    BY <1>6, <1>7 DEF OutLength
<1>9. IsSeq(d) /\ Len(d) = D /\ \A i \in 1..D : Is(d[i], "data", 1)
    <2>1. CASE urb.in
        BY <1>2, <1>6, <2>1 DEF IsSeq, OutLength
    <2>2. CASE ~urb.in
        <3>1. PICK b : b = [i \in 1..urb.len |-> <<s, i>>]
            BY Zenon
        <3>2. b = [i \in 1..urb.len |-> b[i]]
            BY <3>1
        <3>3. IsSeq(b) /\ Len(b) = urb.len
            BY <1>7, <3>2, PlacesMakeSeq
        <3>4. d = Payload(b) /\ D = urb.len
            BY <1>2, <1>6, <2>2, <3>1 DEF OutLength
        <3> QED
            BY <3>3, <3>4, PayloadCells
    <2> QED
        BY <2>1, <2>2
<1>10. IsSeq(p) /\ Len(p) = N /\ \A i \in 1..N : Is(p[i], "iso", 16)
    <2>1. p = [i \in 1..N |-> p[i]]
        BY <1>3, <1>8
    <2>2. IsSeq(p) /\ Len(p) = N
        BY <1>8, <2>1, PlacesMakeSeq
    <2>3. \A i \in 1..N : Is(p[i], "iso", 16)
        BY <1>3, <1>8 DEF IsoDesc, Cell, Is
    <2> QED
        BY <2>2, <2>3
<1>11. /\ IsSeq(x) /\ Len(h) \in Nat /\ Len(d) \in Nat /\ Len(p) \in Nat
       /\ Len(x) = Len(h) + Len(d) + Len(p)
       /\ \A i \in 1..Len(h) : x[i] = h[i]
       /\ \A i \in 1..Len(d) : x[Len(h) + i] = d[i]
       /\ \A i \in 1..Len(p) : x[Len(h) + Len(d) + i] = p[i]
    <2>1. IsSeq(h) /\ IsSeq(d) /\ IsSeq(p) /\ Message(x, h, d, p)
        BY <1>4, <1>5, <1>9, <1>10 DEF Message
    <2> QED
        BY <2>1, ThreeParts
<1>12. \A i \in 1..11 : x[i] = h[i]
    BY <1>5, <1>11
<1>13. Len(x) = 11 + D + N
    BY <1>5, <1>9, <1>10, <1>11
<1>14. \A i \in 12..11 + D : Is(x[i], "data", 1)
    <2> TAKE i \in 12..11 + D
    <2>1. i - 11 \in 1..D /\ 11 + (i - 11) = i
        BY <1>8
    <2>2. x[11 + (i - 11)] = d[i - 11]
        BY <1>5, <1>9, <1>11, <2>1
    <2> QED
        BY <1>9, <2>1, <2>2
<1>15. \A i \in 12 + D..Len(x) : Is(x[i], "iso", 16)
    <2> TAKE i \in 12 + D..Len(x)
    <2>1. i - (11 + D) \in 1..N /\ 11 + D + (i - (11 + D)) = i
        BY <1>8, <1>13
    <2>2. x[11 + D + (i - (11 + D))] = p[i - (11 + D)]
        BY <1>5, <1>9, <1>10, <1>11, <2>1
    <2> QED
        BY <1>10, <2>1, <2>2
<1>16. /\ \A i \in 1..11 : Is(x[i], SubmitFields[i], SubmitWidths[i])
       /\ x[1].v = "submit" /\ x[2].v = s /\ x[4].v = urb.in /\ x[7].v = urb.len
       /\ x[9].v = WirePackets(urb)
    BY <1>5, <1>12
<1> QED
    BY <1>6, <1>8, <1>11, <1>13, <1>14, <1>15, <1>16 DEF SubmitAt

\* and finds it whole at the beginning of a stream
LEMMA SubmitRead ==
    ASSUME NEW s, NEW urb \in WireUrbs, NEW x, SubmitAt(x, s, urb), NEW st, IsSeq(st), Starts(st, x)
    PROVE  /\ st # <<>> /\ Finds(st, SubmitFields, SubmitWidths) /\ st[1].v = "submit"
           /\ st[2].v = s /\ ReadsSubmit(st).ok /\ ReadsSubmit(st).rest = Drop(st, Len(x))
<1>1. PICK D, N, l : D = OutLength(urb.in, urb.len) /\ N = Len(urb.packets) /\ l = Len(st)
    BY Zenon
<1>2. /\ D \in Nat /\ N \in Nat /\ Len(x) = 11 + D + N
      /\ \A i \in 12..11 + D : Is(x[i], "data", 1)
      /\ \A i \in 12 + D..11 + D + N : Is(x[i], "iso", 16)
    BY <1>1 DEF SubmitAt
<1>3. l \in Nat /\ l >= 11 + D + N /\ l >= 11 /\ \A i \in 1..11 + D + N : st[i] = x[i]
    BY <1>1, <1>2 DEF Starts, IsSeq
<1>4. /\ \A i \in 1..11 : st[i] = x[i]
      /\ \A i \in 12..11 + D : st[i] = x[i]
      /\ \A i \in 12 + D..11 + D + N : st[i] = x[i]
    BY <1>2, <1>3
<1>5. st[1].v = "submit" /\ st[2].v = s /\ st[4].v = urb.in /\ st[7].v = urb.len
      /\ st[9].v = WirePackets(urb)
    BY <1>4 DEF SubmitAt
<1>6. st # <<>>
    BY <1>1, <1>3
<1>7. Finds(st, SubmitFields, SubmitWidths)
    <2>1. Len(SubmitFields) = 11 /\ DOMAIN SubmitFields = 1..11
        BY DEF SubmitFields
    <2>2. \A i \in 1..11 : Is(st[i], SubmitFields[i], SubmitWidths[i])
        BY <1>4 DEF SubmitAt
    <2> QED
        BY <1>1, <1>3, <2>1, <2>2 DEF Finds
<1>8. NumIso(st[9].v) = N
    <2>1. urb.packets \in Seq(Nat) /\ N < NonIso /\ N \in Nat /\ NonIso \in Nat
        BY <1>1, UsbIpWireAssumption
    <2>2. st[9].v = IF urb.packets # <<>> THEN N ELSE NonIso
        BY <1>1, <1>5 DEF WirePackets, Iso
    <2>3. urb.packets = <<>> <=> N = 0
        BY <1>1, <2>1
    <2> QED
        BY <2>1, <2>2, <2>3 DEF NumIso
<1>9. OutLength(st[4].v, st[7].v) = D
    BY <1>1, <1>5
<1>10. PICK ok : ok = /\ Len(st) >= 11 + D + N
                      /\ \A i \in 12..11 + D : Is(st[i], "data", 1)
                      /\ \A i \in 12 + D..11 + D + N : Is(st[i], "iso", 16)
    BY Zenon
<1>11. ok
    BY <1>1, <1>2, <1>3, <1>4, <1>10
<1>12. PICK ds : ds = [i \in 1..N |-> st[11 + D + i].v]
    BY Zenon
<1>13. ReadsSubmit(st) = [ok |-> ok, descs |-> ds, rest |-> Drop(st, 11 + D + N)]
    BY <1>8, <1>9, <1>10, <1>12, Zenon DEF ReadsSubmit
<1>14. ReadsSubmit(st).ok = ok /\ ReadsSubmit(st).rest = Drop(st, 11 + D + N)
    BY <1>13
<1> QED
    BY <1>2, <1>5, <1>6, <1>7, <1>11, <1>14

\* The two messages about an unlink
UnlinkAt(x, n, s) ==
    /\ IsSeq(x) /\ Len(x) = 7 /\ \A i \in 1..7 : Is(x[i], UnlinkFields[i], UnlinkWidths[i])
    /\ x[1].v = "unlink" /\ x[2].v = n /\ x[6].v = s
RetUnlinkAt(x, n) ==
    /\ IsSeq(x) /\ Len(x) = 7 /\ \A i \in 1..7 : Is(x[i], RetUnlinkFields[i], UnlinkWidths[i])
    /\ x[1].v = "unlink" /\ x[2].v = n

LEMMA UnlinkWritten == ASSUME NEW n, NEW s, NEW x, x = CmdUnlink(n, s) PROVE UnlinkAt(x, n, s)
<1>1. x = <<Cell("command", 4, "unlink"), Cell("seqnum", 4, n), Cell("devid", 4, 0),
            Cell("direction", 4, 0), Cell("ep", 4, 0), Cell("unlink_seqnum", 4, s),
            Cell("padding", 24, 0)>>
    BY DEF CmdUnlink
<1>2. x = [i \in 1..7 |-> x[i]]
    BY <1>1
<1>3. IsSeq(x) /\ Len(x) = 7
    BY <1>2, PlacesMakeSeq
<1>4. \A i \in 1..7 : Is(x[i], UnlinkFields[i], UnlinkWidths[i])
    BY <1>1 DEF Is, Cell, UnlinkFields, UnlinkWidths
<1>5. x[1].v = "unlink" /\ x[2].v = n /\ x[6].v = s
    BY <1>1 DEF Cell
<1> QED
    BY <1>3, <1>4, <1>5 DEF UnlinkAt

LEMMA RetUnlinkWritten ==
    ASSUME NEW n, NEW status, NEW x, x = RetUnlinked(n, status) PROVE RetUnlinkAt(x, n)
<1>1. x = <<Cell("command", 4, "unlink"), Cell("seqnum", 4, n), Cell("devid", 4, 0),
            Cell("direction", 4, 0), Cell("ep", 4, 0), Cell("status", 4, status),
            Cell("padding", 24, 0)>>
    BY DEF RetUnlinked
<1>2. x = [i \in 1..7 |-> x[i]]
    BY <1>1
<1>3. IsSeq(x) /\ Len(x) = 7
    BY <1>2, PlacesMakeSeq
<1>4. \A i \in 1..7 : Is(x[i], RetUnlinkFields[i], UnlinkWidths[i])
    BY <1>1 DEF Is, Cell, RetUnlinkFields, UnlinkWidths
<1>5. x[1].v = "unlink" /\ x[2].v = n
    BY <1>1 DEF Cell
<1> QED
    BY <1>3, <1>4, <1>5 DEF RetUnlinkAt

LEMMA UnlinkRead ==
    ASSUME NEW n, NEW s, NEW x, UnlinkAt(x, n, s), NEW st, IsSeq(st), Starts(st, x)
    PROVE  /\ st # <<>> /\ Finds(st, UnlinkFields, UnlinkWidths) /\ st[1].v = "unlink"
           /\ st[2].v = n /\ st[6].v = s /\ Len(UnlinkFields) = Len(x)
<1>1. Len(x) = 7 /\ Len(st) \in Nat /\ Len(st) >= 7 /\ \A i \in 1..7 : st[i] = x[i]
    BY DEF Starts, IsSeq, UnlinkAt
<1>2. Len(UnlinkFields) = 7 /\ DOMAIN UnlinkFields = 1..7
    BY DEF UnlinkFields
<1>3. \A i \in 1..7 : Is(st[i], UnlinkFields[i], UnlinkWidths[i])
    BY <1>1 DEF UnlinkAt
<1>4. Finds(st, UnlinkFields, UnlinkWidths)
    BY <1>1, <1>2, <1>3 DEF Finds
<1>5. st[1].v = "unlink" /\ st[2].v = n /\ st[6].v = s
    BY <1>1 DEF UnlinkAt
<1>6. st # <<>>
    BY <1>1
<1> QED
    BY <1>1, <1>2, <1>4, <1>5, <1>6

LEMMA RetUnlinkRead ==
    ASSUME NEW n, NEW x, RetUnlinkAt(x, n), NEW st, IsSeq(st), Starts(st, x)
    PROVE  /\ st # <<>> /\ Finds(st, RetUnlinkFields, UnlinkWidths) /\ st[1].v = "unlink"
           /\ st[2].v = n /\ Len(RetUnlinkFields) = Len(x)
<1>1. Len(x) = 7 /\ Len(st) \in Nat /\ Len(st) >= 7 /\ \A i \in 1..7 : st[i] = x[i]
    BY DEF Starts, IsSeq, RetUnlinkAt
<1>2. Len(RetUnlinkFields) = 7 /\ DOMAIN RetUnlinkFields = 1..7
    BY DEF RetUnlinkFields
<1>3. \A i \in 1..7 : Is(st[i], RetUnlinkFields[i], UnlinkWidths[i])
    BY <1>1 DEF RetUnlinkAt
<1>4. Finds(st, RetUnlinkFields, UnlinkWidths)
    BY <1>1, <1>2, <1>3 DEF Finds
<1>5. st[1].v = "unlink" /\ st[2].v = n
    BY <1>1 DEF RetUnlinkAt
<1>6. st # <<>>
    BY <1>1
<1> QED
    BY <1>1, <1>2, <1>4, <1>5, <1>6

\* The l elements of b after the first o
CutOut(c, b, o, l) == o \in Nat /\ l \in Nat /\ o + l <= Len(b) /\ c = SubSeq(b, o + 1, o + l)
LEMMA CutParts ==
    ASSUME NEW b, IsSeq(b), NEW o, NEW l, NEW c, CutOut(c, b, o, l)
    PROVE  IsSeq(c) /\ Len(c) = l /\ \A k \in 1..l : c[k] = b[o + k]
<1>1. PICK S : b \in Seq(S)
    BY DEF IsSeq
<1>2. c = [k \in 1..l |-> b[k + o]] /\ l \in Nat /\ o \in Nat
    BY <1>1 DEF CutOut
<1>3. c = [k \in 1..l |-> c[k]] /\ \A k \in 1..l : c[k] = b[o + k]
    <2>1. c = [k \in 1..l |-> c[k]]
        BY <1>2
    <2>2. ASSUME NEW k \in 1..l PROVE c[k] = b[o + k]
        <3>1. c[k] = b[k + o]
            BY <1>2
        <3>2. k + o = o + k
            BY <1>2
        <3> QED
            BY <3>1, <3>2
    <2> QED
        BY <2>1, <2>2
<1> QED
    BY <1>2, <1>3, PlacesMakeSeq

\* A device's buffer for the slots: slot i begins at at[i - 1], where the sum of
\* the slots before it says, and has its first actual[i] bytes from the device.
BufferAt(b, s, rooms, n, actual, at) ==
    /\ IsSeq(b) /\ at[0] = 0 /\ at[n] = Len(b)
    /\ \A i \in 0..n : at[i] \in Nat /\ at[i] = SumTo(rooms, i) /\ at[i] <= Len(b)
    /\ \A i \in 1..n : /\ at[i] = at[i - 1] + rooms[i]
                       /\ \A k \in 1..rooms[i] : k <= actual[i] => b[at[i - 1] + k] = <<s, i, k>>
LEMMA BufferFilled ==
    ASSUME NEW s, NEW rooms \in Seq(Nat), NEW n, n = Len(rooms), NEW actual,
           NEW ms, ms = [i \in DOMAIN rooms |->
                       [k \in 1..rooms[i] |-> IF k <= actual[i] THEN <<s, i, k>> ELSE <<s, 0, 0>>]],
           NEW b, b = FlattenSeq(ms)
    PROVE  \E at : BufferAt(b, s, rooms, n, actual, at)
<1>1. n \in Nat /\ DOMAIN rooms = 1..n /\ \A i \in 1..n : rooms[i] \in Nat
    OBVIOUS
<1>2. ms = [i \in 1..n |-> ms[i]]
    BY <1>1
<1>3. IsSeq(ms) /\ Len(ms) = n
    BY <1>1, <1>2, PlacesMakeSeq
<1>4. \A i \in 1..n : ms[i] = [k \in 1..rooms[i] |-> IF k <= actual[i] THEN <<s, i, k>> ELSE <<s, 0, 0>>]
    BY <1>1
<1>5. \A i \in 1..n : IsSeq(ms[i]) /\ Len(ms[i]) = rooms[i]
    <2> TAKE i \in 1..n
    <2>1. PICK f, l : f = ms[i] /\ l = rooms[i]
        BY Zenon
    <2>2. f = [k \in 1..l |-> f[k]] /\ l \in Nat
        BY <1>1, <1>4, <2>1
    <2> QED
        BY <2>1, <2>2, PlacesMakeSeq
<1>6. MadeOf(b, n, ms)
    BY <1>3, <1>5, FlattenFramed
<1>7. IsSeq(b)
    BY <1>6 DEF MadeOf
<1>8. PICK at : Framed(b, n, at, ms)
    BY <1>6 DEF MadeOf
<1>9. /\ at[0] = 0 /\ at[n] = Len(b)
      /\ \A i \in 0..n : at[i] \in Nat
      /\ \A i, j \in 0..n : i <= j => at[i] <= at[j]
      /\ \A i \in 1..n : /\ at[i] = at[i - 1] + Len(ms[i])
                         /\ \A j \in 1..Len(ms[i]) : b[at[i - 1] + j] = ms[i][j]
    BY <1>8 DEF Framed
<1>10. \A i \in 1..n : at[i] = at[i - 1] + rooms[i]
    <2> TAKE i \in 1..n
    <2>1. Len(ms[i]) = rooms[i]
        BY <1>5
    <2>2. at[i] = at[i - 1] + Len(ms[i])
        BY <1>9
    <2> QED
        BY <2>1, <2>2
<1>11. \A i \in 0..n : at[i] = SumTo(rooms, i)
    <2> TAKE i \in 0..n
    <2>1. i \in Nat /\ \A j \in 1..i : rooms[j] \in Nat /\ at[j] = at[j - 1] + rooms[j]
        BY <1>1, <1>10
    <2>2. at[0] = 0
        BY <1>9
    <2>3. SumTo(rooms, i) = at[i] /\ at[i] \in Nat
        BY <2>1, <2>2, SumToIs
    <2> QED
        BY <2>3
<1>12. \A i \in 0..n : at[i] <= Len(b)
    <2> TAKE i \in 0..n
    <2>1. n \in 0..n /\ i <= n
        BY <1>1
    <2> QED
        BY <1>9, <2>1
<1>13. ASSUME NEW i \in 1..n, NEW k \in 1..rooms[i], k <= actual[i]
       PROVE  b[at[i - 1] + k] = <<s, i, k>>
    <2>1. b[at[i - 1] + k] = ms[i][k]
        BY <1>5, <1>9, <1>13
    <2>2. ms[i][k] = <<s, i, k>>
        BY <1>4, <1>13
    <2> QED
        BY <2>1, <2>2
<1>14. BufferAt(b, s, rooms, n, actual, at)
    <2>1. at[0] = 0 /\ at[n] = Len(b) /\ \A i \in 0..n : at[i] \in Nat
        BY <1>9
    <2> QED
        BY <1>7, <1>10, <1>11, <1>12, <1>13, <2>1 DEF BufferAt
<1> QED
    BY <1>14

\* What follows the fixed fields of a RET_SUBMIT with l bytes and n packets, and
\* where in it are the bytes that the device put into each packet
TailAt(t, urb, l, n) ==
    /\ IsSeq(t) /\ n \in Nat /\ (urb.in => l \in Nat)
    /\ Len(t) = (IF urb.in THEN l ELSE 0) + n
    /\ \A i \in 1..IF urb.in THEN l ELSE 0 : Is(t[i], "data", 1)
    /\ \A i \in 1..n : Is(t[(IF urb.in THEN l ELSE 0) + i], "iso", 16)
BytesAt(t, s, f, l, n, m, at) ==
    /\ m = (IF n = 0 THEN 1 ELSE n) /\ f = [i \in 1..m |-> f[i]] /\ at[0] = 0 /\ at[m] = l
    /\ \A i \in 0..m : at[i] \in Nat /\ at[i] <= l
    /\ \A i \in 1..m : /\ f[i] \in Nat /\ at[i] = at[i - 1] + f[i]
                       /\ \A k \in 1..f[i] : t[at[i - 1] + k].v = <<s, i, k>>
    /\ n # 0 => \A i \in 1..n : t[l + i].v.actual = f[i]
TailIs(t, s, urb, f, l, n) ==
    TailAt(t, urb, l, n) /\ (urb.in /\ f # <<>> => \E m, at : BytesAt(t, s, f, l, n, m, at))

\* The packets' bytes one after the other, without the gaps between slots
PacketsOf(d, b, rooms, actual, pk) ==
    /\ pk = [i \in DOMAIN rooms |->
                SubSeq(b, SumTo(rooms, i - 1) + 1, SumTo(rooms, i - 1) + actual[i])]
    /\ d = FlattenSeq(pk)
HasLess(actual, rooms, n) ==
    /\ rooms \in Seq(Nat) /\ n = Len(rooms)
    /\ \A i \in 1..n : actual[i] \in Nat /\ actual[i] <= rooms[i]
PackedAt(d, s, actual, n, at) ==
    /\ at[0] = 0 /\ at[n] = Len(d)
    /\ \A i \in 0..n : at[i] \in Nat /\ at[i] <= Len(d)
    /\ \A i \in 1..n : /\ at[i] = at[i - 1] + actual[i]
                       /\ \A k \in 1..actual[i] : d[at[i - 1] + k] = <<s, i, k>>
LEMMA PacketsPacked ==
    ASSUME NEW s, NEW rooms, NEW n, NEW actual, NEW b, NEW bt,
           BufferAt(b, s, rooms, n, actual, bt),
           HasLess(actual, rooms, n), NEW pk, NEW d, PacketsOf(d, b, rooms, actual, pk)
    PROVE  /\ IsSeq(d) /\ Len(d) = SumTo(actual, n)
           /\ \E at : PackedAt(d, s, actual, n, at)
<1>1. n \in Nat /\ DOMAIN rooms = 1..n /\ \A i \in 1..n : rooms[i] \in Nat
    BY DEF HasLess
<1>2. \A i \in 1..n : /\ IsSeq(pk[i]) /\ Len(pk[i]) = actual[i]
                      /\ \A k \in 1..actual[i] : pk[i][k] = <<s, i, k>>
    <2> TAKE i \in 1..n
    <2>1. i - 1 \in 0..n /\ i \in 0..n
        BY <1>1
    <2>2. PICK o, l, c : o = bt[i - 1] /\ l = actual[i] /\ c = pk[i]
        BY Zenon
    <2>3. /\ o \in Nat /\ o = SumTo(rooms, i - 1) /\ bt[i] = o + rooms[i] /\ bt[i] <= Len(b)
          /\ \A k \in 1..rooms[i] : k <= l => b[o + k] = <<s, i, k>>
        BY <2>1, <2>2 DEF BufferAt
    <2>4. l \in Nat /\ l <= rooms[i] /\ rooms[i] \in Nat
        BY <1>1, <2>2 DEF HasLess
    <2>5. IsSeq(b)
        BY DEF BufferAt
    <2>6. Len(b) \in Nat
        BY <2>5 DEF IsSeq
    <2>7. o + l <= Len(b)
        BY <2>3, <2>4, <2>6
    <2>8. c = SubSeq(b, o + 1, o + l)
        BY <1>1, <2>2, <2>3 DEF PacketsOf
    <2>9. IsSeq(c) /\ Len(c) = l /\ \A k \in 1..l : c[k] = b[o + k]
        <3>1. CutOut(c, b, o, l)
            BY <2>3, <2>4, <2>7, <2>8 DEF CutOut
        <3> QED
            BY <2>5, <3>1, CutParts
    <2>10. \A k \in 1..l : c[k] = <<s, i, k>>
        <3> TAKE k \in 1..l
        <3>1. k \in 1..rooms[i] /\ k <= l
            BY <2>4
        <3> QED
            BY <2>3, <2>9, <3>1
    <2> QED
        BY <2>2, <2>9, <2>10
<1>3. pk = [i \in 1..n |-> pk[i]]
    BY <1>1 DEF PacketsOf
<1>4. IsSeq(pk) /\ Len(pk) = n
    BY <1>1, <1>3, PlacesMakeSeq
<1>5. MadeOf(d, n, pk)
    BY <1>2, <1>4, FlattenFramed DEF PacketsOf
<1>6. PICK at : Framed(d, n, at, pk)
    BY <1>5 DEF MadeOf
<1>7. /\ at[0] = 0 /\ at[n] = Len(d)
      /\ \A i \in 0..n : at[i] \in Nat
      /\ \A i, j \in 0..n : i <= j => at[i] <= at[j]
      /\ \A i \in 1..n : /\ at[i] = at[i - 1] + Len(pk[i])
                         /\ \A j \in 1..Len(pk[i]) : d[at[i - 1] + j] = pk[i][j]
    BY <1>6 DEF Framed
<1>8. \A i \in 1..n : /\ at[i] = at[i - 1] + actual[i]
                      /\ \A k \in 1..actual[i] : d[at[i - 1] + k] = <<s, i, k>>
    <2> TAKE i \in 1..n
    <2>1. PICK c, l, o : c = pk[i] /\ l = actual[i] /\ o = at[i - 1]
        BY Zenon
    <2>2. Len(c) = l /\ \A k \in 1..l : c[k] = <<s, i, k>>
        BY <1>2, <2>1
    <2>3. at[i] = o + Len(c) /\ \A j \in 1..Len(c) : d[o + j] = c[j]
        BY <1>7, <2>1
    <2>4. at[i] = o + l /\ \A k \in 1..l : d[o + k] = <<s, i, k>>
        BY <2>2, <2>3
    <2> QED
        BY <2>1, <2>4
<1>9. \A i \in 0..n : at[i] <= Len(d)
    <2> TAKE i \in 0..n
    <2>1. n \in 0..n /\ i <= n
        BY <1>1
    <2> QED
        BY <1>7, <2>1
<1>10. SumTo(actual, n) = at[n]
    <2>1. at[0] = 0
        BY <1>7
    <2>2. \A i \in 1..n : actual[i] \in Nat /\ at[i] = at[i - 1] + actual[i]
        BY <1>8 DEF HasLess
    <2>3. SumTo(actual, n) = at[n] /\ at[n] \in Nat
        BY <1>1, <2>1, <2>2, SumToIs
    <2> QED
        BY <2>3
<1>11. at[0] = 0 /\ at[n] = Len(d) /\ \A i \in 0..n : at[i] \in Nat /\ at[i] <= Len(d)
    BY <1>7, <1>9
<1>12. IsSeq(d) /\ Len(d) = SumTo(actual, n)
    BY <1>5, <1>7, <1>10 DEF MadeOf
<1>13. PackedAt(d, s, actual, n, at)
    BY <1>8, <1>11 DEF PackedAt
<1> QED
    BY <1>12, <1>13

\* The data and the descriptors of an answer are laid out so.
LEMMA TailWritten ==
    ASSUME NEW s, NEW urb \in WireUrbs, asked[s] = urb, NEW actual \in Fills(urb),
           \A i \in DOMAIN actual : actual[i] <= IF Iso(urb) THEN urb.packets[i] ELSE urb.len,
           NEW l, l = SumTo(actual, Len(actual)), NEW n, n = Len(urb.packets),
           NEW t, t = IF (urb.in \/ Iso(urb)) /\ HasTransferStage(l, n)
                      THEN SendTransferData(s, IF urb.in THEN l ELSE 0, actual) ELSE <<>>
    PROVE  TailIs(t, s, urb, actual, l, n)
<1>1. urb.in \in BOOLEAN /\ urb.len \in Nat /\ urb.packets \in Seq(Nat)
    BY UsbIpWireAssumption
<1>2. n \in Nat /\ DOMAIN urb.packets = 1..n /\ (Iso(urb) <=> n # 0)
    BY <1>1 DEF Iso
<1>3. PICK rooms : rooms = IF Iso(urb) THEN urb.packets ELSE <<urb.len>>
    BY Zenon
<1>4. PICK m : m = Len(rooms)
    BY Zenon
<1>5. rooms \in Seq(Nat) /\ m = (IF n = 0 THEN 1 ELSE n) /\ m \in Nat /\ DOMAIN rooms = 1..m
    <2>1. CASE Iso(urb)
        BY <1>1, <1>2, <1>3, <1>4, <2>1
    <2>2. CASE ~Iso(urb)
        BY <1>1, <1>2, <1>3, <1>4, <2>2
    <2> QED
        BY <2>1, <2>2
<1>6. /\ actual = [i \in 1..m |-> actual[i]] /\ Len(actual) = m
      /\ \A i \in 1..m : actual[i] \in Nat /\ actual[i] <= rooms[i]
    <2>1. actual \in [1..m -> 0..urb.len]
        <3>1. (IF Iso(urb) THEN DOMAIN urb.packets ELSE {1}) = 1..m
            <4>1. CASE Iso(urb)
                BY <1>2, <1>5, <4>1
            <4>2. CASE ~Iso(urb)
                BY <1>2, <1>5, <4>2
            <4> QED
                BY <4>1, <4>2
        <3> QED
            BY <3>1 DEF Fills
    <2>2. actual = [i \in 1..m |-> actual[i]] /\ DOMAIN actual = 1..m
        BY <2>1
    <2>3. Len(actual) = m
        BY <1>5, <2>2, PlacesMakeSeq
    <2>4. ASSUME NEW i \in 1..m PROVE actual[i] \in Nat /\ actual[i] <= rooms[i]
        <3>1. actual[i] <= IF Iso(urb) THEN urb.packets[i] ELSE urb.len
            BY <2>2
        <3>2. ~Iso(urb) => i = 1
            BY <1>2, <1>5
        <3>3. actual[i] \in Nat
            BY <1>1, <2>1
        <3> QED
            BY <1>3, <3>1, <3>2, <3>3
    <2> QED
        BY <2>2, <2>3, <2>4
<1>7. PICK b : b = DeviceBuffer(s, actual)
    BY Zenon
<1>8. PICK bt : BufferAt(b, s, rooms, m, actual, bt)
    <2>1. PICK ms : ms = [i \in DOMAIN rooms |->
                       [k \in 1..rooms[i] |-> IF k <= actual[i] THEN <<s, i, k>> ELSE <<s, 0, 0>>]]
        BY Zenon
    <2>2. b = FlattenSeq(ms)
        BY <1>3, <1>7, <2>1, Zenon DEF DeviceBuffer
    <2> QED
        BY <1>4, <1>5, <2>1, <2>2, BufferFilled
<1>9. PICK p : p = [i \in DOMAIN urb.packets |->
                      IsoDesc(SlotOffset(urb.packets, actual, i), urb.packets[i], actual[i])]
    BY Zenon
<1>10. IsSeq(p) /\ Len(p) = n /\ \A i \in 1..n : Is(p[i], "iso", 16) /\ p[i].v.actual = actual[i]
    <2>1. p = [i \in 1..n |-> p[i]]
        BY <1>2, <1>9
    <2>2. IsSeq(p) /\ Len(p) = n
        BY <1>2, <2>1, PlacesMakeSeq
    <2>3. \A i \in 1..n : Is(p[i], "iso", 16) /\ p[i].v.actual = actual[i]
        BY <1>2, <1>9 DEF IsoDesc, Cell, Is
    <2> QED
        BY <2>2, <2>3
<1>11. CASE ~urb.in /\ ~Iso(urb)
    <2>1. t = <<>> /\ n = 0
        BY <1>2, <1>11
    <2> QED
        BY <1>11, <2>1 DEF TailIs, TailAt, IsSeq
<1>12. CASE ~urb.in /\ Iso(urb)
    <2>1. HasTransferStage(l, n)
        BY <1>2, <1>12 DEF HasTransferStage
    <2>2. t = SendTransferData(s, 0, actual)
        BY <1>12, <2>1
    <2>3. t = (IF 0 > 0 THEN Payload(FlattenSeq([i \in DOMAIN urb.packets |->
                   SubSeq(b, SlotOffset(urb.packets, actual, i) + 1,
                          SlotOffset(urb.packets, actual, i) + actual[i])])) ELSE <<>>) \o p
        BY <1>7, <1>9, <1>12, <2>2, Zenon DEF SendTransferData
    <2>4. t = <<>> \o p
        BY <2>3
    <2>5. PICK S : p \in Seq(S)
        BY <1>10 DEF IsSeq
    <2>6. t = p
        BY <2>4, <2>5, ConcatEmptySeq
    <2> QED
        BY <1>2, <1>10, <1>12, <2>6 DEF TailIs, TailAt
<1>13. CASE urb.in /\ ~Iso(urb)
    <2>1. n = 0 /\ m = 1 /\ rooms = <<urb.len>>
        BY <1>2, <1>3, <1>5, <1>13
    <2>2. actual[1] \in Nat /\ actual[1] <= urb.len /\ rooms[1] = urb.len
        BY <1>6, <2>1
    <2>3. l = actual[1]
        <3>1. PICK g : g = [i \in 0..1 |-> IF i = 0 THEN 0 ELSE actual[1]]
            BY Zenon
        <3>2. g[0] = 0 /\ g[1] = actual[1] /\ \A i \in 1..1 : actual[i] \in Nat /\ g[i] = g[i - 1] + actual[i]
            BY <2>2, <3>1
        <3>3. g[0] = 0
            BY <3>2
        <3>4. \A i \in 1..1 : actual[i] \in Nat /\ g[i] = g[i - 1] + actual[i]
            BY <3>2
        <3>5. 1 \in Nat
            OBVIOUS
        <3>6. SumTo(actual, 1) = g[1] /\ g[1] \in Nat
            BY <3>3, <3>4, <3>5, SumToIs
        <3> QED
            BY <1>6, <2>1, <3>2, <3>6
    <2>4. IsSeq(t) /\ Len(t) = l /\ \A k \in 1..l : Is(t[k], "data", 1) /\ t[k].v = <<s, 1, k>>
        <3>1. CASE l = 0
            <4>1. ~HasTransferStage(l, n)
                BY <2>1, <3>1 DEF HasTransferStage
            <4>2. t = <<>>
                BY <4>1
            <4>3. IsSeq(<<>>) /\ Len(<<>>) = 0
                BY DEF IsSeq
            <4>4. 1..l = {}
                BY <3>1
            <4> QED
                BY <3>1, <4>2, <4>3, <4>4
        <3>2. CASE l # 0
            <4>1. HasTransferStage(l, n)
                BY <2>2, <2>3, <3>2 DEF HasTransferStage
            <4>2. t = SendTransferData(s, l, actual)
                BY <1>13, <4>1
            <4>3. PICK c : c = SubSeq(b, 1, l)
                BY Zenon
            <4>4. t = Payload(c)
                BY <1>7, <1>13, <4>2, <4>3, Zenon DEF SendTransferData
            <4>5. IsSeq(b) /\ bt[0] = 0 /\ bt[1] = Len(b) /\ bt[1] = bt[1 - 1] + rooms[1]
                  /\ \A k \in 1..rooms[1] : k <= actual[1] => b[bt[1 - 1] + k] = <<s, 1, k>>
                BY <2>1, <1>8 DEF BufferAt
            <4>6. Len(b) = urb.len /\ \A k \in 1..l : b[0 + k] = <<s, 1, k>>
                <5>1. 1 - 1 = 0 /\ bt[1 - 1] = 0
                    BY <4>5
                <5>2. Len(b) = urb.len
                    BY <1>1, <2>2, <4>5, <5>1
                <5>3. ASSUME NEW k \in 1..l PROVE b[0 + k] = <<s, 1, k>>
                    <6>1. k \in 1..rooms[1] /\ k <= actual[1]
                        BY <1>1, <2>2, <2>3
                    <6> QED
                        BY <4>5, <5>1, <6>1
                <5> QED
                    BY <5>2, <5>3
            <4>7. CutOut(c, b, 0, l)
                BY <1>1, <2>2, <2>3, <4>3, <4>6 DEF CutOut
            <4>8. IsSeq(b)
                BY <4>5
            <4>9. IsSeq(c) /\ Len(c) = l /\ \A k \in 1..l : c[k] = b[0 + k]
                BY <4>7, <4>8, CutParts
            <4>10. /\ IsSeq(t) /\ Len(t) = Len(c) /\ Len(c) \in Nat
                   /\ \A i \in 1..Len(c) : Is(t[i], "data", 1) /\ t[i].v = c[i]
                BY <4>4, <4>9, PayloadCells
            <4> QED
                BY <4>6, <4>9, <4>10
        <3> QED
            BY <3>1, <3>2
    <2>5. TailAt(t, urb, l, n)
        BY <1>13, <2>1, <2>2, <2>3, <2>4 DEF TailAt
    <2>6. PICK at : at = [i \in 0..1 |-> IF i = 0 THEN 0 ELSE l]
        BY Zenon
    <2>7. BytesAt(t, s, actual, l, n, 1, at)
        <3>1. at[0] = 0 /\ at[1] = l /\ l \in Nat
            BY <2>2, <2>3, <2>6
        <3>2. \A i \in 0..1 : at[i] \in Nat /\ at[i] <= l
            BY <3>1, <2>6
        <3>3. ASSUME NEW i \in 1..1 PROVE /\ actual[i] \in Nat /\ at[i] = at[i - 1] + actual[i]
                                          /\ \A k \in 1..actual[i] : t[at[i - 1] + k].v = <<s, i, k>>
            <4>1. i = 1 /\ i - 1 = 0 /\ actual[i] = l
                BY <2>3
            <4>2. \A k \in 1..l : t[0 + k].v = <<s, 1, k>>
                BY <2>4, <3>1
            <4> QED
                BY <3>1, <4>1, <4>2
        <3> QED
            BY <1>6, <2>1, <3>1, <3>2, <3>3 DEF BytesAt
    <2> QED
        BY <2>5, <2>7 DEF TailIs
<1>14. CASE urb.in /\ Iso(urb)
    <2>1. n # 0 /\ m = n /\ rooms = urb.packets
        BY <1>2, <1>3, <1>5, <1>14
    <2>2. PICK pk, d : pk = [i \in DOMAIN rooms |->
                  SubSeq(b, SumTo(rooms, i - 1) + 1, SumTo(rooms, i - 1) + actual[i])]
                       /\ d = FlattenSeq(pk)
        BY Zenon
    <2>20. PacketsOf(d, b, rooms, actual, pk)
        BY <2>2, Zenon DEF PacketsOf
    <2>3. /\ IsSeq(d) /\ Len(d) = SumTo(actual, n)
          /\ \E at : PackedAt(d, s, actual, n, at)
        <3>4. BufferAt(b, s, rooms, n, actual, bt)
            BY <1>8, <2>1
        <3>2. HasLess(actual, rooms, n)
            BY <1>4, <1>5, <1>6, <2>1 DEF HasLess
        <3> QED
            BY <2>20, <3>2, <3>4, PacketsPacked
    <2>4. l = Len(d) /\ l \in Nat
        <3>1. IsSeq(d) /\ Len(d) = SumTo(actual, n) /\ l = SumTo(actual, n)
            BY <1>6, <2>1, <2>3
        <3> QED
            BY <3>1 DEF IsSeq
    <2>5. PICK c : c = Payload(d)
        BY Zenon
    <2>6. /\ IsSeq(c) /\ Len(c) = l
          /\ \A i \in 1..l : Is(c[i], "data", 1) /\ c[i].v = d[i]
        <3>1. /\ IsSeq(c) /\ Len(c) = Len(d) /\ Len(d) \in Nat
              /\ \A i \in 1..Len(d) : Is(c[i], "data", 1) /\ c[i].v = d[i]
            BY <2>3, <2>5, PayloadCells
        <3> QED
            BY <2>4, <3>1
    <2>7. t = c \o p
        <3>1. HasTransferStage(l, n)
            BY <1>2, <2>1 DEF HasTransferStage
        <3>2. t = SendTransferData(s, l, actual)
            BY <1>14, <3>1
        <3>3. d = FlattenSeq([i \in DOMAIN urb.packets |->
                      SubSeq(b, SlotOffset(urb.packets, actual, i) + 1,
                             SlotOffset(urb.packets, actual, i) + actual[i])])
            BY <2>1, <2>2, Zenon DEF SlotOffset
        <3>4. t = (IF l > 0 THEN c ELSE <<>>) \o p
            BY <1>7, <1>9, <1>14, <2>5, <3>2, <3>3, Zenon DEF SendTransferData
        <3>5. CASE l = 0
            <4>1. c = <<>>
                BY <2>6, <3>5 DEF IsSeq
            <4> QED
                BY <3>4, <3>5, <4>1
        <3>6. CASE l # 0
            <4>1. l > 0
                BY <2>4, <3>6
            <4> QED
                BY <3>4, <4>1
        <3> QED
            BY <3>5, <3>6
    <2>8. Chained(t, c, p)
        BY <2>7 DEF Chained
    <2>9. /\ IsSeq(t) /\ Len(c) \in Nat /\ Len(p) \in Nat /\ Len(t) = Len(c) + Len(p)
          /\ \A i \in 1..Len(c) : t[i] = c[i]
          /\ \A i \in 1..Len(p) : t[Len(c) + i] = p[i]
        <3>1. IsSeq(c) /\ IsSeq(p)
            BY <1>10, <2>6
        <3> QED
            BY <2>8, <3>1, ChainedParts
    <2>10. /\ IsSeq(t) /\ Len(t) = l + n
           /\ \A i \in 1..l : Is(t[i], "data", 1) /\ t[i].v = d[i]
           /\ \A i \in 1..n : Is(t[l + i], "iso", 16) /\ t[l + i].v.actual = actual[i]
        <3>1. \A i \in 1..l : t[i] = c[i]
            BY <2>6, <2>9
        <3>2. \A i \in 1..n : t[l + i] = p[i]
            BY <1>10, <2>6, <2>9
        <3>3. IsSeq(t) /\ Len(t) = l + n
            BY <1>10, <2>6, <2>9
        <3>4. \A i \in 1..l : Is(t[i], "data", 1) /\ t[i].v = d[i]
            BY <2>6, <3>1
        <3>5. \A i \in 1..n : Is(t[l + i], "iso", 16) /\ t[l + i].v.actual = actual[i]
            BY <1>10, <3>2
        <3> QED
            BY <3>3, <3>4, <3>5
    <2>11. TailAt(t, urb, l, n)
        BY <1>2, <1>14, <2>4, <2>10 DEF TailAt
    <2>21. PICK at : PackedAt(d, s, actual, n, at)
        BY <2>3
    <2>12. /\ at[0] = 0 /\ at[n] = l
           /\ \A i \in 0..n : at[i] \in Nat /\ at[i] <= l
           /\ \A i \in 1..n : /\ at[i] = at[i - 1] + actual[i]
                              /\ \A k \in 1..actual[i] : d[at[i - 1] + k] = <<s, i, k>>
        BY <2>4, <2>21 DEF PackedAt
    <2>13. ASSUME NEW i \in 1..n, NEW k \in 1..actual[i] PROVE t[at[i - 1] + k].v = <<s, i, k>>
        <3>1. i - 1 \in 0..n /\ i \in 0..n
            BY <1>2
        <3>2. at[i - 1] \in Nat /\ at[i] <= l /\ at[i] = at[i - 1] + actual[i] /\ actual[i] \in Nat
            BY <1>6, <2>1, <2>12, <3>1
        <3>3. at[i - 1] + k \in 1..l
            BY <2>4, <3>2
        <3>4. t[at[i - 1] + k].v = d[at[i - 1] + k]
            BY <2>10, <3>3
        <3>5. d[at[i - 1] + k] = <<s, i, k>>
            BY <2>12
        <3> QED
            BY <3>4, <3>5
    <2>14. BytesAt(t, s, actual, l, n, n, at)
        <3>1. actual = [i \in 1..n |-> actual[i]] /\ \A i \in 1..n : actual[i] \in Nat
            BY <1>6, <2>1
        <3> QED
            BY <2>1, <2>10, <2>12, <2>13, <3>1 DEF BytesAt
    <2> QED
        BY <2>11, <2>14 DEF TailIs
<1> QED
    BY <1>1, <1>11, <1>12, <1>13, <1>14

\* A RET_SUBMIT for seqnum s with l bytes and n packets; f is what the packets hold.
RetAt(x, s, urb, f, l, n) ==
    /\ IsSeq(x) /\ \A i \in 1..11 : Is(x[i], RetFields[i], RetWidths[i])
    /\ x[1].v = "submit" /\ x[2].v = s /\ x[7].v = l /\ x[9].v = n
    /\ \E t : /\ TailIs(t, s, urb, f, l, n) /\ Len(x) = 11 + Len(t)
              /\ \A i \in 1..Len(t) : x[11 + i] = t[i]

LEMMA RetWritten ==
    ASSUME NEW s, NEW urb, asked[s] = urb, NEW status, NEW l, NEW n, NEW transfer, NEW actual,
           NEW t, t = IF transfer /\ HasTransferStage(l, n)
                      THEN SendTransferData(s, IF urb.in THEN l ELSE 0, actual) ELSE <<>>,
           NEW f, TailIs(t, s, urb, f, l, n),
           NEW x, x = RetSubmit(s, status, l, n, transfer, actual)
    PROVE  RetAt(x, s, urb, f, l, n)
<1>1. PICK h : h = <<Cell("command", 4, "submit"), Cell("seqnum", 4, s), Cell("devid", 4, 0),
                     Cell("direction", 4, 0), Cell("ep", 4, 0), Cell("status", 4, status),
                     Cell("actual_length", 4, l), Cell("start_frame", 4, 0),
                     Cell("number_of_packets", 4, n), Cell("error_count", 4, 0), Cell("padding", 8, 0)>>
    BY Zenon
<1>2. x = h \o t
    BY <1>1, Zenon DEF RetSubmit
<1>3. h = [i \in 1..11 |-> h[i]]
    BY <1>1
<1>4. IsSeq(h) /\ Len(h) = 11
    BY <1>3, PlacesMakeSeq
<1>5. \A i \in 1..11 : Is(h[i], RetFields[i], RetWidths[i])
    BY <1>1 DEF Is, Cell, RetFields, RetWidths
<1>6. h[1].v = "submit" /\ h[2].v = s /\ h[7].v = l /\ h[9].v = n
    BY <1>1 DEF Cell
<1>7. IsSeq(t)
    BY DEF TailIs, TailAt
<1>8. Chained(x, h, t)
    BY <1>2 DEF Chained
<1>9. /\ IsSeq(x) /\ Len(h) \in Nat /\ Len(t) \in Nat /\ Len(x) = Len(h) + Len(t)
      /\ \A i \in 1..Len(h) : x[i] = h[i]
      /\ \A i \in 1..Len(t) : x[Len(h) + i] = t[i]
    <2>1. IsSeq(h)
        BY <1>4
    <2> QED
        BY <1>7, <1>8, <2>1, ChainedParts
<1>10. \A i \in 1..11 : x[i] = h[i]
    BY <1>4, <1>9
<1>11. \A i \in 1..11 : Is(x[i], RetFields[i], RetWidths[i])
    BY <1>5, <1>10
<1>12. x[1].v = "submit" /\ x[2].v = s /\ x[7].v = l /\ x[9].v = n
    BY <1>6, <1>10
<1>13. IsSeq(x) /\ Len(x) = 11 + Len(t) /\ \A i \in 1..Len(t) : x[11 + i] = t[i]
    BY <1>4, <1>9
<1> QED
    BY <1>11, <1>12, <1>13 DEF RetAt

\* What the client makes of it, when it reads it at the beginning of its stream
IsRet(ret, st) == ret = ReadsRetSubmit(st)
RetFound(st, x, s, urb, f, ret) ==
    /\ st # <<>> /\ Finds(st, RetFields, RetWidths) /\ st[1].v = "submit" /\ st[2].v = s
    /\ ret.ok /\ ret.rest = Drop(st, Len(x))
    /\ (urb.in /\ f # <<>>) =>
          IsoSlots(ret) = [i \in DOMAIN f |-> [k \in 1..f[i] |-> <<s, i, k>>]]
LEMMA RetRead ==
    ASSUME NEW s, NEW urb \in WireUrbs, asked[s] = urb, NEW f, NEW l, NEW n,
           NEW x, RetAt(x, s, urb, f, l, n), NEW st, IsSeq(st), Starts(st, x),
           NEW ret, IsRet(ret, st)
    PROVE  RetFound(st, x, s, urb, f, ret)
<1>1. PICK t : /\ TailIs(t, s, urb, f, l, n) /\ Len(x) = 11 + Len(t)
               /\ \A i \in 1..Len(t) : x[11 + i] = t[i]
    BY DEF RetAt
<1>2. PICK D : D = IF urb.in THEN l ELSE 0
    BY Zenon
<1>3. /\ urb.in \in BOOLEAN /\ D \in Nat /\ n \in Nat /\ Len(t) = D + n
      /\ \A i \in 1..D : Is(t[i], "data", 1)
      /\ \A i \in 1..n : Is(t[D + i], "iso", 16)
    <2>1. urb.in \in BOOLEAN
        BY UsbIpWireAssumption
    <2> QED
        BY <1>1, <1>2, <2>1 DEF TailIs, TailAt
<1>4. /\ Len(st) \in Nat /\ Len(x) = 11 + D + n /\ Len(st) >= 11 + D + n
      /\ \A i \in 1..11 + D + n : st[i] = x[i]
    BY <1>1, <1>3 DEF Starts, IsSeq
<1>5. /\ \A i \in 1..11 : st[i] = x[i]
      /\ \A i \in 1..D : st[11 + i] = t[i]
      /\ \A i \in 1..n : st[11 + D + i] = t[D + i]
    <2>1. \A i \in 1..11 : st[i] = x[i]
        BY <1>3, <1>4
    <2>2. \A i \in 1..D + n : st[11 + i] = t[i]
        BY <1>1, <1>3, <1>4
    <2>3. \A i \in 1..D : st[11 + i] = t[i]
        BY <1>3, <2>2
    <2>4. ASSUME NEW i \in 1..n PROVE st[11 + D + i] = t[D + i]
        <3>1. D + i \in 1..D + n /\ 11 + (D + i) = 11 + D + i
            BY <1>3
        <3> QED
            BY <2>2, <3>1
    <2> QED
        BY <2>1, <2>3, <2>4
<1>6. st[1].v = "submit" /\ st[2].v = s /\ st[7].v = l /\ st[9].v = n
    BY <1>5 DEF RetAt
<1>7. st # <<>>
    BY <1>3, <1>4
<1>8. Finds(st, RetFields, RetWidths)
    <2>1. Len(RetFields) = 11 /\ DOMAIN RetFields = 1..11
        BY DEF RetFields
    <2>2. \A i \in 1..11 : Is(st[i], RetFields[i], RetWidths[i])
        BY <1>5 DEF RetAt
    <2> QED
        BY <1>3, <1>4, <2>1, <2>2 DEF Finds
<1>9. PICK ok : ok = /\ Len(st) >= 11 + D + n
                     /\ \A i \in 12..11 + D : Is(st[i], "data", 1)
                     /\ \A i \in 12 + D..11 + D + n : Is(st[i], "iso", 16)
    BY Zenon
<1>10. ok
    <2>1. ASSUME NEW i \in 12..11 + D PROVE Is(st[i], "data", 1)
        <3>1. i - 11 \in 1..D /\ 11 + (i - 11) = i
            BY <1>3
        <3> QED
            BY <1>3, <1>5, <3>1
    <2>2. ASSUME NEW i \in 12 + D..11 + D + n PROVE Is(st[i], "iso", 16)
        <3>1. i - (11 + D) \in 1..n /\ 11 + D + (i - (11 + D)) = i
            BY <1>3
        <3> QED
            BY <1>3, <1>5, <3>1
    <2> QED
        BY <1>4, <1>9, <2>1, <2>2
<1>11. PICK dt, ds : dt = [i \in 1..D |-> st[11 + i].v] /\ ds = [i \in 1..n |-> st[11 + D + i].v]
    BY Zenon
<1>12. ret = [ok |-> ok, data |-> dt, descs |-> ds, rest |-> Drop(st, 11 + D + n)]
    BY <1>2, <1>6, <1>9, <1>11, Zenon DEF IsRet, ReadsRetSubmit
<1>13. ret.ok = ok /\ ret.rest = Drop(st, 11 + D + n) /\ ret.data = dt /\ ret.descs = ds
    BY <1>12
<1>14. ASSUME urb.in, f # <<>>
       PROVE  IsoSlots(ret) = [i \in DOMAIN f |-> [k \in 1..f[i] |-> <<s, i, k>>]]
    <2>1. PICK m, at : BytesAt(t, s, f, l, n, m, at)
        BY <1>1, <1>14 DEF TailIs
    <2>2. D = l
        BY <1>2, <1>14
    <2>3. /\ m = (IF n = 0 THEN 1 ELSE n) /\ m \in Nat /\ DOMAIN f = 1..m /\ at[0] = 0 /\ at[m] = D
          /\ \A i \in 0..m : at[i] \in Nat /\ at[i] <= D
          /\ \A i \in 1..m : f[i] \in Nat /\ at[i] = at[i - 1] + f[i]
        BY <1>3, <2>1, <2>2 DEF BytesAt
    <2>20. m \in Nat
        BY <2>3
    <2>4. PICK z : z = [i \in 1..m |-> [k \in 1..f[i] |-> <<s, i, k>>]]
        BY Zenon
    <2>5. ASSUME NEW i \in 1..m
          PROVE  /\ i - 1 \in 0..m /\ i \in 0..m /\ at[i - 1] + f[i] <= D
                 /\ \A k \in 1..f[i] : dt[at[i - 1] + k] = <<s, i, k>>
        <3>1. i - 1 \in 0..m /\ i \in 0..m
            BY <2>20
        <3>2. at[i - 1] + f[i] <= D /\ at[i - 1] \in Nat /\ f[i] \in Nat
            BY <2>3, <3>1
        <3>3. ASSUME NEW k \in 1..f[i] PROVE dt[at[i - 1] + k] = <<s, i, k>>
            <4>1. PICK o : o = at[i - 1] + k
                BY Zenon
            <4>2. o \in 1..D
                BY <1>3, <3>2, <4>1
            <4>3. dt[o] = st[11 + o].v /\ st[11 + o] = t[o]
                BY <1>5, <1>11, <4>2
            <4>4. t[o].v = <<s, i, k>>
                BY <2>1, <4>1 DEF BytesAt
            <4> QED
                BY <4>1, <4>3, <4>4
        <3> QED
            BY <3>1, <3>2, <3>3
    <2>6. CASE n = 0
        <3>1. ds = <<>>
            BY <1>11, <2>6
        <3>2. IsoSlots(ret) = <<dt>>
            BY <1>13, <3>1, Zenon DEF IsoSlots
        <3>3. m = 1 /\ f[1] = D /\ at[1 - 1] = 0
            BY <2>3, <2>6
        <3>4. \A k \in 1..D : dt[k] = <<s, 1, k>>
            <4> TAKE k \in 1..D
            <4>1. 1 \in 1..m /\ k \in 1..f[1]
                BY <3>3
            <4>2. dt[at[1 - 1] + k] = <<s, 1, k>>
                BY <2>5, <4>1
            <4>3. at[1 - 1] + k = k
                BY <1>3, <3>3
            <4> QED
                BY <4>2, <4>3
        <3>5. dt = [k \in 1..D |-> <<s, 1, k>>]
            BY <1>11, <3>4
        <3>6. z = [i \in 1..1 |-> [k \in 1..f[i] |-> <<s, i, k>>]]
            BY <2>4, <3>3
        <3>7. z[1] = dt /\ z = <<z[1]>>
            <4>1. z[1] = [k \in 1..f[1] |-> <<s, 1, k>>]
                BY <3>6
            <4>2. z = <<z[1]>>
                <5>1. PICK y : y = <<z[1]>>
                    BY Zenon
                <5>2. y = [i \in 1..1 |-> y[i]] /\ y[1] = z[1]
                    BY <5>1
                <5>3. z = [i \in 1..1 |-> z[i]]
                    BY <3>6
                <5>4. \A i \in 1..1 : i = 1
                    OBVIOUS
                <5>5. \A i \in 1..1 : y[i] = z[i]
                    BY <5>2, <5>4
                <5>6. y = z
                    BY <5>2, <5>3, <5>5
                <5> QED
                    BY <5>1, <5>6
            <4> QED
                BY <3>3, <3>5, <4>1, <4>2
        <3> QED
            BY <2>3, <2>4, <3>2, <3>7
    <2>7. CASE n # 0
        <3>1. m = n /\ n \in Nat /\ n >= 1
            BY <1>3, <2>3, <2>7
        <3>2. DOMAIN ds = 1..n /\ ds # <<>> /\ \A i \in 1..n : ds[i].actual = f[i]
            <4>1. DOMAIN ds = 1..n /\ \A i \in 1..n : ds[i] = t[D + i].v
                BY <1>5, <1>11
            <4>2. \A i \in 1..n : t[D + i].v.actual = f[i]
                BY <2>1, <2>2, <2>7 DEF BytesAt
            <4>3. 1 \in DOMAIN ds
                BY <3>1, <4>1
            <4>4. ds # <<>>
                BY <4>3
            <4>5. \A i \in 1..n : ds[i].actual = f[i]
                BY <4>1, <4>2
            <4> QED
                BY <4>1, <4>4, <4>5
        <3>3. CASE D = 0
            <4>1. dt = <<>>
                BY <1>11, <3>3
            <4>2. IsoSlots(ret) = [i \in DOMAIN ds |-> <<>>]
                BY <1>13, <3>2, <4>1, Zenon DEF IsoSlots
            <4>3. \A i \in 1..n : [k \in 1..f[i] |-> <<s, i, k>>] = <<>>
                <5> TAKE i \in 1..n
                <5>0. i \in 1..m
                    BY <3>1
                <5>1. f[i] = 0
                    <6>1. i - 1 \in 0..m /\ at[i - 1] + f[i] <= D /\ f[i] \in Nat
                        BY <2>3, <2>5, <5>0
                    <6>2. at[i - 1] \in Nat
                        BY <2>3, <6>1
                    <6> QED
                        BY <3>3, <6>1, <6>2
                <5> QED
                    BY <5>1
            <4>4. z = [i \in 1..n |-> <<>>]
                BY <2>4, <3>1, <4>3
            <4> QED
                BY <2>3, <2>4, <3>1, <3>2, <4>2, <4>4
        <3>4. CASE D # 0
            <4>1. dt # <<>>
                <5>1. 1 \in DOMAIN dt
                    BY <1>3, <1>11, <3>4
                <5> QED
                    BY <5>1
            <4>2. PICK ls : ls = [i \in DOMAIN ds |-> ds[i].actual]
                BY Zenon
            <4>3. IsoSlots(ret) = [i \in DOMAIN ds |-> SubSeq(dt, SumTo(ls, i - 1) + 1, SumTo(ls, i))]
                BY <1>13, <3>2, <4>1, <4>2, Zenon DEF IsoSlots
            <4>4. \A j \in 0..n : SumTo(ls, j) = at[j]
                <5> TAKE j \in 0..n
                <5>1. \A i \in 1..j : ls[i] \in Nat /\ at[i] = at[i - 1] + ls[i]
                    BY <2>3, <3>1, <3>2, <4>2
                <5>2. at[0] = 0 /\ j \in Nat
                    BY <2>3, <3>1
                <5>3. SumTo(ls, j) = at[j] /\ at[j] \in Nat
                    <6>1. at[0] = 0
                        BY <5>2
                    <6>2. j \in Nat
                        BY <5>2
                    <6> QED
                        BY <5>1, <6>1, <6>2, SumToIs
                <5> QED
                    BY <5>3
            <4>5. IsSeq(dt) /\ Len(dt) = D
                <5>1. dt = [i \in 1..D |-> dt[i]]
                    BY <1>11
                <5> QED
                    BY <1>3, <5>1, PlacesMakeSeq
            <4>6. \A i \in 1..n : SubSeq(dt, SumTo(ls, i - 1) + 1, SumTo(ls, i)) = z[i]
                <5> TAKE i \in 1..n
                <5>1. PICK o, w, c : o = at[i - 1] /\ w = f[i] /\ c = SubSeq(dt, o + 1, o + w)
                    BY Zenon
                <5>2. /\ i - 1 \in 0..n /\ i \in 0..n /\ o + w <= D /\ o \in Nat /\ w \in Nat /\ at[i] = o + w
                      /\ \A k \in 1..w : dt[o + k] = <<s, i, k>>
                    BY <2>3, <2>5, <3>1, <5>1
                <5>3. SubSeq(dt, SumTo(ls, i - 1) + 1, SumTo(ls, i)) = c
                    BY <4>4, <5>1, <5>2
                <5>4. CutOut(c, dt, o, w)
                    BY <4>5, <5>1, <5>2 DEF CutOut
                <5>5. IsSeq(dt)
                    BY <4>5
                <5>6. IsSeq(c) /\ Len(c) = w /\ \A k \in 1..w : c[k] = dt[o + k]
                    BY <5>4, <5>5, CutParts
                <5>7. c = [k \in 1..w |-> <<s, i, k>>]
                    <6>1. PICK S : c \in Seq(S)
                        BY <5>6 DEF IsSeq
                    <6>2. c = [k \in 1..w |-> c[k]]
                        BY <5>2, <5>6, <6>1
                    <6> QED
                        BY <5>2, <5>6, <6>2
                <5>8. z[i] = [k \in 1..w |-> <<s, i, k>>]
                    BY <2>4, <3>1, <5>1
                <5> QED
                    BY <5>3, <5>7, <5>8
            <4>7. z = [i \in 1..n |-> z[i]]
                BY <2>4, <3>1
            <4>8. IsoSlots(ret) = z
                BY <3>2, <4>3, <4>6, <4>7
            <4> QED
                BY <2>3, <2>4, <4>8
        <3> QED
            BY <3>3, <3>4
    <2> QED
        BY <2>6, <2>7
<1> QED
    BY <1>4, <1>6, <1>7, <1>8, <1>10, <1>13, <1>14 DEF RetFound

\* A device, with as many interfaces as its last field says
DeviceFields == <<"path", "busid", "numbers", "ids", "class", "interfaces">>
DeviceWidths == <<256, 32, 12, 6, 5, 1>>
DeviceAt(x, count) ==
    /\ IsSeq(x) /\ \A i \in 1..6 : Is(x[i], DeviceFields[i], DeviceWidths[i])
    /\ x[6].v = count
LEMMA DeviceWritten ==
    ASSUME NEW count \in Nat, NEW d, d = DeviceBytes(count)
    PROVE  DeviceAt(d, count) /\ Len(d) = 6
<1>1. d = <<Cell("path", 256, 0), Cell("busid", 32, 0), Cell("numbers", 12, 0),
            Cell("ids", 6, 0), Cell("class", 5, 0), Cell("interfaces", 1, count)>>
    BY DEF DeviceBytes, BusId
<1>2. d = [i \in 1..6 |-> d[i]]
    BY <1>1
<1>3. IsSeq(d) /\ Len(d) = 6
    BY <1>2, PlacesMakeSeq
<1>4. \A i \in 1..6 : Is(d[i], DeviceFields[i], DeviceWidths[i])
    BY <1>1 DEF Is, Cell, DeviceFields, DeviceWidths
<1>5. d[6].v = count
    BY <1>1 DEF Cell
<1> QED
    BY <1>3, <1>4, <1>5 DEF DeviceAt

\* and read at the beginning of a stream
LEMMA DeviceRead ==
    ASSUME NEW count \in Nat, NEW st, DeviceAt(st, count), NEW whole \in BOOLEAN,
           NEW k, k = (IF whole THEN count ELSE 0), Len(st) >= 6 + k,
           \A i \in 7..6 + k : Is(st[i], "interface", 4)
    PROVE  ReadsDevice(st, whole) = [ok |-> TRUE, rest |-> Drop(st, 6 + k)]
<1>1. Finds(st, DeviceFields, DeviceWidths)
    <2>1. Len(DeviceFields) = 6 /\ DOMAIN DeviceFields = 1..6
        BY DEF DeviceFields
    <2>2. \A i \in 1..6 : Is(st[i], DeviceFields[i], DeviceWidths[i])
        BY DEF DeviceAt
    <2>3. Len(st) \in Nat /\ Len(st) >= 6
        BY DEF DeviceAt, IsSeq
    <2> QED
        BY <2>1, <2>2, <2>3 DEF Finds
<1>2. st[6].v = count
    BY DEF DeviceAt
<1>3. (IF whole /\ Finds(st, DeviceFields, DeviceWidths) THEN st[6].v ELSE 0) = k
    BY <1>1, <1>2
<1>4. PICK ok : ok = /\ Finds(st, DeviceFields, DeviceWidths)
                     /\ Len(st) >= 6 + k /\ \A i \in 7..6 + k : Is(st[i], "interface", 4)
    BY Zenon
<1>5. ReadsDevice(st, whole) = [ok |-> ok, rest |-> Drop(st, 6 + k)]
    BY <1>3, <1>4, Zenon DEF ReadsDevice, DeviceFields, DeviceWidths
<1>6. ok = TRUE
    BY <1>1, <1>4
<1> QED
    BY <1>5, <1>6

\* A device with its interfaces
InterfacesAt(x, count) ==
    DeviceAt(x, count) /\ Len(x) = 6 + count /\ \A i \in 7..6 + count : Is(x[i], "interface", 4)
LEMMA InterfacesWritten ==
    ASSUME NEW count \in Nat, NEW x, Chained(x, DeviceBytes(count), InterfaceBytes(count))
    PROVE  InterfacesAt(x, count)
<1>1. PICK d, p : d = DeviceBytes(count) /\ p = InterfaceBytes(count)
    BY Zenon
<1>2. DeviceAt(d, count) /\ Len(d) = 6
    BY <1>1, DeviceWritten
<1>3. p = [i \in 1..count |-> p[i]] /\ \A i \in 1..count : Is(p[i], "interface", 4)
    BY <1>1 DEF InterfaceBytes, Is, Cell
<1>4. IsSeq(p) /\ Len(p) = count
    BY <1>3, PlacesMakeSeq
<1>5. Chained(x, d, p)
    BY <1>1 DEF Chained
<1>6. /\ IsSeq(x) /\ Len(d) \in Nat /\ Len(p) \in Nat /\ Len(x) = Len(d) + Len(p)
      /\ \A i \in 1..Len(d) : x[i] = d[i]
      /\ \A i \in 1..Len(p) : x[Len(d) + i] = p[i]
    <2>1. IsSeq(d)
        BY <1>2 DEF DeviceAt
    <2>2. IsSeq(p)
        BY <1>4
    <2> QED
        BY <1>5, <2>1, <2>2, ChainedParts
<1>7. \A i \in 1..6 : x[i] = d[i]
    BY <1>2, <1>6
<1>8. DeviceAt(x, count)
    <2>1. (\A i \in 1..6 : Is(d[i], DeviceFields[i], DeviceWidths[i])) /\ d[6].v = count
        BY <1>2 DEF DeviceAt
    <2>2. (\A i \in 1..6 : Is(x[i], DeviceFields[i], DeviceWidths[i])) /\ x[6].v = count
        <3>1. 6 \in 1..6 /\ x[6] = d[6]
            BY <1>7
        <3>2. \A i \in 1..6 : Is(x[i], DeviceFields[i], DeviceWidths[i])
            BY <1>7, <2>1
        <3> QED
            BY <2>1, <3>1, <3>2
    <2> QED
        BY <1>6, <2>2 DEF DeviceAt
<1>9. \A i \in 7..6 + count : Is(x[i], "interface", 4)
    <2> TAKE i \in 7..6 + count
    <2>1. i - 6 \in 1..count /\ 6 + (i - 6) = i
        OBVIOUS
    <2>2. x[6 + (i - 6)] = p[i - 6]
        BY <1>2, <1>4, <1>6, <2>1
    <2> QED
        BY <1>3, <2>1, <2>2
<1> QED
    BY <1>2, <1>4, <1>6, <1>8, <1>9 DEF InterfacesAt

\* A list of devices is read one after the other, to its end.
Reads(g, st, n) ==
    g = [i \in 0..n |-> IF i = 0 THEN [ok |-> TRUE, rest |-> st]
                        ELSE [ok |-> g[i - 1].ok /\ ReadsDevice(g[i - 1].rest, TRUE).ok,
                              rest |-> ReadsDevice(g[i - 1].rest, TRUE).rest]]
LEMMA DevicesRead ==
    ASSUME NEW st, NEW n, NEW m, MadeOf(st, n, m), NEW counts,
           \A i \in 1..n : counts[i] \in Nat /\ InterfacesAt(m[i], counts[i])
    PROVE  ReadsDevices(st, n) = [ok |-> TRUE, rest |-> <<>>]
<1>1. PICK at : Framed(st, n, at, m)
    BY DEF MadeOf
<1>2. /\ n \in Nat /\ at[0] = 0 /\ at[n] = Len(st) /\ IsSeq(st) /\ Len(st) \in Nat
      /\ \A i \in 0..n : at[i] \in Nat
      /\ \A i, j \in 0..n : i <= j => at[i] <= at[j]
      /\ \A i \in 1..n : /\ IsSeq(m[i]) /\ at[i] = at[i - 1] + Len(m[i])
                         /\ \A j \in 1..Len(m[i]) : st[at[i - 1] + j] = m[i][j]
    <2>1. IsSeq(st)
        BY DEF MadeOf
    <2>2. Len(st) \in Nat
        BY <2>1 DEF IsSeq
    <2> QED
        BY <1>1, <2>1, <2>2 DEF Framed
<1>3. PICK g : g = [i \in 0..n |-> [ok |-> TRUE, rest |-> Drop(st, at[i])]]
    BY Zenon
<1>4. \A i \in 0..n : at[i] <= Len(st)
    <2> TAKE i \in 0..n
    <2>1. n \in 0..n /\ i <= n
        BY <1>2
    <2> QED
        BY <1>2, <2>1
<1>5. ASSUME NEW i \in 1..n
      PROVE  ReadsDevice(Drop(st, at[i - 1]), TRUE) = [ok |-> TRUE, rest |-> Drop(st, at[i])]
    <2>1. PICK o, c, x, t : o = at[i - 1] /\ c = counts[i] /\ x = m[i] /\ t = Drop(st, o)
        BY Zenon
    <2>2. i - 1 \in 0..n /\ i \in 0..n
        BY <1>2
    <2>3. /\ c \in Nat /\ InterfacesAt(x, c) /\ o \in Nat /\ at[i] = o + Len(x) /\ at[i] <= Len(st)
          /\ \A j \in 1..Len(x) : st[o + j] = x[j]
        BY <1>2, <1>4, <2>1, <2>2
    <2>4. Len(x) = 6 + c
        BY <2>3 DEF InterfacesAt
    <2>5. Dropped(t, st, o)
        BY <1>2, <2>1, <2>3, <2>4 DEF Dropped
    <2>6. /\ IsSeq(t) /\ Len(st) \in Nat /\ Len(t) = Len(st) - o
          /\ \A j \in 1..Len(st) - o : t[j] = st[o + j]
          /\ o = Len(st) => t = <<>>
        <3>1. IsSeq(st)
            BY <1>2
        <3> QED
            BY <2>5, <3>1, DropLeaves
    <2>7. Len(t) >= 6 + c /\ \A j \in 1..6 + c : t[j] = x[j]
        BY <2>3, <2>4, <2>6
    <2>8. DeviceAt(t, c)
        BY <2>3, <2>6, <2>7 DEF InterfacesAt, DeviceAt
    <2>9. \A j \in 7..6 + c : Is(t[j], "interface", 4)
        BY <2>3, <2>7 DEF InterfacesAt
    <2>10. ReadsDevice(t, TRUE) = [ok |-> TRUE, rest |-> Drop(t, 6 + c)]
        <3>1. c = (IF TRUE THEN c ELSE 0) /\ TRUE \in BOOLEAN
            OBVIOUS
        <3> QED
            BY <2>3, <2>7, <2>8, <2>9, <3>1, DeviceRead
    <2>11. Drop(t, 6 + c) = Drop(st, at[i])
        <3>1. PICK u, v : u = Drop(t, 6 + c) /\ v = Drop(st, at[i])
            BY Zenon
        <3>2. PICK e : e = at[i]
            BY Zenon
        <3>3. e = o + (6 + c) /\ e <= Len(st) /\ e \in Nat
            <4>1. at[i] = o + Len(x) /\ at[i] <= Len(st) /\ o \in Nat /\ c \in Nat
                BY <2>3
            <4> QED
                BY <2>4, <3>2, <4>1
        <3>4. Dropped(u, t, 6 + c) /\ Dropped(v, st, e)
            BY <2>3, <2>6, <2>7, <3>1, <3>2, <3>3 DEF Dropped
        <3>5. PICK w : w = 6 + c
            BY Zenon
        <3>6. /\ IsSeq(u) /\ Len(t) \in Nat /\ Len(u) = Len(t) - w
              /\ \A j \in 1..Len(t) - w : u[j] = t[w + j]
              /\ w = Len(t) => u = <<>>
            <4>1. IsSeq(t) /\ Dropped(u, t, w)
                BY <2>6, <3>4, <3>5
            <4> QED
                BY <4>1, DropLeaves
        <3>7. /\ IsSeq(v) /\ Len(st) \in Nat /\ Len(v) = Len(st) - e
              /\ \A j \in 1..Len(st) - e : v[j] = st[e + j]
              /\ e = Len(st) => v = <<>>
            <4>1. IsSeq(st) /\ Dropped(v, st, e)
                BY <1>2, <3>4
            <4> QED
                BY <4>1, DropLeaves
        <3>8. Len(u) = Len(v) /\ Len(u) \in Nat /\ Len(u) = Len(st) - e
            BY <2>3, <2>6, <3>3, <3>5, <3>6, <3>7
        <3>9. \A j \in 1..Len(u) : u[j] = v[j]
            <4> TAKE j \in 1..Len(u)
            <4>1. w + j \in 1..Len(st) - o /\ j \in 1..Len(t) - w /\ j \in 1..Len(st) - e /\ o + (w + j) = e + j
                BY <2>3, <2>6, <3>3, <3>5, <3>6, <3>8
            <4> QED
                BY <2>6, <3>6, <3>7, <4>1
        <3>10. PICK S : u \in Seq(S)
            BY <3>6 DEF IsSeq
        <3>11. PICK T : v \in Seq(T)
            BY <3>7 DEF IsSeq
        <3>12. u = v
            <4>1. u = [j \in 1..Len(u) |-> u[j]]
                BY <3>10
            <4>2. v = [j \in 1..Len(v) |-> v[j]]
                BY <3>11
            <4> QED
                BY <3>8, <3>9, <4>1, <4>2
        <3> QED
            BY <3>1, <3>12
    <2> QED
        BY <2>1, <2>10, <2>11
<1>6. \A i \in 0..n : g[i] = [ok |-> TRUE, rest |-> Drop(st, at[i])]
    BY <1>3
<1>7. g[0] = [ok |-> TRUE, rest |-> st]
    <2>1. Drop(st, 0) = st
        <3>1. PICK S : st \in Seq(S)
            BY <1>2 DEF IsSeq
        <3> QED
            BY <3>1 DEF Drop
    <2> QED
        BY <1>2, <1>6, <2>1
<1>8. Reads(g, st, n)
    <2>1. ASSUME NEW i \in 1..n
          PROVE  g[i] = [ok |-> g[i - 1].ok /\ ReadsDevice(g[i - 1].rest, TRUE).ok,
                         rest |-> ReadsDevice(g[i - 1].rest, TRUE).rest]
        <3>0. PICK y, b, d, e : /\ y = g[i - 1] /\ b = Drop(st, at[i - 1]) /\ d = ReadsDevice(b, TRUE)
                                /\ e = Drop(st, at[i])
            BY Zenon
        <3>1. g[i - 1].ok = TRUE /\ g[i - 1].rest = b
            <4>1. i - 1 \in 0..n
                BY <1>2
            <4>2. y = [ok |-> TRUE, rest |-> b]
                BY <1>6, <3>0, <4>1, Zenon
            <4>3. y.ok = TRUE /\ y.rest = b
                BY <4>2
            <4> QED
                BY <3>0, <4>3
        <3>2. /\ ReadsDevice(g[i - 1].rest, TRUE).ok = TRUE
              /\ ReadsDevice(g[i - 1].rest, TRUE).rest = e
            <4>1. d = [ok |-> TRUE, rest |-> e]
                BY <1>5, <3>0, Zenon
            <4>2. d.ok = TRUE /\ d.rest = e
                BY <4>1
            <4>3. d = ReadsDevice(g[i - 1].rest, TRUE)
                BY <3>0, <3>1, Zenon
            <4> QED
                BY <4>2, <4>3, Zenon
        <3>3. (g[i - 1].ok /\ ReadsDevice(g[i - 1].rest, TRUE).ok) = TRUE
            BY <3>1, <3>2
        <3>4. g[i] = [ok |-> TRUE, rest |-> e]
            <4>1. i \in 0..n
                BY <1>2
            <4> QED
                BY <1>6, <3>0, <4>1, Zenon
        <3> QED
            BY <3>2, <3>3, <3>4, Zenon
    <2>2. g = [i \in 0..n |-> g[i]]
        BY <1>3
    <2>3. \A i \in 0..n : g[i] = IF i = 0 THEN [ok |-> TRUE, rest |-> st]
                        ELSE [ok |-> g[i - 1].ok /\ ReadsDevice(g[i - 1].rest, TRUE).ok,
                              rest |-> ReadsDevice(g[i - 1].rest, TRUE).rest]
        <3> TAKE i \in 0..n
        <3>1. i # 0 => i \in 1..n
            BY <1>2
        <3> QED
            BY <1>7, <2>1, <3>1, Zenon
    <2> QED
        BY <2>2, <2>3, Zenon DEF Reads
<1>9. PICK h : h = CHOOSE x : Reads(x, st, n)
    BY Zenon
<1>10. Reads(h, st, n)
    BY <1>8, <1>9, Zenon
<1>11. ReadsDevices(st, n) = h[n]
    BY <1>9, Zenon DEF ReadsDevices, Reads
<1>12. PICK G : G = {k \in 0..n : h[k] = g[k]}
    BY Zenon
<1>13. 0 \in G
    <2>1. 0 \in 0..n
        BY <1>2
    <2>2. h[0] = [ok |-> TRUE, rest |-> st]
        BY <1>10, <2>1 DEF Reads
    <2> QED
        BY <1>7, <1>12, <2>1, <2>2
<1>14. ASSUME NEW k \in 0..n - 1, k \in G PROVE k + 1 \in G
    <2>1. k + 1 \in 0..n /\ k + 1 # 0 /\ (k + 1) - 1 = k
        BY <1>2
    <2>2. h[k + 1] = [ok |-> h[k].ok /\ ReadsDevice(h[k].rest, TRUE).ok,
                      rest |-> ReadsDevice(h[k].rest, TRUE).rest]
        BY <1>10, <2>1 DEF Reads
    <2>3. g[k + 1] = [ok |-> g[k].ok /\ ReadsDevice(g[k].rest, TRUE).ok,
                      rest |-> ReadsDevice(g[k].rest, TRUE).rest]
        BY <1>8, <2>1 DEF Reads
    <2>4. h[k] = g[k]
        BY <1>12, <1>14
    <2>5. h[k + 1] = g[k + 1]
        BY <2>2, <2>3, <2>4
    <2> QED
        BY <1>12, <2>1, <2>5
<1>15. \A k \in 0..n : k \in G
    BY <1>2, <1>13, <1>14, Upwards
<1>16. h[n] = g[n] /\ g[n] = [ok |-> TRUE, rest |-> Drop(st, at[n])]
    <2>1. n \in 0..n
        BY <1>2
    <2> QED
        BY <1>6, <1>12, <1>15, <2>1
<1>17. Drop(st, Len(st)) = <<>>
    <2>1. PICK l, t : l = Len(st) /\ t = Drop(st, l)
        BY Zenon
    <2>2. Dropped(t, st, l)
        BY <1>2, <2>1 DEF Dropped
    <2>3. /\ IsSeq(t) /\ Len(st) \in Nat /\ Len(t) = Len(st) - l
          /\ \A j \in 1..Len(st) - l : t[j] = st[l + j]
          /\ l = Len(st) => t = <<>>
        <3>1. IsSeq(st)
            BY <1>2
        <3> QED
            BY <2>2, <3>1, DropLeaves
    <2> QED
        BY <2>1, <2>3
<1> QED
    BY <1>2, <1>11, <1>16, <1>17

\* The three fields that every message of the OP phase begins with
LEMMA VersionedFields ==
    ASSUME NEW v, NEW op, NEW h, h = Versioned(v, op)
    PROVE  IsSeq(h) /\ Len(h) = 3 /\ Is(h[1], "version", 2) /\ h[1].v = v /\ h[2].v = op
<1>1. h = <<Cell("version", 2, v), Cell("op", 2, op), Cell("status", 4, 0)>>
    BY DEF Versioned
<1>2. h = [i \in 1..3 |-> h[i]]
    BY <1>1
<1>3. IsSeq(h) /\ Len(h) = 3
    BY <1>2, PlacesMakeSeq
<1>4. Is(h[1], "version", 2) /\ h[1].v = v /\ h[2].v = op
    BY <1>1 DEF Is, Cell
<1> QED
    BY <1>3, <1>4

\* What is left of two parts without the first is the second.
LEMMA DropFirstPart ==
    ASSUME NEW a, NEW b, NEW c, IsSeq(a), IsSeq(b), Chained(c, a, b)
    PROVE  Drop(c, Len(a)) = b
<1>1. /\ IsSeq(c) /\ Len(a) \in Nat /\ Len(b) \in Nat /\ Len(c) = Len(a) + Len(b)
      /\ \A i \in 1..Len(a) : c[i] = a[i]
      /\ \A i \in 1..Len(b) : c[Len(a) + i] = b[i]
    BY ChainedParts
<1>2. PICK l, d : l = Len(a) /\ d = Drop(c, l)
    BY Zenon
<1>3. Dropped(d, c, l)
    BY <1>1, <1>2 DEF Dropped
<1>4. /\ IsSeq(d) /\ Len(c) \in Nat /\ Len(d) = Len(c) - l
      /\ \A i \in 1..Len(c) - l : d[i] = c[l + i]
      /\ l = Len(c) => d = <<>>
    <2>1. IsSeq(c)
        BY <1>1
    <2> QED
        BY <1>3, <2>1, DropLeaves
<1>5. Len(d) = Len(b) /\ \A i \in 1..Len(b) : d[i] = b[i]
    BY <1>1, <1>2, <1>4
<1>6. PICK S : d \in Seq(S)
    BY <1>4 DEF IsSeq
<1>7. PICK T : b \in Seq(T)
    BY DEF IsSeq
<1>8. d = [i \in 1..Len(d) |-> d[i]]
    BY <1>6
<1>9. b = [i \in 1..Len(b) |-> b[i]]
    BY <1>7
<1>10. d = b
    BY <1>5, <1>8, <1>9
<1> QED
    BY <1>2, <1>10

\* Three parts in one stream, however they are put together
LEMMA Associates ==
    ASSUME NEW a, NEW b, NEW d, IsSeq(a), IsSeq(b), IsSeq(d), NEW y, Chained(y, a, b),
           NEW z, Chained(z, b, d), NEW c, Chained(c, y, d)
    PROVE  Chained(c, a, z)
<1>1. /\ IsSeq(y) /\ Len(a) \in Nat /\ Len(b) \in Nat /\ Len(y) = Len(a) + Len(b)
      /\ \A i \in 1..Len(a) : y[i] = a[i]
      /\ \A i \in 1..Len(b) : y[Len(a) + i] = b[i]
    BY ChainedParts
<1>2. /\ IsSeq(z) /\ Len(b) \in Nat /\ Len(d) \in Nat /\ Len(z) = Len(b) + Len(d)
      /\ \A i \in 1..Len(b) : z[i] = b[i]
      /\ \A i \in 1..Len(d) : z[Len(b) + i] = d[i]
    BY ChainedParts
<1>3. /\ IsSeq(c) /\ Len(y) \in Nat /\ Len(d) \in Nat /\ Len(c) = Len(y) + Len(d)
      /\ \A i \in 1..Len(y) : c[i] = y[i]
      /\ \A i \in 1..Len(d) : c[Len(y) + i] = d[i]
    <2>1. IsSeq(y)
        BY <1>1
    <2> QED
        BY <2>1, ChainedParts
<1>4. PICK e : e = a \o z
    BY Zenon
<1>5. Chained(e, a, z)
    BY <1>4 DEF Chained
<1>6. /\ IsSeq(e) /\ Len(a) \in Nat /\ Len(z) \in Nat /\ Len(e) = Len(a) + Len(z)
      /\ \A i \in 1..Len(a) : e[i] = a[i]
      /\ \A i \in 1..Len(z) : e[Len(a) + i] = z[i]
    <2>1. IsSeq(z)
        BY <1>2
    <2> QED
        BY <1>5, <2>1, ChainedParts
<1>7. Len(c) = Len(e) /\ Len(c) = Len(a) + Len(b) + Len(d)
    BY <1>1, <1>2, <1>3, <1>6
<1>8. ASSUME NEW i \in 1..Len(c) PROVE c[i] = e[i]
    <2>1. CASE i \in 1..Len(a)
        <3>1. i \in 1..Len(y)
            BY <1>1, <2>1
        <3> QED
            BY <1>1, <1>3, <1>6, <2>1, <3>1
    <2>2. CASE i - Len(a) \in 1..Len(b)
        <3>1. PICK j : j = i - Len(a) /\ i = Len(a) + j /\ j \in 1..Len(b)
            BY <1>1, <2>2
        <3>2. i \in 1..Len(y) /\ j \in 1..Len(z)
            BY <1>1, <1>2, <3>1
        <3>3. c[i] = b[j]
            BY <1>1, <1>3, <3>1, <3>2
        <3>4. e[i] = b[j]
            BY <1>2, <1>6, <3>1, <3>2
        <3> QED
            BY <3>3, <3>4
    <2>3. CASE i - Len(a) - Len(b) \in 1..Len(d)
        <3>1. PICK j : /\ j = i - Len(a) - Len(b) /\ i = Len(y) + j /\ j \in 1..Len(d)
                       /\ i = Len(a) + (Len(b) + j)
            BY <1>1, <1>3, <2>3
        <3>2. Len(b) + j \in 1..Len(z)
            BY <1>1, <1>2, <3>1
        <3>3. c[i] = d[j]
            BY <1>3, <3>1
        <3>4. e[i] = d[j]
            BY <1>2, <1>6, <3>1, <3>2
        <3> QED
            BY <3>3, <3>4
    <2> QED
        BY <1>1, <1>3, <1>7, <2>1, <2>2, <2>3
<1>9. PICK S : c \in Seq(S)
    BY <1>3 DEF IsSeq
<1>10. PICK T : e \in Seq(T)
    BY <1>6 DEF IsSeq
<1>11. c = [i \in 1..Len(c) |-> c[i]]
    BY <1>9
<1>12. e = [i \in 1..Len(e) |-> e[i]]
    BY <1>10
<1>13. c = e
    BY <1>7, <1>8, <1>11, <1>12
<1> QED
    BY <1>5, <1>13

\* The answer of the OP phase
OpReplied(st, phase) ==
    \/ phase = "listed" /\ st = OpRepDevlist
    \/ phase = "refused" /\ st = OpRepImport(FALSE)
    \/ phase = "urb" /\ WireDevices # <<>> /\ st = OpRepImport(TRUE)
\* An answer with the body b
Answered(st, op, b) == Chained(st, Versioned(273, op), b)
LEMMA OpAnswerRead ==
    ASSUME NEW st, NEW op, NEW b, IsSeq(b), Answered(st, op, b)
    PROVE  /\ IsSeq(st) /\ st # <<>> /\ Is(Head(st), "version", 2) /\ Drop(st, 3) = b
<1>1. PICK h : h = Versioned(273, op)
    BY Zenon
<1>2. IsSeq(h) /\ Len(h) = 3 /\ Is(h[1], "version", 2)
    BY <1>1, VersionedFields
<1>3. Chained(st, h, b)
    BY <1>1 DEF Answered
<1>4. /\ IsSeq(st) /\ Len(h) \in Nat /\ Len(b) \in Nat /\ Len(st) = Len(h) + Len(b)
      /\ \A i \in 1..Len(h) : st[i] = h[i]
      /\ \A i \in 1..Len(b) : st[Len(h) + i] = b[i]
    <2>1. IsSeq(h)
        BY <1>2
    <2> QED
        BY <1>3, <2>1, ChainedParts
<1>5. Drop(st, Len(h)) = b
    <2>1. IsSeq(h)
        BY <1>2
    <2> QED
        BY <1>3, <2>1, DropFirstPart
<1>6. st # <<>> /\ st[1] = h[1]
    BY <1>2, <1>4
<1>7. Head(st) = st[1]
    <2>1. PICK S : st \in Seq(S)
        BY <1>4 DEF IsSeq
    <2> QED
        BY <1>6, <2>1
<1> QED
    BY <1>2, <1>4, <1>5, <1>6, <1>7

LEMMA OpRead ==
    ASSUME OpReplied(to_client, wphase)
    PROVE  IsSeq(to_client) /\ AtOpReply /\ ReadsOpReply.ok /\ ReadsOpReply.rest = <<>>
<1>1. WireDevices \in Seq(0..255)
    BY UsbIpWireAssumption
<1>2. CASE wphase = "refused"
    <2>1. to_client = Versioned(273, "import") \o <<>>
        BY <1>2 DEF OpReplied, OpRepImport
    <2>2. Answered(to_client, "import", <<>>) /\ IsSeq(<<>>)
        BY <2>1 DEF Answered, Chained, IsSeq
    <2>3. IsSeq(to_client) /\ to_client # <<>> /\ Is(Head(to_client), "version", 2) /\ Drop(to_client, 3) = <<>>
        BY <2>2, OpAnswerRead
    <2>4. ReadsOpReply = [ok |-> TRUE, rest |-> <<>>]
        BY <1>2, <2>3 DEF ReadsOpReply
    <2> QED
        BY <2>3, <2>4 DEF AtOpReply
<1>3. CASE wphase = "urb"
    <2>1. PICK c, b : c = WireDevices[1] /\ b = DeviceBytes(c)
        BY Zenon
    <2>2. WireDevices # <<>> /\ to_client = Versioned(273, "import") \o b
        BY <1>3, <2>1 DEF OpReplied, OpRepImport
    <2>3. c \in Nat
        <3>1. Len(WireDevices) \in Nat /\ (Len(WireDevices) = 0 => WireDevices = <<>>)
            BY <1>1
        <3>2. 1 \in 1..Len(WireDevices)
            BY <2>2, <3>1
        <3>3. PICK B : B = 0..255
            BY Zenon
        <3>4. c \in B
            BY <1>1, <2>1, <3>2, <3>3, ElementOfSeq, Zenon
        <3> QED
            BY <3>3, <3>4
    <2>4. DeviceAt(b, c) /\ Len(b) = 6
        BY <2>1, <2>3, DeviceWritten
    <2>5. Answered(to_client, "import", b) /\ IsSeq(b)
        BY <2>2, <2>4 DEF Answered, Chained, DeviceAt
    <2>6. IsSeq(to_client) /\ to_client # <<>> /\ Is(Head(to_client), "version", 2) /\ Drop(to_client, 3) = b
        BY <2>5, OpAnswerRead
    <2>7. ReadsDevice(b, FALSE) = [ok |-> TRUE, rest |-> Drop(b, 6 + 0)]
        <3>1. Len(b) >= 6 + 0 /\ \A i \in 7..6 + 0 : Is(b[i], "interface", 4)
            BY <2>4
        <3>2. DeviceAt(b, c)
            BY <2>4
        <3>3. FALSE \in BOOLEAN /\ 0 = (IF FALSE THEN c ELSE 0)
            OBVIOUS
        <3> QED
            BY <2>3, <3>1, <3>2, <3>3, DeviceRead
    <2>8. Drop(b, 6) = <<>>
        <3>1. PICK w, r : w = 6 /\ r = Drop(b, w)
            BY Zenon
        <3>2. Dropped(r, b, w)
            BY <2>4, <3>1 DEF Dropped
        <3>3. /\ IsSeq(r) /\ Len(b) \in Nat /\ Len(r) = Len(b) - w
              /\ \A i \in 1..Len(b) - w : r[i] = b[w + i]
              /\ w = Len(b) => r = <<>>
            <4>1. IsSeq(b)
                BY <2>5
            <4> QED
                BY <3>2, <4>1, DropLeaves
        <3> QED
            BY <2>4, <3>1, <3>3
    <2>9. ReadsOpReply = [ok |-> TRUE, rest |-> <<>>]
        <3>1. ReadsOpReply = ReadsDevice(b, FALSE)
            BY <1>3, <2>6 DEF ReadsOpReply
        <3>2. 6 + 0 = 6
            OBVIOUS
        <3> QED
            BY <2>7, <2>8, <3>1, <3>2
    <2> QED
        BY <2>6, <2>9 DEF AtOpReply
<1>4. CASE wphase = "listed"
    <2>1. PICK n, ms, f, hd, b : /\ n = Len(WireDevices)
                  /\ ms = [d \in DOMAIN WireDevices |->
                             DeviceBytes(WireDevices[d]) \o InterfaceBytes(WireDevices[d])]
                  /\ f = FlattenSeq(ms) /\ hd = <<Cell("count", 4, n)>> /\ b = hd \o f
        BY Zenon
    <2>2. n \in Nat /\ DOMAIN WireDevices = 1..n /\ \A i \in 1..n : WireDevices[i] \in Nat
        <3>1. n \in Nat /\ DOMAIN WireDevices = 1..n
            BY <1>1, <2>1
        <3>2. PICK B : B = 0..255
            BY Zenon
        <3>3. \A i \in 1..n : WireDevices[i] \in B
            BY <1>1, <2>1, <3>2, ElementOfSeq, Zenon
        <3>4. \A i \in 1..n : WireDevices[i] \in Nat
            BY <3>2, <3>3
        <3> QED
            BY <3>1, <3>4
    <2>3. \A i \in 1..n : InterfacesAt(ms[i], WireDevices[i])
        <3> TAKE i \in 1..n
        <3>1. PICK x, c : x = ms[i] /\ c = WireDevices[i]
            BY Zenon
        <3>2. c \in Nat /\ Chained(x, DeviceBytes(c), InterfaceBytes(c))
            BY <2>1, <2>2, <3>1 DEF Chained
        <3>3. InterfacesAt(x, c)
            BY <3>2, InterfacesWritten
        <3> QED
            BY <3>1, <3>3
    <2>4. IsSeq(ms) /\ Len(ms) = n
        <3>1. ms = [i \in 1..n |-> ms[i]]
            BY <2>1, <2>2
        <3> QED
            BY <2>2, <3>1, PlacesMakeSeq
    <2>5. \A i \in 1..n : IsSeq(ms[i])
        BY <2>3 DEF InterfacesAt, DeviceAt
    <2>6. MadeOf(f, n, ms)
        BY <2>1, <2>4, <2>5, FlattenFramed
    <2>7. IsSeq(f)
        BY <2>6 DEF MadeOf
    <2>8. ReadsDevices(f, n) = [ok |-> TRUE, rest |-> <<>>]
        <3>1. \A i \in 1..n : WireDevices[i] \in Nat /\ InterfacesAt(ms[i], WireDevices[i])
            BY <2>2, <2>3
        <3> QED
            BY <2>6, <3>1, DevicesRead
    <2>9. hd = [i \in 1..1 |-> hd[i]] /\ Is(hd[1], "count", 4) /\ hd[1].v = n
        BY <2>1 DEF Is, Cell
    <2>10. IsSeq(hd) /\ Len(hd) = 1
        BY <2>9, PlacesMakeSeq
    <2>11. Chained(b, hd, f)
        BY <2>1 DEF Chained
    <2>12. /\ IsSeq(b) /\ Len(hd) \in Nat /\ Len(f) \in Nat /\ Len(b) = Len(hd) + Len(f)
           /\ \A i \in 1..Len(hd) : b[i] = hd[i]
           /\ \A i \in 1..Len(f) : b[Len(hd) + i] = f[i]
        <3>1. IsSeq(hd)
            BY <2>10
        <3> QED
            BY <2>7, <2>11, <3>1, ChainedParts
    <2>13. Drop(b, Len(hd)) = f
        <3>1. IsSeq(hd)
            BY <2>10
        <3> QED
            BY <2>7, <2>11, <3>1, DropFirstPart
    <2>14. Head(b) = hd[1] /\ Tail(b) = f
        <3>1. PICK S : b \in Seq(S)
            BY <2>12 DEF IsSeq
        <3>2. Len(b) \in Nat /\ Len(b) >= 1 /\ b[1] = hd[1]
            BY <2>10, <2>12
        <3>3. b # <<>>
            BY <3>2
        <3>4. Head(b) = b[1]
            BY <3>1, <3>3
        <3>5. Tail(b) = SubSeq(b, 2, Len(b))
            BY <3>1, <3>3
        <3>6. Drop(b, 1) = SubSeq(b, 2, Len(b))
            BY DEF Drop
        <3> QED
            BY <2>10, <2>13, <3>2, <3>4, <3>5, <3>6
    <2>15. PICK v, y : v = Versioned(273, "devlist") /\ y = v \o hd
        BY Zenon
    <2>16. Answered(to_client, "devlist", b) /\ IsSeq(b)
        <3>1. to_client = y \o f
            BY <1>4, <2>1, <2>15 DEF OpReplied, OpRepDevlist
        <3>2. Chained(y, v, hd) /\ Chained(to_client, y, f)
            BY <2>15, <3>1 DEF Chained
        <3>3. IsSeq(v)
            BY <2>15, VersionedFields
        <3>4. IsSeq(hd)
            BY <2>10
        <3>5. Chained(to_client, v, b)
            BY <2>7, <2>11, <3>2, <3>3, <3>4, Associates
        <3> QED
            BY <2>12, <2>15, <3>5 DEF Answered
    <2>17. IsSeq(to_client) /\ to_client # <<>> /\ Is(Head(to_client), "version", 2) /\ Drop(to_client, 3) = b
        BY <2>16, OpAnswerRead
    <2>18. ReadsDevices(Tail(b), Head(b).v) = [ok |-> TRUE, rest |-> <<>>]
        BY <2>8, <2>9, <2>14
    <2>19. ReadsOpReply = [ok |-> Is(Head(b), "count", 4) /\ ReadsDevices(Tail(b), Head(b).v).ok,
                           rest |-> ReadsDevices(Tail(b), Head(b).v).rest]
        BY <1>4, <2>17 DEF ReadsOpReply
    <2>20. ReadsOpReply.ok /\ ReadsOpReply.rest = <<>>
        <3>1. Is(Head(b), "count", 4)
            BY <2>9, <2>14
        <3>2. PICK d : d = ReadsDevices(Tail(b), Head(b).v)
            BY Zenon
        <3>3. d.ok = TRUE /\ d.rest = <<>>
            BY <2>18, <3>2
        <3>4. (Is(Head(b), "count", 4) /\ d.ok) = TRUE
            BY <3>1, <3>3
        <3>5. ReadsOpReply = [ok |-> TRUE, rest |-> <<>>]
            BY <2>19, <3>2, <3>3, <3>4, Zenon
        <3> QED
            BY <3>5
    <2> QED
        BY <2>17, <2>20 DEF AtOpReply
<1> QED
    BY <1>2, <1>3, <1>4 DEF OpReplied

\* A request of the OP phase, which its reader takes whole
OpSize(op) == 3 + (IF op = "import" THEN 1 ELSE 0)
OpAsked(st, v, op) ==
    IsSeq(st) /\ st # <<>> /\ st[1].v = v /\ st[2].v = op /\ Drop(st, OpSize(op)) = <<>>
Asks(st, v, op) == Chained(st, Versioned(v, op), IF op = "import" THEN <<BusId>> ELSE <<>>)
LEMMA OpWritten ==
    ASSUME NEW v, NEW op, NEW st, Asks(st, v, op)
    PROVE  OpAsked(st, v, op)
<1>1. PICK h, b : h = Versioned(v, op) /\ b = (IF op = "import" THEN <<BusId>> ELSE <<>>)
    BY Zenon
<1>2. IsSeq(h) /\ Len(h) = 3 /\ h[1].v = v /\ h[2].v = op
    BY <1>1, VersionedFields
<1>3. IsSeq(b) /\ Len(b) = (IF op = "import" THEN 1 ELSE 0)
    <2>1. CASE op = "import"
        <3>1. b = <<BusId>>
            BY <1>1, <2>1
        <3>2. b = [i \in 1..1 |-> b[i]]
            BY <3>1
        <3> QED
            BY <2>1, <3>2, PlacesMakeSeq
    <2>2. CASE op # "import"
        BY <1>1, <2>2 DEF IsSeq
    <2> QED
        BY <2>1, <2>2
<1>4. Chained(st, h, b)
    BY <1>1, Zenon DEF Asks
<1>5. /\ IsSeq(st) /\ Len(h) \in Nat /\ Len(b) \in Nat /\ Len(st) = Len(h) + Len(b)
      /\ \A i \in 1..Len(h) : st[i] = h[i]
      /\ \A i \in 1..Len(b) : st[Len(h) + i] = b[i]
    <2>1. IsSeq(h)
        BY <1>2
    <2>2. IsSeq(b)
        BY <1>3
    <2> QED
        BY <1>4, <2>1, <2>2, ChainedParts
<1>6. PICK l, r : l = OpSize(op) /\ r = Drop(st, l)
    BY Zenon
<1>7. Len(st) = l /\ l \in Nat
    BY <1>2, <1>3, <1>5, <1>6 DEF OpSize
<1>8. Dropped(r, st, l)
    BY <1>6, <1>7 DEF Dropped
<1>9. /\ IsSeq(r) /\ Len(st) \in Nat /\ Len(r) = Len(st) - l
      /\ \A i \in 1..Len(st) - l : r[i] = st[l + i]
      /\ l = Len(st) => r = <<>>
    <2>1. IsSeq(st)
        BY <1>5
    <2> QED
        BY <1>8, <2>1, DropLeaves
<1>10. st[1] = h[1] /\ st[2] = h[2] /\ st # <<>>
    BY <1>2, <1>5
<1> QED
    BY <1>2, <1>5, <1>6, <1>7, <1>9, <1>10 DEF OpAsked

\* What the client has sent: a URB, or an unlink of one
IsUrb(c) == c \in WireUrbs
IsUnlink(c) == \E u : c = [unlink |-> u]
LEMMA UrbOrUnlink ==
    ASSUME NEW c
    PROVE  /\ IsUrb(c) => "in" \in DOMAIN c /\ c.in \in BOOLEAN
           /\ IsUnlink(c) => ~ IsUrb(c) /\ "in" \notin DOMAIN c
<1>1. IsUrb(c) => "in" \in DOMAIN c /\ c.in \in BOOLEAN
    <2> SUFFICES ASSUME IsUrb(c) PROVE "in" \in DOMAIN c /\ c.in \in BOOLEAN
        OBVIOUS
    <2>1. c \in [in : BOOLEAN, ep0 : BOOLEAN, len : Nat, packets : Seq(Nat)]
        BY UsbIpWireAssumption DEF IsUrb
    <2> QED
        BY <2>1
<1>2. IsUnlink(c) => "in" \notin DOMAIN c
    <2> SUFFICES ASSUME IsUnlink(c) PROVE "in" \notin DOMAIN c
        OBVIOUS
    <2>1. PICK u : c = [unlink |-> u]
        BY DEF IsUnlink
    <2>2. DOMAIN c = {"unlink"}
        BY <2>1
    <2> QED
        BY <2>2
<1> QED
    BY <1>1, <1>2

\* Command s, as it is written in the stream to the server, and the reply to
\* one of the first r commands in the stream to the client
CommandAt(x, s, c) ==
    \/ IsUrb(c) /\ SubmitAt(x, s, c)
    \/ IsUnlink(c) /\ \E u : UnlinkAt(x, s, u)
CommandsIn(st, ask, r) ==
    \E m : /\ MadeOf(st, Len(ask) - r, m)
           /\ \A i \in 1..Len(ask) - r : CommandAt(m[i], r + i, ask[r + i])
ReplyAt(x, r, ask, fill, wait) ==
    \E s \in 1..r :
        \/ IsUrb(ask[s]) /\ s \notin wait /\ \E l, n : RetAt(x, s, ask[s], fill[s], l, n)
        \/ IsUnlink(ask[s]) /\ RetUnlinkAt(x, s)
Replied(st, r, ask, fill, wait) ==
    \E n, m : MadeOf(st, n, m) /\ \A i \in 1..n : ReplyAt(m[i], r, ask, fill, wait)
Replies(st, r, ask, fill, wait) ==
    \/ OpReplied(st, "urb") /\ ask = <<>>
    \/ Replied(st, r, ask, fill, wait)

\* Of the first r commands, those that the handler holds are URBs; no command
\* that it holds, or has not got yet, is answered.
Held(ask, wait, g, r) ==
    /\ \A s \in wait : s \in 1..r /\ IsUrb(ask[s])
    /\ \A s \in 1..Len(ask) : g[s] # <<>> => s \in 1..r /\ s \notin wait

\* What the client got of an IN URB is what the device put into its packets.
Received(ask, fill, g) ==
    \A s \in 1..Len(ask) :
        (g[s] # <<>> /\ IsUrb(ask[s]) /\ ask[s].in /\ fill[s] # <<>>) =>
            g[s] = [i \in DOMAIN fill[s] |-> [k \in 1..fill[s][i] |-> <<s, i, k>>]]
Kept(ask, fill, g) ==
    /\ IsSeq(ask) /\ IsSeq(fill) /\ IsSeq(g) /\ Len(fill) = Len(ask) /\ Len(g) = Len(ask)
    /\ \A s \in 1..Len(ask) : IsUrb(ask[s]) \/ IsUnlink(ask[s])

Conversation(sv, cl, ask, wait, fill, g) ==
    \E r \in 0..Len(ask) :
        CommandsIn(sv, ask, r) /\ Replies(cl, r, ask, fill, wait) /\ Held(ask, wait, g, r)
\* The stream to the server in the OP phase, and the one to the client
OpTo(sv) == sv = <<>> \/ \E v, op : OpAsked(sv, v, op)
OpFrom(cl, ph) == cl = <<>> \/ OpReplied(cl, ph)

WireInv ==
    /\ Kept(asked, filled, got) /\ Received(asked, filled, got) /\ heap = waiting
    /\ \/ /\ wphase = "op" /\ asked = <<>> /\ to_client = <<>> /\ waiting = {} /\ OpTo(to_server)
       \/ /\ wphase \in {"listed", "refused"} /\ asked = <<>> /\ waiting = {}
          /\ to_server = <<>> /\ OpFrom(to_client, wphase)
       \/ wphase = "closed" /\ to_server = <<>> /\ to_client = <<>> /\ waiting = {}
       \/ wphase = "urb" /\ Conversation(to_server, to_client, asked, waiting, filled, got)

LEMMA WireStarts == WireInit => WireInv
<1> SUFFICES ASSUME WireInit PROVE WireInv
    OBVIOUS
<1>1. asked = <<>> /\ filled = <<>> /\ got = <<>> /\ heap = waiting
    BY DEF WireInit
<1>2. IsSeq(<<>>)
    BY DEF IsSeq
<1>3. Kept(asked, filled, got) /\ Received(asked, filled, got)
    BY <1>1, <1>2 DEF Kept, Received
<1> QED
    BY <1>1, <1>3 DEF WireInit, WireInv, OpTo

\* One element more, and one changed
Extended(c, a, y) == c = Append(a, y)
Changed(c, a, s, y) == c = [a EXCEPT ![s] = y]
LEMMA OneMore ==
    ASSUME NEW a, NEW y, NEW c, IsSeq(a), Extended(c, a, y)
    PROVE  /\ IsSeq(c) /\ Len(a) \in Nat /\ Len(c) = Len(a) + 1 /\ c[Len(a) + 1] = y
           /\ \A i \in 1..Len(a) : c[i] = a[i]
<1>1. PICK S : a \in Seq(S)
    BY DEF IsSeq
<1>2. PICK U : U = S \cup {y}
    BY Zenon
<1>3. a \in Seq(U) /\ y \in U
    BY <1>1, <1>2
<1>4. c \in Seq(U) /\ Len(a) \in Nat /\ Len(c) = Len(a) + 1
    BY <1>3 DEF Extended
<1>5. c[Len(a) + 1] = y /\ \A i \in 1..Len(a) : c[i] = a[i]
    BY <1>3, <1>4 DEF Extended
<1> QED
    BY <1>4, <1>5 DEF IsSeq

LEMMA OneChanged ==
    ASSUME NEW a, NEW s, NEW y, NEW c, IsSeq(a), s \in 1..Len(a), Changed(c, a, s, y)
    PROVE  /\ IsSeq(c) /\ Len(a) \in Nat /\ Len(c) = Len(a) /\ c[s] = y
           /\ \A i \in 1..Len(a) : i # s => c[i] = a[i]
<1>1. PICK S : a \in Seq(S)
    BY DEF IsSeq
<1>2. PICK n : n = Len(a)
    BY Zenon
<1>3. n \in Nat /\ DOMAIN a = 1..n
    BY <1>1, <1>2
<1>4. c = [i \in 1..n |-> c[i]] /\ c[s] = y /\ \A i \in 1..n : i # s => c[i] = a[i]
    BY <1>2, <1>3 DEF Changed
<1>5. IsSeq(c) /\ Len(c) = n
    BY <1>3, <1>4, PlacesMakeSeq
<1> QED
    BY <1>2, <1>3, <1>4, <1>5

\* One command more in the stream to the server, and its first one
LEMMA CommandsMore ==
    ASSUME NEW st, NEW ask, NEW r, IsSeq(ask), r \in 0..Len(ask), CommandsIn(st, ask, r),
           NEW c, NEW ask2, Extended(ask2, ask, c), NEW x, CommandAt(x, Len(ask) + 1, c),
           NEW t, Chained(t, st, x)
    PROVE  CommandsIn(t, ask2, r)
<1>1. /\ IsSeq(ask2) /\ Len(ask) \in Nat /\ Len(ask2) = Len(ask) + 1 /\ ask2[Len(ask) + 1] = c
      /\ \A i \in 1..Len(ask) : ask2[i] = ask[i]
    BY OneMore
<1>2. PICK m : /\ MadeOf(st, Len(ask) - r, m)
               /\ \A i \in 1..Len(ask) - r : CommandAt(m[i], r + i, ask[r + i])
    BY DEF CommandsIn
<1>3. PICK n : n = Len(ask) - r
    BY Zenon
<1>4. n \in Nat /\ r + n = Len(ask) /\ Len(ask2) - r = n + 1 /\ r + (n + 1) = Len(ask) + 1 /\ r \in Nat
    BY <1>1, <1>3
<1>5. PICK k : k = [i \in 1..n + 1 |-> IF i = n + 1 THEN x ELSE m[i]]
    BY Zenon
<1>6. k[n + 1] = x /\ \A i \in 1..n : k[i] = m[i]
    BY <1>4, <1>5
<1>7. IsSeq(x)
    BY DEF CommandAt, SubmitAt, UnlinkAt
<1>8. MadeOf(t, n + 1, k)
    <2>1. MadeOf(st, n, m)
        BY <1>2, <1>3
    <2> QED
        BY <1>6, <1>7, <2>1, FramedMore
<1>9. \A i \in 1..n + 1 : CommandAt(k[i], r + i, ask2[r + i])
    <2> TAKE i \in 1..n + 1
    <2>1. CASE i \in 1..n
        <3>1. r + i \in 1..Len(ask)
            BY <1>4, <2>1
        <3>2. ask2[r + i] = ask[r + i] /\ k[i] = m[i]
            BY <1>1, <1>6, <2>1, <3>1
        <3>3. CommandAt(m[i], r + i, ask[r + i])
            BY <1>2, <1>3, <2>1
        <3> QED
            BY <3>2, <3>3
    <2>2. CASE i = n + 1
        BY <1>1, <1>4, <1>6, <2>2
    <2> QED
        BY <1>4, <2>1, <2>2
<1> QED
    BY <1>4, <1>8, <1>9 DEF CommandsIn

LEMMA CommandsFirst ==
    ASSUME NEW st, NEW ask, NEW r, IsSeq(ask), r \in 0..Len(ask), CommandsIn(st, ask, r), st # <<>>
    PROVE  /\ IsSeq(st) /\ r + 1 \in 1..Len(ask)
           /\ \E x : /\ CommandAt(x, r + 1, ask[r + 1]) /\ Starts(st, x)
                     /\ CommandsIn(Drop(st, Len(x)), ask, r + 1)
<1>1. PICK m : /\ MadeOf(st, Len(ask) - r, m)
               /\ \A i \in 1..Len(ask) - r : CommandAt(m[i], r + i, ask[r + i])
    BY DEF CommandsIn
<1>2. PICK n, x : n = Len(ask) - r /\ x = m[1]
    BY Zenon
<1>3. MadeOf(st, n, m)
    BY <1>1, <1>2
<1>4. n \in Nat /\ IsSeq(st) /\ (n = 0 => st = <<>>)
    BY <1>3, FramedEnds
<1>5. n # 0
    BY <1>4
<1>6. IsSeq(x) /\ Starts(st, x) /\ 1 \in 1..n
    BY <1>2, <1>3, <1>5, FramedFirst
<1>7. CommandAt(x, r + 1, ask[r + 1])
    BY <1>1, <1>2, <1>6
<1>8. Len(ask) \in Nat
    BY DEF IsSeq
<1>9. r + 1 \in 1..Len(ask) /\ n - 1 = Len(ask) - (r + 1)
    BY <1>2, <1>4, <1>5, <1>8
<1>10. PICK k, t : k = [i \in 1..n - 1 |-> m[i + 1]] /\ t = Drop(st, Len(x))
    BY Zenon
<1>11. \A i \in 1..n - 1 : k[i] = m[i + 1]
    BY <1>10
<1>12. MadeOf(t, n - 1, k)
    BY <1>2, <1>3, <1>5, <1>10, <1>11, FramedLess
<1>13. \A i \in 1..n - 1 : CommandAt(k[i], (r + 1) + i, ask[(r + 1) + i])
    <2> TAKE i \in 1..n - 1
    <2>1. i + 1 \in 1..n /\ r + (i + 1) = (r + 1) + i
        BY <1>4, <1>8
    <2>2. CommandAt(m[i + 1], r + (i + 1), ask[r + (i + 1)])
        BY <1>1, <1>2, <2>1
    <2> QED
        BY <1>11, <2>1, <2>2
<1>14. CommandsIn(t, ask, r + 1)
    BY <1>9, <1>12, <1>13 DEF CommandsIn
<1> QED
    BY <1>4, <1>6, <1>7, <1>9, <1>10, <1>14

\* One reply more in the stream to the client, and its first one
LEMMA RepliesMore ==
    ASSUME NEW st, NEW r, NEW ask, NEW fill, NEW wait, Replied(st, r, ask, fill, wait),
           NEW x, ReplyAt(x, r, ask, fill, wait), NEW t, Chained(t, st, x)
    PROVE  Replied(t, r, ask, fill, wait)
<1>1. PICK n, m : MadeOf(st, n, m) /\ \A i \in 1..n : ReplyAt(m[i], r, ask, fill, wait)
    BY DEF Replied
<1>2. n \in Nat
    BY <1>1, FramedEnds
<1>3. PICK k : k = [i \in 1..n + 1 |-> IF i = n + 1 THEN x ELSE m[i]]
    BY Zenon
<1>4. k[n + 1] = x /\ \A i \in 1..n : k[i] = m[i]
    BY <1>2, <1>3
<1>5. IsSeq(x)
    BY DEF ReplyAt, RetAt, RetUnlinkAt
<1>6. MadeOf(t, n + 1, k)
    <2>1. MadeOf(st, n, m)
        BY <1>1
    <2> QED
        BY <1>4, <1>5, <2>1, FramedMore
<1>7. \A i \in 1..n + 1 : ReplyAt(k[i], r, ask, fill, wait)
    <2> TAKE i \in 1..n + 1
    <2>1. i \in 1..n \/ i = n + 1
        BY <1>2
    <2> QED
        BY <1>1, <1>4, <2>1
<1> QED
    BY <1>6, <1>7 DEF Replied

LEMMA RepliesFirst ==
    ASSUME NEW st, NEW r, NEW ask, NEW fill, NEW wait, Replied(st, r, ask, fill, wait), st # <<>>
    PROVE  /\ IsSeq(st)
           /\ \E x : /\ ReplyAt(x, r, ask, fill, wait) /\ Starts(st, x)
                     /\ Replied(Drop(st, Len(x)), r, ask, fill, wait)
<1>1. PICK n, m : MadeOf(st, n, m) /\ \A i \in 1..n : ReplyAt(m[i], r, ask, fill, wait)
    BY DEF Replied
<1>2. n \in Nat /\ IsSeq(st) /\ (n = 0 => st = <<>>)
    BY <1>1, FramedEnds
<1>3. PICK x : x = m[1]
    BY Zenon
<1>4. n # 0
    BY <1>2
<1>5. IsSeq(x) /\ Starts(st, x) /\ 1 \in 1..n
    BY <1>1, <1>3, <1>4, FramedFirst
<1>6. ReplyAt(x, r, ask, fill, wait)
    BY <1>1, <1>3, <1>5
<1>7. PICK k, t : k = [i \in 1..n - 1 |-> m[i + 1]] /\ t = Drop(st, Len(x))
    BY Zenon
<1>8. \A i \in 1..n - 1 : k[i] = m[i + 1]
    BY <1>7
<1>9. MadeOf(t, n - 1, k)
    BY <1>1, <1>3, <1>4, <1>7, <1>8, FramedLess
<1>10. \A i \in 1..n - 1 : ReplyAt(k[i], r, ask, fill, wait)
    <2> TAKE i \in 1..n - 1
    <2>1. i + 1 \in 1..n
        BY <1>2
    <2> QED
        BY <1>1, <1>8, <2>1
<1>11. Replied(t, r, ask, fill, wait)
    BY <1>9, <1>10 DEF Replied
<1> QED
    BY <1>2, <1>5, <1>6, <1>7, <1>11

\* What has been answered stays answered.
LEMMA RepliesKept ==
    ASSUME NEW st, NEW r, NEW ask, NEW fill, NEW wait, Replied(st, r, ask, fill, wait),
           NEW q, NEW ask2, NEW fill2, NEW wait2, 1..r \subseteq 1..q,
           \A s \in 1..r : /\ ask2[s] = ask[s]
                           /\ s \notin wait => s \notin wait2 /\ fill2[s] = fill[s]
    PROVE  Replied(st, q, ask2, fill2, wait2)
<1>1. ASSUME NEW x, ReplyAt(x, r, ask, fill, wait) PROVE ReplyAt(x, q, ask2, fill2, wait2)
    <2>1. PICK s \in 1..r :
              \/ IsUrb(ask[s]) /\ s \notin wait /\ \E l, n : RetAt(x, s, ask[s], fill[s], l, n)
              \/ IsUnlink(ask[s]) /\ RetUnlinkAt(x, s)
        BY <1>1 DEF ReplyAt
    <2>2. s \in 1..q /\ ask2[s] = ask[s] /\ (s \notin wait => s \notin wait2 /\ fill2[s] = fill[s])
        BY <2>1
    <2>3. \/ IsUrb(ask2[s]) /\ s \notin wait2 /\ \E l, n : RetAt(x, s, ask2[s], fill2[s], l, n)
          \/ IsUnlink(ask2[s]) /\ RetUnlinkAt(x, s)
        BY <2>1, <2>2
    <2> QED
        BY <2>2, <2>3 DEF ReplyAt
<1> QED
    BY <1>1 DEF Replied

\* The phase names are all different.
InPhase ==
    /\ wphase = "op" => asked = <<>> /\ to_client = <<>> /\ waiting = {} /\ OpTo(to_server)
    /\ wphase \in {"listed", "refused"} => /\ asked = <<>> /\ waiting = {} /\ to_server = <<>>
                                         /\ OpFrom(to_client, wphase)
    /\ wphase = "closed" => to_server = <<>> /\ to_client = <<>> /\ waiting = {}
    /\ wphase = "urb" => Conversation(to_server, to_client, asked, waiting, filled, got)
LEMMA WirePhases == ASSUME WireInv PROVE InPhase
    BY DEF WireInv, InPhase

LEMMA ClientOpKeeps ==
    ASSUME WireInv, NEW v, NEW op, ClientOp(v, op) PROVE WireInv'
<1>1. wphase = "op" /\ wphase' = "op" /\ asked = <<>> /\ to_client = <<>> /\ waiting = {}
    BY WirePhases DEF ClientOp, InPhase
<1>2. Asks(to_server', v, op)
    BY DEF ClientOp, Asks, Chained
<1>3. OpAsked(to_server', v, op)
    BY <1>2, OpWritten
<1>4. OpTo(to_server')
    BY <1>3 DEF OpTo
<1>5. /\ to_client' = to_client /\ asked' = asked /\ waiting' = waiting
      /\ heap' = heap /\ filled' = filled /\ got' = got
    BY DEF ClientOp
<1>6. (Kept(asked, filled, got) /\ Received(asked, filled, got) /\ heap = waiting)'
    BY <1>5 DEF WireInv
<1> QED
    BY <1>1, <1>4, <1>5, <1>6 DEF WireInv

LEMMA ServerOpKeeps ==
    ASSUME WireInv, NEW ok \in BOOLEAN, ServerOp(ok) PROVE WireInv'
<1>1. wphase = "op" /\ asked = <<>> /\ waiting = {} /\ OpTo(to_server) /\ to_server # <<>>
    BY WirePhases DEF ServerOp, InPhase
<1>2. PICK v, op : OpAsked(to_server, v, op)
    BY <1>1 DEF OpTo
<1>3. to_server[1].v = v /\ to_server[2].v = op /\ Drop(to_server, OpSize(op)) = <<>>
    BY <1>2 DEF OpAsked
<1>4. /\ asked' = asked /\ waiting' = waiting /\ heap' = heap /\ filled' = filled /\ got' = got
    BY DEF ServerOp
<1>5. (Kept(asked, filled, got) /\ Received(asked, filled, got) /\ heap = waiting)'
    BY <1>4 DEF WireInv
<1>6. PICK known : known = (v \in {0, 273} /\ op \in {"devlist", "import"})
    BY Zenon
<1>7. /\ wphase' = CASE ~known -> "closed"
                     [] known /\ op = "devlist" -> "listed"
                     [] known /\ op = "import" -> IF ok THEN "urb" ELSE "refused"
      /\ to_server' = IF known THEN Drop(to_server, OpSize(op)) ELSE <<>>
      /\ to_client' = CASE ~known -> <<>>
                        [] known /\ op = "devlist" -> OpRepDevlist
                        [] known /\ op = "import" -> OpRepImport(ok)
      /\ (ok => WireDevices # <<>>)
    BY <1>3, <1>6 DEF ServerOp, OpSize
<1>8. to_server' = <<>>
    BY <1>3, <1>7
<1>9. CASE ~ known
    <2>1. wphase' = "closed" /\ to_client' = <<>>
        BY <1>7, <1>9
    <2> QED
        BY <1>1, <1>4, <1>5, <1>8, <2>1 DEF WireInv
<1>10. CASE known /\ op = "devlist"
    <2>1. wphase' = "listed" /\ to_client' = OpRepDevlist
        BY <1>7, <1>10
    <2>2. OpFrom(to_client', wphase')
        BY <2>1 DEF OpFrom, OpReplied
    <2> QED
        BY <1>1, <1>4, <1>5, <1>8, <2>1, <2>2 DEF WireInv
<1>11. CASE known /\ op = "import" /\ ~ ok
    <2>1. wphase' = "refused" /\ to_client' = OpRepImport(FALSE)
        BY <1>7, <1>11
    <2>2. OpFrom(to_client', wphase')
        BY <2>1 DEF OpFrom, OpReplied
    <2> QED
        BY <1>1, <1>4, <1>5, <1>8, <2>1, <2>2 DEF WireInv
<1>12. CASE known /\ op = "import" /\ ok
    <2>1. wphase' = "urb" /\ to_client' = OpRepImport(TRUE) /\ WireDevices # <<>>
        BY <1>7, <1>12
    <2>2. Replies(to_client', 0, <<>>, filled, {})
        BY <2>1 DEF Replies, OpReplied
    <2>3. Len(<<>>) = 0
        OBVIOUS
    <2>4. CommandsIn(<<>>, <<>>, 0)
        <3>1. Len(<<>>) - 0 = 0
            BY <2>3
        <3>2. PICK m : m = <<>>
            OBVIOUS
        <3>3. MadeOf(<<>>, Len(<<>>) - 0, m)
            BY <3>1, FramedNone
        <3> QED
            BY <3>1, <3>3 DEF CommandsIn
    <2>5. Held(<<>>, {}, got, 0)
        BY <2>3 DEF Held
    <2>6. Conversation(<<>>, to_client', <<>>, {}, filled, got)
        <3>1. 0 \in 0..Len(<<>>)
            BY <2>3
        <3> QED
            BY <2>2, <2>4, <2>5, <3>1 DEF Conversation
    <2>7. Conversation(to_server, to_client, asked, waiting, filled, got)'
        BY <1>1, <1>4, <1>8, <2>6
    <2> QED
        BY <1>5, <2>1, <2>7 DEF WireInv
<1>13. known => op \in {"devlist", "import"}
    BY <1>6
<1> QED
    BY <1>9, <1>10, <1>11, <1>12, <1>13

\* No message of the URB phase is taken for an answer of the OP phase, nor
\* one of the two for the other.
LEMMA ReplyNames ==
    ASSUME NEW st, NEW r, NEW ask, NEW fill, NEW wait, Replied(st, r, ask, fill, wait), st # <<>>
    PROVE  /\ IsSeq(st) /\ st[1].f = "command" /\ Head(st) = st[1]
<1>1. PICK x : IsSeq(st) /\ ReplyAt(x, r, ask, fill, wait) /\ Starts(st, x)
    BY RepliesFirst
<1>2. Len(x) \in Nat /\ Len(x) >= 1 /\ x[1].f = "command"
    <2>1. CASE \E s, urb, f, l, n : RetAt(x, s, urb, f, l, n)
        <3>1. PICK s, urb, f, l, n : RetAt(x, s, urb, f, l, n)
            BY <2>1
        <3>2. PICK t : TailIs(t, s, urb, f, l, n) /\ Len(x) = 11 + Len(t)
            BY <3>1 DEF RetAt
        <3>3. Len(t) \in Nat
            BY <3>2 DEF TailIs, TailAt, IsSeq
        <3>4. Is(x[1], RetFields[1], RetWidths[1]) /\ RetFields[1] = "command"
            BY <3>1 DEF RetAt, RetFields
        <3> QED
            BY <3>2, <3>3, <3>4 DEF Is
    <2>2. CASE \E s : RetUnlinkAt(x, s)
        <3>1. Is(x[1], RetUnlinkFields[1], UnlinkWidths[1]) /\ RetUnlinkFields[1] = "command"
            BY <2>2 DEF RetUnlinkAt, RetUnlinkFields
        <3> QED
            BY <2>2, <3>1 DEF Is, RetUnlinkAt
    <2> QED
        BY <1>1, <2>1, <2>2 DEF ReplyAt
<1>3. st[1] = x[1]
    BY <1>1, <1>2 DEF Starts
<1>4. Head(st) = st[1]
    <2>1. PICK S : st \in Seq(S)
        BY <1>1 DEF IsSeq
    <2> QED
        BY <2>1
<1> QED
    BY <1>1, <1>2, <1>3, <1>4

LEMMA ClientReadsOpKeeps ==
    ASSUME WireInv, ClientReadsOp PROVE WireInv'
<1>1. to_client # <<>> /\ Head(to_client).f = "version"
    BY DEF ClientReadsOp, AtOpReply, Is
<1>2. wphase \in {"listed", "refused", "urb"}
    BY <1>1 DEF WireInv
<1>3. wphase = "urb" =>
          \E r \in 0..Len(asked) : /\ CommandsIn(to_server, asked, r) /\ Held(asked, waiting, got, r)
                                  /\ OpReplied(to_client, "urb") /\ asked = <<>>
    <2> SUFFICES ASSUME wphase = "urb"
                 PROVE  \E r \in 0..Len(asked) :
                            /\ CommandsIn(to_server, asked, r) /\ Held(asked, waiting, got, r)
                            /\ OpReplied(to_client, "urb") /\ asked = <<>>
        OBVIOUS
    <2>1. Conversation(to_server, to_client, asked, waiting, filled, got)
        BY WirePhases DEF InPhase
    <2>2. PICK r \in 0..Len(asked) : /\ CommandsIn(to_server, asked, r) /\ Held(asked, waiting, got, r)
                                    /\ Replies(to_client, r, asked, filled, waiting)
        BY <2>1 DEF Conversation
    <2>3. ~ Replied(to_client, r, asked, filled, waiting)
        <3> SUFFICES ASSUME Replied(to_client, r, asked, filled, waiting) PROVE FALSE
            OBVIOUS
        <3>1. to_client[1].f = "command" /\ Head(to_client) = to_client[1]
            BY <1>1, ReplyNames
        <3> QED
            BY <1>1, <3>1
    <2> QED
        BY <2>2, <2>3 DEF Replies
<1>4. OpReplied(to_client, wphase)
    <2>1. CASE wphase = "urb"
        BY <1>3, <2>1
    <2>2. CASE wphase \in {"listed", "refused"}
        BY <1>1, <2>2, WirePhases DEF InPhase, OpFrom
    <2> QED
        BY <1>2, <2>1, <2>2
<1>5. to_client' = <<>>
    BY <1>4, OpRead DEF ClientReadsOp
<1>6. /\ wphase' = wphase /\ to_server' = to_server /\ asked' = asked /\ waiting' = waiting
      /\ heap' = heap /\ filled' = filled /\ got' = got
    BY DEF ClientReadsOp
<1>7. (Kept(asked, filled, got) /\ Received(asked, filled, got) /\ heap = waiting)'
    BY <1>6 DEF WireInv
<1>8. CASE wphase = "urb"
    <2>1. PICK r \in 0..Len(asked) : /\ CommandsIn(to_server, asked, r) /\ Held(asked, waiting, got, r)
        BY <1>3, <1>8
    <2>2. Replied(<<>>, r, asked, filled, waiting)
        <3>1. PICK m : m = <<>>
            OBVIOUS
        <3>2. MadeOf(<<>>, 0, m) /\ \A i \in 1..0 : ReplyAt(m[i], r, asked, filled, waiting)
            BY FramedNone
        <3> QED
            BY <3>2 DEF Replied
    <2>3. Conversation(to_server, <<>>, asked, waiting, filled, got)
        BY <2>1, <2>2 DEF Conversation, Replies
    <2>4. Conversation(to_server, to_client, asked, waiting, filled, got)'
        BY <1>5, <1>6, <2>3
    <2> QED
        BY <1>6, <1>7, <1>8, <2>4 DEF WireInv
<1>9. CASE wphase \in {"listed", "refused"}
    <2>1. asked = <<>> /\ waiting = {} /\ to_server = <<>>
        BY <1>9, WirePhases DEF InPhase
    <2>2. OpFrom(to_client, wphase)'
        BY <1>5 DEF OpFrom
    <2> QED
        BY <1>6, <1>7, <1>9, <2>1, <2>2 DEF WireInv
<1> QED
    BY <1>2, <1>8, <1>9

\* One command more: a URB, or an unlink of one
LEMMA CommandKeeps ==
    ASSUME WireInv, NEW c, IsUrb(c) \/ IsUnlink(c), NEW x, CommandAt(x, Len(asked) + 1, c),
           wphase = "urb", ~ AtOpReply, Chained(to_server', to_server, x),
           Extended(asked', asked, c), Extended(filled', filled, <<>>), Extended(got', got, <<>>),
           wphase' = wphase, to_client' = to_client, waiting' = waiting, heap' = heap
    PROVE  WireInv'
<1>1. Kept(asked, filled, got) /\ Received(asked, filled, got) /\ heap = waiting
    BY DEF WireInv
<1>2. PICK n : n = Len(asked)
    BY Zenon
<1>3. IsSeq(asked) /\ IsSeq(filled) /\ IsSeq(got) /\ n \in Nat /\ Len(filled) = n /\ Len(got) = n
    BY <1>1, <1>2 DEF Kept, IsSeq
<1>4. /\ IsSeq(asked') /\ Len(asked') = n + 1 /\ asked'[n + 1] = c
      /\ \A i \in 1..n : asked'[i] = asked[i]
    BY <1>2, <1>3, OneMore
<1>5. /\ IsSeq(filled') /\ Len(filled') = n + 1 /\ filled'[n + 1] = <<>>
      /\ \A i \in 1..n : filled'[i] = filled[i]
    BY <1>3, OneMore
<1>6. /\ IsSeq(got') /\ Len(got') = n + 1 /\ got'[n + 1] = <<>>
      /\ \A i \in 1..n : got'[i] = got[i]
    BY <1>3, OneMore
<1>7. \A i \in 1..n + 1 : i \in 1..n \/ i = n + 1
    BY <1>3
<1>8. Kept(asked', filled', got')
    BY <1>1, <1>2, <1>4, <1>5, <1>6, <1>7 DEF Kept
<1>9. Received(asked', filled', got')
    <2> SUFFICES ASSUME NEW s \in 1..n + 1, got'[s] # <<>>, IsUrb(asked'[s]), asked'[s].in,
                        filled'[s] # <<>>
                 PROVE  got'[s] = [i \in DOMAIN filled'[s] |-> [k \in 1..filled'[s][i] |-> <<s, i, k>>]]
        BY <1>4 DEF Received
    <2>1. s \in 1..n
        BY <1>6, <1>7
    <2>2. got'[s] = got[s] /\ asked'[s] = asked[s] /\ filled'[s] = filled[s]
        BY <1>4, <1>5, <1>6, <2>1
    <2> QED
        BY <1>1, <1>2, <2>1, <2>2 DEF Received
<1>10. PICK r \in 0..Len(asked) : /\ CommandsIn(to_server, asked, r) /\ Held(asked, waiting, got, r)
                                 /\ Replies(to_client, r, asked, filled, waiting)
    BY WirePhases DEF InPhase, Conversation
<1>11. CommandsIn(to_server', asked', r)
    <2>1. IsSeq(asked)
        BY <1>3
    <2>2. CommandsIn(to_server, asked, r)
        BY <1>10
    <2> QED
        BY <2>1, <2>2, CommandsMore
<1>12. r \in 0..n + 1 /\ r \in 0..n
    BY <1>2, <1>3
<1>13. \A s \in 1..r : s \in 1..n
    BY <1>3, <1>12
<1>14. Held(asked', waiting', got', r)
    <2>1. \A s \in waiting : s \in 1..r /\ IsUrb(asked'[s])
        BY <1>4, <1>10, <1>13 DEF Held
    <2>2. \A s \in 1..n + 1 : got'[s] # <<>> => s \in 1..r /\ s \notin waiting
        BY <1>2, <1>6, <1>7, <1>10 DEF Held
    <2> QED
        BY <1>4, <2>1, <2>2 DEF Held
<1>15. Replied(to_client, r, asked, filled, waiting)
    <2>1. ~ OpReplied(to_client, "urb")
        BY OpRead
    <2> QED
        BY <1>10, <2>1 DEF Replies
<1>16. Replied(to_client, r, asked', filled', waiting')
    <2>1. \A s \in 1..r : /\ asked'[s] = asked[s]
                          /\ s \notin waiting => s \notin waiting' /\ filled'[s] = filled[s]
        BY <1>4, <1>5, <1>13
    <2>2. 1..r \subseteq 1..r
        OBVIOUS
    <2> QED
        BY <1>15, <2>1, <2>2, RepliesKept
<1>17. Conversation(to_server, to_client, asked, waiting, filled, got)'
    BY <1>4, <1>11, <1>12, <1>14, <1>16 DEF Conversation, Replies
<1> QED
    BY <1>1, <1>8, <1>9, <1>17 DEF WireInv

LEMMA ClientSubmitsKeeps ==
    ASSUME WireInv, NEW urb \in WireUrbs, ClientSubmits(urb) PROVE WireInv'
<1>1. PICK x : x = CmdSubmit(Len(asked) + 1, urb)
    BY Zenon
<1>2. SubmitAt(x, Len(asked) + 1, urb)
    BY <1>1, SubmitWritten
<1>3. CommandAt(x, Len(asked) + 1, urb) /\ IsUrb(urb)
    BY <1>2 DEF CommandAt, IsUrb
<1>4. /\ wphase = "urb" /\ ~ AtOpReply /\ Chained(to_server', to_server, x)
      /\ Extended(asked', asked, urb) /\ Extended(filled', filled, <<>>) /\ Extended(got', got, <<>>)
      /\ wphase' = wphase /\ to_client' = to_client /\ waiting' = waiting /\ heap' = heap
    BY <1>1 DEF ClientSubmits, ClientReady, Chained, Extended
<1> QED
    BY <1>3, <1>4, CommandKeeps

LEMMA ClientUnlinksKeeps ==
    ASSUME WireInv, NEW s, ClientUnlinks(s) PROVE WireInv'
<1>1. PICK x, c : x = CmdUnlink(Len(asked) + 1, s) /\ c = [unlink |-> s]
    BY Zenon
<1>2. UnlinkAt(x, Len(asked) + 1, s)
    BY <1>1, UnlinkWritten
<1>3. CommandAt(x, Len(asked) + 1, c) /\ IsUnlink(c)
    BY <1>1, <1>2 DEF CommandAt, IsUnlink
<1>4. /\ wphase = "urb" /\ ~ AtOpReply /\ Chained(to_server', to_server, x)
      /\ Extended(asked', asked, c) /\ Extended(filled', filled, <<>>) /\ Extended(got', got, <<>>)
      /\ wphase' = wphase /\ to_client' = to_client /\ waiting' = waiting /\ heap' = heap
    BY <1>1 DEF ClientUnlinks, ClientReady, Chained, Extended
<1> QED
    BY <1>3, <1>4, CommandKeeps

\* The next command in the stream to the server, as the server finds it
NextCommand(x, r) ==
    /\ r \in 0..Len(asked) /\ r + 1 \in 1..Len(asked) /\ IsSeq(to_server) /\ Starts(to_server, x)
    /\ CommandAt(x, r + 1, asked[r + 1]) /\ CommandsIn(Drop(to_server, Len(x)), asked, r + 1)
    /\ Held(asked, waiting, got, r) /\ Replies(to_client, r, asked, filled, waiting)
LEMMA CommandFound ==
    ASSUME WireInv, wphase = "urb", to_server # <<>>
    PROVE  /\ \E x, r : NextCommand(x, r)
           /\ \A x, r : NextCommand(x, r) =>
                 \/ /\ IsUrb(asked[r + 1]) /\ AtSubmit /\ to_server[1].v # "unlink"
                    /\ to_server[2].v = r + 1
                    /\ ReadsSubmit(to_server).ok /\ ReadsSubmit(to_server).rest = Drop(to_server, Len(x))
                 \/ /\ IsUnlink(asked[r + 1]) /\ ~ AtSubmit
                    /\ Finds(to_server, UnlinkFields, UnlinkWidths) /\ to_server[1].v = "unlink"
                    /\ to_server[2].v = r + 1 /\ Len(UnlinkFields) = Len(x)
<1>1. Kept(asked, filled, got)
    BY DEF WireInv
<1>2. PICK r \in 0..Len(asked) : /\ CommandsIn(to_server, asked, r) /\ Held(asked, waiting, got, r)
                                /\ Replies(to_client, r, asked, filled, waiting)
    BY WirePhases DEF InPhase, Conversation
<1>3. \E x : NextCommand(x, r)
    <2>1. IsSeq(asked)
        BY <1>1 DEF Kept
    <2>2. CommandsIn(to_server, asked, r)
        BY <1>2
    <2>3. /\ IsSeq(to_server) /\ r + 1 \in 1..Len(asked)
          /\ \E x : /\ CommandAt(x, r + 1, asked[r + 1]) /\ Starts(to_server, x)
                    /\ CommandsIn(Drop(to_server, Len(x)), asked, r + 1)
        BY <2>1, <2>2, CommandsFirst
    <2> QED
        BY <1>2, <2>3 DEF NextCommand
<1>4. ASSUME NEW x, NEW q, NextCommand(x, q)
      PROVE  \/ /\ IsUrb(asked[q + 1]) /\ AtSubmit /\ to_server[1].v # "unlink"
                /\ to_server[2].v = q + 1
                /\ ReadsSubmit(to_server).ok /\ ReadsSubmit(to_server).rest = Drop(to_server, Len(x))
             \/ /\ IsUnlink(asked[q + 1]) /\ ~ AtSubmit
                /\ Finds(to_server, UnlinkFields, UnlinkWidths) /\ to_server[1].v = "unlink"
                /\ to_server[2].v = q + 1 /\ Len(UnlinkFields) = Len(x)
    <2>1. IsSeq(to_server) /\ Starts(to_server, x) /\ CommandAt(x, q + 1, asked[q + 1])
        BY <1>4 DEF NextCommand
    <2>2. PICK urb : urb = asked[q + 1]
        BY Zenon
    <2>3. CASE IsUrb(urb) /\ SubmitAt(x, q + 1, urb)
        <3>1. urb \in WireUrbs
            BY <2>3 DEF IsUrb
        <3>2. /\ to_server # <<>> /\ Finds(to_server, SubmitFields, SubmitWidths)
              /\ to_server[1].v = "submit" /\ to_server[2].v = q + 1
              /\ ReadsSubmit(to_server).ok /\ ReadsSubmit(to_server).rest = Drop(to_server, Len(x))
            BY <2>1, <2>3, <3>1, SubmitRead
        <3> QED
            BY <2>2, <2>3, <3>2 DEF AtSubmit
    <2>4. CASE IsUnlink(urb) /\ \E u : UnlinkAt(x, q + 1, u)
        <3>1. PICK u : UnlinkAt(x, q + 1, u)
            BY <2>4
        <3>2. /\ Finds(to_server, UnlinkFields, UnlinkWidths) /\ to_server[1].v = "unlink"
              /\ to_server[2].v = q + 1 /\ Len(UnlinkFields) = Len(x)
            BY <2>1, <3>1, UnlinkRead
        <3> QED
            BY <2>2, <2>4, <3>2 DEF AtSubmit
    <2> QED
        BY <2>1, <2>2, <2>3, <2>4 DEF CommandAt
<1> QED
    BY <1>3, <1>4

LEMMA ServerReadsSubmitKeeps ==
    ASSUME WireInv, ServerReadsSubmit PROVE WireInv'
<1>1. wphase = "urb" /\ to_server # <<>> /\ AtSubmit
    BY DEF ServerReadsSubmit, AtSubmit
<1>2. PICK x, r : NextCommand(x, r)
    BY <1>1, CommandFound
<1>3. PICK s : s = r + 1
    BY Zenon
<1>4. /\ IsUrb(asked[s]) /\ to_server[2].v = s
      /\ ReadsSubmit(to_server).rest = Drop(to_server, Len(x))
    BY <1>1, <1>2, <1>3, CommandFound
<1>5. /\ r \in 0..Len(asked) /\ s \in 1..Len(asked) /\ CommandsIn(Drop(to_server, Len(x)), asked, s)
      /\ Held(asked, waiting, got, r) /\ Replies(to_client, r, asked, filled, waiting)
    BY <1>2, <1>3 DEF NextCommand
<1>6. /\ to_server' = Drop(to_server, Len(x)) /\ waiting' = waiting \cup {s} /\ heap' = heap \cup {s}
      /\ wphase' = wphase /\ to_client' = to_client /\ asked' = asked /\ filled' = filled /\ got' = got
    BY <1>4 DEF ServerReadsSubmit
<1>7. Kept(asked, filled, got) /\ Received(asked, filled, got) /\ heap = waiting
    BY DEF WireInv
<1>8. (Kept(asked, filled, got) /\ Received(asked, filled, got) /\ heap = waiting)'
    BY <1>6, <1>7
<1>9. Len(asked) \in Nat /\ s \in 0..Len(asked) /\ s \notin 1..r /\ 1..r \subseteq 1..s /\ s \in 1..s
    <2>1. Len(asked) \in Nat
        BY <1>7 DEF Kept, IsSeq
    <2> QED
        BY <1>3, <1>5, <2>1
<1>10. Held(asked, waiting', got, s)
    <2>1. \A q \in waiting' : q \in 1..s /\ IsUrb(asked[q])
        BY <1>4, <1>5, <1>6, <1>9 DEF Held
    <2>2. \A q \in 1..Len(asked) : got[q] # <<>> => q \in 1..s /\ q \notin waiting'
        BY <1>5, <1>6, <1>9 DEF Held
    <2> QED
        BY <2>1, <2>2 DEF Held
<1>11. Replied(to_client, r, asked, filled, waiting)
    <2>1. asked # <<>>
        BY <1>5
    <2> QED
        BY <1>5, <2>1 DEF Replies
<1>12. Replied(to_client, s, asked, filled, waiting')
    <2>1. \A q \in 1..r : /\ asked[q] = asked[q]
                          /\ q \notin waiting => q \notin waiting' /\ filled[q] = filled[q]
        BY <1>6, <1>9
    <2>2. 1..r \subseteq 1..s
        BY <1>9
    <2> QED
        BY <1>11, <2>1, <2>2, RepliesKept
<1>13. Conversation(to_server, to_client, asked, waiting, filled, got)'
    BY <1>5, <1>6, <1>9, <1>10, <1>12 DEF Conversation, Replies
<1> QED
    BY <1>1, <1>6, <1>8, <1>13 DEF WireInv

\* A refused command ends the session.
LEMMA RefuseKeeps ==
    ASSUME WireInv, NEW s, Refuse(s) PROVE WireInv'
<1>1. /\ wphase' = "closed" /\ to_server' = <<>> /\ to_client' = <<>> /\ waiting' = {} /\ heap' = {}
      /\ asked' = asked /\ filled' = filled /\ got' = got
    BY DEF Refuse, Closes
<1>2. (Kept(asked, filled, got) /\ Received(asked, filled, got) /\ heap = waiting)'
    BY <1>1 DEF WireInv
<1> QED
    BY <1>1, <1>2 DEF WireInv

LEMMA ServerReadsUnlinkKeeps ==
    ASSUME WireInv, ServerReadsUnlink PROVE WireInv'
<1>1. wphase = "urb" /\ to_server # <<>> /\ to_server[1].v = "unlink"
    BY DEF ServerReadsUnlink
<1>2. PICK x, r : NextCommand(x, r)
    BY <1>1, CommandFound
<1>3. PICK s, u : s = r + 1 /\ u = to_server[6].v
    BY Zenon
<1>4. IsUnlink(asked[s]) /\ to_server[2].v = s /\ Len(UnlinkFields) = Len(x)
    BY <1>1, <1>2, <1>3, CommandFound
<1>5. /\ r \in 0..Len(asked) /\ s \in 1..Len(asked) /\ CommandsIn(Drop(to_server, Len(x)), asked, s)
      /\ Held(asked, waiting, got, r) /\ Replies(to_client, r, asked, filled, waiting)
    BY <1>2, <1>3 DEF NextCommand
<1>6. PICK y : y = RetUnlinked(s, IF u \in waiting THEN -104 ELSE 0)
    BY Zenon
<1>7. /\ to_server' = Drop(to_server, Len(x)) /\ waiting' = waiting \ {u} /\ heap' = heap \ {u}
      /\ to_client' = to_client \o y
      /\ wphase' = wphase /\ asked' = asked /\ filled' = filled /\ got' = got
    BY <1>3, <1>4, <1>6 DEF ServerReadsUnlink
<1>8. Kept(asked, filled, got) /\ Received(asked, filled, got) /\ heap = waiting
    BY DEF WireInv
<1>9. (Kept(asked, filled, got) /\ Received(asked, filled, got) /\ heap = waiting)'
    BY <1>7, <1>8
<1>10. Len(asked) \in Nat /\ s \in 0..Len(asked) /\ 1..r \subseteq 1..s /\ s \in 1..s
    <2>1. Len(asked) \in Nat
        BY <1>8 DEF Kept, IsSeq
    <2> QED
        BY <1>3, <1>5, <2>1
<1>11. Held(asked, waiting', got, s)
    <2>1. \A q \in waiting' : q \in 1..s /\ IsUrb(asked[q])
        BY <1>5, <1>7, <1>10 DEF Held
    <2>2. \A q \in 1..Len(asked) : got[q] # <<>> => q \in 1..s /\ q \notin waiting'
        BY <1>5, <1>7, <1>10 DEF Held
    <2> QED
        BY <2>1, <2>2 DEF Held
<1>12. Replied(to_client, r, asked, filled, waiting)
    <2>1. asked # <<>>
        BY <1>5
    <2> QED
        BY <1>5, <2>1 DEF Replies
<1>13. Replied(to_client, s, asked, filled, waiting')
    <2>1. \A q \in 1..r : /\ asked[q] = asked[q]
                          /\ q \notin waiting => q \notin waiting' /\ filled[q] = filled[q]
        BY <1>7
    <2>2. 1..r \subseteq 1..s
        BY <1>10
    <2> QED
        BY <1>12, <2>1, <2>2, RepliesKept
<1>14. Replied(to_client', s, asked, filled, waiting')
    <2>1. RetUnlinkAt(y, s)
        BY <1>6, RetUnlinkWritten
    <2>2. ReplyAt(y, s, asked, filled, waiting')
        BY <1>4, <1>10, <2>1 DEF ReplyAt
    <2>3. Chained(to_client', to_client, y)
        BY <1>7 DEF Chained
    <2> QED
        BY <1>13, <2>2, <2>3, RepliesMore
<1>15. Conversation(to_server, to_client, asked, waiting, filled, got)'
    BY <1>5, <1>7, <1>10, <1>11, <1>14 DEF Conversation, Replies
<1> QED
    BY <1>1, <1>7, <1>9, <1>15 DEF WireInv

\* A command that the handler holds is answered.
LEMMA AnswerKeeps ==
    ASSUME WireInv, wphase = "urb", NEW s \in waiting, NEW actual, NEW l, NEW n, NEW x,
           RetAt(x, s, asked[s], actual, l, n), Chained(to_client', to_client, x),
           Changed(filled', filled, s, actual), waiting' = waiting \ {s}, heap' = heap \ {s},
           wphase' = wphase, to_server' = to_server, asked' = asked, got' = got
    PROVE  WireInv'
<1>1. PICK r \in 0..Len(asked) : /\ CommandsIn(to_server, asked, r) /\ Held(asked, waiting, got, r)
                                /\ Replies(to_client, r, asked, filled, waiting)
    BY WirePhases DEF InPhase, Conversation
<1>2. Kept(asked, filled, got) /\ Received(asked, filled, got) /\ heap = waiting
    BY DEF WireInv
<1>3. s \in 1..r /\ IsUrb(asked[s])
    BY <1>1 DEF Held
<1>4. /\ IsSeq(asked) /\ IsSeq(filled) /\ IsSeq(got) /\ Len(filled) = Len(asked) /\ Len(asked) \in Nat
      /\ s \in 1..Len(asked) /\ s \in 1..Len(filled)
    <2>1. IsSeq(asked) /\ IsSeq(filled) /\ IsSeq(got) /\ Len(filled) = Len(asked)
        BY <1>2 DEF Kept
    <2>2. Len(asked) \in Nat
        BY <2>1 DEF IsSeq
    <2>3. s \in 1..Len(asked)
        BY <1>3, <2>2
    <2> QED
        BY <2>1, <2>2, <2>3
<1>5. got[s] = <<>>
    BY <1>1, <1>4 DEF Held
<1>6. /\ IsSeq(filled') /\ Len(filled') = Len(filled) /\ filled'[s] = actual
      /\ \A q \in 1..Len(filled) : q # s => filled'[q] = filled[q]
    <2>1. IsSeq(filled) /\ s \in 1..Len(filled)
        BY <1>4
    <2> QED
        BY <2>1, OneChanged
<1>7. Kept(asked, filled', got)
    BY <1>2, <1>6 DEF Kept
<1>8. Received(asked, filled', got)
    <2> SUFFICES ASSUME NEW q \in 1..Len(asked), got[q] # <<>>, IsUrb(asked[q]), asked[q].in,
                        filled'[q] # <<>>
                 PROVE  got[q] = [i \in DOMAIN filled'[q] |-> [k \in 1..filled'[q][i] |-> <<q, i, k>>]]
        BY DEF Received
    <2>1. filled'[q] = filled[q]
        BY <1>4, <1>5, <1>6
    <2> QED
        BY <1>2, <2>1 DEF Received
<1>9. Held(asked, waiting', got, r)
    BY <1>1 DEF Held
<1>10. Replied(to_client, r, asked, filled, waiting)
    <2>1. asked # <<>>
        BY <1>4
    <2> QED
        BY <1>1, <2>1 DEF Replies
<1>11. Replied(to_client, r, asked, filled', waiting')
    <2>1. \A q \in 1..r : q \in 1..Len(filled)
        BY <1>4
    <2>2. \A q \in 1..r : /\ asked[q] = asked[q]
                          /\ q \notin waiting => q \notin waiting' /\ filled'[q] = filled[q]
        BY <1>6, <2>1
    <2>3. 1..r \subseteq 1..r
        OBVIOUS
    <2> QED
        BY <1>10, <2>2, <2>3, RepliesKept
<1>12. ReplyAt(x, r, asked, filled', waiting')
    <2>1. RetAt(x, s, asked[s], filled'[s], l, n) /\ s \notin waiting'
        BY <1>6
    <2> QED
        BY <1>3, <2>1 DEF ReplyAt
<1>13. Replied(to_client', r, asked, filled', waiting')
    BY <1>11, <1>12, RepliesMore
<1>14. Conversation(to_server, to_client, asked, waiting, filled, got)'
    BY <1>1, <1>9, <1>13 DEF Conversation, Replies
<1>15. (Kept(asked, filled, got) /\ Received(asked, filled, got) /\ heap = waiting)'
    BY <1>2, <1>7, <1>8
<1> QED
    BY <1>14, <1>15 DEF WireInv

LEMMA ServerAnswersKeeps ==
    ASSUME WireInv, NEW s \in waiting, NEW actual \in Fills(asked[s]), ServerAnswers(s, actual)
    PROVE  WireInv'
<1>1. PICK urb : urb = asked[s]
    BY Zenon
<1>2. wphase = "urb"
    BY DEF ServerAnswers
<1>3. urb \in WireUrbs
    <2>1. PICK r \in 0..Len(asked) : Held(asked, waiting, got, r)
        BY <1>2, WirePhases DEF InPhase, Conversation
    <2> QED
        BY <1>1, <2>1 DEF Held, IsUrb
<1>4. PICK l, n, transfer : /\ l = SumTo(actual, Len(actual)) /\ n = Len(urb.packets)
                            /\ transfer = (urb.in \/ Iso(urb))
    BY Zenon
<1>5. /\ \A i \in DOMAIN actual : actual[i] <= IF Iso(urb) THEN urb.packets[i] ELSE urb.len
      /\ Answers(s, 0, l, n, transfer, actual)
    BY <1>1, <1>4 DEF ServerAnswers
<1>6. PICK t : t = IF (urb.in \/ Iso(urb)) /\ HasTransferStage(l, n)
                   THEN SendTransferData(s, IF urb.in THEN l ELSE 0, actual) ELSE <<>>
    BY Zenon
<1>7. TailIs(t, s, urb, actual, l, n)
    <2>1. actual \in Fills(urb)
        BY <1>1
    <2> QED
        BY <1>1, <1>3, <1>4, <1>5, <1>6, <2>1, TailWritten
<1>8. PICK x : x = RetSubmit(s, 0, l, n, transfer, actual)
    BY Zenon
<1>9. RetAt(x, s, urb, actual, l, n)
    <2>1. t = IF transfer /\ HasTransferStage(l, n)
              THEN SendTransferData(s, IF urb.in THEN l ELSE 0, actual) ELSE <<>>
        BY <1>4, <1>6
    <2> QED
        BY <1>1, <1>7, <1>8, <2>1, RetWritten
<1>10. /\ Chained(to_client', to_client, x) /\ Changed(filled', filled, s, actual)
       /\ waiting' = waiting \ {s} /\ heap' = heap \ {s}
       /\ wphase' = wphase /\ to_server' = to_server /\ asked' = asked /\ got' = got
    BY <1>5, <1>8 DEF Answers, Chained, Changed
<1>11. RetAt(x, s, asked[s], actual, l, n)
    BY <1>1, <1>9
<1> QED
    BY <1>2, <1>10, <1>11, AnswerKeeps

LEMMA ServerStallsKeeps ==
    ASSUME WireInv, NEW s \in waiting, ServerStalls(s) PROVE WireInv'
<1>1. PICK urb, x : urb = asked[s] /\ x = RetSubmit(s, -32, 0, 0, FALSE, <<>>)
    BY Zenon
<1>2. TailIs(<<>>, s, urb, <<>>, 0, 0)
    BY DEF TailIs, TailAt, IsSeq
<1>3. RetAt(x, s, urb, <<>>, 0, 0)
    <2>1. <<>> = IF FALSE /\ HasTransferStage(0, 0)
                 THEN SendTransferData(s, IF urb.in THEN 0 ELSE 0, <<>>) ELSE <<>>
        OBVIOUS
    <2> QED
        BY <1>1, <1>2, <2>1, RetWritten
<1>4. wphase = "urb" /\ Answers(s, -32, 0, 0, FALSE, <<>>)
    BY DEF ServerStalls
<1>5. /\ Chained(to_client', to_client, x) /\ Changed(filled', filled, s, <<>>)
      /\ waiting' = waiting \ {s} /\ heap' = heap \ {s}
      /\ wphase' = wphase /\ to_server' = to_server /\ asked' = asked /\ got' = got
    BY <1>1, <1>4 DEF Answers, Chained, Changed
<1>6. RetAt(x, s, asked[s], <<>>, 0, 0)
    BY <1>1, <1>3
<1> QED
    BY <1>4, <1>5, <1>6, AnswerKeeps

\* The next reply in the stream to the client, as the client finds it
NextReply(x, s, r) ==
    /\ r \in 0..Len(asked) /\ s \in 1..r /\ IsSeq(to_client) /\ Starts(to_client, x)
    /\ CommandsIn(to_server, asked, r) /\ Held(asked, waiting, got, r)
    /\ Replied(Drop(to_client, Len(x)), r, asked, filled, waiting)
    /\ \/ IsUrb(asked[s]) /\ s \notin waiting /\ \E l, n : RetAt(x, s, asked[s], filled[s], l, n)
       \/ IsUnlink(asked[s]) /\ RetUnlinkAt(x, s)
LEMMA ReplyFound ==
    ASSUME WireInv, wphase = "urb", to_client # <<>>, ~ OpReplied(to_client, "urb")
    PROVE  /\ \E x, s, r : NextReply(x, s, r)
           /\ \A x, s, r : NextReply(x, s, r) =>
                 \/ /\ IsUrb(asked[s]) /\ s \notin waiting /\ AtRetSubmit /\ ~ AtRetUnlink
                    /\ to_client[2].v = s
                    /\ ReadsRetSubmit(to_client).rest = Drop(to_client, Len(x))
                    /\ asked[s].in /\ filled[s] # <<>> =>
                          IsoSlots(ReadsRetSubmit(to_client)) =
                             [i \in DOMAIN filled[s] |-> [k \in 1..filled[s][i] |-> <<s, i, k>>]]
                 \/ /\ IsUnlink(asked[s]) /\ AtRetUnlink /\ ~ AtRetSubmit
                    /\ to_client[2].v = s /\ Len(RetUnlinkFields) = Len(x)
<1>1. PICK r \in 0..Len(asked) : /\ CommandsIn(to_server, asked, r) /\ Held(asked, waiting, got, r)
                                /\ Replies(to_client, r, asked, filled, waiting)
    BY WirePhases DEF InPhase, Conversation
<1>2. Replied(to_client, r, asked, filled, waiting)
    BY <1>1 DEF Replies
<1>3. \E x, s : NextReply(x, s, r)
    <2>1. PICK x : /\ IsSeq(to_client) /\ ReplyAt(x, r, asked, filled, waiting) /\ Starts(to_client, x)
                   /\ Replied(Drop(to_client, Len(x)), r, asked, filled, waiting)
        BY <1>2, RepliesFirst
    <2>2. PICK s \in 1..r :
              \/ IsUrb(asked[s]) /\ s \notin waiting /\ \E l, n : RetAt(x, s, asked[s], filled[s], l, n)
              \/ IsUnlink(asked[s]) /\ RetUnlinkAt(x, s)
        BY <2>1 DEF ReplyAt
    <2>3. NextReply(x, s, r)
        BY <1>1, <2>1, <2>2 DEF NextReply
    <2> QED
        BY <2>3
<1>4. ASSUME NEW x, NEW s, NEW q, NextReply(x, s, q)
      PROVE  \/ /\ IsUrb(asked[s]) /\ s \notin waiting /\ AtRetSubmit /\ ~ AtRetUnlink
                /\ to_client[2].v = s
                /\ ReadsRetSubmit(to_client).rest = Drop(to_client, Len(x))
                /\ asked[s].in /\ filled[s] # <<>> =>
                      IsoSlots(ReadsRetSubmit(to_client)) =
                         [i \in DOMAIN filled[s] |-> [k \in 1..filled[s][i] |-> <<s, i, k>>]]
             \/ /\ IsUnlink(asked[s]) /\ AtRetUnlink /\ ~ AtRetSubmit
                /\ to_client[2].v = s /\ Len(RetUnlinkFields) = Len(x)
    <2>1. IsSeq(to_client) /\ Starts(to_client, x)
        BY <1>4 DEF NextReply
    <2>2. PICK urb, f, ret : urb = asked[s] /\ f = filled[s] /\ ret = ReadsRetSubmit(to_client)
        BY Zenon
    <2>3. CASE IsUrb(urb) /\ s \notin waiting /\ \E l, n : RetAt(x, s, urb, f, l, n)
        <3>1. PICK l, n : RetAt(x, s, urb, f, l, n)
            BY <2>3
        <3>2. urb \in WireUrbs
            BY <2>3 DEF IsUrb
        <3>3. /\ to_client # <<>> /\ Finds(to_client, RetFields, RetWidths)
              /\ to_client[1].v = "submit" /\ to_client[2].v = s
              /\ ret.ok /\ ret.rest = Drop(to_client, Len(x))
              /\ (urb.in /\ f # <<>>) =>
                    IsoSlots(ret) = [i \in DOMAIN f |-> [k \in 1..f[i] |-> <<s, i, k>>]]
            <4>1. asked[s] = urb /\ IsRet(ret, to_client)
                BY <2>2 DEF IsRet
            <4>2. IsSeq(to_client)
                BY <2>1
            <4>3. Starts(to_client, x)
                BY <2>1
            <4>4. RetFound(to_client, x, s, urb, f, ret)
                BY <3>1, <3>2, <4>1, <4>2, <4>3, RetRead
            <4> QED
                BY <4>4 DEF RetFound
        <3>4. AtRetSubmit /\ ~ AtRetUnlink
            BY <2>2, <3>3 DEF AtRetSubmit, AtRetUnlink
        <3> QED
            BY <2>2, <2>3, <3>3, <3>4
    <2>4. CASE IsUnlink(urb) /\ RetUnlinkAt(x, s)
        <3>1. /\ to_client # <<>> /\ Finds(to_client, RetUnlinkFields, UnlinkWidths)
              /\ to_client[1].v = "unlink" /\ to_client[2].v = s /\ Len(RetUnlinkFields) = Len(x)
            BY <2>1, <2>4, RetUnlinkRead
        <3>2. AtRetUnlink /\ ~ AtRetSubmit
            BY <3>1 DEF AtRetSubmit, AtRetUnlink
        <3> QED
            BY <2>2, <2>4, <3>1, <3>2
    <2> QED
        BY <1>4, <2>2, <2>3, <2>4 DEF NextReply
<1> QED
    BY <1>3, <1>4

\* The client takes a reply, and keeps y of it.
LEMMA ReplyTakenKeeps ==
    ASSUME WireInv, wphase = "urb", NEW x, NEW s, NEW r, NextReply(x, s, r), NEW y,
           (IsUrb(asked[s]) /\ asked[s].in /\ filled[s] # <<>>) =>
               y = [i \in DOMAIN filled[s] |-> [k \in 1..filled[s][i] |-> <<s, i, k>>]],
           to_client' = Drop(to_client, Len(x)), Changed(got', got, s, y),
           wphase' = wphase, to_server' = to_server, asked' = asked, waiting' = waiting,
           heap' = heap, filled' = filled
    PROVE  WireInv'
<1>1. Kept(asked, filled, got) /\ Received(asked, filled, got) /\ heap = waiting
    BY DEF WireInv
<1>2. /\ r \in 0..Len(asked) /\ s \in 1..r /\ CommandsIn(to_server, asked, r)
      /\ Held(asked, waiting, got, r)
      /\ Replied(Drop(to_client, Len(x)), r, asked, filled, waiting)
      /\ s \notin waiting \/ IsUnlink(asked[s])
    BY DEF NextReply
<1>3. s \notin waiting
    BY <1>2, UrbOrUnlink DEF Held
<1>4. IsSeq(got) /\ Len(got) = Len(asked) /\ s \in 1..Len(asked) /\ s \in 1..Len(got)
    <2>1. IsSeq(got) /\ Len(got) = Len(asked) /\ IsSeq(asked)
        BY <1>1 DEF Kept
    <2>2. Len(asked) \in Nat
        BY <2>1 DEF IsSeq
    <2> QED
        BY <1>2, <2>1, <2>2
<1>5. /\ IsSeq(got') /\ Len(got') = Len(got) /\ got'[s] = y
      /\ \A i \in 1..Len(got) : i # s => got'[i] = got[i]
    <2>1. IsSeq(got) /\ s \in 1..Len(got)
        BY <1>4
    <2> QED
        BY <2>1, OneChanged
<1>6. Kept(asked, filled, got')
    BY <1>1, <1>5 DEF Kept
<1>7. Received(asked, filled, got')
    <2> SUFFICES ASSUME NEW q \in 1..Len(asked), got'[q] # <<>>, IsUrb(asked[q]), asked[q].in,
                        filled[q] # <<>>
                 PROVE  got'[q] = [i \in DOMAIN filled[q] |-> [k \in 1..filled[q][i] |-> <<q, i, k>>]]
        BY DEF Received
    <2>1. CASE q = s
        BY <1>5, <2>1
    <2>2. CASE q # s
        <3>1. got'[q] = got[q]
            BY <1>4, <1>5, <2>2
        <3> QED
            BY <1>1, <3>1 DEF Received
    <2> QED
        BY <2>1, <2>2
<1>8. Held(asked, waiting, got', r)
    <2>1. \A q \in 1..Len(asked) : got'[q] # <<>> => q \in 1..r /\ q \notin waiting
        BY <1>2, <1>3, <1>4, <1>5 DEF Held
    <2> QED
        BY <1>2, <2>1 DEF Held
<1>9. Conversation(to_server, to_client, asked, waiting, filled, got)'
    BY <1>2, <1>8 DEF Conversation, Replies
<1>10. (Kept(asked, filled, got) /\ Received(asked, filled, got) /\ heap = waiting)'
    BY <1>1, <1>6, <1>7
<1> QED
    BY <1>9, <1>10 DEF WireInv

\* Only in the URB phase is there anything but an answer of the OP phase to read.
LEMMA OnlyReplies ==
    ASSUME WireInv, to_client # <<>>
    PROVE  \/ OpReplied(to_client, wphase) /\ to_client[1].f = "version"
           \/ wphase = "urb" /\ ~ OpReplied(to_client, "urb")
<1>1. CASE \/ wphase = "listed" \/ wphase = "refused"
           \/ wphase = "urb" /\ OpReplied(to_client, "urb")
    <2>1. OpReplied(to_client, wphase)
        BY <1>1, WirePhases DEF InPhase, OpFrom
    <2>2. Head(to_client).f = "version"
        BY <2>1, OpRead DEF AtOpReply, Is
    <2>3. IsSeq(to_client)
        BY <2>1, OpRead
    <2>4. to_client[1] = Head(to_client)
        BY <2>3 DEF IsSeq
    <2> QED
        BY <2>1, <2>2, <2>4
<1>2. wphase = "listed" \/ wphase = "refused" \/ wphase = "urb"
    BY DEF WireInv
<1>3. CASE wphase = "urb" /\ ~ OpReplied(to_client, "urb")
    BY <1>3
<1> QED
    BY <1>1, <1>2, <1>3

LEMMA ClientReadsSubmitKeeps ==
    ASSUME WireInv, ClientReadsSubmit PROVE WireInv'
<1>1. to_client # <<>> /\ AtRetSubmit
    BY DEF ClientReadsSubmit, AtRetSubmit
<1>2. to_client[1].f = "command"
    <2>1. Finds(to_client, RetFields, RetWidths) /\ 1 \in DOMAIN RetFields /\ RetFields[1] = "command"
        BY <1>1 DEF AtRetSubmit, RetFields
    <2> QED
        BY <2>1 DEF Finds, Is
<1>3. wphase = "urb" /\ ~ OpReplied(to_client, "urb")
    BY <1>1, <1>2, OnlyReplies
<1>4. PICK x, s, r : NextReply(x, s, r)
    BY <1>1, <1>3, ReplyFound
<1>5. PICK y : y = IsoSlots(ReadsRetSubmit(to_client))
    BY Zenon
<1>6. /\ IsUrb(asked[s]) /\ to_client[2].v = s
      /\ ReadsRetSubmit(to_client).rest = Drop(to_client, Len(x))
      /\ asked[s].in /\ filled[s] # <<>> =>
            y = [i \in DOMAIN filled[s] |-> [k \in 1..filled[s][i] |-> <<s, i, k>>]]
    BY <1>1, <1>3, <1>4, <1>5, ReplyFound
<1>7. /\ to_client' = Drop(to_client, Len(x)) /\ Changed(got', got, s, y)
      /\ wphase' = wphase /\ to_server' = to_server /\ asked' = asked /\ waiting' = waiting
      /\ heap' = heap /\ filled' = filled
    BY <1>5, <1>6 DEF ClientReadsSubmit, Changed
<1> QED
    BY <1>3, <1>4, <1>6, <1>7, ReplyTakenKeeps

LEMMA ClientReadsUnlinkKeeps ==
    ASSUME WireInv, ClientReadsUnlink PROVE WireInv'
<1>1. to_client # <<>> /\ AtRetUnlink
    BY DEF ClientReadsUnlink, AtRetUnlink
<1>2. to_client[1].f = "command"
    <2>1. /\ Finds(to_client, RetUnlinkFields, UnlinkWidths) /\ 1 \in DOMAIN RetUnlinkFields
          /\ RetUnlinkFields[1] = "command"
        BY <1>1 DEF AtRetUnlink, RetUnlinkFields
    <2> QED
        BY <2>1 DEF Finds, Is
<1>3. wphase = "urb" /\ ~ OpReplied(to_client, "urb")
    BY <1>1, <1>2, OnlyReplies
<1>4. PICK x, s, r : NextReply(x, s, r)
    BY <1>1, <1>3, ReplyFound
<1>5. PICK y : y = <<to_client[6].v>>
    BY Zenon
<1>6. IsUnlink(asked[s]) /\ to_client[2].v = s /\ Len(RetUnlinkFields) = Len(x)
    BY <1>1, <1>3, <1>4, ReplyFound
<1>7. /\ to_client' = Drop(to_client, Len(x)) /\ Changed(got', got, s, y)
      /\ wphase' = wphase /\ to_server' = to_server /\ asked' = asked /\ waiting' = waiting
      /\ heap' = heap /\ filled' = filled
    BY <1>5, <1>6 DEF ClientReadsUnlink, Changed
<1>8. ~ IsUrb(asked[s])
    BY <1>6, UrbOrUnlink
<1> QED
    BY <1>3, <1>4, <1>7, <1>8, ReplyTakenKeeps

\* The streams stay messages, and what is kept of them right, in every step.
LEMMA WireStep == ASSUME WireInv, WireNext PROVE WireInv'
<1>1. ASSUME NEW v \in {0, 1, 273}, NEW op \in {"devlist", "import", "other"}, ClientOp(v, op)
      PROVE  WireInv'
    BY <1>1, ClientOpKeeps
<1>2. ASSUME NEW ok \in BOOLEAN, ServerOp(ok) PROVE WireInv'
    BY <1>2, ServerOpKeeps
<1>3. ASSUME NEW urb \in WireUrbs, ClientSubmits(urb) PROVE WireInv'
    BY <1>3, ClientSubmitsKeeps
<1>4. ASSUME NEW s \in 1..MaxWireCmds, ClientUnlinks(s) PROVE WireInv'
    BY <1>4, ClientUnlinksKeeps
<1>5. CASE ServerRefuses \/ AllocFails
    BY <1>5, RefuseKeeps DEF ServerRefuses, AllocFails
<1>6. ASSUME NEW s \in waiting, NEW actual \in Fills(asked[s]), ServerAnswers(s, actual) PROVE WireInv'
    BY <1>6, ServerAnswersKeeps
<1>7. ASSUME NEW s \in waiting, ServerStalls(s) PROVE WireInv'
    BY <1>7, ServerStallsKeeps
<1>8. CASE ClientReadsOp
    BY <1>8, ClientReadsOpKeeps
<1>9. CASE ServerReadsSubmit
    BY <1>9, ServerReadsSubmitKeeps
<1>10. CASE ServerReadsUnlink
    BY <1>10, ServerReadsUnlinkKeeps
<1>11. CASE ClientReadsSubmit
    BY <1>11, ClientReadsSubmitKeeps
<1>12. CASE ClientReadsUnlink
    BY <1>12, ClientReadsUnlinkKeeps
<1> QED
    BY <1>1, <1>2, <1>3, <1>4, <1>5, <1>6, <1>7, <1>8, <1>9, <1>10, <1>11, <1>12 DEF WireNext

LEMMA WireStutters == ASSUME WireInv, UNCHANGED wireVars PROVE WireInv'
    BY DEF wireVars, WireInv

\* What the readers meet, what the client got and what is allocated follow.
LEMMA WireInvIsSync == ASSUME WireInv PROVE InSync /\ HostGetsDeviceData /\ HandlesOwned
<1>1. HandlesOwned
    BY DEF WireInv, HandlesOwned
<1>2. HostGetsDeviceData
    <2>1. Kept(asked, filled, got) /\ Received(asked, filled, got)
        BY DEF WireInv
    <2>2. DOMAIN asked = 1..Len(asked)
        BY <2>1 DEF Kept, IsSeq
    <2>3. ASSUME NEW s \in 1..Len(asked), "in" \in DOMAIN asked[s] PROVE IsUrb(asked[s])
        BY <2>1, <2>3, UrbOrUnlink DEF Kept
    <2> QED
        BY <2>1, <2>2, <2>3 DEF HostGetsDeviceData, Received
<1>3. (to_server # <<>> /\ wphase = "urb") =>
         \/ AtSubmit /\ (TooLarge(to_server[7].v, to_server[9].v) \/ ReadsSubmit(to_server).ok)
         \/ Finds(to_server, UnlinkFields, UnlinkWidths) /\ to_server[1].v = "unlink"
    BY CommandFound
<1>4. to_client # <<>> => (AtOpReply /\ ReadsOpReply.ok) \/ AtRetSubmit \/ AtRetUnlink
    <2> SUFFICES ASSUME to_client # <<>> PROVE (AtOpReply /\ ReadsOpReply.ok) \/ AtRetSubmit \/ AtRetUnlink
        OBVIOUS
    <2>1. CASE OpReplied(to_client, wphase)
        BY <2>1, OpRead
    <2>2. CASE wphase = "urb" /\ ~ OpReplied(to_client, "urb")
        BY <2>2, ReplyFound
    <2> QED
        BY <2>1, <2>2, OnlyReplies
<1> QED
    BY <1>1, <1>2, <1>3, <1>4 DEF InSync

\* The inductive invariant of the wire: both streams are whole messages, the
\* commands that the server has yet to read and the answers of commands that
\* it has read, and no command that it holds has been answered.
THEOREM WireInductive == WireSpec => []WireInv
<1>1. WireInv /\ [WireNext]_wireVars => WireInv'
    BY WireStep, WireStutters
<1> QED
    BY <1>1, WireStarts, PTL DEF WireSpec

==============================================================================
