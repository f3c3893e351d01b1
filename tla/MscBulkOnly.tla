---------------------------- MODULE MscBulkOnly ------------------------------
(***************************************************************************)
(* MscBulkOnlyHandler, the mass storage interface: the Bulk-Only Transport *)
(* state machine (command, data, status), its storage back end, and the    *)
(* transfer operator that moves the data of a URB between socket, staging  *)
(* buffer and image file.                                                  *)
(*                                                                         *)
(* The session's receiver thread runs the state machine.  Answers go into  *)
(* a queue; the sender thread reads the data they point to only when it    *)
(* sends them.  The host keeps to the Bulk-Only protocol: a new command    *)
(* only after the status of the one before.  Data are counted in units, a  *)
(* few of them to a block.  A splice moves all it was asked for or never   *)
(* comes to an end, and the pipe has room for it.                          *)
(***************************************************************************)
EXTENDS Integers, Sequences, FiniteSets

CONSTANTS
    Blocks, BlockUnits, \* block_count and block_size of the image
    HoleUnits,   \* fs_block_size_: holes in the file are made of whole blocks of it
    LbaWidth,    \* 2^32 in the code: lba + count wraps
    CountWidth,  \* 2^16 in the code: write_count_
    ZeroCount,   \* 256 in the code: what a block count of 0 means in READ and WRITE
    ReplySize,   \* units of the answer to INQUIRY, MODE SENSE, READ CAPACITY, ...
    MaxCmds,     \* bound: commands in a connection
    MaxMscConns  \* bound: connections

ASSUME MscAssumption ==
    /\ {Blocks, BlockUnits, HoleUnits, LbaWidth, CountWidth, ZeroCount, ReplySize} \subseteq Nat \ {0}
    /\ Blocks + ZeroCount < LbaWidth /\ ZeroCount < CountWidth /\ 2 < CountWidth

VARIABLES
    read_only, \* the device refuses to be written
    io,      \* the back end: "staging" (no mapping), "mapped", "spliced" (mapped, and splice works)
    msc,     \* members of MscBulkOnlyHandler
    disk,    \* the image: units
    sendq,   \* answers queued for the sender thread
    pipe,    \* splice_pipe_: the units in it
    piped,   \* threads that have spliced into it and not yet out of it
    recving, \* the OUT data that recv_direct has yet to splice
    host,    \* the host: phase, command, units left, URBs it waits for, data it got
    image,   \* history: the image as the host knows it
    leftover, \* history: units that were in the pipe when the connection began
    widened, \* history: a hole of this connection was larger than asked for
    ncmd, mscconn

mscVars == <<read_only, io, msc, disk, sendq, pipe, piped, recving, host, image, leftover,
             widened, ncmd, mscconn>>

Units == 0..Blocks * BlockUnits - 1
NoCommand == [op |-> "none", lba |-> 0, cnt |-> 0, len |-> 0, desc |-> <<>>, tag |-> 0]

\* The state that on_new_connection and on_disconnection establish.
FreshMsc ==
    [state |-> "Idle", cbw |-> NoCommand, staging |-> <<>>, owner |-> 0, offset |-> 0,
     residue |-> 0, failed |-> FALSE, out |-> "write", lba |-> 0, cnt |-> 0,
     mapped |-> FALSE, acc |-> 0]

IdleHost == [phase |-> "ready", cmd |-> NoCommand, left |-> 0, urbs |-> <<>>, got |-> <<>>,
             csw |-> <<>>, retried |-> FALSE]

MscInit ==
    /\ read_only \in BOOLEAN /\ io \in {"staging", "mapped", "spliced"}
    /\ msc = FreshMsc /\ disk = [u \in Units |-> 0] /\ sendq = <<>>
    /\ pipe = <<>> /\ piped = {} /\ recving = <<>>
    /\ host = IdleHost /\ image = disk /\ leftover = 0 /\ widened = FALSE /\ ncmd = 0 /\ mscconn = 0

Lo(a, b) == IF a < b THEN a ELSE b

\* The units of cnt blocks from lba.
Extent(lba, cnt) == lba * BlockUnits .. (lba + cnt) * BlockUnits - 1

\* A descriptor of UNMAP data is one unit: lba * 10 + count.
Hole(v) == [lba |-> v \div 10, cnt |-> v % 10]

------------------------------------------------------------------------------
(* RawImageBackend.                                                          *)

\* get_direct_buffer: the mapping, if the file could be mapped.
HasDirectBuffer == io # "staging"

\* write: data, from unit u on.
WriteAt(d, u, data) == [v \in Units |-> IF v - u + 1 \in DOMAIN data THEN data[v - u + 1] ELSE d[v]]

\* read
ReadAt(d, u, n) == [i \in 1..n |-> IF u + i - 1 \in Units THEN d[u + i - 1] ELSE -1]

\* What fallocate takes out of the file: the range, its start rounded down and
\* its end rounded up to a block of the file system (Linux).
Widened(lba, cnt) ==
    LET first == lba * BlockUnits
        end == (lba + cnt) * BlockUnits
    IN  (first \div HoleUnits) * HoleUnits
            .. ((end + HoleUnits - 1) \div HoleUnits) * HoleUnits - 1
Punched(lba, cnt) == IF HasDirectBuffer THEN Widened(lba, cnt) ELSE Extent(lba, cnt)

Cleared(d, S) == [v \in Units |-> IF v \in S THEN 0 ELSE d[v]]

\* punch_hole
PunchHole(d, lba, cnt) == Cleared(d, Punched(lba, cnt))

\* ... of every descriptor in UNMAP data
PunchHoles(d, data) ==
    Cleared(d, UNION {Punched(Hole(data[i]).lba, Hole(data[i]).cnt) : i \in DOMAIN data})

\* The hole is not what was asked for.
TooWide(lba, cnt) == Punched(lba, cnt) # Extent(lba, cnt)

------------------------------------------------------------------------------
(* A command block wrapper.  Each operator gives the handler's members after *)
(* it; h is what they were, with staging cleared.                            *)

\* The Idle branch begins by dropping the buffers of the previous command.
DropBuffers(h, c) == [h EXCEPT !.staging = <<>>, !.owner = c.tag, !.mapped = FALSE, !.acc = 0]

ToStatus(h) == [h EXCEPT !.state = "Status"]
Fail(h) == [ToStatus(h) EXCEPT !.failed = TRUE]

\* A CBW that is too short leaves the previous one in place; a wrong signature.
BadCbw(h, c) == IF c.op = "short" THEN Fail(h) ELSE Fail([h EXCEPT !.cbw = c])

\* REQUEST SENSE, INQUIRY and its pages, MODE SENSE, READ CAPACITY, READ
\* FORMAT CAPACITIES: a structure, cut to the transfer length; an unknown page
\* is empty.
Reply(h, c) ==
    [h EXCEPT !.staging = [i \in 1..(IF c.op = "page" THEN 0 ELSE Lo(c.len, ReplySize)) |-> 0],
              !.offset = 0, !.state = "DataIn"]

\* READ (10) and WRITE (10) compare a 32-bit sum.
InRange(lba, cnt) == (lba + cnt) % LbaWidth <= Blocks

Count(c) == IF c.cnt = 0 THEN ZeroCount ELSE c.cnt

Read10(h, c) ==
    IF ~InRange(c.lba, Count(c)) THEN Fail(h)
    ELSE [h EXCEPT !.offset = 0, !.lba = c.lba, !.cnt = Count(c), !.mapped = HasDirectBuffer,
                   !.staging = IF HasDirectBuffer THEN <<>>
                               ELSE ReadAt(disk, c.lba * BlockUnits, Count(c) * BlockUnits),
                   !.state = "DataIn"]

Write10(h, c) ==
    IF ~InRange(c.lba, Count(c)) \/ read_only THEN Fail(h)
    ELSE [h EXCEPT !.lba = c.lba, !.cnt = Count(c) % CountWidth, !.acc = 0,
                   !.mapped = HasDirectBuffer, !.state = "DataOut"]

\* WRITE SAME: a count of 0 means up to the end.  With UNMAP the range is
\* punched at once, otherwise one block of data follows.
SameCount(c) == IF c.cnt = 0 THEN Blocks - c.lba ELSE c.cnt
SameFails(c) == c.lba >= Blocks \/ read_only \/ SameCount(c) > Blocks - c.lba

WriteSame(h, c) ==
    IF SameFails(c) THEN Fail(h)
    ELSE IF c.op = "sameunmap" THEN ToStatus(h)
    ELSE [h EXCEPT !.lba = c.lba, !.cnt = SameCount(c), !.out = "same", !.offset = 0,
                   !.residue = IF c.len > BlockUnits THEN c.len - BlockUnits ELSE 0,
                   !.state = "DataOut"]

Unmap(h, c) ==
    IF read_only THEN Fail(h)
    ELSE IF c.len = 0 THEN ToStatus(h)
    ELSE [h EXCEPT !.cnt = c.len % CountWidth, !.out = "unmap", !.offset = 0, !.state = "DataOut"]

\* on_out_data_received in state Idle.
OnCbw(d, c) ==
    LET h == DropBuffers(d, c)
        k == [h EXCEPT !.cbw = c]
    IN  CASE c.op \in {"short", "signature"} -> BadCbw(h, c)
          [] c.op = "none" -> ToStatus(k)
          [] c.op \in {"reply", "page"} -> Reply(k, c)
          [] c.op = "read" -> Read10(k, c)
          [] c.op = "write" -> Write10(k, c)
          [] c.op \in {"same", "sameunmap"} -> WriteSame(k, c)
          [] c.op = "unmap" -> Unmap(k, c)
          [] c.op = "unsupported" -> Fail(k)

\* What a CBW alone does to the image.
Punches(c) == c.op = "sameunmap" /\ ~SameFails(c)
DiskOnCbw(c) == IF Punches(c) THEN PunchHole(disk, c.lba, SameCount(c)) ELSE disk

------------------------------------------------------------------------------
(* Data from the host.                                                       *)

\* prepare_out_buffer in state DataOut, for unmapped data: into the tail of
\* staging.
Stage(h, data) ==
    IF h.state = "DataOut" /\ ~h.mapped THEN [h EXCEPT !.staging = @ \o data] ELSE h

\* Where the mapped branch puts it.
WriteOffset(h) == h.lba * BlockUnits + h.acc

\* The units a DataOut phase waits for
Wanted(h) == CASE h.out = "unmap" -> h.cnt
               [] h.out = "same" -> BlockUnits
               [] h.out = "write" -> h.cnt * BlockUnits

\* The accumulated data suffice.
PhaseEnds(h, n) == (IF h.mapped /\ h.out = "write" THEN h.acc + n ELSE Len(h.staging)) >= Wanted(h)

\* on_out_data_received in state DataOut (h has the data staged): collect, and
\* go to Status when all is there.  Data in other states are dropped.
OnOutData(h, n) ==
    IF h.state # "DataOut" THEN h
    ELSE IF ~PhaseEnds(h, n) THEN [h EXCEPT !.acc = IF h.mapped THEN @ + n ELSE @]
    ELSE [h EXCEPT !.staging = <<>>, !.acc = 0, !.mapped = FALSE, !.state = "Status",
                   !.out = "write", !.residue = IF h.out = "same" THEN @ ELSE 0]

\* What it writes: at the end of the phase the staged blocks, or the one block
\* again and again, or the holes of the descriptors; mapped data at once.
DiskOnOutData(h, data) ==
    CASE h.state # "DataOut" -> disk
      [] h.state = "DataOut" /\ h.mapped -> WriteAt(disk, WriteOffset(h), data)
      [] h.state = "DataOut" /\ ~h.mapped /\ ~PhaseEnds(h, Len(data)) -> disk
      [] h.state = "DataOut" /\ ~h.mapped /\ PhaseEnds(h, Len(data)) ->
            CASE h.out = "write" -> WriteAt(disk, h.lba * BlockUnits, h.staging)
              [] h.out = "same" ->
                    [v \in Units |-> IF v \in Extent(h.lba, h.cnt)
                                     THEN h.staging[(v % BlockUnits) + 1] ELSE disk[v]]
              [] h.out = "unmap" -> PunchHoles(disk, h.staging)

\* One of the holes is not what was asked for.
WidensOnOutData(h, n) ==
    /\ h.state = "DataOut" /\ ~h.mapped /\ h.out = "unmap" /\ PhaseEnds(h, n)
    /\ \E i \in DOMAIN h.staging : TooWide(Hole(h.staging[i]).lba, Hole(h.staging[i]).cnt)

------------------------------------------------------------------------------
(* handle_bulk_transfer, IN.                                                 *)

InTotal(h) == IF h.mapped THEN h.cnt * BlockUnits ELSE Len(h.staging)
Chunk(h, len) == Lo(len, InTotal(h) - h.offset)

Csw(h) == [kind |-> "csw", tag |-> h.cbw.tag, failed |-> h.failed,
           residue |-> IF h.failed THEN h.cbw.len ELSE h.residue]

\* What an IN URB of len units is answered.  Data are a reference: units of
\* the file, or of staging as command `owner' left it.
InAnswer(h, len) ==
    CASE h.state = "DataIn" /\ Chunk(h, len) = 0 -> [kind |-> "empty"]
      [] h.state = "DataIn" /\ Chunk(h, len) > 0 ->
            [kind |-> IF h.mapped THEN "file" ELSE "staging", owner |-> h.owner,
             from |-> h.offset + IF h.mapped THEN h.lba * BlockUnits ELSE 0, n |-> Chunk(h, len)]
      [] h.state = "Status" -> Csw(h)
      [] h.state \in {"Idle", "DataOut"} -> [kind |-> "stall"]

\* Mutant: staging is cleared when its last unit is queued.
InTransferClears(h, len) ==
    CASE h.state = "DataIn" ->
            IF h.offset + Chunk(h, len) >= InTotal(h)
            THEN [h EXCEPT !.offset = 0, !.residue = 0, !.state = "Status",
                           !.staging = <<>>, !.owner = 0]
            ELSE [h EXCEPT !.offset = @ + Chunk(h, len)]
      [] h.state = "Status" -> [h EXCEPT !.failed = FALSE, !.state = "Idle"]
      [] OTHER -> h

\* ... and the handler after it.
InTransfer(h, len) ==
    CASE h.state = "DataIn" ->
            IF h.offset + Chunk(h, len) >= InTotal(h)
            THEN [h EXCEPT !.offset = 0, !.residue = 0, !.state = "Status"]
            ELSE [h EXCEPT !.offset = @ + Chunk(h, len)]
      [] h.state = "Status" -> [h EXCEPT !.failed = FALSE, !.state = "Idle"]
      [] OTHER -> h

------------------------------------------------------------------------------
(* The host.                                                                 *)

In(c) == c.op \in {"reply", "page", "read"}

\* The commands of a host that knows the disk (a count of 0 and an LBA one
\* past the end included), and two that no host should send.
Commands(tag) ==
    LET Cmd(op, lba, cnt, len, desc) ==
            [op |-> op, lba |-> lba, cnt |-> cnt, len |-> len, desc |-> desc, tag |-> tag]
        Data(cnt) == (IF cnt = 0 THEN ZeroCount ELSE cnt) * BlockUnits
    IN  {Cmd("none", 0, 0, 0, <<>>), Cmd("page", 0, 0, ReplySize, <<>>),
         Cmd("unsupported", 0, 0, 0, <<>>), Cmd("short", 0, 0, 0, <<>>),
         Cmd("signature", 0, 0, 0, <<>>)}
        \cup {Cmd("reply", 0, 0, len, <<>>) : len \in 0..ReplySize + 1}
        \cup {Cmd(op, lba, cnt, Data(cnt), <<>>) :
                 op \in {"read", "write"}, lba \in 0..Blocks, cnt \in 0..1}
        \cup {Cmd("same", lba, cnt, len, <<>>) :
                 lba \in 0..Blocks, cnt \in 0..1, len \in BlockUnits..BlockUnits + 1}
        \cup {Cmd("sameunmap", lba, cnt, 0, <<>>) : lba \in 0..Blocks, cnt \in 0..1}
        \cup {Cmd("unmap", 0, 0, 0, <<>>), Cmd("unmap", 0, 0, 2, <<10 * (Blocks - 1) + 1, 1>>)}

\* The data the host has to send with command c, from unit k on.
HostData(c, k, n) == [i \in 1..n |-> IF c.op = "unmap" THEN c.desc[k + i] ELSE 10 * c.tag + k + i]

Connected == mscconn > 0
connUnchanged == <<read_only, io, leftover, ncmd, mscconn>>

\* on_new_connection
MscConnect ==
    /\ host.phase = "ready" /\ mscconn < MaxMscConns /\ ncmd = 0 /\ sendq = <<>>
    /\ msc' = FreshMsc /\ mscconn' = mscconn + 1
    /\ UNCHANGED <<read_only, io, disk, sendq, pipe, piped, recving, host, image, leftover, widened,
                   ncmd>>

\* on_disconnection, and the next connection, when the client goes away at
\* any time; the host reads the disk anew.  Nobody empties the pipe: it keeps
\* what one of the threads had put in and could not move on.
MscReconnect ==
    /\ Connected /\ mscconn < MaxMscConns
    /\ msc' = FreshMsc /\ sendq' = <<>> /\ host' = IdleHost
    /\ recving' = <<>> /\ piped' = {} /\ leftover' = Len(pipe)
    /\ image' = disk /\ widened' = FALSE /\ ncmd' = 0 /\ mscconn' = mscconn + 1
    /\ UNCHANGED <<read_only, io, disk, pipe>>

Ack == [kind |-> "ack"]

\* The host sends a CBW; the handler parses it and acknowledges the URB.
HostCommand(c) ==
    /\ Connected /\ host.phase = "ready" /\ ncmd < MaxCmds /\ ncmd' = ncmd + 1
    /\ host' = [IdleHost EXCEPT !.phase = "command", !.cmd = c, !.left = c.len, !.urbs = <<0>>]
    /\ msc' = OnCbw(msc, c) /\ disk' = DiskOnCbw(c)
    /\ widened' = (widened \/ (Punches(c) /\ TooWide(c.lba, SameCount(c))))
    /\ sendq' = Append(sendq, Ack)
    /\ UNCHANGED <<read_only, io, pipe, piped, recving, image, leftover, mscconn>>

\* An OUT URB with n units of data, when recv_direct does not apply.
HostOut(n) ==
    LET data == HostData(host.cmd, host.cmd.len - host.left, n)
        h == Stage(msc, data)
    IN  /\ host.phase = "data" /\ ~In(host.cmd) /\ n \in 1..host.left /\ recving = <<>>
        /\ ~(msc.state = "DataOut" /\ msc.mapped /\ io = "spliced")
        /\ msc' = OnOutData(h, n) /\ disk' = DiskOnOutData(h, data)
        /\ widened' = (widened \/ WidensOnOutData(h, n))
        /\ host' = [host EXCEPT !.left = @ - n, !.urbs = Append(@, n)]
        /\ sendq' = Append(sendq, Ack)
        /\ UNCHANGED <<pipe, piped, recving, image, connUnchanged>>

\* recv_direct: socket to pipe, pipe to file, until all is there; then
\* on_out_data_received.
RecvDirect(n) ==
    /\ host.phase = "data" /\ ~In(host.cmd) /\ n \in 1..host.left /\ recving = <<>>
    /\ msc.state = "DataOut" /\ msc.mapped /\ io = "spliced"
    /\ recving' = HostData(host.cmd, host.cmd.len - host.left, n)
    /\ host' = [host EXCEPT !.left = @ - n, !.urbs = Append(@, n)]
    /\ UNCHANGED <<msc, disk, sendq, pipe, piped, image, widened, connUnchanged>>

RecvToPipe ==
    /\ recving # <<>> /\ "receiver" \notin piped
    /\ pipe' = pipe \o recving /\ piped' = piped \cup {"receiver"}
    /\ UNCHANGED <<msc, disk, sendq, recving, host, image, widened, connUnchanged>>

\* As many units as there are to receive, from the front of the pipe
RecvToFile ==
    LET n == Len(recving)
    IN  /\ recving # <<>> /\ "receiver" \in piped
        /\ disk' = WriteAt(disk, WriteOffset(msc), SubSeq(pipe, 1, n))
        /\ pipe' = SubSeq(pipe, n + 1, Len(pipe)) /\ piped' = piped \ {"receiver"}
        /\ msc' = OnOutData(msc, n) /\ recving' = <<>>
        /\ sendq' = Append(sendq, Ack)
        /\ UNCHANGED <<host, image, widened, connUnchanged>>

\* An IN URB of n units in the data phase; several may be on their way.
HostIn(n) ==
    /\ host.phase = "data" /\ In(host.cmd) /\ n \in 1..host.left
    /\ msc' = InTransfer(msc, n) /\ sendq' = Append(sendq, InAnswer(msc, n))
    /\ host' = [host EXCEPT !.left = @ - n, !.urbs = Append(@, n)]
    /\ UNCHANGED <<disk, pipe, piped, recving, image, widened, connUnchanged>>

\* The IN URB for the status.
HostStatus ==
    /\ host.phase = "status" /\ host.urbs = <<>>
    /\ msc' = InTransfer(msc, 1) /\ sendq' = Append(sendq, InAnswer(msc, 1))
    /\ host' = [host EXCEPT !.urbs = <<1>>]
    /\ UNCHANGED <<disk, pipe, piped, recving, image, widened, connUnchanged>>

------------------------------------------------------------------------------
(* The sender thread: send_transfer_data, and the host that gets the answer. *)

\* The image after a command that succeeded.
Effect(c, got) ==
    CASE c.op = "write" -> WriteAt(image, c.lba * BlockUnits, HostData(c, 0, c.len))
      [] c.op = "same" -> [v \in Units |-> IF v \in Extent(c.lba, SameCount(c))
                                           THEN HostData(c, 0, BlockUnits)[(v % BlockUnits) + 1]
                                           ELSE image[v]]
      [] c.op = "sameunmap" -> Cleared(image, Extent(c.lba, SameCount(c)))
      [] c.op = "unmap" -> Cleared(image, UNION {Extent(Hole(c.desc[i]).lba, Hole(c.desc[i]).cnt) :
                                                     i \in DOMAIN c.desc})
      [] OTHER -> image

\* A stalled or empty status is asked for once more, then the host gives up
\* and resets, which the handler does not support.
HostRetries == host' = [host EXCEPT !.urbs = <<>>, !.retried = TRUE,
                                    !.phase = IF host.retried THEN "reset" ELSE "status"]

\* The host gets answer a with data.
Receives(a, data) ==
    LET rest == Tail(host.urbs)
        next == [host EXCEPT !.urbs = rest, !.got = @ \o data]
    IN  CASE a.kind = "csw" ->
                /\ host' = [host EXCEPT !.urbs = rest, !.csw = <<a>>,
                                        !.phase = IF rest = <<>> THEN "ready" ELSE "skipped"]
                /\ image' = IF a.failed THEN image ELSE Effect(host.cmd, host.got)
          [] a.kind # "csw" /\ host.phase = "status" -> HostRetries /\ UNCHANGED image
          [] a.kind # "csw" /\ host.phase = "skipped" ->
                /\ host' = [host EXCEPT !.urbs = rest,
                                        !.phase = IF rest = <<>> THEN "ready" ELSE "skipped"]
                /\ UNCHANGED image
          [] a.kind # "csw" /\ host.phase = "command" ->
                /\ host' = [next EXCEPT !.phase = IF host.left = 0 THEN "status" ELSE "data"]
                /\ UNCHANGED image
          [] a.kind # "csw" /\ host.phase = "data" ->
                /\ host' = [next EXCEPT !.phase =
                               IF rest = <<>> /\ (host.left = 0 \/ (In(host.cmd) /\ Len(data) < Head(host.urbs)))
                               THEN "status" ELSE "data"]
                /\ UNCHANGED image

senderUnchanged == <<msc, disk, recving, widened, connUnchanged>>

\* From staging, the mapping, or the answer itself.
SendFallback ==
    /\ sendq # <<>> /\ ~(Head(sendq).kind = "file" /\ io = "spliced")
    /\ LET a == Head(sendq)
       IN  Receives(a, CASE a.kind = "staging" -> SubSeq(msc.staging, a.from + 1, a.from + a.n)
                         [] a.kind = "file" -> ReadAt(disk, a.from, a.n)
                         [] OTHER -> <<>>)
    /\ sendq' = Tail(sendq)
    /\ UNCHANGED <<pipe, piped, senderUnchanged>>

\* send_direct: file to pipe ...
SendToPipe ==
    /\ sendq # <<>> /\ Head(sendq).kind = "file" /\ io = "spliced" /\ "sender" \notin piped
    /\ pipe' = pipe \o ReadAt(disk, Head(sendq).from, Head(sendq).n)
    /\ piped' = piped \cup {"sender"}
    /\ UNCHANGED <<sendq, host, image, senderUnchanged>>

\* ... and as many units from the front of the pipe to the socket.
SendToSocket ==
    LET n == Head(sendq).n
    IN  /\ "sender" \in piped
        /\ Receives(Head(sendq), SubSeq(pipe, 1, n))
        /\ sendq' = Tail(sendq)
        /\ pipe' = SubSeq(pipe, n + 1, Len(pipe)) /\ piped' = piped \ {"sender"}
        /\ UNCHANGED senderUnchanged

------------------------------------------------------------------------------

MscNext ==
    \/ MscConnect \/ MscReconnect
    \/ \E c \in Commands(ncmd + 1) : HostCommand(c)
    \/ \E n \in 1..Blocks * BlockUnits : HostOut(n) \/ RecvDirect(n) \/ HostIn(n)
    \/ RecvToPipe \/ RecvToFile \/ HostStatus
    \/ SendFallback \/ SendToPipe \/ SendToSocket

MscSpec == MscInit /\ [][MscNext]_mscVars

------------------------------------------------------------------------------
(* Properties.                                                               *)

MscTypeOK ==
    /\ msc.state \in {"Idle", "DataIn", "DataOut", "Status"}
    /\ msc.offset \in 0..InTotal(msc) /\ msc.out \in {"write", "same", "unmap"}
    /\ msc.cnt \in Nat /\ msc.acc \in Nat /\ msc.residue \in Nat
    /\ (msc.state = "DataOut" /\ msc.out # "same") => msc.cnt < CountWidth
    /\ msc.failed \in BOOLEAN /\ msc.mapped \in BOOLEAN
    /\ DOMAIN disk = Units /\ DOMAIN image = Units
    /\ host.phase \in {"ready", "command", "data", "status", "skipped", "reset"}

\* Between two commands the image file is what the host believes it wrote: a
\* command that succeeded took effect completely (through staging, mapping or
\* splice, in pieces, with a count of zero), one that failed had none.  Not so
\* when a hole grew to the blocks of the file system, or when the pipe still
\* had data of an earlier client.
DiskIsWhatHostWrote ==
    (host.phase = "ready" /\ leftover = 0 /\ ~widened) => disk = image

\* test_msc_handler.cpp:596, UNMAP leaves the blocks beside the hole alone: the
\* same, holes included.
HolesAreExact ==
    (host.phase = "ready" /\ leftover = 0) => disk = image

\* READ returns the blocks of the image, unless the pipe had data of an
\* earlier client.
ReadReturnsDisk ==
    (host.phase = "ready" /\ host.cmd.op = "read" /\ host.csw # <<>> /\ ~host.csw[1].failed
        /\ leftover = 0)
        => host.got = ReadAt(disk, host.cmd.lba * BlockUnits, host.cmd.len)

\* Every command ends with one CSW that has its tag (a CBW too short has
\* none), and the host never needs a reset: a Bulk-Only reset is answered with
\* EPIPE and only a new connection leaves a state the protocol is stuck in.
StatusForEveryCommand ==
    /\ host.phase # "reset"
    /\ (host.phase = "ready" /\ host.cmd.tag > 0) =>
           /\ host.csw # <<>> /\ msc.state = "Idle"
           /\ host.csw[1].tag = host.cmd.tag \/ host.cmd.op = "short"

\* The comment at the Idle branch: the sender has sent what points into
\* staging before the next CBW clears it.
StagingOutlivesSender ==
    \A i \in DOMAIN sendq : sendq[i].kind = "staging" =>
        /\ sendq[i].owner = msc.owner
        /\ sendq[i].from + sendq[i].n <= Len(msc.staging)

\* recv_direct and send_direct share one pipe without a lock: behind what an
\* earlier client left there it never holds the data of both, and each takes
\* out as much as it put in.
PipeHasOneUser ==
    /\ Cardinality(piped) <= 1
    /\ Len(pipe) = leftover + (IF "receiver" \in piped THEN Len(recving) ELSE 0)
                            + (IF "sender" \in piped THEN Head(sendq).n ELSE 0)
==============================================================================
