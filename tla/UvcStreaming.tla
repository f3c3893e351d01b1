---------------------------- MODULE UvcStreaming -----------------------------
(***************************************************************************)
(* The video streaming interface: negotiation by PROBE and COMMIT, the     *)
(* start and stop of the stream, and the frames of a video source cut into *)
(* the packets of isochronous URBs, paced by a frame clock.                *)
(*                                                                         *)
(* All handlers run in the session's receiver.  Of a negotiation only the  *)
(* frame interval is kept, of a frame its number and size.                 *)
(***************************************************************************)
EXTENDS Naturals, Sequences

CONSTANTS
    FrameSizes,       \* sizes of frames the source may give
    DefaultInterval,  \* the source's frame interval
    Intervals,        \* intervals the host asks for; 0 switches the clock off
    UrbShapes,        \* isochronous URBs: sequences of packet lengths
    MaxFrames,        \* bound: frames
    EndOfVideo,       \* bound: time
    MaxUvcConns       \* bound: connections

PayloadHeader == 2  \* UVC_PAYLOAD_HEADER_SIZE

\* A URB has room for data: its packets are as large as the endpoint's.  The
\* clock has run for longer than an interval.
ASSUME UvcAssumption ==
    /\ FrameSizes \subseteq Nat \ {0} /\ DefaultInterval \in Nat \ {0}
    /\ {MaxFrames, EndOfVideo, MaxUvcConns} \subseteq Nat
    /\ Intervals \cup {DefaultInterval} \subseteq 0..EndOfVideo
    /\ \A u \in UrbShapes : u \in Seq(Nat) /\ \E i \in DOMAIN u : u[i] > PayloadHeader

VARIABLES
    uvc_up, power_on, committed, video_on,   \* video_on: streaming_
    probe_interval,                          \* probe_data_.dwFrameInterval
    source_interval, frame_interval,
    frame,              \* frame_buffer_: [id, size]
    frame_offset, current_fid, frame_started_at,
    video_time,
    host_packets,       \* history: what the host got since the stream started
    pulled,             \* history: frames taken from the source
    pull_gap,           \* history: time between the last two frames taken
    nuconn

uvcVars == <<uvc_up, power_on, committed, video_on, probe_interval, source_interval,
             frame_interval, frame, frame_offset, current_fid, frame_started_at, video_time,
             host_packets, pulled, pull_gap, nuconn>>

NoGap == EndOfVideo + 1

\* The source's interval is probed and paced; the clock's epoch lies so far
\* back that the first frame need not wait.
UvcInit ==
    /\ uvc_up = FALSE /\ power_on = TRUE /\ committed = FALSE /\ video_on = FALSE
    /\ probe_interval = DefaultInterval /\ source_interval = DefaultInterval
    /\ frame_interval = DefaultInterval
    /\ frame = [id |-> 0, size |-> 0] /\ frame_offset = 0 /\ current_fid = FALSE
    /\ frame_started_at = 0 /\ video_time = EndOfVideo
    /\ host_packets = <<>> /\ pulled = 0 /\ pull_gap = NoGap /\ nuconn = 0

------------------------------------------------------------------------------
(* Connection, negotiation, start and stop.                                  *)

UvcConnect ==
    /\ ~uvc_up /\ nuconn < MaxUvcConns
    /\ uvc_up' = TRUE /\ nuconn' = nuconn + 1
    /\ committed' = FALSE /\ video_on' = FALSE /\ frame_offset' = 0 /\ current_fid' = FALSE
    /\ frame_started_at' = 0 /\ pull_gap' = NoGap /\ host_packets' = <<>>
    /\ UNCHANGED <<power_on, probe_interval, source_interval, frame_interval, frame, video_time,
                   pulled>>

UvcDisconnect ==
    /\ uvc_up /\ uvc_up' = FALSE
    /\ committed' = FALSE /\ video_on' = FALSE /\ frame_started_at' = 0
    /\ UNCHANGED <<power_on, probe_interval, source_interval, frame_interval, frame, frame_offset,
                   current_fid, video_time, host_packets, pulled, pull_gap, nuconn>>

\* VC_VIDEO_POWER_MODE_CONTROL: off stops the stream, on does not start it.
PowerMode(on) ==
    /\ uvc_up /\ power_on' = on /\ video_on' = (video_on /\ on)
    /\ UNCHANGED <<uvc_up, committed, probe_interval, source_interval, frame_interval, frame,
                   frame_offset, current_fid, frame_started_at, video_time, host_packets, pulled,
                   pull_gap, nuconn>>

\* PROBE SET_CUR: what the host wants is kept as it is.
Probe(interval) ==
    /\ uvc_up /\ probe_interval' = interval
    /\ UNCHANGED <<uvc_up, power_on, committed, video_on, source_interval, frame_interval, frame,
                   frame_offset, current_fid, frame_started_at, video_time, host_packets, pulled,
                   pull_gap, nuconn>>

\* Mutant: the frame that was being sent is continued.
CommitKeepsOffset(interval) ==
    /\ uvc_up /\ committed' = TRUE
    /\ probe_interval' = interval /\ source_interval' = interval /\ frame_interval' = interval
    /\ current_fid' = FALSE /\ frame_started_at' = 0
    /\ pull_gap' = NoGap /\ host_packets' = <<>>
    /\ UNCHANGED <<uvc_up, power_on, video_on, frame, frame_offset, video_time, pulled, nuconn>>

\* COMMIT SET_CUR: the source takes the interval, frame and clock start anew.
Commit(interval) ==
    /\ uvc_up /\ committed' = TRUE
    /\ probe_interval' = interval /\ source_interval' = interval /\ frame_interval' = interval
    /\ frame_offset' = 0 /\ current_fid' = FALSE /\ frame_started_at' = 0
    /\ pull_gap' = NoGap /\ host_packets' = <<>>
    /\ UNCHANGED <<uvc_up, power_on, video_on, frame, video_time, pulled, nuconn>>

\* request_set_interface: alternate setting 1 starts a committed stream.
VsSetInterface(alt) ==
    /\ uvc_up
    /\ \/ /\ alt = 0 /\ video_on' = FALSE /\ UNCHANGED <<frame_offset, current_fid, host_packets>>
       \/ /\ alt = 1 /\ committed /\ video_on' = TRUE
          /\ frame_offset' = 0 /\ current_fid' = FALSE /\ host_packets' = <<>>
       \/ /\ alt = 1 /\ ~committed /\ UNCHANGED <<video_on, frame_offset, current_fid, host_packets>>
    /\ UNCHANGED <<uvc_up, power_on, committed, probe_interval, source_interval, frame_interval,
                   frame, frame_started_at, video_time, pulled, pull_gap, nuconn>>

------------------------------------------------------------------------------
(* Isochronous URBs.                                                         *)

Lesser(a, b) == IF a < b THEN a ELSE b

\* Mutant: the packet that ends the frame is not marked.
PacketNoEof(f, at, fid, length) ==
    LET chunk == Lesser(length - PayloadHeader, f.size - at)
    IN  [frame |-> f.id, from |-> at, to |-> at + chunk, fid |-> fid,
         eof |-> at + chunk > f.size]

\* One packet: a header with the frame's bit and, at its end, EOF.
Packet(f, at, fid, length) ==
    LET chunk == Lesser(length - PayloadHeader, f.size - at)
    IN  [frame |-> f.id, from |-> at, to |-> at + chunk, fid |-> fid,
         eof |-> at + chunk >= f.size]

\* The loop over the packets of a URB: those too short for a header stay
\* empty, those after the end of the frame too.
PutPacket(f, fid, acc, length) ==
    IF acc.at = f.size \/ length < PayloadHeader THEN acc
    ELSE LET p == Packet(f, acc.at, fid, length)
         IN  [at |-> p.to, out |-> Append(acc.out, p)]

FillPackets(f, at, fid, lengths) ==
    LET filled[i \in 0..Len(lengths)] ==
            IF i = 0 THEN [at |-> at, out |-> <<>>]
            ELSE PutPacket(f, fid, filled[i - 1], lengths[i])
    IN  filled[Len(lengths)]

WaitsForClock ==
    frame_interval > 0 /\ frame_offset = 0 /\ video_time < frame_started_at + frame_interval

\* EPIPE without a stream or when the source has no frame; all packets empty
\* when the interval of the frame before is not over.
IsoNothing ==
    /\ uvc_up /\ (~video_on \/ ~committed \/ frame_offset = 0 \/ WaitsForClock)
    /\ UNCHANGED uvcVars

SendFrom(f, at, fid, lengths) ==
    LET filled == FillPackets(f, at, fid, lengths)
    IN  /\ host_packets' = host_packets \o filled.out
        /\ frame_offset' = IF filled.at >= f.size THEN 0 ELSE filled.at

\* A new frame is taken and its first packets sent.
IsoNewFrame(lengths, size) ==
    /\ uvc_up /\ video_on /\ committed /\ frame_offset = 0 /\ ~WaitsForClock
    /\ pulled < MaxFrames /\ pulled' = pulled + 1
    /\ frame' = [id |-> pulled + 1, size |-> size]
    /\ current_fid' = ~current_fid /\ frame_started_at' = video_time
    /\ pull_gap' = IF frame_started_at = 0 THEN NoGap ELSE video_time - frame_started_at
    /\ SendFrom(frame', 0, current_fid', lengths)
    /\ UNCHANGED <<uvc_up, power_on, committed, video_on, probe_interval, source_interval,
                   frame_interval, video_time, nuconn>>

\* The frame goes on, however long it takes.
IsoSameFrame(lengths) ==
    /\ uvc_up /\ video_on /\ committed /\ frame_offset > 0
    /\ SendFrom(frame, frame_offset, current_fid, lengths)
    /\ UNCHANGED <<uvc_up, power_on, committed, video_on, probe_interval, source_interval,
                   frame_interval, frame, current_fid, frame_started_at, video_time, pulled,
                   pull_gap, nuconn>>

VideoTick ==
    /\ video_time < 2 * EndOfVideo /\ video_time' = video_time + 1
    /\ UNCHANGED <<uvc_up, power_on, committed, video_on, probe_interval, source_interval,
                   frame_interval, frame, frame_offset, current_fid, frame_started_at,
                   host_packets, pulled, pull_gap, nuconn>>

UvcNext ==
    \/ UvcConnect \/ UvcDisconnect \/ VideoTick \/ IsoNothing
    \/ \E on \in BOOLEAN : PowerMode(on)
    \/ \E i \in Intervals : Probe(i) \/ Commit(i)
    \/ \E alt \in 0..1 : VsSetInterface(alt)
    \/ \E u \in UrbShapes : IsoSameFrame(u) \/ \E s \in FrameSizes : IsoNewFrame(u, s)

UvcSpec == UvcInit /\ [][UvcNext]_uvcVars

------------------------------------------------------------------------------
(* Properties.                                                               *)

UvcTypeOK ==
    /\ {uvc_up, power_on, committed, video_on, current_fid} \subseteq BOOLEAN
    /\ {probe_interval, source_interval, frame_interval} \subseteq Intervals \cup {DefaultInterval}
    /\ frame_offset \in 0..frame.size

\* A host that cuts the stream at a change of the FID bit, and one that cuts
\* it at EOF, both get whole frames: within a frame every byte once and in
\* order under one FID, the next frame with the other; a stream begins with
\* the first byte of a frame, however the one before was stopped.
FramesWhole ==
    /\ host_packets # <<>> => host_packets[1].from = 0
    /\ \A k \in 1..Len(host_packets) - 1 :
          LET p == host_packets[k]  q == host_packets[k + 1]
          IN  /\ p.eof <=> q.frame # p.frame
              /\ p.fid # q.fid <=> q.frame # p.frame
              /\ q.from = IF p.eof THEN 0 ELSE p.to

\* The frame clock: however fast the host asks, the next frame is not taken
\* before the negotiated interval is over.
FramePaced == pull_gap >= frame_interval
==============================================================================
