---------------------------- MODULE UacStreaming -----------------------------
(***************************************************************************)
(* The audio streaming interfaces: a microphone that cuts the PCM of a     *)
(* source into isochronous packets, and a speaker that writes the packets  *)
(* of the host to a sink, here a WAV file.                                 *)
(*                                                                         *)
(* Control requests run in the session's receiver, the URBs are processed  *)
(* in the thread of the TransferScheduler.  The two share the packet and   *)
(* chunk variables without a lock, so a packet takes several steps; what   *)
(* fill_pcm does to one packet is one of them.  Sizes are counted in       *)
(* frames; a packet stands for 1 / PeriodPackets of a second.  In the file *)
(* a packet counts 1.                                                      *)
(***************************************************************************)
EXTENDS Integers, Sequences, FiniteSets, SequencesExt, FiniteSetsExt

CONSTANTS
    Rates,        \* supported sample rates
    PeriodPackets,      \* packet_interval: packets in a second
    AskedRates,   \* rates the host asks for
    UrbPackets,   \* packets of a URB
    ChunkSize,    \* frames in a chunk of the source
    AccWidth,     \* 2^64 of the residue's type, scaled down
    Window,       \* URBs in a measuring window (100)
    MaxPacing,    \* the limit of the correction (600 us)
    WavWidth,     \* 2^32: data_size and the header's fields wrap
    WavHeader,    \* 36: what the RIFF size has above the size of the data
    MaxUacUrbs,   \* bound: URBs of a connection
    MaxSets,      \* bound: SET_CUR and SET_INTERFACE of a connection
    MaxUacConns   \* bound: connections

ASSUME UacAssumption ==
    /\ Rates \subseteq Nat \ {0} /\ Rates # {} /\ AskedRates \subseteq Nat
    /\ PeriodPackets \in Nat \ {0}
    /\ {UrbPackets, ChunkSize, Window, MaxPacing} \subseteq Nat \ {0}
    /\ AccWidth \in Nat /\ AccWidth > 2 * PeriodPackets
    /\ {WavWidth, WavHeader} \subseteq Nat /\ WavHeader < WavWidth
    /\ {MaxUacUrbs, MaxSets, MaxUacConns} \subseteq Nat

VARIABLES
    uac_kind,           \* "mic" or "speaker"
    uac_up, audio_on,   \* audio_on: streaming
    sample_rate,
    muted,
    iso_queue,          \* URBs the scheduler holds
    iso_pc, iso_left,   \* the URB in process: its step, the packets left
    packet_base, residue_step, residue_acc, packet_bytes,
    chunk_size, chunk_offset, \* size 0: no chunk
    sent_packets, sent_frames,  \* history: since the stream or the rate was set
    taken_frames,               \* history: frames of the source sent since then,
    held_frames,                \* and frames of the chunks there were to take them from
    disturbed,                  \* history: it was set while a URB was under way
    pacing_delta, urb_stat_count, window_fresh, \* window_fresh: urb_stat_last_time_us is 0
    wav,                \* file_open, data_size; the file's header and length; and,
                        \* history, what data_size was when the file was opened
    nurbs, nsets, nuaconn

uacVars == <<uac_kind, uac_up, audio_on, sample_rate, muted, iso_queue, iso_pc, iso_left,
             packet_base, residue_step, residue_acc, packet_bytes, chunk_size, chunk_offset,
             sent_packets, sent_frames, taken_frames, held_frames, disturbed, pacing_delta,
             urb_stat_count, window_fresh, wav, nurbs, nsets, nuaconn>>

chunkVars == <<chunk_size, chunk_offset, taken_frames, held_frames>>
sentVars == <<sent_packets, sent_frames>>
packetVars == <<packet_base, residue_step, residue_acc, chunkVars, sentVars, disturbed>>
pacingVars == <<pacing_delta, urb_stat_count, window_fresh>>
isoVars == <<iso_queue, iso_pc, iso_left, packet_bytes>>
boundVars == <<nurbs, nsets, nuaconn>>

NoWav == [open |-> FALSE, data |-> 0, riff |-> 0, size |-> 0, length |-> 0, before |-> 0]

UacInit ==
    /\ uac_kind \in {"mic", "speaker"} /\ uac_up = FALSE /\ audio_on = FALSE
    /\ sample_rate \in Rates /\ muted = FALSE
    /\ iso_queue = 0 /\ iso_pc = "idle" /\ iso_left = 0 /\ packet_bytes = 0
    /\ packet_base = sample_rate \div PeriodPackets /\ residue_step = sample_rate % PeriodPackets
    /\ residue_acc = 0 /\ chunk_size = 0 /\ chunk_offset = 0
    /\ sent_packets = 0 /\ sent_frames = 0 /\ taken_frames = 0 /\ held_frames = 0
    /\ disturbed = FALSE
    /\ pacing_delta = 0 /\ urb_stat_count = 0 /\ window_fresh = TRUE
    /\ wav = NoWav /\ nurbs = 0 /\ nsets = 0 /\ nuaconn = 0

Idle == iso_pc = "idle" /\ iso_queue = 0

\* The sink's mutex: held from the write of the data to that of the header.
WavFree == iso_pc \notin {"riff", "size"}

------------------------------------------------------------------------------
(* The WAV file.                                                             *)

\* update_header_locked, which writes two fields one after the other: without
\* an open file nothing is written.
WithRiff(w) == IF w.open THEN [w EXCEPT !.riff = (WavHeader + w.data) % WavWidth] ELSE w
WithSize(w) == IF w.open THEN [w EXCEPT !.size = w.data] ELSE w

\* finalize_locked: the header is brought up to date, the file closed and
\* data_size reset; nothing of this without an open file.
Finalize(w) ==
    IF w.open THEN [WithSize(WithRiff(w)) EXCEPT !.open = FALSE, !.data = 0] ELSE w

\* open_file: the old recording is truncated, unless the file cannot be opened.
\* data_size stays as it is.
Opened(w, ok) ==
    IF w.open \/ ~ok THEN w
    ELSE [open |-> TRUE, riff |-> 0, size |-> 0, length |-> 0, data |-> w.data, before |-> w.data]

\* A packet is written, to an open file or to none, and counted.
Written(w) == IF w.open THEN [w EXCEPT !.length = @ + 1] ELSE w
Counted(w) == [w EXCEPT !.data = (@ + 1) % WavWidth]

------------------------------------------------------------------------------
(* Connections and control requests.                                         *)

NoChunk == chunk_size' = 0 /\ chunk_offset' = 0 /\ taken_frames' = 0 /\ held_frames' = 0

\* on_new_connection; the scheduler is started with an empty queue.
UacConnect ==
    /\ ~uac_up /\ nuaconn < MaxUacConns /\ Idle
    /\ uac_up' = TRUE /\ nuaconn' = nuaconn + 1 /\ nurbs' = 0 /\ nsets' = 0
    /\ audio_on' = FALSE /\ NoChunk /\ wav' = Finalize(wav)
    /\ pacing_delta' = 0 /\ urb_stat_count' = 0 /\ window_fresh' = TRUE
    /\ UNCHANGED <<uac_kind, sample_rate, muted, isoVars, packet_base, residue_step, residue_acc,
                   sentVars, disturbed>>

\* The scheduler is stopped and joined before on_disconnection.
UacDisconnect ==
    /\ uac_up /\ iso_pc = "idle" /\ uac_up' = FALSE /\ iso_queue' = 0
    /\ audio_on' = FALSE /\ NoChunk /\ wav' = Finalize(wav)
    /\ UNCHANGED <<uac_kind, sample_rate, muted, iso_pc, iso_left, packet_bytes, packet_base,
                   residue_step, residue_acc, sentVars, disturbed, pacingVars, boundVars>>

\* A request that changes the stream comes at any time.
Setting == uac_up /\ nsets < MaxSets /\ nsets' = nsets + 1

\* The microphone's stream begins anew, cleanly when no URB is under way or
\* about to be.
StreamBegins ==
    /\ residue_acc' = 0 /\ sent_packets' = 0 /\ sent_frames' = 0
    /\ disturbed' = ~Idle

\* The supported rate next to the one asked for; of two as near, the lower.
Nearest(asked) ==
    LET distance(r) == IF r < asked THEN asked - r ELSE r - asked
    IN  Min({r \in Rates : \A q \in Rates : distance(r) <= distance(q)})

\* handle_sampling_freq_control, SET_CUR: set_format and update_packet_bytes;
\* what is left of the chunk is dropped.
MicSetCur(asked) ==
    LET rate == Nearest(asked)
    IN  /\ Setting /\ uac_kind = "mic"
        /\ sample_rate' = rate
        /\ packet_base' = rate \div PeriodPackets /\ residue_step' = rate % PeriodPackets
        /\ StreamBegins /\ NoChunk
        /\ UNCHANGED <<uac_kind, uac_up, audio_on, muted, isoVars, pacingVars, wav, nurbs, nuaconn>>

\* The sink closes its file when the format changes.
SpeakerSetCur(asked) ==
    LET rate == Nearest(asked)
    IN  /\ Setting /\ uac_kind = "speaker" /\ WavFree
        /\ sample_rate' = rate
        /\ wav' = IF rate = sample_rate THEN wav ELSE Finalize(wav)
        /\ UNCHANGED <<uac_kind, uac_up, audio_on, muted, isoVars, packetVars, pacingVars, nurbs,
                       nuaconn>>

\* request_set_interface: alternate setting 1 starts a stream.  The chunk of
\* the old one is kept, and sent from its start again.
MicSetInterface(alt) ==
    /\ Setting /\ uac_kind = "mic" /\ audio_on' = (alt = 1)
    /\ IF alt = 1
       THEN /\ StreamBegins
            /\ chunk_offset' = 0 /\ taken_frames' = 0 /\ held_frames' = chunk_size
            /\ UNCHANGED chunk_size
       ELSE UNCHANGED <<residue_acc, chunkVars, sentVars, disturbed>>
    /\ UNCHANGED <<uac_kind, uac_up, sample_rate, muted, isoVars, packet_base, residue_step,
                   pacingVars, wav, nurbs, nuaconn>>

SpeakerSetInterface(alt) ==
    /\ Setting /\ uac_kind = "speaker" /\ WavFree /\ audio_on' = (alt = 1)
    /\ wav' = IF alt = 1 THEN Finalize(wav) ELSE wav
    /\ UNCHANGED <<uac_kind, uac_up, sample_rate, muted, isoVars, packetVars, pacingVars, nurbs,
                   nuaconn>>

\* SET_CUR of the feature unit, of which only the mute control is kept: it
\* may come at any time.
SetMute(m) ==
    /\ uac_up /\ uac_kind = "mic" /\ m # muted /\ nsets < MaxSets /\ nsets' = nsets + 1
    /\ muted' = m
    /\ UNCHANGED <<uac_kind, uac_up, audio_on, sample_rate, isoVars, packetVars, pacingVars, wav,
                   nurbs, nuaconn>>

\* handle_isochronous_transfer: EPIPE, or the URB goes to the scheduler.
IsoSubmit ==
    /\ uac_up /\ nurbs < MaxUacUrbs /\ nurbs' = nurbs + 1
    /\ iso_queue' = IF audio_on THEN iso_queue + 1 ELSE iso_queue
    /\ UNCHANGED <<uac_kind, uac_up, audio_on, sample_rate, muted, iso_pc, iso_left, packet_bytes,
                   packetVars, pacingVars, wav, nsets, nuaconn>>

------------------------------------------------------------------------------
(* The scheduler's thread: process_iso_in, a packet in up to four steps.     *)

isoUnchanged == <<uac_kind, uac_up, audio_on, sample_rate, muted, packet_base, residue_step,
                  disturbed, boundVars>>

ServeUrb ==
    /\ iso_pc = "idle" /\ iso_queue > 0 /\ iso_queue' = iso_queue - 1
    /\ iso_left' = UrbPackets
    /\ iso_pc' = IF uac_kind = "mic" THEN "add" ELSE "write"
    /\ UNCHANGED <<packet_bytes, residue_acc, chunkVars, sentVars, pacingVars, wav, isoUnchanged>>

AddResidue ==
    /\ iso_pc = "add" /\ residue_acc' = (residue_acc + residue_step) % AccWidth
    /\ iso_pc' = "test"
    /\ UNCHANGED <<iso_queue, iso_left, packet_bytes, chunkVars, sentVars, pacingVars, wav,
                   isoUnchanged>>

TestResidue ==
    /\ iso_pc = "test"
    /\ packet_bytes' = packet_base + IF residue_acc >= PeriodPackets THEN 1 ELSE 0
    /\ iso_pc' = IF residue_acc >= PeriodPackets THEN "subtract" ELSE "fill"
    /\ UNCHANGED <<iso_queue, iso_left, residue_acc, chunkVars, sentVars, pacingVars, wav,
                   isoUnchanged>>

SubtractResidue ==
    /\ iso_pc = "subtract" /\ residue_acc' = (residue_acc - PeriodPackets) % AccWidth
    /\ iso_pc' = "fill"
    /\ UNCHANGED <<iso_queue, iso_left, packet_bytes, chunkVars, sentVars, pacingVars, wav,
                   isoUnchanged>>

\* fill_pcm, of n more frames: where the chunk stands then, and the frames of
\* the chunks that are fetched; the next chunk is fetched only when a frame of
\* it is needed.
OffsetAfter(n) == IF n = 0 THEN chunk_offset ELSE ((chunk_offset + n - 1) % ChunkSize) + 1
Fetched(n) ==
    IF n = 0 THEN 0
    ELSE ((chunk_offset + n - 1) \div ChunkSize) * ChunkSize + (ChunkSize - chunk_size)

\* The packets of the host are long enough.  A muted packet is silent and
\* takes nothing from the source, and one for which the source is dry only
\* what there is.  The last one is followed by the answer.
FillPacket(dry) ==
    LET n == CASE muted -> 0
               [] ~muted /\ dry -> Min({packet_bytes, chunk_size - chunk_offset})
               [] ~muted /\ ~dry -> packet_bytes
    IN  /\ iso_pc = "fill"
        /\ sent_packets' = sent_packets + 1 /\ sent_frames' = sent_frames + packet_bytes
        /\ taken_frames' = taken_frames + n /\ held_frames' = held_frames + Fetched(n)
        /\ chunk_size' = IF n = 0 THEN chunk_size ELSE ChunkSize
        /\ chunk_offset' = OffsetAfter(n)
        /\ iso_left' = iso_left - 1
        /\ iso_pc' = IF iso_left = 1 THEN "idle" ELSE "add"
        /\ UNCHANGED <<iso_queue, packet_bytes, residue_acc, pacingVars, wav, isoUnchanged>>

------------------------------------------------------------------------------
(* process_iso_out: each packet is written to the file and the header        *)
(* brought up to date; at the end of a window the pace is corrected.         *)

wavUnchanged == <<iso_queue, packet_bytes, residue_acc, chunkVars, sentVars>>

\* write_pcm; the file may fail to open, which nobody is told.
WriteData(ok) ==
    /\ iso_pc = "write" /\ iso_pc' = "riff"
    /\ wav' = Counted(Written(Opened(wav, ok)))
    /\ UNCHANGED <<iso_left, pacingVars, wavUnchanged, isoUnchanged>>

WriteRiff ==
    /\ iso_pc = "riff" /\ iso_pc' = "size" /\ wav' = WithRiff(wav)
    /\ UNCHANGED <<iso_left, pacingVars, wavUnchanged, isoUnchanged>>

WriteSize ==
    /\ iso_pc = "size" /\ wav' = WithSize(wav)
    /\ iso_left' = iso_left - 1
    /\ iso_pc' = IF iso_left = 1 THEN "pace" ELSE "write"
    /\ UNCHANGED <<pacingVars, wavUnchanged, isoUnchanged>>

Clamp(d) == IF d > MaxPacing THEN MaxPacing ELSE IF d < -MaxPacing THEN -MaxPacing ELSE d

\* The rate the wall clock shows is off by `off`; the first window after a
\* connection is measured from the clock's epoch, hence far too slow.
Pace(off) ==
    /\ iso_pc = "pace" /\ iso_pc' = "idle"
    /\ IF urb_stat_count + 1 < Window
       THEN urb_stat_count' = urb_stat_count + 1 /\ UNCHANGED <<pacing_delta, window_fresh>>
       ELSE /\ urb_stat_count' = 0 /\ window_fresh' = FALSE
            /\ pacing_delta' = Clamp(IF window_fresh THEN -MaxPacing ELSE pacing_delta + off)
    /\ UNCHANGED <<iso_left, wav, wavUnchanged, isoUnchanged>>

------------------------------------------------------------------------------

UacNext ==
    \/ UacConnect \/ UacDisconnect \/ IsoSubmit \/ ServeUrb
    \/ AddResidue \/ TestResidue \/ SubtractResidue \/ WriteRiff \/ WriteSize
    \/ \E dry \in BOOLEAN : FillPacket(dry)
    \/ \E ok \in BOOLEAN : WriteData(ok)
    \/ \E off \in -1..1 : Pace(off)
    \/ \E r \in AskedRates : MicSetCur(r) \/ SpeakerSetCur(r)
    \/ \E alt \in 0..1 : MicSetInterface(alt) \/ SpeakerSetInterface(alt)
    \/ \E m \in BOOLEAN : SetMute(m)

UacSpec == UacInit /\ [][UacNext]_uacVars

------------------------------------------------------------------------------
(* Properties.                                                               *)

UacTypeOK ==
    /\ sample_rate \in Rates /\ pacing_delta \in -MaxPacing..MaxPacing
    /\ urb_stat_count \in 0..Window - 1 /\ chunk_size \in {0, ChunkSize}
    /\ chunk_offset \in 0..chunk_size /\ residue_acc \in 0..AccWidth - 1
    /\ wav.data \in 0..WavWidth - 1

\* The residue algorithm: after any number of packets, over any number of
\* URBs, exactly the frames of that time have been sent, whatever the rate's
\* remainder, unless the host set the stream while a URB was under way, and
\* again once it sets it at rest.
RateExact ==
    (iso_pc \in {"idle", "add"} /\ ~disturbed)
        => sent_frames = (sent_packets * sample_rate) \div PeriodPackets

\* Every frame of the chunks there were since the stream was set is sent once:
\* chunks follow one another across packets and URBs, and neither muting nor a
\* source that runs dry skips or repeats any.  The first of the chunks may be
\* the last one of the stream before.
SourceContinuous ==
    ~disturbed => taken_frames + (chunk_size - chunk_offset) = held_frames

\* WavFileSink.h: the file can be played while it is written and after the
\* process was killed at any moment: its header never announces data that is
\* not there, and lags behind by no more than the write under way.  Not so
\* when the file was opened after data had been counted for one that could
\* not be, and beyond 4 GiB.
WavPlayable ==
    (wav.before = 0 /\ WavHeader + wav.length < WavWidth) =>
        /\ wav.size <= wav.length /\ wav.length <= wav.size + 1
        /\ wav.riff <= WavHeader + wav.length
        /\ (WavFree /\ wav.length > 0) =>
               wav.size = wav.length /\ wav.riff = WavHeader + wav.length
==============================================================================
