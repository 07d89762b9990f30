------------------------------ MODULE TsStreams ------------------------------
(***************************************************************************)
(* The streams of the program that gst/dvrtsdemux/tsdemux.c plays: how the *)
(* packets of a stream become buffers with time stamps, which wait until   *)
(* the clock of the program is known and a segment has been sent, how      *)
(* streams without data are kept going by gaps, and what seeks, flushes    *)
(* and trick modes do to the data that is on its way.                      *)
(*                                                                         *)
(* A file is a sequence of packets; each belongs to a frame (a PES packet) *)
(* of a stream.  The clock is known from the first packet with a PCR on.   *)
(* A raw time stamp and the time that is computed from it are the same     *)
(* number (see TsPcr for how the packetizer does that).                    *)
(***************************************************************************)
EXTENDS Integers, Sequences, FiniteSets, FiniteSetsExt

CONSTANTS
  TsFiles,     \* sequences of [stream, frame, start, bad, key, pts, len, pcr]; len: how
               \* many packets the frame says it has, 0 if it does not
  Video, Sparse,   \* the stream with key frames; those that may pause
  Back,        \* how far to go back to find a key frame (200 packets)
  GapCheck, GapMargin,   \* 2 s and 0.8 s
  MaxLost, MaxTsSeeks    \* bounds

NoStamp == -1
StreamsOf(f) == {f[i].stream : i \in DOMAIN f}

ASSUME StreamsAssumption ==
  /\ \A f \in TsFiles : f # <<>> /\ Video \in StreamsOf(f)
  /\ {Back, GapCheck, GapMargin} \subseteq Nat /\ {MaxLost, MaxTsSeeks} \subseteq Nat

VARIABLES
  tsFile,
  td,        \* the demuxer: [at, clock, segment, lastSeek, trick]; rewound: in this
             \* step, again: since the last seek
  tsOf,      \* TSDemuxStream of every stream
  tsOut,     \* what came out of its pad since the last flush: the last frame, the
             \* frames, the time of the last gap, if a segment was sent
  tsDue,     \* frames that are complete, in the state of the demuxer then
  tsLost, tsSeeks

streamsVars == <<tsFile, td, tsOf, tsOut, tsDue, tsLost, tsSeeks>>
Streams == StreamsOf(tsFile)

-----------------------------------------------------------------------------
NoData == [state |-> "empty", frame |-> NoStamp, size |-> 0, expected |-> 0, key |-> FALSE]

(* gst_ts_demux_stream_added, gst_ts_demux_stream_flush                     *)
Flushed(st) ==
  [data |-> NoData, raw |-> NoStamp, pts |-> NoStamp, firstPts |-> NoStamp, pending |-> <<>>,
   needSegment |-> TRUE, pendingTs |-> st.pendingTs, discont |-> TRUE, needsKey |-> st.needsKey,
   seeked |-> st.seeked, out |-> 0, gapPts |-> NoStamp, gapOut |-> 0]
AddStream == Flushed([pendingTs |-> TRUE, needsKey |-> FALSE, seeked |-> NoStamp])

(* gst_ts_demux_stream_reset                                                *)
ResetStream(st) == [st EXCEPT !.data = NoData, !.pts = NoStamp, !.discont = TRUE]

Silent == [last |-> NoStamp, frames |-> {}, gap |-> NoStamp, segment |-> FALSE, unmarked |-> FALSE, disordered |-> FALSE]

(* The state that the operators below change.                               *)
State == [d |-> td, of |-> tsOf, out |-> tsOut]

(* mpegts_packetizer_pts_to_ts                                              *)
TimeOf(s, raw) == IF s.d.clock = NoStamp THEN NoStamp ELSE raw

-----------------------------------------------------------------------------
(* check_pending_buffers: is the time of a stream known, so that those of   *)
(* all that wait can be computed?                                           *)
Observed(s) ==
  LET only == \A x \in Streams : x \in Sparse
  IN  \E x \in Streams : (only \/ x \notin Sparse) /\ s.of[x].raw # NoStamp /\ s.of[x].pts # NoStamp
FirstTime(times, first) ==
  LET known == {i \in DOMAIN times : times[i] # NoStamp}
  IN  IF first # NoStamp \/ known = {} THEN first ELSE times[Min(known)]
Recalculated(s, st) ==
  LET pending == [i \in DOMAIN st.pending |->
                    [st.pending[i] EXCEPT !.pts = IF st.pending[i].raw = NoStamp THEN @
                                                  ELSE TimeOf(s, st.pending[i].raw)]]
      pts == IF st.data.state # "empty" /\ st.raw # NoStamp THEN TimeOf(s, st.raw) ELSE st.pts
      waited == FirstTime([i \in DOMAIN pending |-> pending[i].pts], st.firstPts)
  IN  [st EXCEPT !.pendingTs = FALSE, !.pending = pending, !.pts = pts,
                 !.firstPts = IF waited = NoStamp /\ st.data.state # "empty" THEN pts ELSE waited]
CheckPending(s) ==
  IF Observed(s) THEN [s EXCEPT !.of = [x \in Streams |-> Recalculated(s, s.of[x])]] ELSE s

(* calculate_and_push_newsegment: from the lowest first time stamp of all   *)
(* streams; to all of them.                                                 *)
NewSegment(s) ==
  LET firsts == {s.of[x].firstPts : x \in Streams} \ {NoStamp}
  IN  IF s.d.segment = NoStamp /\ firsts = {} THEN s
      ELSE [s EXCEPT !.d.segment = IF @ = NoStamp THEN Min(firsts) ELSE @,
                     !.of = [x \in Streams |-> [s.of[x] EXCEPT !.needSegment = FALSE]],
                     !.out = [x \in Streams |-> [s.out[x] EXCEPT !.segment = TRUE]]]

(* A buffer goes downstream.                                                *)
PushUnit(s, x, frame, pts) ==
  [s EXCEPT !.of[x].discont = FALSE, !.of[x].out = @ + 1,
            !.out[x].last = frame, !.out[x].frames = @ \cup {frame},
            !.out[x].disordered = @ \/ frame <= s.out[x].last,
            !.out[x].unmarked = @ \/ (s.out[x].last = NoStamp /\ ~s.of[x].discont)]
RECURSIVE PushAll(_, _)
PushAll(s, x) ==
  LET waiting == s.of[x].pending
  IN  IF waiting = <<>> THEN s
      ELSE PushAll(PushUnit([s EXCEPT !.of[x].pending = Tail(waiting)], x,
                        waiting[1].frame, waiting[1].pts), x)

(* gst_ts_demux_check_and_sync_streams: streams that had no buffer since    *)
(* the last check are told that there is none up to `time`.                 *)
GapDue(st) == st.out = st.gapOut /\ st.gapPts # st.pts
SyncStream(s, x, time) ==
  LET st == s.of[x]
      t == IF GapDue(st) /\ st.needSegment THEN NewSegment(s) ELSE s
      u == IF GapDue(st) THEN [t EXCEPT !.out[x].gap = time] ELSE t
  IN  [u EXCEPT !.of[x].gapPts = IF st.pts > time THEN st.pts ELSE time,
                !.of[x].gapOut = st.out]
RECURSIVE SyncAll(_, _, _)
SyncAll(s, rest, time) ==
  IF rest = {} THEN s
  ELSE LET x == Min(rest) IN SyncAll(SyncStream(s, x, time), rest \ {x}, time)
SyncStreams(s, x) ==
  LET st == s.of[x]
  IN  IF st.gapPts = NoStamp THEN [s EXCEPT !.of[x].gapPts = st.pts]
      ELSE IF st.pts # NoStamp /\ st.pts > st.gapPts + GapCheck /\ s.d.clock >= GapMargin
      THEN SyncAll(s, Streams, s.d.clock - GapMargin)
      ELSE s

(* gst_ts_demux_push_pending_data: what has been put together goes out, or  *)
(* waits for the clock or for a segment, or is dropped.                     *)
Emptied(s, x) == [s EXCEPT !.of[x].data = NoData]
Waits(s, x) ==
  [s EXCEPT !.of[x].pending =
     Append(@, [frame |-> s.of[x].data.frame, raw |-> s.of[x].raw, pts |-> NoStamp])]
Segmented(s, x) == IF s.of[x].needSegment THEN NewSegment(s) ELSE s
GoesOut_PendingLater(s0, x) ==
  LET s == Segmented(s0, x)
      st == s.of[x]
      u == PushUnit(s, x, st.data.frame, st.pts)
  IN  IF st.needSegment THEN Waits(s, x)
      ELSE IF st.seeked # NoStamp /\ st.pts # NoStamp /\ st.pts < st.seeked THEN PushAll(s, x)
      ELSE SyncStreams(PushAll(u, x), x)
GoesOut(s0, x) ==
  LET s == Segmented(s0, x)
      st == s.of[x]
      t == PushAll(s, x)
  IN  IF st.needSegment THEN Waits(s, x)
      ELSE IF st.seeked # NoStamp /\ st.pts # NoStamp /\ st.pts < st.seeked THEN t
      ELSE SyncStreams(PushUnit(t, x, st.data.frame, st.pts), x)
Rewound(s) ==
  LET to == Max({1, s.d.lastSeek - Back})
  IN  [s EXCEPT !.d.at = to, !.d.lastSeek = to, !.d.rewound = TRUE, !.d.again = TRUE]
PushPending(s, x) ==
  LET st == s.of[x]
      checked == IF st.pendingTs THEN CheckPending(s) ELSE s
  IN  IF st.data.state # "buffer" THEN Emptied(s, x)
      ELSE IF st.needsKey /\ x = Video /\ ~st.data.key /\ s.d.lastSeek > 1
      THEN Emptied(Rewound(s), x)
      ELSE IF st.needsKey
      THEN Emptied(GoesOut([s EXCEPT !.of[x].needsKey = FALSE, !.of[x].seeked = st.pts], x), x)
      ELSE IF checked.of[x].pendingTs THEN Emptied(Waits(s, x), x)
      ELSE Emptied(GoesOut(checked, x), x)

-----------------------------------------------------------------------------
(* gst_ts_demux_parse_pes_header, record_pts                                *)
Header(s, x, p) ==
  LET pts == IF p.pts = NoStamp THEN NoStamp ELSE TimeOf(s, p.pts)
      data == [state |-> "buffer", frame |-> p.frame, size |-> 1, expected |-> p.len, key |-> p.key]
      t == [s EXCEPT !.of[x].raw = p.pts, !.of[x].pts = pts]
      u == IF t.of[x].pendingTs /\ pts # NoStamp THEN CheckPending([t EXCEPT !.of[x].data.state = "header"])
           ELSE IF t.of[x].firstPts = NoStamp THEN [t EXCEPT !.of[x].firstPts = pts]
           ELSE t
  IN  IF p.bad THEN [s EXCEPT !.of[x].data = [NoData EXCEPT !.state = "discont"]]
      ELSE [u EXCEPT !.of[x].data = data]

(* gst_ts_demux_queue_data: what does not begin a frame is only kept if its *)
(* beginning was.                                                           *)
QueueData(s, x, p) ==
  LET state == s.of[x].data.state
  IN  IF state = "empty"
      THEN IF p.start THEN Header(s, x, p) ELSE [s EXCEPT !.of[x].data.state = "discont"]
      ELSE IF state = "buffer" THEN [s EXCEPT !.of[x].data.size = @ + 1]
      ELSE s

(* gst_ts_demux_handle_packet: a new frame pushes the one before it, and so *)
(* does the last packet of a frame of known length.  In a trick mode only   *)
(* key frames of the video are pushed, and in reverse what there is of the  *)
(* other streams.                                                           *)
Complete(st) == st.data.expected > 0 /\ st.data.size = st.data.expected
TrickVideo(s, x) == s.d.trick # "no" /\ x = Video
NextFrame(s, x) ==
  IF ~TrickVideo(s, x) \/ s.of[x].data.key THEN PushPending(s, x)
  ELSE [s EXCEPT !.of[x] = ResetStream(@)]
Ended(s, x) ==
  LET st == s.of[x]
      partial == s.d.trick = "reverse" /\ x # Video /\ st.data.size > 0
                 /\ st.data.size < st.data.expected
  IN  IF partial THEN PushPending(s, x) ELSE IF Complete(st) THEN NextFrame(s, x) ELSE s
HandlePacket(s, p) ==
  LET x == p.stream
      t == IF p.start THEN NextFrame(s, x) ELSE s
      pushed == TrickVideo(s, x) /\ s.of[x].data.key
  IN  IF p.start /\ (t.d.rewound \/ pushed) THEN t
      ELSE Ended(QueueData(t, x, p), x)

-----------------------------------------------------------------------------
StreamsInit ==
  /\ tsFile \in TsFiles
  /\ td = [at |-> 1, clock |-> NoStamp, segment |-> NoStamp, lastSeek |-> NoStamp, trick |-> "no",
           rewound |-> FALSE, again |-> FALSE]
  /\ tsOf = [x \in StreamsOf(tsFile) |-> AddStream]
  /\ tsOut = [x \in StreamsOf(tsFile) |-> Silent]
  /\ tsDue = [x \in StreamsOf(tsFile) |-> {}]
  /\ tsLost = 0 /\ tsSeeks = 0

Becomes(s) == td' = [s.d EXCEPT !.rewound = FALSE] /\ tsOf' = s.of /\ tsOut' = s.out

(* gst_ts_demux_push: the next packet.                                      *)
ReadPacket ==
  /\ td.at <= Len(tsFile)
  /\ LET p == tsFile[td.at]
         s == [State EXCEPT !.d.at = @ + 1, !.d.clock = IF p.pcr # NoStamp THEN p.pcr ELSE @]
         st == tsOf[p.stream]
         ends == p.start /\ st.data.state = "buffer" /\ ~Complete(st)
     IN  /\ Becomes(HandlePacket(s, p))
         /\ tsDue' = [tsDue EXCEPT ![p.stream] =
                        IF td.trick # "no" \/ st.needsKey \/ st.seeked # NoStamp THEN @
                        ELSE @ \cup (IF ends THEN {st.data.frame} ELSE {})]
  /\ UNCHANGED <<tsFile, tsLost, tsSeeks>>

LosePacket ==
  /\ td.at <= Len(tsFile) /\ tsLost < MaxLost
  /\ td' = [td EXCEPT !.at = @ + 1]
  /\ tsLost' = tsLost + 1
  /\ UNCHANGED <<tsFile, tsOf, tsOut, tsDue, tsSeeks>>

(* gst_ts_demux_flush and, if `to` is a place in the file, a seek to it:    *)
(* gst_ts_demux_do_seek.                                                    *)
SeekTo(to, accurate, trick) ==
  /\ tsSeeks < MaxTsSeeks
  /\ td' = [td EXCEPT !.at = to, !.segment = NoStamp, !.lastSeek = to, !.trick = trick,
                    !.again = FALSE]
  /\ tsOf' = [x \in Streams |-> [Flushed(tsOf[x]) EXCEPT
                !.needsKey = @ \/ accurate, !.seeked = NoStamp]]
  /\ tsOut' = [x \in Streams |-> Silent]
  /\ tsDue' = [x \in Streams |-> {}]
  /\ tsSeeks' = tsSeeks + 1
  /\ UNCHANGED <<tsFile, tsLost>>
SeekFile ==
  \E to \in DOMAIN tsFile : \E accurate \in BOOLEAN : \E trick \in {"no", "forward", "reverse"} :
    (accurate => trick = "no") /\ SeekTo(to, accurate, trick)

(* gst_ts_demux_drain: a buffer that is marked as not following the last    *)
(* one, and the end; then the streams are flushed.                          *)
RECURSIVE DrainAll(_, _)
DrainAll(s, rest) ==
  IF rest = {} THEN s ELSE LET x == Min(rest) IN DrainAll(PushPending(s, x), rest \ {x})
Drain ==
  /\ tsSeeks < MaxTsSeeks /\ td.trick = "no"
  /\ LET s == DrainAll(State, Streams)
     IN  /\ ~s.d.rewound
         /\ td' = [s.d EXCEPT !.segment = NoStamp]
         /\ tsOf' = [x \in Streams |-> Flushed(s.of[x])]
         /\ tsOut' = s.out
         /\ tsDue' = [x \in Streams |-> {}]
  /\ tsSeeks' = tsSeeks + 1
  /\ UNCHANGED <<tsFile, tsLost>>

StreamsNext == ReadPacket \/ LosePacket \/ SeekFile \/ Drain
StreamsSpec == StreamsInit /\ [][StreamsNext]_streamsVars

-----------------------------------------------------------------------------
StreamsTypeOK ==
  /\ td.at \in 1 .. Len(tsFile) + 1
  /\ td.trick \in {"no", "forward", "reverse"}
  /\ \A x \in Streams :
       /\ tsOf[x].data.state \in {"empty", "header", "buffer", "discont"}
       /\ tsOf[x].out \in Nat /\ tsOf[x].gapOut \in 0 .. tsOf[x].out
       /\ tsOut[x].segment \in BOOLEAN

(* Nothing goes out of a pad before a segment has.                          *)
SegmentFirst ==
  \A x \in Streams : tsOut[x].last # NoStamp \/ tsOut[x].gap # NoStamp => tsOut[x].segment

PendingFrames(x) == {tsOf[x].pending[i].frame : i \in DOMAIN tsOf[x].pending}

(* No frame is lost on the way: one that had been begun when the next one   *)
(* began has gone out or waits, in the order of the file; what waits leaves *)
(* before any later frame does.  A stream goes on holding frames back only  *)
(* while no stream that decides has a time, or while none has the segment;  *)
(* what it holds when that is over leaves in front of its next frame.       *)
Deciding == {x \in Streams : x \notin Sparse \/ Streams \subseteq Sparse}
NothingLost ==
  \A x \in Streams :
    /\ tsDue[x] \subseteq tsOut[x].frames \cup PendingFrames(x)
    /\ ~td.again => \A f \in PendingFrames(x), g \in tsOut[x].frames : g < f
    /\ \A i \in DOMAIN tsOf[x].pending : \A j \in DOMAIN tsOf[x].pending :
         i < j => tsOf[x].pending[i].frame < tsOf[x].pending[j].frame
    /\ tsOf[x].pendingTs => \A y \in Deciding : tsOf[y].pts = NoStamp
    /\ tsOf[x].needSegment => \A y \in Streams : tsOf[y].needSegment

(* In a trick mode, and first after an accurate seek, only key frames.      *)
KeyFrames(x) == {tsFile[i].frame : i \in {j \in DOMAIN tsFile : tsFile[j].stream = x /\ tsFile[j].key}}
OnlyKeyFrames == td.trick # "no" => tsOut[Video].frames \subseteq KeyFrames(Video)
KeyFrameFirst ==
  tsOf[Video].seeked # NoStamp /\ tsOut[Video].frames # {} /\ td.lastSeek > 1 =>
    Min(tsOut[Video].frames) \in KeyFrames(Video)

(* The first buffer after a flush says that it does not follow the last.    *)
DiscontMarked == \A x \in Streams : ~tsOut[x].unmarked

(* Frames come out in the order of the file, unless it is read again to     *)
(* find a key frame.                                                        *)
FramesInOrder == ~td.again => \A x \in Streams : ~tsOut[x].disordered

(* What an application that plays the pads relies on: all of the above.     *)
StreamsTrue ==
  SegmentFirst /\ NothingLost /\ OnlyKeyFrames /\ KeyFrameFirst /\ DiscontMarked /\ FramesInOrder
=============================================================================
