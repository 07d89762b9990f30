---------------------------- MODULE MpdSegments ----------------------------
(***************************************************************************)
(* Where a stream of an MPD is and where it goes next: the operations of   *)
(* gst/dvrdashdemux/gstmpdparser.c on segment_index and                    *)
(* segment_repeat_index of a GstActiveStream.                              *)
(*                                                                         *)
(* A list m describes the stream in its period:                            *)
(*   segments    stream->segments: [start, duration, repeat]; start counts *)
(*               from the start of the period, a negative repeat means     *)
(*               "until the next segment or the end of the period".        *)
(*               <<>> if there is no list: a template with one duration;   *)
(*   duration    get_segment_duration for a template;                      *)
(*   start, length   the period (start and duration of GstStreamPeriod).   *)
(* A position is [index, repeat], counted from 0 as in the code.           *)
(***************************************************************************)
EXTENDS Integers, Sequences

Unknown == -1   \* GST_CLOCK_TIME_NONE

Position(index, repeat) == [index |-> index, repeat |-> repeat]

Segment(m, index) == m.segments[index + 1]
Template(m) == m.segments = <<>>

(* gst_mpd_client_get_segments_counts: 0 if it is not known.                *)
Count(m) ==
  IF ~Template(m) THEN Len(m.segments)
  ELSE IF m.length = Unknown THEN 0
  ELSE (m.length + m.duration - 1) \div m.duration

(* gst_mpdparser_get_segment_end_time.                                      *)
SegmentEnd(m, index) ==
  LET s == Segment(m, index)
  IN IF s.repeat >= 0 THEN s.start + (s.repeat + 1) * s.duration
     ELSE IF index < Len(m.segments) - 1 THEN Segment(m, index + 1).start
     ELSE m.start + m.length

(* segment_index is compared as an unsigned number: -1 is outside.          *)
HasFragment(m, p) ==
  IF Template(m) /\ Count(m) = 0 THEN TRUE
  ELSE p.index \in 0 .. Count(m) - 1

(* gst_mpd_client_get_next_fragment_timestamp, of a position that has one.  *)
Timestamp(m, p) ==
  IF Template(m) THEN p.index * m.duration
  ELSE Segment(m, p.index).start + Segment(m, p.index).duration * p.repeat

(* The duration that gst_mpd_client_get_next_fragment reports.              *)
Duration(m, p) ==
  IF Template(m) THEN m.duration ELSE Segment(m, p.index).duration

(* gst_mpd_client_get_last_fragment_timestamp_end.                          *)
LastEnd(m) ==
  IF Template(m) \/ Segment(m, Count(m) - 1).repeat < 0 THEN m.start + m.length
  ELSE SegmentEnd(m, Count(m) - 1)

(* The last repetition of a segment, as advance_segment computes it.        *)
LastRepeat(m, index) ==
  LET s == Segment(m, index)
  IN IF s.repeat >= 0 THEN s.repeat
     ELSE (SegmentEnd(m, index) - s.start) \div s.duration

-----------------------------------------------------------------------------
(* gst_mpd_client_stream_seek without a snap flag: [found, at].             *)

(* The segments that hold a time; seek takes the first.                     *)
Holding(m, forward, ts) ==
  {i \in 0 .. Len(m.segments) - 1 :
     IF forward THEN ts < SegmentEnd(m, i) ELSE ts <= SegmentEnd(m, i)}

SeekList(m, forward, ts) ==
  LET in == Holding(m, forward, ts)
      index == CHOOSE i \in in : \A j \in in : i <= j
      s == Segment(m, index)
      repeat == (ts - s.start) \div s.duration
  IN IF in = {} THEN [found |-> FALSE, at |-> Position(Len(m.segments), 0)]
     ELSE [found |-> TRUE,
           at |-> Position(index,
                    IF ~forward /\ repeat > 0 /\ (ts - s.start) % s.duration = 0
                    THEN repeat - 1 ELSE repeat)]

SeekTemplate(m, forward, ts) ==
  LET t == IF ts > m.start THEN ts - m.start ELSE 0
      i == t \div m.duration
      index == IF ~forward /\ i > 0 /\ t % m.duration = 0 THEN i - 1 ELSE i
  IN IF Count(m) > 0 /\ index >= Count(m)
     THEN [found |-> FALSE, at |-> Position(Count(m), 0)]
     ELSE [found |-> TRUE, at |-> Position(index, 0)]

Seek(m, forward, ts) ==
  IF Template(m) THEN SeekTemplate(m, forward, ts) ELSE SeekList(m, forward, ts)

-----------------------------------------------------------------------------
(* gst_mpd_client_has_next_segment.                                         *)
HasNextSegment(m, p, forward) ==
  IF ~forward THEN p.index >= 0
  ELSE IF Count(m) > 0 /\ ~Template(m) /\ p.index + 1 = Count(m)
  THEN LET s == Segment(m, p.index) IN s.repeat < 0 \/ p.repeat < s.repeat
  ELSE Count(m) = 0 \/ p.index + 1 < Count(m)

(* gst_mpd_client_advance_segment: [ret, at].  Forwards an index of -1 is   *)
(* behind the end, too, unless the number of segments is not known.         *)
Arrived(ret, p) == [ret |-> ret, at |-> p]

AdvanceForward(m, p) ==
  IF Count(m) > 0 /\ p.index \notin 0 .. Count(m) - 1 THEN Arrived("EOS", p)
  ELSE IF p.index < 0 THEN Arrived("OK", [p EXCEPT !.index = 0])
  ELSE IF Template(m) THEN
    Arrived(IF Count(m) > 0 /\ p.index + 1 >= Count(m) THEN "EOS" ELSE "OK",
            [p EXCEPT !.index = @ + 1])
  ELSE LET s == Segment(m, p.index)
       IN IF s.repeat >= 0 /\ p.repeat >= s.repeat
          THEN Arrived(IF p.index + 1 >= Count(m) THEN "EOS" ELSE "OK",
                       Position(p.index + 1, 0))
          ELSE Arrived("OK", [p EXCEPT !.repeat = @ + 1])

AdvanceBackward_Stays(m, p) ==
  IF p.repeat > 0 THEN Arrived("OK", [p EXCEPT !.repeat = @ - 1])
  ELSE IF p.index <= 0 THEN Arrived("OK", p)
  ELSE Arrived("OK", Position(p.index - 1, IF Template(m) THEN 0 ELSE LastRepeat(m, p.index - 1)))
AdvanceBackward(m, p) ==
  IF Template(m) THEN
    IF p.index - 1 < 0 THEN Arrived("EOS", [p EXCEPT !.index = -1])
    ELSE Arrived("OK", [p EXCEPT !.index = @ - 1])
  ELSE IF p.index < 0 THEN Arrived("EOS", [p EXCEPT !.index = -1])
  ELSE IF p.index >= Count(m)
  THEN Arrived("OK", Position(Count(m) - 1, LastRepeat(m, Count(m) - 1)))
  ELSE IF p.repeat > 0 THEN Arrived("OK", [p EXCEPT !.repeat = @ - 1])
  ELSE IF p.index = 0 THEN Arrived("EOS", [p EXCEPT !.index = -1])
  ELSE Arrived("OK", Position(p.index - 1, LastRepeat(m, p.index - 1)))

AdvanceSegment(m, p, forward) ==
  IF forward THEN AdvanceForward(m, p) ELSE AdvanceBackward(m, p)
=============================================================================
