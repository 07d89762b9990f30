------------------------------ MODULE QtEdits ------------------------------
(***************************************************************************)
(* The edit list of a track, and what it does to the track in push mode:   *)
(* the segments it is turned into, the gaps and the segment event that are *)
(* sent for a segment of upstream, the buffers that are cut to it, the     *)
(* duration that grows while a fragmented file is read, and what a flush,  *)
(* a seek and a reset leave of all that.                                   *)
(*                                                                         *)
(* A track is [edits, movie, length, pull, sub, frame, rate, units,        *)
(* matrix, dref]: edits are [dur, media, rate] with media -1 for an empty  *)
(* one; rate = <<samples, time>> says how many frames a time is.           *)
(***************************************************************************)
EXTENDS Integers, Sequences, FiniteSets, SequencesExt

CONSTANTS
    EditTracks,
    MaxMaps,       \* bound: segments of upstream
    MaxUnits       \* bound: buffers between two of them

VARIABLES edit     \* the track, its segments, what was sent for it
editVars == <<edit>>

UnknownTime == -1      \* GST_CLOCK_TIME_NONE
Valid(t) == t # UnknownTime
LeastOf(a, b) == IF a < b THEN a ELSE b
Most(a, b) == IF a > b THEN a ELSE b
----------------------------------------------------------------------------
(* qtdemux_parse_segments: the edits one behind the other.  An edit of no  *)
(* length goes on to the end of the movie; if it begins behind that, its   *)
(* length is unknown and the sum behind its start wraps to just before it  *)
(* (UnknownTime is the largest number, and one less than 0).  One that     *)
(* ends behind the file moves the stop of the file.                        *)
EditPlaced(track, s, e) ==
    LET open == e.dur = 0 /\ e.media # UnknownTime
        time == IF open THEN s.time ELSE s.time + e.dur
        stop == IF open THEN track.movie ELSE time
        dur == IF ~open THEN stop - s.stime
               ELSE IF Valid(stop) /\ stop >= e.media THEN stop - e.media ELSE UnknownTime
        seg == [time |-> s.stime, dur |-> dur, stop |-> stop, media |-> e.media,
                mstop |-> IF e.media = UnknownTime THEN UnknownTime ELSE e.media + dur,
                rate |-> IF e.rate <= 0 THEN 1 ELSE e.rate]
    IN [s EXCEPT !.time = time, !.stime = stop, !.segs = Append(@, seg),
                 !.end = IF Valid(@) /\ stop > @ THEN stop ELSE @]
Dummy(length) ==
    LET long == IF length = 0 THEN UnknownTime ELSE length
    IN <<[time |-> 0, dur |-> long, stop |-> long, media |-> 0, mstop |-> long, rate |-> 1]>>
Media(edits) == {i \in DOMAIN edits : edits[i].media # UnknownTime}
(* In push mode a list with more or less than one edit that shows something *)
(* is thrown away; without a list the whole track is shown.                *)
Refused(track) == track.edits # <<>> /\ ~track.pull /\ Cardinality(Media(track.edits)) # 1
Segments(track) ==
    LET all == FoldLeft(LAMBDA s, e : EditPlaced(track, s, e),
                        [time |-> 0, stime |-> 0, segs |-> <<>>, end |-> track.movie], track.edits)
        none == track.edits = <<>> \/ Refused(track)
    IN [segs |-> IF none THEN Dummy(track.length) ELSE all.segs, dummy |-> none, end |-> all.end]
----------------------------------------------------------------------------
(* gst_qtdemux_stream_segment_get_boundaries, forwards, and                *)
(* gst_qtdemux_stream_update_segment: what of a segment is played from a   *)
(* position on, with the running time of the segments before as its base.  *)
Inside(seg, pos) == IF Valid(seg.dur) THEN LeastOf(pos - seg.time, seg.dur) ELSE pos - seg.time
Bounds(e, seg, pos) ==
    LET in == Inside(seg, pos)
        far == IF ~Valid(e.end) THEN seg.mstop
               ELSE IF ~Valid(seg.mstop) THEN e.end - seg.time + seg.media
               ELSE LeastOf(seg.mstop, e.end - seg.time + seg.media)
        start == seg.time + in
    IN IF seg.media = UnknownTime THEN [start |-> start, stop |-> seg.time + seg.dur]
       ELSE [start |-> IF Valid(far) THEN LeastOf(seg.media + in, far) ELSE seg.media + in, stop |-> far]
Beyond(e, seg, pos) == pos < seg.time \/ (Valid(e.end) /\ seg.time > e.end)
EditActivated(e, i, pos) ==
    LET b == Bounds(e, e.segs[i], pos)
    IN IF Beyond(e, e.segs[i], pos) THEN [e EXCEPT !.index = i]
       ELSE [e EXCEPT !.index = i, !.start = b.start, !.stop = b.stop, !.base = e.acc,
                      !.out = Append(@, [kind |-> "segment", from |-> b.start, to |-> b.stop, base |-> e.acc])]

(* gst_qtdemux_send_gap_for_segment: the rest of an empty one, as a gap.   *)
GapSent(e, i) ==
    LET left == e.segs[i].dur - (e.pos - e.segs[i].time)
    IN [e EXCEPT !.out = Append(@, [kind |-> "gap", from |-> e.pos, to |-> e.pos + left, base |-> e.acc]),
                 !.pos = @ + left]
Accumulated(e) == IF Valid(e.stop) THEN [e EXCEPT !.acc = @ + e.stop - e.start] ELSE e

(* gst_qtdemux_map_and_push_segments: every segment that ends behind the   *)
(* start upstream gives.  The assertion in it is that a segment that shows *)
(* something is the last one.                                              *)
Mapped(e0, from) ==
    LET step(e, i) ==
          LET at == EditActivated(e, i, e.pos)
          IN IF Valid(e.segs[i].stop) /\ e.segs[i].stop <= from THEN e
             ELSE IF e.segs[i].media = UnknownTime THEN Accumulated(GapSent(at, i))
             ELSE [at EXCEPT !.aborted = @ \/ i # Len(e.segs)]
    IN FoldLeft(step, [e0 EXCEPT !.pos = from], [i \in 1..Len(e0.segs) |-> i])
----------------------------------------------------------------------------
(* gst_qtdemux_clip_buffer: raw audio loses the frames outside the segment, *)
(* raw video only the time.  A unit is [pts, dur, size].                   *)
Frames(t, dur) == (dur * t.rate[1]) \div t.rate[2]
Clipped(e, t, u) ==
    LET dur == IF Valid(u.dur) THEN u.dur ELSE ((u.size \div t.frame) * t.rate[2]) \div t.rate[1]
        end == u.pts + dur
        from == Most(u.pts, e.start)
        to == IF Valid(e.stop) THEN LeastOf(end, e.stop) ELSE end
        cut(d) == IF t.sub = "soun" THEN Frames(t, d) * t.frame ELSE 0
    IN IF t.sub \notin {"soun", "vide"} \/ t.frame <= 0 \/ ~Valid(u.pts) THEN <<[u EXCEPT !.cut = 0]>>
       ELSE IF end <= e.start \/ (Valid(e.stop) /\ u.pts >= e.stop) THEN <<>>
       ELSE <<[pts |-> from, dur |-> to - from, cut |-> cut(from - u.pts),
               size |-> u.size - cut(from - u.pts) - cut(end - to)]>>
(* gst_qtdemux_process_buffer: a subtitle of two bytes only ends the one   *)
(* before; of the others the text its length says, as far as it is there.  *)
Text(u) == IF u.size <= 2 THEN <<>>
           ELSE <<[u EXCEPT !.size = LeastOf(u.cut, u.size - 2), !.cut = 0]>>
Subtitled(t, u) == IF t.sub = "subp" THEN IF u.size <= 2 THEN <<>> ELSE <<[u EXCEPT !.cut = 0]>>
                   ELSE IF t.sub = "text" THEN Text(u) ELSE Clipped(edit, t, u)
----------------------------------------------------------------------------
(* tkhd and the data references: how the picture is turned, and the RTSP   *)
(* address a stream track stands for: the data atom of the first hndl.     *)
Rotation == [upright |-> "none", quarter |-> "rotate-90", half |-> "rotate-180", left |-> "rotate-270"]
Turned(t) == IF t.matrix \in DOMAIN Rotation THEN Rotation[t.matrix] ELSE "none"
RtspUri(dref) ==
    LET hndl == SelectSeq(dref, LAMBDA b : b.type = "hndl")
        data == SelectSeq(hndl[1].atoms, LAMBDA a : a.type = "data")
    IN IF hndl = <<>> THEN "none"
       ELSE IF data = <<>> THEN "none" ELSE IF data[1].rtsp THEN data[1].uri ELSE "none"
----------------------------------------------------------------------------
Nothing == [segs |-> <<>>, dummy |-> FALSE, end |-> UnknownTime, movie |-> 0, length |-> 0, index |-> 0,
            start |-> 0, stop |-> UnknownTime, base |-> 0, pos |-> 0, acc |-> 0, out |-> <<>>, units |-> <<>>,
            maps |-> 0, from |-> 0, fed |-> 0, aborted |-> FALSE, tags |-> "none", uri |-> "none"]
EditInit == edit = [t |-> CHOOSE t \in EditTracks : TRUE] @@ Nothing
Fresh(t) == [t |-> t] @@ Nothing

(* A track is read: its segments, the way it is turned, its address.       *)
ParseEdits ==
    /\ edit.segs = <<>>
    /\ \E t \in EditTracks :
         LET s == Segments(t)
         IN edit' = [Fresh(t) EXCEPT !.segs = s.segs, !.dummy = s.dummy, !.end = s.end, !.movie = t.movie,
                       !.length = t.length, !.tags = Turned(t), !.uri = RtspUri(t.dref), !.maps = edit.maps]

(* A segment of upstream, at the start or after a flush; the running time  *)
(* that was added up is gone, and what was sent no longer counts.          *)
MapSegment ==
    /\ edit.segs # <<>> /\ ~edit.t.pull /\ ~edit.aborted /\ edit.maps < MaxMaps
    /\ \E from \in 0..Most(edit.movie, 1) - 1 :
         edit' = [Mapped([edit EXCEPT !.acc = 0, !.out = <<>>, !.units = <<>>], from)
                    EXCEPT !.maps = @ + 1, !.from = from, !.fed = 0]

(* A buffer of the track, while it plays a segment that shows something.   *)
EditPlaying == edit.index > 0 /\ edit.segs[edit.index].media # UnknownTime /\ edit.out # <<>>
PushBuffer ==
    /\ edit.maps > 0 /\ ~edit.aborted /\ EditPlaying /\ edit.fed < MaxUnits
    /\ \E u \in edit.t.units :
         edit' = [edit EXCEPT !.fed = @ + 1, !.units = Append(@, [raw |-> u, got |-> Subtitled(edit.t, u),
                                                                   start |-> edit.start, stop |-> edit.stop])]

(* check_update_duration: what a fragment says the movie lasts.  The end   *)
(* of the file moves when it was the duration; the one segment of a track  *)
(* without edits grows with it, and downstream is told where it ends.      *)
Longer(e, to) ==
    LET movie == [e EXCEPT !.movie = Most(@, to), !.end = IF to > e.movie /\ @ = e.movie THEN to ELSE @]
        grown == [movie EXCEPT !.length = to, !.segs[1].stop = to, !.segs[1].dur = to, !.segs[1].mstop = to]
    IN IF to <= e.length THEN movie
       ELSE IF ~e.dummy \/ ~Valid(e.segs[1].dur) THEN [movie EXCEPT !.length = to]
       ELSE IF e.index = 0 THEN grown ELSE EditActivated(grown, e.index, e.start)
UpdateDuration ==
    /\ edit.segs # <<>> /\ ~edit.aborted /\ Valid(edit.movie)
    /\ \E more \in 1..2 : edit.movie + more <= 2 * edit.t.movie + 2
                          /\ edit' = Longer(edit, edit.movie + more)

(* gst_qtdemux_stream_clear and _reset: PAUSED to READY, or a new header.  *)
ClearStream == /\ edit.segs # <<>> /\ edit' = [Fresh(edit.t) EXCEPT !.maps = edit.maps]

EditNext == ParseEdits \/ MapSegment \/ PushBuffer \/ UpdateDuration \/ ClearStream
EditSpec == EditInit /\ [][EditNext]_editVars
----------------------------------------------------------------------------
EditTypeOK == edit.index \in 0..Len(edit.segs) /\ edit.maps \in 0..MaxMaps /\ edit.fed \in 0..MaxUnits

(* The edits lie one behind the other and a shown one is as long in the    *)
(* track as it is in the movie.                                            *)
EditsInOrder ==
    /\ \A i \in 1..Len(edit.segs) - 1 : edit.segs[i].stop = edit.segs[i + 1].time
    /\ \A i \in DOMAIN edit.segs :
         LET s == edit.segs[i]
         IN s.media # UnknownTime /\ Valid(s.dur) => s.mstop - s.media = s.dur

(* The running time has no hole: what the gaps of a track leave empty is   *)
(* the base of the segment behind them.                                    *)
NoHole ==
    \A i \in DOMAIN edit.out :
        LET before == {j \in 1..i - 1 : edit.out[j].kind = "gap"}
        IN edit.out[i].kind = "segment" =>
             edit.out[i].base = FoldSet(LAMBDA j, s : s + edit.out[j].to - edit.out[j].from, 0, before)

(* Of raw audio nothing outside the segment is heard but part of a frame,  *)
(* and nothing inside is lost.                                             *)
CutRight ==
    edit.t.sub = "soun" =>
      \A i \in DOMAIN edit.units :
        LET u == edit.units[i].raw
            all == u.size \div edit.t.frame
            at(f) == u.pts * edit.t.rate[1] + f * edit.t.rate[2]
            start == edit.units[i].start * edit.t.rate[1]
            ends(f) == Valid(edit.units[i].stop) => at(f) < edit.units[i].stop * edit.t.rate[1]
            got == edit.units[i].got
            first == IF got = <<>> THEN 0 ELSE got[1].cut \div edit.t.frame
            n == IF got = <<>> THEN 0 ELSE got[1].size \div edit.t.frame
            heard(f) == f >= first /\ f < first + n
        IN Valid(u.pts) => \A f \in 0..all - 1 :
             (heard(f) => at(f + 1) > start /\ ends(f)) /\ (at(f) > start /\ ends(f + 1) => heard(f))

(* Downstream knows where a track without edits ends.                      *)
EndKnown ==
    edit.dummy /\ edit.out # <<>> /\ Valid(edit.segs[1].dur) /\ Valid(edit.end) =>
        Last(edit.out).to = LeastOf(edit.segs[1].mstop, edit.end)

EditsTrue == EditsInOrder /\ NoHole /\ CutRight /\ EndKnown

(* gst_qtdemux_map_and_push_segments: "in push mode we should be guaranteed *)
(* that we will have empty segments at the beginning and then one segment  *)
(* after", and the assertion that says so.                                 *)
EmptyFirst == ~edit.aborted
============================================================================
