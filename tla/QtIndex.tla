------------------------------ MODULE QtIndex ------------------------------
(***************************************************************************)
(* The sample index of the ISO MP4 demuxer and what is looked up in it: a  *)
(* track is its subtype, its samples in file order (position, size,        *)
(* presentation time, duration, key frame or not) and its edit list.  An   *)
(* edit covers [time, stop) of the presentation and starts at `media' of   *)
(* the track, NoMedia for an empty edit.  Sample numbers count from 1: 0   *)
(* stands for "not positioned", one more than the last for "past the end". *)
(***************************************************************************)
EXTENDS Integers, Sequences, FiniteSets, SequencesExt

Unset == 0
NoMedia == -1
NoSample == -1
Count(track) == Len(track.samples)
PastEnd(track) == Count(track) + 1
Pts(track, i) == track.samples[i].pts
Offset(track, i) == track.samples[i].off
Sparse(track) == track.kind = "text"
Syncs(track) == {i \in 1..Count(track) : track.samples[i].key}
AllKeyFrames(track) == Syncs(track) = 1..Count(track)
IsEmptyEdit(edit) == edit.media = NoMedia

(* The sample that holds the media time: the scan stops at the first later *)
(* sample that starts after it, whatever the order of the times behind.    *)
IndexAt(track, time) ==
    IF Pts(track, 1) = time THEN 1
    ELSE Min({i \in 2..Count(track) : Pts(track, i) > time} \cup {PastEnd(track)}) - 1

(* The key frame needed for sample i, or with `next' the one that follows. *)
(* A video track with a single sync sample always goes back to its start.  *)
KeyFrame(track, i, next) ==
    IF i > Count(track) THEN PastEnd(track)
    ELSE IF track.kind = "video" /\ Cardinality(Syncs(track)) < 2 THEN 1
    ELSE IF AllKeyFrames(track) THEN i
    ELSE IF next
         THEN LET after == {k \in Syncs(track) : k >= i}
              IN IF after = {} THEN NoSample ELSE Min(after)
         ELSE Max({k \in Syncs(track) : k <= i} \cup {1})

(* The edit at a time; the last one is taken for every time beyond.        *)
SegmentAt(track, time) ==
    LET within == {e \in 1..Len(track.edits) - 1 :
                     /\ track.edits[e].time <= time
                     /\ time < track.edits[e].stop}
    IN IF within = {} THEN Len(track.edits) ELSE Min(within)

FirstFull(track, e) ==
    {f \in e..Len(track.edits) : ~IsEmptyEdit(track.edits[f])}

(* The sample a seek in the media looks from, and the key frame it finds;  *)
(* when none follows, the one before.                                      *)
WantedAt(track, start, next) ==
    LET i == IndexAt(track, start)
    IN IF next /\ Pts(track, i) < start /\ i < Count(track) THEN i + 1 ELSE i

KeyFor(track, wanted, next) ==
    LET found == KeyFrame(track, wanted, next)
    IN IF next /\ found = NoSample THEN KeyFrame(track, wanted, FALSE) ELSE found

Said(track, edit, wanted, key) ==
    [index |-> key, first |-> key = 1,
     times |-> IF key # wanted /\ Pts(track, key) >= edit.media
               THEN {Pts(track, key) - edit.media + edit.time} ELSE {}]

(* What one track says of a seek to `time': the sample it would start at,  *)
(* the time of its key frame when that moves the seek, and whether it is   *)
(* its first sample.  A track whose last edits are empty says nothing, and *)
(* in an empty edit no key frame is looked for: the flag is then set as if *)
(* the key frame were the first sample.                                    *)
TrackSeek(track, time, next) ==
    LET e == SegmentAt(track, time)
        full == Min(FirstFull(track, e))
        edit == track.edits[full]
        start == edit.media + IF full = e THEN time - edit.time ELSE 0
        wanted == WantedAt(track, start, next)
    IN IF full # e THEN [index |-> IndexAt(track, start), times |-> {}, first |-> TRUE]
       ELSE Said(track, edit, wanted, KeyFor(track, wanted, next))

(* What a player needs to show a track at `time': the key frame at or      *)
(* before it, in the edit that plays there.                                *)
NeededFor(track, time) ==
    LET e == SegmentAt(track, time)
        full == Min(FirstFull(track, e))
        start == track.edits[full].media + IF full = e THEN time - track.edits[e].time ELSE 0
    IN Max({i \in Syncs(track) : Pts(track, i) <= start} \cup {1})

(* gst_qtdemux_adjust_seek: the time of the seek moves to the earliest key *)
(* frame of the tracks (the latest with `next'), and the position to the   *)
(* first byte any of them needs.                                           *)
AdjustSeek(tracks, time, sparseToo, next) ==
    LET asked == {k \in DOMAIN tracks :
                    /\ sparseToo \/ ~Sparse(tracks[k])
                    /\ FirstFull(tracks[k], SegmentAt(tracks[k], time)) # {}}
        says(k) == TrackSeek(tracks[k], time, next)
        times == {time} \cup UNION {says(k).times : k \in asked}
    IN [time    |-> IF next THEN Max(times) ELSE Min(times),
        offset  |-> IF asked = {} THEN NoSample
                    ELSE Min({Offset(tracks[k], says(k).index) : k \in asked}),
        atStart |-> \E k \in asked : says(k).first]

(* gst_qtdemux_find_sample: the first sample of a track at or behind a     *)
(* position, or the last one that ends before it.                          *)
SampleFrom(track, pos, forward) ==
    LET fits == {i \in 1..Count(track) :
                   /\ track.samples[i].size > 0
                   /\ IF forward THEN Offset(track, i) >= pos
                      ELSE Offset(track, i) + track.samples[i].size <= pos}
    IN IF fits = {} THEN PastEnd(track)
       ELSE IF forward THEN Min(fits) ELSE Max(fits)

(* Where the tracks go from a position: each to its first sample there.    *)
MovedTo(tracks, pos) == [k \in DOMAIN tracks |-> SampleFrom(tracks[k], pos, TRUE)]

(* The leading sample among the tracks that are not sparse.                *)
Leading(tracks, pos) ==
    {Offset(tracks[k], SampleFrom(tracks[k], pos, TRUE)) :
       k \in {k \in DOMAIN tracks : ~Sparse(tracks[k])
                 /\ SampleFrom(tracks[k], pos, TRUE) <= Count(tracks[k])}}
=============================================================================
