------------------------------- MODULE QtLoop -------------------------------
(***************************************************************************)
(* Pull mode of the ISO MP4 demuxer: the task that reads the headers and   *)
(* then pushes the sample of the earliest track again and again, the edit  *)
(* lists, the fragments read as they are needed, seeking, and playing      *)
(* backwards one group of pictures at a time.  A file is                   *)
(*   atoms  : the kinds of its top-level atoms,                            *)
(*   tracks : as in QtIndex (decoding and presentation order agree),       *)
(*   frags  : for each fragment, the number of its last sample of each     *)
(*            track; empty for a file that is not fragmented,              *)
(*   access : for each track, the fragments its random access table lists. *)
(***************************************************************************)
EXTENDS QtIndex

CONSTANTS LoopFiles,     \* the files
          LoopSeeks,     \* the seeks an application may ask for
          MaxLoopSeeks,  \* how many of them (bound)
          Jump,          \* samples a file without video goes back (10 in the code)
          MaxPiece,      \* max_buffer_size of raw audio
          SoonEnd        \* how late a finished track is told so (2 s in the code)

VARIABLES film,     \* the file
          head,     \* [atom, moov, moof, state, ended]
          play,     \* [rate, start, stop, pos, trick, known, gone, next, pend, at]
          shown,    \* for each track, the <<edit, sample, running time>> pushed
          asked     \* the seeks done, and what the last one asked for

loopVars == <<film, head, play, shown, asked>>

Never == -1
Endless == 1000
Reels == DOMAIN film.tracks
Fragmented == film.frags # <<>>
Length == Max({film.tracks[k].edits[Len(film.tracks[k].edits)].stop : k \in Reels})
EditOf(k, e) == film.tracks[k].edits[e]
MediaStop(edit) == edit.media + edit.stop - edit.time

AtStart == [time |-> 0, edit |-> 0, i |-> Unset, to |-> Endless, from |-> 1, cut |-> 0,
            key |-> FALSE, low |-> 0, high |-> Never, base |-> 0, over |-> FALSE,
            told |-> FALSE]

LoopInit ==
    /\ film \in LoopFiles
    /\ head = [atom |-> 1, moov |-> FALSE, moof |-> FALSE, state |-> "header", ended |-> "no"]
    /\ play = [rate |-> 1, start |-> 0, stop |-> Never, pos |-> 0, trick |-> FALSE,
               known |-> [k \in Reels |-> IF Fragmented THEN 0 ELSE Count(film.tracks[k])],
               gone |-> [k \in Reels |-> 0], next |-> 0, pend |-> FALSE,
               at |-> [k \in Reels |-> AtStart]]
    /\ shown = [k \in Reels |-> <<>>]
    /\ asked = [count |-> 0, pos |-> 0, key |-> FALSE]

(* qtdemux_add_fragmented_samples until fragment f: its samples are known  *)
(* and the next fragment is looked for; there is none after the last one.  *)
ReadUpTo(p, f) ==
    [p EXCEPT !.known = [k \in Reels |-> film.frags[f][k]],
              !.next = IF f < Len(film.frags) THEN f + 1 ELSE 0]

(* What qtdemux_parse_samples adds: at the last known sample it reads on   *)
(* until the track has one more, or the file ends.                         *)
WithMore(p, k, i) ==
    IF p.next = 0 \/ i < p.known[k] THEN p
    ELSE LET more == {f \in p.next..Len(film.frags) : film.frags[f][k] > i}
         IN ReadUpTo(p, IF more = {} THEN Len(film.frags) ELSE Min(more))

(* qtdemux_prepare_streams: every track gets its first samples.            *)
Primed(p) ==
    IF ~Fragmented THEN [p EXCEPT !.next = 0]
    ELSE LET has(k) == {f \in 1..Len(film.frags) : film.frags[f][k] > 0}
         IN WithMore(ReadUpTo(p, Max({Min(has(k)) : k \in Reels})), 1, 1)

(* The headers are done: the tracks are shown and samples are pushed.      *)
Begin ==
    /\ head' = [head EXCEPT !.state = "movie"]
    /\ play' = Primed(play)
    /\ UNCHANGED <<film, shown, asked>>

(* The loop stops: with a movie it ends, without one it is an error.       *)
HeaderEnd == IF head.moov THEN Begin
             ELSE head' = [head EXCEPT !.ended = "error"] /\ UNCHANGED <<film, play, shown, asked>>

Skip(h) == [h EXCEPT !.atom = @ + 1]

(* gst_qtdemux_loop_state_header, one atom.  A fragment ends the headers   *)
(* when the movie is known; with an access table it is not skipped.        *)
HeaderStep ==
    /\ head.state = "header" /\ head.ended = "no"
    /\ IF head.atom > Len(film.atoms) THEN HeaderEnd
       ELSE LET kind == film.atoms[head.atom]
            IN \/ kind = "moof" /\ head.moov /\ Begin
               \/ /\ kind = "moof" /\ ~head.moov
                  /\ head' = IF \E k \in Reels : film.access[k] # <<>>
                             THEN [head EXCEPT !.moof = TRUE]
                             ELSE [Skip(head) EXCEPT !.moof = TRUE]
                  /\ UNCHANGED <<film, play, shown, asked>>
               \/ kind = "empty" /\ HeaderEnd
               \/ /\ kind = "moov"
                  /\ head' = [Skip(head) EXCEPT !.moov = TRUE]
                  /\ UNCHANGED <<film, play, shown, asked>>
               \/ /\ kind \in {"ftyp", "mdat", "free", "sidx", "uuid"}
                  /\ head' = Skip(head)
                  /\ UNCHANGED <<film, play, shown, asked>>

----------------------------------------------------------------------------
(* The part of an edit a segment covers, in media time, from `time' on     *)
(* (up to it, backwards): gst_qtdemux_stream_segment_get_boundaries.       *)
Boundaries(p, edit, time) ==
    LET span == edit.stop - edit.time
        into == Min({time - edit.time, span})
        end == IF p.stop = Never THEN Length ELSE p.stop
        stop == Min({MediaStop(edit), end - edit.time + edit.media})
    IN IF IsEmptyEdit(edit) THEN [low |-> edit.time + into, high |-> edit.time + span]
       ELSE IF p.rate > 0 THEN [low |-> Min({edit.media + into, stop}), high |-> stop]
       ELSE [low |-> Max({edit.media, p.start}), high |-> Min({edit.media + into, stop})]

MoveStream(s, i) == IF s.i = i THEN s ELSE [s EXCEPT !.i = i, !.from = i, !.cut = 0]

(* gst_qtdemux_activate_segment: the sample to go on with in an edit just  *)
(* entered.  Forwards, key frames already pushed are not pushed again.     *)
Aimed(p, k, wanted) ==
    LET s == p.at[k]
        key == KeyFrame(film.tracks[k], wanted, FALSE)
    IN IF wanted = s.i \/ (s.i # Unset /\ wanted > s.i /\ key <= s.i) THEN s
       ELSE MoveStream(s, key)

(* A fragmented file that was not sought, or whose access table was used,  *)
(* goes on at the sample it is at.  The one pending seek of the demuxer is *)
(* spent by the first track that gets here.                                *)
Activated(p, k) ==
    LET track == film.tracks[k]
        e == SegmentAt(track, p.at[k].time)
        part == Boundaries(p, EditOf(k, e), p.at[k].time)
        in == [p.at[k] EXCEPT !.edit = e, !.low = part.low, !.high = part.high,
                              !.over = FALSE]
        stay == [p EXCEPT !.at[k] = in]
        wanted == IndexAt(track, IF p.rate > 0 THEN part.low ELSE part.high)
        aim == [stay EXCEPT !.pend = FALSE, !.at[k] = Aimed(stay, k, wanted)]
    IN IF Fragmented /\ ~p.pend THEN [stay EXCEPT !.at[k].to = Endless]
       ELSE IF IsEmptyEdit(EditOf(k, e)) THEN [stay EXCEPT !.pend = FALSE]
       ELSE WithMore([aim EXCEPT !.at[k].to = IF p.rate > 0 THEN Endless ELSE wanted],
                     k, Min({wanted + 1, Count(track)}))

Entered(p, k) == IF p.at[k].edit = 0 THEN Activated(p, k) ELSE p

(* When nothing more is known of a track, fragments are read until it has  *)
(* a sample.  That the last one was read counts as the end of the track.   *)
Refilled(p, k, i) ==
    LET more == {f \in p.next..Len(film.frags) - 1 : film.frags[f][k] >= i}
    IN IF i <= p.known[k] THEN p
       ELSE IF p.next # 0 /\ more # {} THEN ReadUpTo(p, Min(more))
       ELSE [(IF p.next = 0 THEN p ELSE ReadUpTo(p, Len(film.frags))) EXCEPT !.at[k].time = Never]

(* gst_qtdemux_prepare_current_sample.  A track that was not positioned is *)
(* at the first sample known, after a fragmented seek that of the fragment.*)
Prepared(p, k) ==
    LET q == Entered(p, k)
        first == q.at[k].i = Unset
        r == IF first THEN [q EXCEPT !.at[k].i = q.gone[k] + 1] ELSE q
        s == Refilled(r, k, r.at[k].i)
    IN IF IsEmptyEdit(EditOf(k, q.at[k].edit)) THEN q
       ELSE IF s.at[k].time = Never THEN s
       ELSE WithMore(s, k, s.at[k].i)

(* The edit is over: on to the next one, or the track has ended.           *)
EditOver(p, k) ==
    LET s == p.at[k]
        edit == EditOf(k, s.edit)
    IN [p EXCEPT !.at[k].time = IF s.edit = Len(film.tracks[k].edits) THEN Never ELSE edit.stop,
                 !.at[k].base = @ + IF s.high # Never THEN s.high - s.low ELSE 0,
                 !.at[k].edit = 0]

(* gst_qtdemux_advance_sample.                                             *)
Advance(p, k) ==
    LET s == p.at[k]
        edit == EditOf(k, s.edit)
        step == [p EXCEPT !.at[k].i = @ + 1, !.at[k].cut = 0]
        q == WithMore(step, k, s.i + 1)
        pts == Pts(film.tracks[k], s.i + 1)
    IN IF IsEmptyEdit(edit) THEN EditOver(p, k)
       ELSE IF s.i >= s.to THEN [p EXCEPT !.at[k].time = Never]
       ELSE IF s.i + 1 > p.known[k] THEN EditOver(step, k)
       ELSE IF pts >= MediaStop(edit) THEN EditOver(q, k)
       ELSE [q EXCEPT !.at[k].time = Max({pts - edit.media, 0}) + edit.time]

(* gst_qtdemux_do_fragmented_seek: the earliest fragment that the tables   *)
(* of the audio and video tracks give for the time sought; every sample    *)
(* known is dropped.  A table begins with the very first fragment.         *)
FragmentFor(p, k) ==
    LET table == film.access[k]
        ts(f) == Pts(film.tracks[k], (IF f = 1 THEN 0 ELSE film.frags[f - 1][k]) + 1)
        after == {n \in 1..Len(table) : ts(table[n]) > p.at[k].time}
        n == IF after = {} THEN Len(table) + 1 ELSE Min(after)
    IN table[Max({n - 1, 1})]

FragmentSeek(p) ==
    LET listed == {k \in Reels : film.access[k] # <<>> /\ ~Sparse(film.tracks[k])}
        f == Min({FragmentFor(p, k) : k \in listed})
        before(k) == IF f = 1 THEN 0 ELSE film.frags[f - 1][k]
    IN IF ~p.pend \/ listed = {} THEN p
       ELSE [ReadUpTo(p, f) EXCEPT
               !.pend = FALSE, !.gone = [k \in Reels |-> before(k)],
               !.at = [k \in Reels |-> [p.at[k] EXCEPT !.i = Unset]]]

----------------------------------------------------------------------------
(* Playing backwards.  The reference is the first video track behind the   *)
(* first track, or else the first track.                                   *)
Reference ==
    Min({k \in Reels \ {1} : film.tracks[k].kind = "video"} \cup
        IF \E k \in Reels \ {1} : film.tracks[k].kind = "video" THEN {} ELSE {1})

BackFrom(k, from) ==
    IF film.tracks[k].kind = "video" THEN KeyFrame(film.tracks[k], from - 1, FALSE)
    ELSE IF from > Jump THEN from - Jump ELSE 1

InMedia(edit, time) == IF IsEmptyEdit(edit) THEN time - edit.time
                       ELSE time - edit.time + edit.media
Presented(edit, pts) == pts + edit.time - IF IsEmptyEdit(edit) THEN 0 ELSE edit.media

(* Where a track goes back to, and the sample its last group began with,   *)
(* which it must not reach again.  One below the first sample is as good   *)
(* as no limit.                                                            *)
GoneBack_SameEnd(s, edit, k, key) ==
    MoveStream([s EXCEPT !.to = s.from,
                         !.time = Presented(edit, Pts(film.tracks[k], key))], key)
GoneBack(s, edit, k, key) ==
    MoveStream([s EXCEPT !.to = IF s.from = 1 THEN Endless ELSE s.from - 1,
                         !.time = Presented(edit, Pts(film.tracks[k], key))], key)

(* gst_qtdemux_seek_to_previous_keyframe; {} when the start is reached.    *)
(* Without a current edit it reads in front of the list: taken as the end. *)
PreviousGroup(p) ==
    LET r == Reference
        track == film.tracks[r]
        from == p.at[r].from
        key == BackFrom(r, from)
        target == Pts(track, key)
        holds == {e \in 1..p.at[r].edit : EditOf(r, e).media <= target}
        e == Max(holds)
        keyTime == target - EditOf(r, e).media + EditOf(r, e).time
        reached == Pts(track, from) - EditOf(r, e).media + EditOf(r, e).time
        aligned(k) ==
          LET edit == EditOf(k, SegmentAt(film.tracks[k], keyTime))
              i == IndexAt(film.tracks[k], InMedia(edit, keyTime))
          IN GoneBack(p.at[k], edit, k, KeyFrame(film.tracks[k], i, FALSE))
    IN IF from = 1 \/ holds = {} THEN {}
       ELSE IF reached < p.start THEN {}
       ELSE {[p EXCEPT !.pos = reached,
                       !.at = [k \in Reels |->
                                 IF k = r
                                 THEN GoneBack([p.at[r] EXCEPT !.edit = e], EditOf(r, e), r, key)
                                 ELSE aligned(k)]]}

----------------------------------------------------------------------------
(* gst_qtdemux_sync_streams: a track that ended well before the position   *)
(* is told so; not while segments are looped.                              *)
Synced(p) ==
    [p EXCEPT !.at = [k \in Reels |->
        [p.at[k] EXCEPT !.told = @ \/ /\ Cardinality(Reels) > 1 /\ p.at[k].time = Never
                                      /\ film.tracks[k].edits[Len(film.tracks[k].edits)].stop
                                            + SoonEnd < p.pos]]]

Running(p, k, i) == p.at[k].base + Pts(film.tracks[k], i) - p.at[k].low

(* A piece of raw audio, and the time the track is at with it: that of the *)
(* part pushed before (a piece lasts one unit of time).                    *)
PieceOf(k, s) ==
    LET size == film.tracks[k].samples[s.i].size
        piece == IF film.tracks[k].kind = "audio" THEN Min({size - s.cut, MaxPiece}) ELSE size
        pts == Pts(film.tracks[k], s.i) + s.cut \div MaxPiece
        edit == EditOf(k, s.edit)
    IN [size |-> piece,
        time |-> IF piece = size THEN s.time ELSE Max({pts - edit.media, 0}) + edit.time]

(* The sample of track k is pushed, raw audio in pieces; forwards, what is *)
(* behind the segment may be refused with EOS, and then the rest is skipped until *)
(* the next segment.                                                       *)
Pushed(p, k, flow) ==
    LET s == p.at[k]
        sample == film.tracks[k].samples[s.i]
        piece == PieceOf(k, s)
        q == Synced([p EXCEPT !.pos = IF p.rate > 0 THEN s.time ELSE @])
        r == [q EXCEPT !.at[k].key = sample.key, !.at[k].cut = @ + piece.size,
                       !.at[k].time = piece.time, !.at[k].over = flow = "eos"]
    IN IF r.at[k].cut >= sample.size THEN Advance(r, k) ELSE r

Playing == {k \in Reels : play.at[k].time # Never}
Earliest(p) == LET live == {k \in Reels : p.at[k].time # Never}
                   first == Min({p.at[k].time : k \in live})
               IN Min({k \in live : p.at[k].time = first})
SegmentOver(p, k) ==
    /\ p.stop # Never /\ p.at[k].key
    /\ IF p.rate > 0 THEN p.stop <= p.at[k].time ELSE p.start > p.at[k].time
SkipsDelta(p, k) ==
    /\ p.trick /\ film.tracks[k].kind = "video" /\ Cardinality(Syncs(film.tracks[k])) > 1
    /\ ~film.tracks[k].samples[p.at[k].i].key

(* Nothing left: backwards the group before is played, else it is over.    *)
AllOver(p) ==
    /\ IF p.rate < 0 /\ PreviousGroup(p) # {}
       THEN /\ play' \in PreviousGroup(p)
            /\ head' = head
       ELSE /\ head' = [head EXCEPT !.ended = "eos"]
            /\ play' = p
    /\ UNCHANGED <<film, shown, asked>>

Quietly(p) == play' = p /\ UNCHANGED <<film, head, shown, asked>>

(* The current sample of track k is pushed, or stepped over.               *)
PlayCurrent(q, k) ==
    LET s == q.at[k]
    IN IF s.time = Never THEN Quietly(q)
       ELSE IF IsEmptyEdit(EditOf(k, s.edit)) THEN Quietly(Advance(q, k))
       ELSE IF SkipsDelta(q, k)
            THEN IF q.rate < 0 THEN AllOver(Advance(q, k)) ELSE Quietly(Advance(q, k))
       ELSE IF film.tracks[k].samples[s.i].size = 0 \/ s.over THEN Quietly(Advance(q, k))
       ELSE /\ \E flow \in IF q.rate > 0 /\ Pts(film.tracks[k], s.i) >= s.high THEN {"ok", "eos"} ELSE {"ok"} :
                  play' = Pushed(q, k, flow)
            /\ shown' = IF s.cut > 0 THEN shown
                        ELSE [shown EXCEPT ![k] = Append(@, <<s.edit, s.i, Running(q, k, s.i)>>)]
            /\ UNCHANGED <<film, head, asked>>

(* One call of gst_qtdemux_loop_state_movie.                               *)
MovieStep ==
    /\ head.state = "movie" /\ head.ended = "no"
    /\ LET p == FragmentSeek(play)
           k == Earliest(p)
       IN IF Playing = {} THEN AllOver(p)
          ELSE IF SegmentOver(p, k) THEN Quietly([p EXCEPT !.at[k].time = Never])
          ELSE PlayCurrent(Prepared(p, k), k)

(* What cannot be read, or is refused by everyone, ends the task.          *)
LoopError ==
    /\ head.state = "movie" /\ head.ended = "no"
    /\ head' = [head EXCEPT !.ended = "error"]
    /\ UNCHANGED <<film, play, shown, asked>>

(* gst_qtdemux_perform_seek, with the task stopped.  A seek to a key frame *)
(* moves to one, and to the very start when a track says so.               *)
Sought(s) ==
    IF ~s.key \/ Fragmented THEN [time |-> s.pos, atStart |-> FALSE]
    ELSE AdjustSeek(film.tracks, s.pos, TRUE, s.next # (s.rate < 0))

Repositioned(s, adjusted) ==
    LET to == IF adjusted.atStart THEN 0 ELSE adjusted.time
    IN [play EXCEPT
          !.rate = s.rate, !.trick = s.trick, !.pos = to, !.pend = Fragmented,
          !.start = IF s.rate > 0 THEN to ELSE IF adjusted.atStart THEN 0 ELSE s.other,
          !.stop = IF s.rate < 0 THEN to ELSE IF s.other = Never THEN Length ELSE s.other,
          !.at = [k \in Reels |->
                    [play.at[k] EXCEPT !.time = to, !.base = 0, !.i = Unset, !.cut = 0,
                                       !.edit = 0, !.told = FALSE]]]

LoopSeek ==
    /\ head.state = "movie" /\ asked.count < MaxLoopSeeks
    /\ \E s \in LoopSeeks :
         /\ s.rate > 0 \/ ~Fragmented \/ \E k \in Reels : film.access[k] # <<>>
         /\ play' = Repositioned(s, Sought(s))
         /\ asked' = [count |-> asked.count + 1, pos |-> s.pos, key |-> s.key /\ ~s.next]
    /\ head' = [head EXCEPT !.ended = "no"]
    /\ shown' = [k \in Reels |-> <<>>]
    /\ UNCHANGED film

LoopNext == HeaderStep \/ MovieStep \/ LoopError \/ LoopSeek
LoopSpec == LoopInit /\ [][LoopNext]_loopVars

----------------------------------------------------------------------------
LoopTypeOK ==
    /\ head.state \in {"header", "movie"} /\ head.ended \in {"no", "eos", "error"}
    /\ play.known \in [Reels -> Nat] /\ play.next \in 0..Len(film.frags)
    /\ \A k \in Reels : /\ play.at[k].i \in 0..PastEnd(film.tracks[k])
                        /\ play.at[k].edit \in 0..Len(film.tracks[k].edits)
                        /\ play.at[k].time >= Never

Numbers(k, e) == {shown[k][n][2] : n \in {n \in DOMAIN shown[k] : shown[k][n][1] = e}}
Visible(k) == Len(shown[k]) > 0

(* Forwards, playing starts with the key frame the position needs, also in *)
(* the middle of an edit list.                                             *)
StartsRight ==
    \A k \in Reels :
      (play.rate > 0 /\ Visible(k) /\ ~Fragmented /\ ~(play.trick /\ film.tracks[k].kind = "video"))
        => \/ shown[k][1][2] = NeededFor(film.tracks[k], play.start)
           \/ film.tracks[k].samples[NeededFor(film.tracks[k], play.start)].size = 0

(* Forwards, the samples of an edit follow one another without a gap, and  *)
(* where edits go on forwards in the media nothing is pushed twice.        *)
NoGapInEdit ==
    \A k \in Reels : \A n \in 2..Len(shown[k]) :
      /\ (play.rate > 0 /\ \/ shown[k][n][1] = shown[k][n - 1][1]
                            \/ EditOf(k, shown[k][n][1]).media >= MediaStop(EditOf(k, shown[k][n - 1][1])))
           => shown[k][n][2] > shown[k][n - 1][2]
      /\ (play.rate > 0 /\ ~play.trick /\ shown[k][n][1] = shown[k][n - 1][1])
        => \A i \in shown[k][n - 1][2] + 1..shown[k][n][2] - 1 : film.tracks[k].samples[i].size = 0

(* When playing forwards has ended every sample of every edit within the   *)
(* segment was pushed, whatever fragment it came from.                     *)
AllShown ==
    (head.ended = "eos" /\ play.rate > 0 /\ ~play.trick) =>
      \A k \in Reels : \A e \in DOMAIN film.tracks[k].edits :
        LET edit == EditOf(k, e)
            due == {i \in 1..Count(film.tracks[k]) :
                      LET time == Pts(film.tracks[k], i) - edit.media + edit.time
                      IN /\ edit.time <= time /\ time < edit.stop /\ play.start <= time
                         /\ play.stop = Never \/ time < play.stop
                         /\ film.tracks[k].samples[i].size > 0}
        IN IsEmptyEdit(edit) \/ due \subseteq Numbers(k, e)

(* The running time of what is pushed is the time played since the seek.   *)
RunningTrue ==
    \A k \in Reels : \A n \in DOMAIN shown[k] :
      play.rate > 0 =>
        LET edit == EditOf(k, shown[k][n][1])
        IN shown[k][n][3] = Pts(film.tracks[k], shown[k][n][2]) - edit.media + edit.time - play.start

(* Backwards, groups meet: what was pushed and what this group has left is *)
(* everything from the start of this group on, and the reference shows no  *)
(* sample twice.  (A group that begins in front of the segment is given up *)
(* half way, so the samples left of it are no one's.)                      *)
GroupsMeet ==
    /\ (play.rate < 0 /\ ~play.trick /\ ~Fragmented) => IsInjective(shown[Reference])
    /\ (play.rate < 0 /\ ~play.trick /\ ~Fragmented) =>
         \A k \in Reels :
           LET s == play.at[k]
               sent == {shown[k][n][2] : n \in DOMAIN shown[k]}
               left == IF s.time = Never \/ s.i = Unset THEN {} ELSE s.i..Min({s.to, Count(film.tracks[k])})
           IN (Visible(k) /\ Presented(EditOf(k, 1), Pts(film.tracks[k], s.from)) >= play.start)
                => \A i \in s.from..Max(sent) :
                              i \in sent \cup left \/ film.tracks[k].samples[i].size = 0

(* A seek to a key frame lands on or before the time asked for.            *)
LandsBefore ==
    (asked.key /\ play.rate > 0 /\ head.ended = "no") => play.start <= asked.pos \/ play.trick

(* What a movie shows from the position sought, forwards and backwards.    *)
LoopTrue == StartsRight /\ NoGapInEdit /\ AllShown /\ RunningTrue /\ GroupsMeet /\ LandsBefore
=============================================================================
