------------------------------- MODULE QtPush -------------------------------
(***************************************************************************)
(* The ISO MP4 demuxer in push mode.  Upstream pushes the file in buffers; *)
(* the demuxer keeps them in its adapter, reads the atoms one after the    *)
(* other, jumps over or buffers the media data that comes before the       *)
(* headers, and then cuts the samples out of the media data.  A seek of    *)
(* the application becomes a seek in bytes upstream; a trick play asks     *)
(* upstream for one key frame after the other.                             *)
(*                                                                         *)
(* A file is a sequence of cells, a cell is as long as a sample and as the *)
(* head of an atom (the 16 bytes of the code).  The adapter holds the      *)
(* cells themselves, by their position in the file, so that a demuxer that *)
(* has lost its position cuts the wrong ones.                              *)
(***************************************************************************)
EXTENDS QtIndex

CONSTANTS
    QtFiles,      \* [size, atoms, tracks, fragmented, big, seekable, pushes]: pushes,
                  \* the lengths of the buffers upstream pushes
    MaxBuffer,    \* most media data to keep while the header is missing (10 MB)
    MaxPushes     \* bound: seeks of the application

VARIABLES
    file,         \* the file, external
    up,           \* upstream: [pos, segment], the next cell, the segment it owes
    qt,           \* the demuxer
    seek,         \* the application's seek: [step, left, offset, want]
    out           \* the samples pushed: [track, index, cell, run]

pushVars == <<file, up, qt, seek, out>>

NoEntry == -1
Head1 == 1
NoSegment == -1
Tracks == DOMAIN qt.tracks
AtomAt(p) == {a \in Range(file.atoms) : a.first = p}
IsMedia(track) == ~Sparse(track)

PushInit ==
    /\ file \in QtFiles
    /\ up = [pos |-> 0, segment |-> 0]
    /\ qt = [state |-> "initial", needed |-> Head1, offset |-> 0, todrop |-> 0,
             adapter |-> <<>>, busy |-> FALSE, err |-> FALSE, eos |-> FALSE,
             mdatleft |-> 0, mdatbuf |-> <<>>, mdatoffset |-> NoEntry,
             restore |-> <<>>, restoreOff |-> NoEntry, firstMdat |-> NoEntry,
             gotMoov |-> FALSE, lastMoov |-> NoEntry,
             tracks |-> <<>>, index |-> <<>>, from |-> <<>>, run |-> 0,
             trick |-> FALSE, rate |-> 1, pushedI |-> FALSE, discont |-> TRUE,
             tricking |-> FALSE, flushing |-> FALSE, covers |-> <<>>]
    /\ seek = [step |-> "none", left |-> MaxPushes, offset |-> NoEntry, want |-> <<>>]
    /\ out = <<>>

(* has_next_entry and next_entry_size: both first put a track that is not  *)
(* positioned at its first sample.  The next entry is the sample of lowest *)
(* offset; it is worth its own size and the bytes to drop before it.       *)
Positioned(index) == [k \in DOMAIN index |-> IF index[k] = Unset THEN 1 ELSE index[k]]
Due(q, k) == q.tracks[k].samples[q.index[k]]
Left(q) == {k \in DOMAIN q.tracks : q.index[k] <= Count(q.tracks[k])}

WithNextEntry(p) ==
    LET q == [p EXCEPT !.index = Positioned(@)]
        ahead == {k \in Left(q) : IsMedia(q.tracks[k]) \/ Due(q, k).off >= q.offset}
        lowest == Min({Due(q, k).off : k \in ahead})
    IN IF ahead = {} \/ lowest < q.offset THEN [q EXCEPT !.needed = NoEntry]
       ELSE [q EXCEPT !.todrop = lowest - q.offset, !.needed = 1 + lowest - q.offset]

Rescan(q) == [q EXCEPT !.state = "initial", !.needed = Head1]
Flushed(q, n) == [q EXCEPT !.adapter = SubSeq(@, n + 1, Len(@))]
Stopped(q) == [q EXCEPT !.busy = FALSE]
Failed(q) == [q EXCEPT !.busy = FALSE, !.err = TRUE]

(* gst_qtdemux_reset on a flush: the adapter and the offset go, the state, *)
(* the needed bytes and the buffered media data stay.                      *)
FlushReset(q) == [q EXCEPT !.adapter = <<>>, !.offset = 0, !.pushedI = FALSE]

Ready == qt.busy /\ qt.needed # NoEntry /\ Len(qt.adapter) >= qt.needed

(* Jump over an atom with a seek when upstream can and the file is big,    *)
(* otherwise keep it, up to the limit.                                     *)
BufferData(q, a) ==
    LET target == q.offset + a.len
        jumps == file.seekable /\ file.big
        mark == IF a.kind = "mdat" /\ q.firstMdat = NoEntry THEN q.offset ELSE q.firstMdat
    IN IF jumps
       THEN /\ up' = [up EXCEPT !.pos = target, !.segment = target]
            /\ qt' = [Rescan(FlushReset(q)) EXCEPT !.offset = target, !.firstMdat = mark]
       ELSE /\ UNCHANGED up
            /\ qt' = IF Len(q.mdatbuf) + a.len > MaxBuffer THEN Failed(q)
                     ELSE [q EXCEPT !.state = "buffer_mdat", !.needed = a.len,
                             !.mdatoffset = IF q.mdatbuf = <<>> THEN q.offset ELSE @]

(* QTDEMUX_STATE_INITIAL: the head of the next atom.                       *)
Initial ==
    /\ Ready /\ qt.state = "initial"
    /\ \/ /\ AtomAt(qt.adapter[1]) = {}
          /\ qt' = Failed(qt) /\ UNCHANGED up
       \/ \E a \in AtomAt(qt.adapter[1]) :
            LET entry == WithNextEntry(qt)
                plays == qt.tracks # <<>> /\ (entry.needed # NoEntry \/ ~file.fragmented)
            IN IF a.kind = "mdat" /\ plays
               THEN /\ qt' = [entry EXCEPT !.state = "movie", !.mdatleft = a.len]
                    /\ UNCHANGED up
               ELSE IF a.kind = "mdat" \/ (qt.mdatbuf # <<>> /\ a.kind \notin {"moov", "moof"})
               THEN BufferData(IF a.kind = "mdat" THEN [entry EXCEPT !.needed = Head1] ELSE qt, a)
               ELSE /\ qt' = [qt EXCEPT !.needed = a.len, !.state = "header"]
                    /\ UNCHANGED up
    /\ UNCHANGED <<file, seek, out>>

(* What the atom tells: the tracks of a moov that is new, the samples of a *)
(* fragment, nothing.                                                      *)
KnownMoov(q) == q.gotMoov /\ q.tracks # <<>> /\ (~file.fragmented \/ q.lastMoov = q.offset)

(* The samples of a fragment go behind those the tracks have.              *)
Added(tracks, adds) == [k \in DOMAIN tracks |-> [tracks[k] EXCEPT !.samples = @ \o adds[k]]]

Parsed(q, a) ==
    CASE a.kind = "moov" /\ ~KnownMoov(q) ->
           [q EXCEPT !.gotMoov = TRUE, !.lastMoov = q.offset, !.tracks = file.tracks,
                     !.index = [k \in DOMAIN file.tracks |-> Unset],
                     !.from = [k \in DOMAIN file.tracks |-> 1], !.run = @ + 1]
      [] a.kind = "moof" /\ q.gotMoov /\ file.fragmented ->
           [q EXCEPT !.tracks = Added(@, a.adds)]
      [] OTHER -> q

(* The media data came before the header: it goes back in front, what lies *)
(* behind the header is set aside.                                         *)
Restored(q) ==
    LET rest == SubSeq(q.adapter, q.needed + 1, Len(q.adapter))
    IN [WithNextEntry([q EXCEPT !.offset = q.mdatoffset, !.adapter = q.mdatbuf]) EXCEPT
          !.state = "movie", !.mdatbuf = <<>>, !.mdatleft = Len(q.mdatbuf),
          !.restore = IF rest = <<>> THEN q.restore ELSE rest,
          !.restoreOff = IF rest = <<>> THEN q.restoreOff ELSE q.offset + q.needed]

(* QTDEMUX_STATE_HEADER.                                                   *)
Header ==
    /\ Ready /\ qt.state = "header"
    /\ \E a \in AtomAt(qt.adapter[1]) :
         LET q == Parsed(qt, a)
             after == [Rescan(Flushed(q, q.needed)) EXCEPT !.offset = @ + q.needed]
             back == q.gotMoov /\ q.firstMdat # NoEntry /\ Left([q EXCEPT !.index = Positioned(@)]) # {}
         IN IF q.mdatbuf # <<>> /\ q.tracks # <<>>
            THEN qt' = Restored(q) /\ UNCHANGED up
            ELSE IF back
            THEN /\ qt' = [Rescan(FlushReset(q)) EXCEPT
                             !.offset = q.firstMdat, !.index = Positioned(@)]
                 /\ up' = [up EXCEPT !.pos = q.firstMdat, !.segment = q.firstMdat]
            ELSE qt' = after /\ UNCHANGED up
    /\ UNCHANGED <<file, seek, out>>

(* QTDEMUX_STATE_BUFFER_MDAT.                                              *)
BufferMdat ==
    /\ Ready /\ qt.state = "buffer_mdat"
    /\ qt' = [Rescan(Flushed(qt, qt.needed)) EXCEPT
                !.mdatbuf = @ \o SubSeq(qt.adapter, 1, qt.needed),
                !.offset = @ + qt.needed]
    /\ UNCHANGED <<file, up, seek, out>>

(* gst_qtdemux_drop_data.                                                  *)
DropData_Uncounted(q, n) ==
    [Flushed(q, n) EXCEPT !.needed = @ - n, !.todrop = @ - n]
DropData(q, n) ==
    [Flushed(q, n) EXCEPT !.needed = @ - n, !.offset = @ + n, !.todrop = @ - n]

(* The media data of the fragment is used up: on to the next atom, with    *)
(* what was set aside.                                                     *)
Emptied(q) ==
    LET p == [Rescan(DropData(q, q.mdatleft)) EXCEPT !.mdatleft = 0]
    IN IF p.restore = <<>> THEN p
       ELSE [p EXCEPT !.adapter = @ \o p.restore, !.restore = <<>>, !.offset = p.restoreOff]

(* The track whose turn it is: the first whose next sample is here; the    *)
(* last track is taken even when its sample is elsewhere.                  *)
Current(q) ==
    LET here == {k \in Left(q) : Due(q, k).off = q.offset}
        last == Len(q.tracks)
    IN IF here # {} THEN {Min(here)} ELSE {last} \cap Left(q)

(* After a sample: the flow of downstream, the next entry, or the end.     *)
Advanced(q, refused) ==
    LET p == WithNextEntry([q EXCEPT !.offset = @ + q.needed])
    IN IF p.needed # NoEntry THEN IF refused THEN Stopped(p) ELSE p
       ELSE IF file.fragmented THEN [p EXCEPT !.todrop = p.mdatleft, !.needed = p.mdatleft]
       ELSE [Stopped(p) EXCEPT !.eos = TRUE]

(* Found when the header is read: no later track starts behind the last    *)
(* sample of the first; otherwise nothing can be played as it comes.       *)
Interleaved ==
    LET first == file.tracks[1]
    IN \A k \in 2..Len(file.tracks) :
         LET track == file.tracks[k]
         IN \/ Sparse(track) \/ Count(first) = 0 \/ Count(track) = 0
            \/ Offset(track, 1) <= Offset(first, Count(first))

(* In a trick play only the key frames of the video go out, backwards only *)
(* those a seek has led to.                                                *)
Shown(q, k) ==
    \/ ~q.trick
    \/ q.tracks[k].kind = "video" /\ Due(q, k).key /\ (q.rate > 0 \/ q.discont)

(* QTDEMUX_STATE_MOVIE, past the test for trick play.                      *)
CutSample(start) ==
    LET q == DropData(start, start.todrop)
    IN IF Current(q) = {} \/ ~Interleaved THEN qt' = Failed(q) /\ UNCHANGED out
       ELSE LET k == CHOOSE k \in Current(q) : TRUE
                shown == Shown(q, k)
                gone == [Flushed(q, q.needed) EXCEPT !.index[k] = @ + 1,
                           !.discont = @ /\ ~shown, !.pushedI = @ \/ (q.trick /\ shown)]
            IN /\ qt' = Advanced(gone, shown /\ q.flushing)
               /\ out' = IF ~shown \/ q.flushing THEN out
                         ELSE Append(out, [track |-> k, index |-> q.index[k],
                                           cell |-> q.adapter[q.needed], run |-> q.run])

AtomUsedUp == file.fragmented /\ qt.todrop >= qt.mdatleft
TrickNext == qt.trick /\ qt.pushedI /\ ~qt.flushing

Movie ==
    /\ Ready /\ qt.state = "movie" /\ ~TrickNext /\ ~qt.tricking
    /\ IF AtomUsedUp THEN qt' = Emptied(qt) /\ UNCHANGED out
       ELSE IF file.fragmented /\ qt.needed > qt.mdatleft
       THEN qt' = Failed(qt) /\ UNCHANGED out
       ELSE CutSample(IF file.fragmented THEN [qt EXCEPT !.mdatleft = @ - qt.needed] ELSE qt)
    /\ UNCHANGED <<file, up, seek>>

(* gst_qtdemux_handle_trick: one key frame on from the one just pushed, or *)
(* one back; a seek of its own leads upstream there, and the buffer that   *)
(* is being handled ends with EOS.  Whether a flush is going on is looked  *)
(* at first; then the seek lock is waited for, which a seek of the         *)
(* application holds until its own flush has been through here.            *)
VideoTrack == {k \in Tracks : qt.tracks[k].kind = "video"}
TrickTarget(k) ==
    IF qt.rate < 0 /\ qt.index[k] < 3 THEN NoSample
    ELSE LET i == IF qt.rate < 0 THEN qt.index[k] - 2 ELSE qt.index[k]
         IN KeyFrame(qt.tracks[k], i, qt.rate > 0)

TrickTest ==
    /\ Ready /\ qt.state = "movie" /\ TrickNext /\ ~qt.tricking
    /\ qt' = [qt EXCEPT !.pushedI = FALSE, !.tricking = TRUE]
    /\ UNCHANGED <<file, up, seek, out>>

TrickSeek ==
    /\ qt.tricking /\ seek.step = "none"
    /\ \E k \in VideoTrack :
         LET to == TrickTarget(k)
             q == [Stopped(qt) EXCEPT !.tricking = FALSE]
         IN IF to = NoSample \/ to > Count(qt.tracks[k])
            THEN qt' = [q EXCEPT !.eos = TRUE] /\ UNCHANGED up
            ELSE /\ qt' = [q EXCEPT !.adapter = <<>>, !.discont = TRUE]
                 /\ up' = [up EXCEPT !.pos = Offset(qt.tracks[k], to),
                                     !.segment = Offset(qt.tracks[k], to)]
    /\ UNCHANGED <<file, seek, out>>

(* gst_qtdemux_chain: the buffer goes to the adapter.  A demuxer that      *)
(* needs nothing more answers with EOS.                                    *)
Chain ==
    /\ ~qt.busy /\ ~qt.err /\ ~qt.eos /\ up.segment = NoSegment
    /\ seek.step # "flushing"
    /\ \E n \in file.pushes :
         /\ up.pos + n <= file.size
         /\ up' = [up EXCEPT !.pos = @ + n]
         /\ qt' = [qt EXCEPT !.adapter = @ \o [i \in 1..n |-> up.pos + i - 1],
                             !.busy = qt.needed # NoEntry, !.eos = qt.needed = NoEntry]
    /\ UNCHANGED <<file, seek, out>>

Rest ==
    /\ qt.busy /\ ~qt.tricking /\ (qt.needed = NoEntry \/ Len(qt.adapter) < qt.needed)
    /\ qt' = Stopped(qt)
    /\ UNCHANGED <<file, up, seek, out>>

(* EOS of upstream: an error without a track, otherwise it is passed on.   *)
UpEos ==
    /\ ~qt.busy /\ ~qt.err /\ ~qt.eos /\ up.pos = file.size /\ up.segment = NoSegment
    /\ seek.step # "flushing"
    /\ qt' = IF qt.tracks = <<>> THEN Failed(qt) ELSE [qt EXCEPT !.eos = TRUE]
    /\ UNCHANGED <<file, up, seek, out>>

(* The SEGMENT event.  It is eaten until the media data is reached;        *)
(* afterwards the tracks are moved to the samples behind the new position. *)
Segmented(q, start) ==
    LET index == MovedTo(q.tracks, start)
        leads == Leading(q.tracks, start)
    IN [q EXCEPT !.adapter = <<>>, !.offset = start, !.index = index, !.run = @ + 1,
          !.from = index, !.todrop = IF leads = {} THEN 0 ELSE Min(leads) - start,
          !.needed = IF leads = {} THEN NoEntry ELSE 1 + Min(leads) - start]

Segment ==
    /\ up.segment # NoSegment /\ ~qt.busy /\ ~qt.err /\ seek.step # "flushing"
    /\ up' = [up EXCEPT !.segment = NoSegment]
    /\ qt' = IF qt.state # "movie" \/ qt.tracks = <<>> THEN qt
             ELSE [Segmented(qt, up.segment) EXCEPT
                     !.covers = IF up.segment = seek.offset THEN seek.want ELSE <<>>]
    /\ UNCHANGED <<file, seek, out>>

(* gst_qtdemux_do_push_seek, in the thread of the application: the byte    *)
(* position is looked up and the seek goes upstream with the lock held;    *)
(* the flush waits for the streaming thread.                               *)
AppSeek(time, trick, rate) ==
    /\ seek.step = "none" /\ seek.left > 0 /\ ~qt.err
    /\ qt.state = "movie" /\ qt.tracks # <<>> /\ ~file.fragmented /\ file.seekable
    /\ LET to == AdjustSeek(qt.tracks, time, FALSE, FALSE)
           want == [k \in Tracks |-> IF Sparse(qt.tracks[k]) THEN PastEnd(qt.tracks[k])
                                     ELSE NeededFor(qt.tracks[k], time)]
       IN /\ seek' = [step |-> "flushing", left |-> seek.left - 1,
                      offset |-> to.offset, want |-> want]
          /\ qt' = [qt EXCEPT !.rate = rate, !.trick = trick, !.pushedI = FALSE,
                      !.flushing = TRUE]
    /\ UNCHANGED <<file, up, out>>

FlushStop ==
    /\ seek.step = "flushing" /\ ~qt.busy
    /\ seek' = [seek EXCEPT !.step = "none"]
    /\ up' = [pos |-> seek.offset, segment |-> seek.offset]
    /\ qt' = [FlushReset(qt) EXCEPT !.flushing = FALSE, !.eos = FALSE, !.discont = TRUE]
    /\ UNCHANGED <<file, out>>

Times == UNION {{Pts(file.tracks[k], i) : i \in 1..Count(file.tracks[k])} : k \in DOMAIN file.tracks}

PushNext ==
    \/ Initial \/ Header \/ BufferMdat \/ Movie \/ TrickTest \/ TrickSeek
    \/ Chain \/ Rest \/ UpEos \/ Segment \/ FlushStop
    \/ \E time \in Times, trick \in BOOLEAN, rate \in {1, -1} :
         (rate = 1 \/ trick) /\ AppSeek(time, trick, rate)
PushSpec == PushInit /\ [][PushNext]_pushVars

(* A file as films are written: the atoms do not overlap, there is one      *)
(* header; the samples of a track follow one another in the file and no two *)
(* samples begin at one place; every sample is in an atom of media data.    *)
SampleIn(f) == [off : 0..f.size - 1, size : Nat \ {0}, pts : Int, key : BOOLEAN]
TrackIn(f) ==
    [kind : STRING, samples : Seq(SampleIn(f)), edits : Seq([time : Int, stop : Int, media : Nat])]
AtomsOf(f, kind) == {a \in Range(f.atoms) : a.kind = kind}
Within(a, cell) == a.first < cell /\ cell < a.first + a.len
Ordered(rows) ==
    /\ \A k \in DOMAIN rows : \A i, j \in DOMAIN rows[k] :
         i < j => rows[k][i].off < rows[k][j].off
    /\ \A k, l \in DOMAIN rows : k # l =>
         \A i \in DOMAIN rows[k], j \in DOMAIN rows[l] : rows[k][i].off # rows[l][j].off
Rows(tracks) == [k \in DOMAIN tracks |-> tracks[k].samples]

SoundFile(f) ==
    /\ f.size \in Nat /\ f.pushes \subseteq Nat \ {0}
    /\ f.fragmented \in BOOLEAN /\ f.big \in BOOLEAN /\ f.seekable \in BOOLEAN
    /\ \A a \in Range(f.atoms) :
         a.first \in Nat /\ a.len \in Nat \ {0} /\ a.first + a.len <= f.size
    /\ \A a, b \in Range(f.atoms) :
         a = b \/ a.first + a.len <= b.first \/ b.first + b.len <= a.first
    /\ \A a, b \in AtomsOf(f, "moov") : a = b
    /\ f.tracks \in Seq(TrackIn(f)) /\ \A k \in DOMAIN f.tracks : f.tracks[k].edits # <<>>
    /\ \E k \in DOMAIN f.tracks : IsMedia(f.tracks[k])

(* A film in one piece: where it cannot be sought back to, no media data is *)
(* behind a header that comes late.                                         *)
SoundFilm(f) ==
    /\ AtomsOf(f, "moof") = {}
    /\ Ordered(Rows(f.tracks))
    /\ \A k \in DOMAIN f.tracks :
         /\ f.tracks[k].samples # <<>>
         /\ \A i \in DOMAIN f.tracks[k].samples :
              /\ \E d \in AtomsOf(f, "mdat") : Within(d, Offset(f.tracks[k], i))
              /\ ~(f.seekable /\ f.big) =>
                   \A d \in AtomsOf(f, "mdat"), m \in AtomsOf(f, "moov") :
                     d.first < m.first => Offset(f.tracks[k], i) < m.first

(* A film in fragments: the header lists no samples and comes first, each   *)
(* fragment before its media data and behind that of the one before; no     *)
(* media data is without a sample.                                          *)
SoundFragments(f) ==
    /\ \A k \in DOMAIN f.tracks : f.tracks[k].samples = <<>>
    /\ \A a \in AtomsOf(f, "moof") \cup AtomsOf(f, "mdat") :
         \E m \in AtomsOf(f, "moov") : m.first < a.first
    /\ \A a \in AtomsOf(f, "moof") :
         /\ DOMAIN a.adds = DOMAIN f.tracks /\ Ordered(a.adds)
         /\ \A k \in DOMAIN f.tracks :
              /\ a.adds[k] \in Seq(SampleIn(f))
              /\ \A i \in DOMAIN a.adds[k] :
                   /\ a.first < a.adds[k][i].off
                   /\ \A b \in AtomsOf(f, "moof") : a.first < b.first => a.adds[k][i].off < b.first
                   /\ \E d \in AtomsOf(f, "mdat") : Within(d, a.adds[k][i].off)
    /\ \A d \in AtomsOf(f, "mdat") : \E a \in AtomsOf(f, "moof"), k \in DOMAIN f.tracks :
         /\ a.first < d.first /\ IsMedia(f.tracks[k])
         /\ \E i \in DOMAIN a.adds[k] : Within(d, a.adds[k][i].off)

PlainFile(f) == SoundFile(f) /\ IF f.fragmented THEN SoundFragments(f) ELSE SoundFilm(f)

PushTypeOK ==
    /\ qt.state \in {"initial", "header", "buffer_mdat", "movie"}
    /\ qt.needed \in -1..file.size + 1 /\ qt.offset \in 0..file.size
    /\ Range(qt.adapter) \subseteq 0..file.size - 1
    /\ DOMAIN qt.index = DOMAIN qt.tracks

(* "The current offset in bytes from upstream": the first byte kept is the *)
(* one the offset names, through seeks, jumps and the media data that is   *)
(* put back in front (qtdemux.h, the comment on `offset').                 *)
OffsetTrue ==
    qt.adapter # <<>> /\ ~qt.err => qt.adapter[1] = qt.offset

(* Every sample pushed is the sample of its track, cut at its own place.   *)
PushedTrue ==
    \A o \in Range(out) : o.cell = Offset(qt.tracks[o.track], o.index)

(* Within one run the samples of a track follow one another, none missing  *)
(* and none twice; in a trick play some are passed over.                   *)
InOrder ==
    \A m, n \in DOMAIN out :
        m < n /\ out[m].track = out[n].track /\ out[m].run = out[n].run
        => /\ out[m].index < out[n].index
           /\ ~qt.trick => \A i \in out[m].index..out[n].index :
                              \E j \in m..n : out[j].track = out[m].track /\ out[j].index = i

(* When the end is reached every sample from the start of the run is out,  *)
(* of the tracks that are not sparse.                                      *)
NothingLost ==
    qt.eos /\ ~qt.trick /\ ~qt.flushing /\ up.segment = NoSegment =>
        \A k \in Tracks : IsMedia(qt.tracks[k]) =>
            \A i \in qt.from[k]..Count(qt.tracks[k]) :
                \E o \in Range(out) : o.track = k /\ o.index = i /\ o.run = qt.run

(* A seek leaves no track behind the sample it needs for the time asked    *)
(* for.                                                                    *)
SeekCovers ==
    \A k \in DOMAIN qt.covers : qt.from[k] <= qt.covers[k]

(* gst_qtdemux_process_adapter: the bytes are those of the offset held for *)
(* them whatever upstream answers to the seeks, the samples leave as they  *)
(* are in the file, in its order, and none is lost.                        *)
PushTrue == OffsetTrue /\ PushedTrue /\ InOrder /\ NothingLost /\ SeekCovers
PushRight == PushTypeOK /\ PushTrue
=============================================================================
