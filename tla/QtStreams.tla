------------------------------ MODULE QtStreams ------------------------------
(***************************************************************************)
(* The streams of the ISO MP4 demuxer and the pads they are given, across  *)
(* movie headers: a new header makes new streams out of its tracks; those  *)
(* known by their id take over the pad of the old stream, others get a pad *)
(* of their own, and what is left of the old streams ends.                 *)
(* A track is [id, kind, fate, caps, locked]: fate is what reading it      *)
(* comes to, locked when it is encrypted and nobody can decrypt it.        *)
(***************************************************************************)
EXTENDS Integers, Sequences, FiniteSets, SequencesExt

CONSTANTS Headers,     \* the movie headers: sequences of tracks
          MaxHeaders,  \* headers that arrive (bound)
          MaxResets    \* resets and new upstream streams (bound)

VARIABLES demux   \* the streams, old and active, and the pads
streamsVars == <<demux>>

NoPad == 0
Pads == DOMAIN demux.pads
Stream(t) == [id |-> t.id, kind |-> t.kind, caps |-> t.caps, locked |-> t.locked, fresh |-> TRUE,
              pad |-> NoPad, fate |-> t.fate, global |-> FALSE, sent |-> FALSE]

StreamsInit ==
    demux \in [active : {<<>>}, old : {<<>>}, n : {0}, pads : {<<>>}, names : {[v |-> 0, a |-> 0, t |-> 0]},
               aware : BOOLEAN, pull : BOOLEAN, fragmented : BOOLEAN, moov : {FALSE},
               errors : {0}, headers : {0}, resets : {0}, events : {<<>>}, pending : {FALSE},
               begun : {FALSE}, ended : {FALSE}, nothing : {FALSE}]

----------------------------------------------------------------------------
(* qtdemux_parse_trak: a track whose id is known is left out, a corrupt    *)
(* one posts an error, one that is much shorter than the film or of no use *)
(* is skipped.  Streams are kept in the order of their ids.                *)
Sorted(list, s) ==
    LET before == SelectSeq(list, LAMBDA o : o.id <= s.id)
    IN before \o <<s>> \o SelectSeq(list, LAMBDA o : o.id > s.id)
ParseTrack(d, t) ==
    IF \E i \in DOMAIN d.active : d.active[i].id = t.id THEN d
    ELSE IF t.fate = "corrupt" THEN [d EXCEPT !.errors = @ + 1]
    ELSE IF t.fate = "skip" \/ (t.fate = "short" /\ ~d.fragmented) THEN d
    ELSE [d EXCEPT !.active = Sorted(@, Stream(t)), !.n = @ + 1]

(* qtdemux_prepare_streams: streams without samples, which only pull mode  *)
(* can tell, and the track of the chapters go again.                       *)
Useless(d, s) == (d.pull /\ s.fate = "empty") \/ (s.fate = "chapters" /\ s.kind = "text")
PrepareStreams(d) ==
    LET kept == SelectSeq(d.active, LAMBDA s : ~Useless(d, s))
    IN [d EXCEPT !.active = kept, !.n = @ - (Len(d.active) - Len(kept))]

(* gst_qtdemux_configure_stream for a stream with a pad.                   *)
Configured(d, i) ==
    LET s == d.active[i]
        starts == IF s.fresh THEN <<[pad |-> s.pad, what |-> "start"]>> ELSE <<>>
        caps == IF d.pads[s.pad].caps = s.caps THEN <<>> ELSE <<[pad |-> s.pad, what |-> s.caps]>>
    IN [d EXCEPT !.events = @ \o starts \o caps,
                 !.pads = [@ EXCEPT ![s.pad].caps = s.caps, ![s.pad].starts = @ + (IF s.fresh THEN 1 ELSE 0)],
                 !.active[i].fresh = FALSE]

(* gst_qtdemux_add_stream: a pad named for the kind; a stream of unknown   *)
(* kind with caps counts as video, one of kind strm gets no pad.  A new    *)
(* pad is to be told the tags of the file, and a segment is to be sent.    *)
NameOf(d, s) ==
    CASE s.kind \in {"vide", "other"} -> <<"v", d.names.v>>
      [] s.kind = "soun" -> <<"a", d.names.a>>
      [] OTHER -> <<"t", d.names.t>>
AddStream(d, i) ==
    LET s == d.active[i]
        name == NameOf(d, s)
        pad == Len(d.pads) + 1
        with == [d EXCEPT !.pads = Append(@, [name |-> name, caps |-> "none", on |-> TRUE, starts |-> 0,
                                              told |-> 0, eos |-> 0]),
                          !.active[i].pad = pad, !.active[i].global = TRUE, !.pending = TRUE,
                          !.names = IF name[1] = "v" THEN [@ EXCEPT !.v = @ + 1]
                                    ELSE IF name[1] = "a" THEN [@ EXCEPT !.a = @ + 1]
                                    ELSE [@ EXCEPT !.t = @ + 1]]
    IN IF s.kind = "strm" \/ (s.kind = "other" /\ s.caps = "none") THEN [d EXCEPT !.pending = TRUE]
       ELSE IF s.locked THEN [d EXCEPT !.errors = @ + 1]
       ELSE Configured(with, i)

(* qtdemux_reuse_and_configure_stream: the new stream takes the pad.       *)
Reuse_StaysFresh(d, i, o) ==
    LET moved == [d EXCEPT !.active[i].pad = d.old[o].pad, !.old[o].pad = NoPad]
    IN IF d.old[o].pad = NoPad THEN moved
       ELSE IF d.active[i].locked THEN [moved EXCEPT !.errors = @ + 1]
       ELSE Configured(moved, i)
Reuse(d, i, o) ==
    LET moved == [d EXCEPT !.active[i].pad = d.old[o].pad, !.old[o].pad = NoPad,
                           !.active[i].fresh = FALSE]
    IN IF d.old[o].pad = NoPad THEN moved
       ELSE IF d.active[i].locked THEN [moved EXCEPT !.errors = @ + 1]
       ELSE Configured(moved, i)

(* gst_qtdemux_stream_free removes the pad from the element.               *)
Freed(d, streams) ==
    [d EXCEPT !.pads = [p \in DOMAIN @ |->
        IF \E i \in DOMAIN streams : streams[i].pad = p THEN [@[p] EXCEPT !.on = FALSE] ELSE @[p]]]
Ended(d, streams) ==
    LET live == SelectSeq(streams, LAMBDA s : s.pad # NoPad)
    IN [d EXCEPT !.events = @ \o [i \in DOMAIN live |-> [pad |-> live[i].pad, what |-> "eos"]]]

(* qtdemux_is_streams_update: other ids, or another number of streams.     *)
IsUpdate(d) ==
    /\ d.active # <<>>
    /\ \/ Len(d.active) # Len(d.old)
       \/ \E i \in DOMAIN d.active : i <= Len(d.old) /\ d.active[i].id # d.old[i].id

(* qtdemux_update_streams, when the bin around can follow changes.         *)
Matching(d, i) == {o \in DOMAIN d.old : d.old[o].id = d.active[i].id /\ d.old[o].pad # NoPad}
UpdateStreams(d) ==
    LET step(e, i) ==
          IF e.errors > d.errors THEN e
          ELSE IF d.aware /\ Matching(e, i) # {}
          THEN LET o == CHOOSE m \in Matching(e, i) : \A k \in Matching(e, i) : m <= k
                   r == Reuse(e, i, o)
               IN IF r.errors > e.errors THEN r ELSE [r EXCEPT !.old = RemoveAt(@, o)]
          ELSE AddStream(e, i)
        recounted == IF d.aware THEN [d EXCEPT !.n = Len(d.active)] ELSE d
    IN FoldLeft(step, recounted, [i \in DOMAIN d.active |-> i])

(* qtdemux_expose_streams.  The callers do not look at what it returns.    *)
ExposeStreams(d) ==
    IF ~IsUpdate(d)
    THEN LET both == [i \in 1..(IF Len(d.active) < Len(d.old) THEN Len(d.active) ELSE Len(d.old)) |-> i]
             step(e, i) == IF e.errors > d.errors THEN e ELSE Reuse(e, i, i)
             reused == FoldLeft(step, d, both)
         IN IF reused.errors > d.errors THEN reused
            ELSE [Freed(reused, reused.old) EXCEPT !.old = <<>>]
    ELSE LET updated == UpdateStreams(d)
         IN IF updated.errors > d.errors THEN updated
            ELSE [Freed(Ended(updated, updated.old), updated.old) EXCEPT !.old = <<>>]

(* gst_qtdemux_push_tags for every active stream: the tags of the file go  *)
(* to a pad once, behind its first segment.                                *)
Tagged(d) ==
    LET due == {d.active[i].pad : i \in {k \in DOMAIN d.active : d.active[k].global}}
    IN [d EXCEPT !.pads = [p \in DOMAIN @ |-> IF p \in due THEN [@[p] EXCEPT !.told = @ + 1] ELSE @[p]],
                 !.active = [i \in DOMAIN @ |-> [@[i] EXCEPT !.global = @ /\ d.active[i].pad = NoPad]],
                 !.pending = FALSE]

(* The handling of a movie header: the active streams become old ones.     *)
(* In pull mode there is one header.  In push mode another is read in a    *)
(* fragmented file only, or as long as there is no stream; then segments   *)
(* and tags go out at once: in a fragmented file if there is a segment to  *)
(* send, else as the edit lists say.                                       *)
HeaderWanted ==
    IF demux.pull THEN ~demux.moov ELSE demux.moov /\ demux.n > 0 => demux.fragmented
HeaderRead(h) ==
    /\ demux.headers < MaxHeaders /\ HeaderWanted
    /\ LET begun == [demux EXCEPT !.old = @ \o demux.active, !.active = <<>>,
                                  !.headers = @ + 1, !.moov = TRUE, !.events = <<>>, !.begun = FALSE,
                                  !.ended = FALSE,
                                  !.pending = @ \/ (~demux.pull /\ ~(demux.moov /\ demux.fragmented))]
           parsed == FoldLeft(ParseTrack, begun, h)
           exposed == ExposeStreams(PrepareStreams([parsed EXCEPT !.errors = 0]))
       IN demux' = IF ~demux.pull /\ (exposed.pending \/ ~demux.fragmented) THEN Tagged(exposed) ELSE exposed

(* gst_qtdemux_loop_state_movie: the first round, and that after a seek,   *)
(* gives every stream the segment it begins in, and the tags with it.      *)
FirstRound ==
    /\ demux.pull /\ demux.moov /\ ~demux.begun
    /\ demux' = [Tagged(demux) EXCEPT !.begun = TRUE, !.events = <<>>]

(* A segment of upstream, by the edit lists: every pad has its own again.  *)
SegmentEvent ==
    /\ ~demux.pull /\ ~demux.fragmented /\ demux.n > 0 /\ demux.resets < MaxResets
    /\ demux' = [Tagged(demux) EXCEPT !.resets = @ + 1, !.events = <<>>]

(* A new stream upstream, a soft reset: a new header is expected.          *)
StreamStart ==
    /\ ~demux.pull /\ demux.resets < MaxResets
    /\ LET streams == [i \in DOMAIN demux.active |-> [demux.active[i] EXCEPT !.sent = FALSE]]
       IN demux' = [demux EXCEPT !.old = @ \o streams, !.active = <<>>, !.resets = @ + 1,
                                 !.events = <<>>, !.pending = TRUE, !.ended = FALSE]

----------------------------------------------------------------------------
(* The end of a stream or of all.                                          *)
EosOn(d, which) ==
    LET pads == {d.active[i].pad : i \in which}
    IN [d EXCEPT !.pads = [p \in DOMAIN @ |-> IF p \in pads THEN [@[p] EXCEPT !.eos = @ + 1] ELSE @[p]],
                 !.active = [i \in DOMAIN @ |-> IF i \in which THEN [@[i] EXCEPT !.sent = TRUE] ELSE @[i]],
                 !.events = <<>>]
PadOwners(d) == {i \in DOMAIN d.active : d.active[i].pad # NoPad}

(* gst_qtdemux_sync_streams: one that has ended long before the others.    *)
StreamEos ==
    /\ demux.pull /\ demux.n > 1 /\ demux.begun /\ ~demux.ended
    /\ \E i \in PadOwners(demux) : ~demux.active[i].sent /\ demux' = EosOn(demux, {i})

(* gst_qtdemux_loop at its end: EOS to those that have not had it; where   *)
(* there is no stream, or none with a pad, an error.                       *)
LoopEnds ==
    /\ demux.pull /\ demux.moov /\ ~demux.ended
    /\ demux' = [EosOn(demux, {i \in PadOwners(demux) : ~demux.active[i].sent}) EXCEPT
                    !.ended = TRUE, !.nothing = @ \/ demux.n = 0 \/ PadOwners(demux) = {}]

(* EOS from upstream goes on to every pad there is.                        *)
UpstreamEos ==
    /\ ~demux.pull /\ ~demux.ended
    /\ demux' = IF demux.active = <<>> THEN [demux EXCEPT !.nothing = TRUE, !.ended = TRUE, !.events = <<>>]
                ELSE [demux EXCEPT !.ended = TRUE, !.events = <<>>,
                        !.pads = [p \in DOMAIN @ |-> [@[p] EXCEPT !.eos = @ + IF demux.pads[p].on THEN 1 ELSE 0]]]

(* gst_qtdemux_perform_seek: every stream may end again.                   *)
SeekAgain ==
    /\ demux.pull /\ demux.moov /\ demux.n > 0 /\ demux.resets < MaxResets
    /\ demux' = [demux EXCEPT !.resets = @ + 1, !.begun = FALSE, !.ended = FALSE, !.events = <<>>,
                    !.active = [i \in DOMAIN @ |-> [@[i] EXCEPT !.sent = FALSE]],
                    !.pads = [p \in DOMAIN @ |-> [@[p] EXCEPT !.eos = 0]]]

----------------------------------------------------------------------------
(* A sample of another description: gst_qtdemux_stream_check_and_change_-  *)
(* stsd_index marks the stream, and it is configured before the next push. *)
ChangeDescription ==
    /\ demux.resets < MaxResets
    /\ \E i \in DOMAIN demux.active : \E c \in {"a", "b"} \ {demux.active[i].caps} :
         /\ demux.active[i].pad # NoPad /\ ~demux.active[i].locked
         /\ demux' = Configured([demux EXCEPT !.active[i].caps = c, !.resets = @ + 1,
                                              !.events = <<>>], i)

(* gst_qtdemux_reset, hard: the state changes from or to READY.            *)
HardReset ==
    /\ demux.resets < MaxResets
    /\ demux' = [Freed(demux, demux.old \o demux.active) EXCEPT
                    !.active = <<>>, !.old = <<>>, !.n = 0, !.moov = FALSE, !.resets = @ + 1,
                    !.pending = FALSE, !.begun = FALSE, !.ended = FALSE, !.nothing = FALSE,
                    !.names = [v |-> 0, a |-> 0, t |-> 0], !.events = <<>>]

StreamsNext == (\E h \in Headers : HeaderRead(h)) \/ FirstRound \/ SegmentEvent \/ StreamStart \/ StreamEos \/ LoopEnds
               \/ UpstreamEos \/ SeekAgain \/ ChangeDescription \/ HardReset
StreamsSpec == StreamsInit /\ [][StreamsNext]_streamsVars

----------------------------------------------------------------------------
StreamsTypeOK ==
    /\ demux.n \in Nat /\ demux.headers \in 0..MaxHeaders /\ demux.errors \in Nat
    /\ \A i \in DOMAIN demux.active : demux.active[i].pad \in Pads \cup {NoPad}

Owners(p) == {i \in DOMAIN demux.active : demux.active[i].pad = p}
OldOwners(p) == {i \in DOMAIN demux.old : demux.old[i].pad = p}

(* A pad of the element belongs to exactly one stream, so that it is not   *)
(* left behind when streams go; a pad that is gone belongs to none.        *)
OneStreamPerPad ==
    \A p \in Pads :
      Cardinality(Owners(p)) + Cardinality(OldOwners(p)) = IF demux.pads[p].on THEN 1 ELSE 0

(* Two pads of the element never have one name.                            *)
NamesDiffer ==
    \A p, q \in Pads :
      (p # q /\ demux.pads[p].on /\ demux.pads[q].on) => demux.pads[p].name # demux.pads[q].name

(* Once the streams are exposed, every stream that can be played has a pad *)
(* with its caps, and no stream of the header before keeps one.  Only what *)
(* took over from a stream without a pad has none either.                  *)
Playable(s) == ~s.locked /\ s.kind # "strm" /\ (s.kind = "other" => s.caps # "none")
ExposedAll ==
    (demux.moov /\ demux.errors = 0 /\ demux.active # <<>>) =>
      /\ demux.old = <<>>
      /\ \A i \in DOMAIN demux.active :
           LET s == demux.active[i]
           IN /\ Playable(s) => s.pad # NoPad \/ ~s.fresh
              /\ s.pad # NoPad => demux.pads[s.pad].caps = s.caps /\ demux.pads[s.pad].on

(* Downstream sees a start before anything else, and one start only.       *)
StartsOnce ==
    /\ \A p \in Pads : demux.pads[p].starts = 1
    /\ \A i, j \in DOMAIN demux.events :
         (i < j /\ demux.events[j].what = "start") => demux.events[i].pad # demux.events[j].pad

(* The tags of the file are told once to every pad, before its first data, *)
(* however many headers it lives through.                                  *)
ToldOnce ==
    /\ \A p \in Pads : demux.pads[p].told <= 1
    /\ \A i \in PadOwners(demux) :
         (demux.pull => demux.begun) => demux.pads[demux.active[i].pad].told = 1

(* At the end every pad has EOS, in pull mode once; where nothing can get  *)
(* it, an error is posted.                                                 *)
EndsOnce ==
    /\ demux.pull => \A p \in Pads : demux.pads[p].on => demux.pads[p].eos <= 1
    /\ demux.ended =>
         /\ \A i \in PadOwners(demux) : demux.pads[demux.active[i].pad].eos > 0
         /\ demux.active = <<>> => demux.nothing

(* The number of streams is never less than the streams there are: as long *)
(* as it is 0 there is none.                                               *)
Counted == demux.n >= Len(demux.active) /\ (demux.headers = 0 => demux.n = 0)

QtStreamsTrue == OneStreamPerPad /\ NamesDiffer /\ ExposedAll /\ StartsOnce /\ ToldOnce /\ EndsOnce /\ Counted
=============================================================================
