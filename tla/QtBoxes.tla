------------------------------ MODULE QtBoxes ------------------------------
(***************************************************************************)
(* The boxes of an ISO MP4 file that are read one by one, in pull mode or  *)
(* as upstream pushes them: the two indexes of a fragmented file (sidx in  *)
(* front, mfra at the end), the protection headers, the private boxes, the *)
(* defaults of a fragment; the caps of a Smooth Streaming track; and what  *)
(* is made of a seek and of the conversions asked for meanwhile.           *)
(*                                                                         *)
(* A file is [mode, rates, caps, boxes]; a box has a kind, a size and,   *)
(* by its kind: sidx [track, version, scale, earliest, first, whole,       *)
(* entries]; mfra [claims, tables]; moov [tracks, trex, pssh]; moof        *)
(* [track, start, tfhd, pssh, aux]; uuid [type, whole, piff].              *)
(***************************************************************************)
EXTENDS QtIndex

CONSTANTS
    BoxFiles,      \* a sequence of files
    MaxAsked       \* bound: seeks while the file is read

VARIABLES box      \* the file, how far it is read, what was taken from it
boxVars == <<box>>

Second == 4        \* units of GstClockTime in a second
Boxes == BoxFiles[box.file].boxes
Pull(b) == BoxFiles[b.file].mode = "pull"
Mss(b) == BoxFiles[b.file].mode = "mss"
At(boxes, i) == FoldLeft(LAMBDA n, x : n + x.size, 0, SubSeq(boxes, 1, i - 1))
Size(boxes) == At(boxes, Len(boxes) + 1)
Scaled(v, scale) == (v * Second) \div scale
Rounded(v, scale) == (v * Second + scale \div 2) \div scale
----------------------------------------------------------------------------
(* _create_stream, and qtdemux_find_stream: no track has the number 0, and *)
(* a Smooth Streaming file has but one, whatever number is asked for.      *)
CreateStream(scale) ==
    [scale |-> scale, ra |-> <<>>, sidx |-> <<>>, defaults |-> [trex |-> FALSE, dur |-> 0],
     queued |-> <<>>, crypto |-> <<>>, desc |-> 0]
FindStream(b, id) ==
    IF id = 0 THEN {}
    ELSE IF id \in DOMAIN b.streams THEN {id}
    ELSE IF Mss(b) /\ DOMAIN b.streams # {} THEN {Min(DOMAIN b.streams)} ELSE {}

(* check_update_duration, as far as the indexes go: it only ever grows.    *)
Longest(b, dur) == [b EXCEPT !.dur = Max({@, dur})]
----------------------------------------------------------------------------
(* gst_isoff_qt_sidx_parser_add_data: the entries one behind the other.    *)
(* The first time of a box of version 0 is read, and the first offset is   *)
(* stored in its place; the first offset itself is used for nothing.       *)
EarliestTime(x) == IF x.version = 0 THEN x.first ELSE x.earliest
SidxEntries(x) ==
    FoldLeft(LAMBDA s, e :
        [pts |-> s.pts + Rounded(e.dur, x.scale), off |-> s.off + e.size,
         list |-> Append(s.list, [ref |-> e.ref, ts |-> s.pts, at |-> s.off])],
        [pts |-> Rounded(EarliestTime(x), x.scale), off |-> 0, list |-> <<>>], x.entries)

(* qtdemux_parse_sidx: entries for further sidx boxes are left out, those  *)
(* of fragments are appended; their offsets count from the position the    *)
(* demuxer has reached, in pull mode behind the box, in push mode its      *)
(* first byte.                                                             *)
ParseSidx(b, x, anchor) ==
    LET parsed == SidxEntries(x)
        kept == SelectSeq(parsed.list, LAMBDA e : ~e.ref)
        new == [i \in DOMAIN kept |-> [ts |-> kept[i].ts, at |-> kept[i].at + anchor]]
    IN IF ~x.whole THEN b
       ELSE Longest([b EXCEPT !.streams = [id \in DOMAIN @ |->
                IF id \in FindStream(b, x.track) THEN [@[id] EXCEPT !.sidx = @ \o new] ELSE @[id]]], parsed.pts)

(* qtdemux_parse_tfra: the table of a track replaces the one it had.       *)
ParseTfra(b, t) ==
    LET found == FindStream(b, t.track)
        id == CHOOSE i \in found : TRUE
        times == [i \in DOMAIN t.entries |->
                    [ts |-> Scaled(t.entries[i].time, b.streams[id].scale), at |-> t.entries[i].at]]
    IN IF found = {} \/ times = <<>> \/ ~t.whole THEN b
       ELSE Longest([b EXCEPT !.streams[id].ra = times], times[Len(times)].ts)

(* qtdemux_pull_mfro_mfra: the last 16 bytes of the file say how far from  *)
(* its end the tables begin.                                               *)
PullMfra(b) ==
    LET end == Boxes[Len(Boxes)]
    IN IF end.kind # "mfra" \/ end.claims # end.size THEN b
       ELSE FoldLeft(ParseTfra, b, end.tables)
----------------------------------------------------------------------------
(* qtdemux_parse_pssh: the header goes to every track there is; its system *)
(* becomes that of the file unless one is known.                           *)
ParsePssh(b, p) ==
    IF p.size < 32 THEN b
    ELSE [b EXCEPT !.ids = IF @ = <<>> THEN <<p.system>> ELSE @,
                   !.streams = [id \in DOMAIN @ |-> [@[id] EXCEPT !.queued = Append(@, p.data)]]]

(* qtdemux_parse_cenc_subsample, qtdemux_parse_piff: the vectors of a      *)
(* Smooth Streaming fragment, as many as are whole; its box replaces what  *)
(* a fragment before has left over.                                        *)
SubsampleOk(p, i) == ~p.subs \/ p.samples[i].subs > 0
ParsePiff(b, p) ==
    LET id == Min(DOMAIN b.streams)
        bad == {i \in DOMAIN p.samples : ~p.samples[i].iv \/ ~SubsampleOk(p, i)}
    IN IF DOMAIN b.streams = {} \/ ~b.encrypted THEN b
       ELSE [b EXCEPT !.ids = IF @ = <<>> THEN <<"caps">> ELSE @,
                      !.streams[id].crypto = IF bad = {} THEN [i \in DOMAIN p.samples |-> i]
                                             ELSE [i \in 1..(Min(bad) - 1) |-> i]]

(* qtdemux_parse_uuid.                                                     *)
ParseUuid(b, x) ==
    LET c == [b EXCEPT !.header = @ + x.size]
    IN IF ~x.whole THEN c
       ELSE CASE x.type = "xmp" -> [c EXCEPT !.tags = @ + 1]
              [] x.type = "playready" -> [c EXCEPT !.refused = TRUE]
              [] x.type = "piff" /\ Mss(b) -> ParsePiff(c, x.piff)
              [] x.type = "dvr" -> [c EXCEPT !.dvr = TRUE]
              [] OTHER -> c
----------------------------------------------------------------------------
(* qtdemux_parse_trex: the defaults of the track, looked for once; of      *)
(* several boxes for the track the last one is taken.                      *)
ParseTrex(b, id) ==
    LET own == SelectSeq(b.trex, LAMBDA t : t.track = id /\ t.whole)
    IN IF b.streams[id].defaults.trex \/ own = <<>> THEN b
       ELSE [b EXCEPT !.streams[id].defaults = [trex |-> TRUE, dur |-> own[Len(own)].dur],
                      !.streams[id].desc = own[Len(own)].desc - 1]

(* qtdemux_parse_saiz, qtdemux_parse_saio: the sizes, one for all or one   *)
(* each, and the one offset; without both the samples stay as they are.    *)
AuxSizes(a) == IF a.size # 0 THEN [i \in 1..a.n |-> a.size]
               ELSE IF Len(a.sizes) < a.n THEN <<>> ELSE SubSeq(a.sizes, 1, a.n)
AuxInfo(a) == IF AuxSizes(a) # <<>> /\ a.offsets = 1 THEN AuxSizes(a) ELSE <<>>

(* qtdemux_parse_mfhd, qtdemux_parse_tfhd, qtdemux_parse_tfdt and the pssh *)
(* boxes of a fragment: what its samples take over from the track.         *)
ParseMoofBox(b, x) ==
    LET found == FindStream(b, x.track)
        id == CHOOSE i \in found : TRUE
        c == IF found = {} THEN b ELSE ParseTrex(b, id)
        dur == IF x.tfhd > 0 THEN x.tfhd ELSE c.streams[id].defaults.dur
        d == FoldLeft(ParsePssh, c, x.pssh)
    IN IF found = {} THEN d
       ELSE [d EXCEPT !.durs = Append(@, [track |-> id, dur |-> dur, aux |-> AuxInfo(x.aux)]),
                      !.state = "movie"]
ParseMoovBox(b, x) ==
    LET c == [b EXCEPT !.trex = x.trex,
                       !.streams = [id \in DOMAIN x.tracks |-> CreateStream(x.tracks[id])]]
    IN FoldLeft(ParsePssh, c, x.pssh)
----------------------------------------------------------------------------
(* extract_initial_length_and_fourcc, qtdemux_find_atom: the next box of a *)
(* kind; one without a length ends the search, one that says 0 and has a   *)
(* kind goes on to the end of the file.                                    *)
FindAtom(boxes, from, kind) ==
    LET found == {i \in from..Len(boxes) : boxes[i].kind = kind}
        stops == {i \in from..Len(boxes) : boxes[i].kind = "endless"}
    IN IF found = {} \/ \E i \in stops : i < Min(found) THEN 0 ELSE Min(found)

(* gst_qtdemux_pull_atom: a box that does not fit, or is cut short.        *)
PullAtom(b, x) ==
    CASE x.kind = "bogus" /\ b.moov -> "eos"
      [] x.kind = "bogus" /\ ~b.moov -> "error"
      [] x.kind = "cut" -> "eos"
      [] OTHER -> "ok"
----------------------------------------------------------------------------
NoCaps == [media |-> "none", scale |-> 0]
BoxInit ==
    \E f \in DOMAIN BoxFiles :
      box = [file |-> f, next |-> 1, streams |-> <<>>, ids |-> <<>>, trex |-> <<>>, dur |-> 0,
             header |-> 0, tags |-> 0, dvr |-> FALSE, refused |-> FALSE, encrypted |-> FALSE,
             caps |-> NoCaps, moov |-> FALSE, state |-> "header", durs |-> <<>>, flow |-> "ok",
             asked |-> 0, said |-> "none", read |-> {}]

(* gst_qtdemux_setcaps: Smooth Streaming has no moov, its one track comes  *)
(* with the caps; other caps switch the mode off.                          *)
SetCaps ==
    /\ Mss(box) /\ box.flow = "ok" /\ box.asked < MaxAsked
    /\ \E c \in BoxFiles[box.file].caps :
         /\ c # box.caps
         /\ box' = [box EXCEPT !.caps = c, !.asked = @ + 1, !.encrypted = (c.media = "cenc"),
                               !.streams = IF @ = <<>> THEN <<CreateStream(c.scale)>>
                                           ELSE [@ EXCEPT ![1].scale = c.scale]]

(* One box of gst_qtdemux_loop_state_header or of the push mode's parser.  *)
Read(b, x) ==
    LET next == At(Boxes, b.next + 1)
        anchor == IF Pull(b) THEN next ELSE At(Boxes, b.next)
    IN CASE x.kind = "sidx" -> ParseSidx(b, x, anchor)
         [] x.kind = "uuid" -> ParseUuid(b, x)
         [] x.kind = "moov" -> [ParseMoovBox(b, x) EXCEPT !.moov = TRUE]
         [] x.kind = "moof" ->
              IF b.streams = <<>> THEN b
              ELSE ParseMoofBox(IF Pull(b) /\ b.state = "header" THEN PullMfra(b) ELSE b, x)
         [] OTHER -> b
ReadBox ==
    /\ box.flow = "ok" /\ box.next <= Len(Boxes)
    /\ Pull(box) => box.state = "header"
    /\ LET x == Boxes[box.next]
           got == PullAtom(box, x)
       IN box' = IF got # "ok" THEN [box EXCEPT !.flow = got]
                 ELSE [Read(box, x) EXCEPT !.next = @ + 1, !.read = @ \cup {box.next},
                         !.flow = IF box.next = Len(Boxes) THEN "eos" ELSE "ok"]
(* qtdemux_add_fragmented_samples: behind the first fragment pull mode     *)
(* looks for fragments only.                                               *)
ReadMoof ==
    /\ box.flow = "ok" /\ Pull(box) /\ box.state = "movie"
    /\ LET i == FindAtom(Boxes, box.next, "moof")
       IN box' = IF i = 0 THEN [box EXCEPT !.flow = "eos"]
                 ELSE [ParseMoofBox(box, Boxes[i]) EXCEPT !.next = i + 1, !.read = @ \cup {i}]

(* gst_qtdemux_handle_src_event: who is to follow a seek.  Backwards in    *)
(* fragments goes with the table of some track only.                       *)
SeekTaken(b, rate, inTime) ==
    LET fragmented == b.trex # <<>> \/ Mss(b)
        tables == \E id \in DOMAIN b.streams : b.streams[id].ra # <<>>
    IN IF inTime /\ fragmented THEN "upstream"
       ELSE IF fragmented /\ rate < 0 /\ ~tables THEN "refused"
       ELSE IF Pull(b) THEN "pulled"
       ELSE IF b.state = "movie" /\ b.streams # <<>> /\ ~fragmented THEN "pushed"
       ELSE IF rate = 1 THEN "upstream" ELSE "refused"
SeekAsked ==
    /\ box.asked < MaxAsked
    /\ \E rate \in BoxFiles[box.file].rates, inTime \in BOOLEAN :
         /\ Pull(box) => ~inTime
         /\ box' = [box EXCEPT !.asked = @ + 1, !.said = SeekTaken(box, rate, inTime)]

BoxNext == SetCaps \/ ReadBox \/ ReadMoof \/ SeekAsked
BoxSpec == BoxInit /\ [][BoxNext]_boxVars
----------------------------------------------------------------------------
BoxTypeOK ==
    /\ box.next \in 1..(Len(Boxes) + 1) /\ box.asked \in 0..MaxAsked
    /\ box.flow \in {"ok", "eos", "error"} /\ box.state \in {"header", "movie"}

(* Where a fragment begins that starts at a time, and the one that really  *)
(* holds it.                                                               *)
Begins(id, e) ==
    \E i \in DOMAIN Boxes :
       /\ Boxes[i].kind = "moof" /\ Boxes[i].track = id
       /\ At(Boxes, i) = e.at /\ Boxes[i].start = e.ts
(* Each entry of an index that a seek in pull mode uses names the first    *)
(* byte of a fragment of that track and the time it starts with.           *)
IndexTrue ==
    Pull(box) => \A id \in DOMAIN box.streams :
                   \A e \in Range(box.streams[id].sidx) \cup Range(box.streams[id].ra) : Begins(id, e)
(* A track holds each protection header of the boxes read behind it, and   *)
(* those in their order, once.                                             *)
HeadersOnce ==
    \A id \in DOMAIN box.streams :
       box.streams[id].queued =
         FoldLeft(LAMBDA s, i : s \o
             (IF i \in box.read /\ Boxes[i].kind \in {"moov", "moof"}
              THEN [k \in DOMAIN Boxes[i].pssh |-> Boxes[i].pssh[k].data] ELSE <<>>),
             <<>>, [i \in 1..Len(Boxes) |-> i])
(* Samples without a duration of their own take that of their own track.   *)
DefaultsOwn ==
    \A i \in DOMAIN box.durs :
       \E m \in box.read :
          /\ Boxes[m].kind = "moof" /\ box.durs[i].track = Boxes[m].track
          /\ box.durs[i].dur \in {Boxes[m].tfhd} \cup
               {box.trex[t].dur : t \in {t \in DOMAIN box.trex : box.trex[t].track = Boxes[m].track}}
BoxesTrue == IndexTrue /\ HeadersOnce /\ DefaultsOwn
=============================================================================
