------------------------------- MODULE TsFrames -------------------------------
(***************************************************************************)
(* How gst/dvrtsdemux/tsdemux.c tells key frames for the trick modes       *)
(* (gst_ts_demux_parse_video_es): the data of a PES packet grows with each *)
(* transport packet, and after each the parser of the codec goes on from   *)
(* where it stopped.  Also how it answers queries about duration and       *)
(* seeking from what it has learned of the size.                           *)
(*                                                                         *)
(* Offsets are bytes as in the code: a unit starts with a prefix of three  *)
(* bytes and a type.                                                       *)
(***************************************************************************)
EXTENDS Integers, Sequences, FiniteSets, FiniteSetsExt

CONSTANTS
  Pictures,      \* PES packets: [codec, units, total]; a unit is [at, kind, num]
  PacketSizes,   \* bytes that a transport packet adds
  Upstreams,     \* [size, length, duration, op, asks]: what upstream and DLNA tell
  MaxQueries     \* bound: queries

ASSUME FramesAssumption ==
  /\ \A p \in Pictures : p.total \in Nat /\ \A i \in DOMAIN p.units : p.units[i].at + 6 <= p.total
  /\ PacketSizes \subseteq Nat \ {0} /\ MaxQueries \in Nat

VARIABLES
  picture, sc,           \* the PES packet, the scanner of its stream
  upstream, sizes, said  \* upstream, what the element keeps of it, its answers

framesVars == <<picture, sc, upstream, sizes, said>>

-----------------------------------------------------------------------------
(* scan_for_start_code_prefix: the next prefix, or where to go on later.    *)
Units(p) == {p.units[i] : i \in DOMAIN p.units}
Found(from, size) ==
  LET ats == {u.at : u \in {v \in Units(picture) : v.at >= from /\ v.at < size - 2}}
  IN  IF ats # {} THEN Min(ats) ELSE Max({from, size - 2})
UnitAt(at) == CHOOSE u \in Units(picture) : u.at = at
IsUnit(at) == \E u \in Units(picture) : u.at = at

(* Bytes behind a prefix that must be there, and at least to start.         *)
Codecs == {"mpeg2", "mpeg4", "h264", "h265"}
NeedsFrame == [c \in Codecs |-> IF c = "mpeg2" THEN 5 ELSE IF c = "mpeg4" THEN 4 ELSE 3]
ToStart == [c \in Codecs |-> IF c = "mpeg2" THEN 6 ELSE IF c = "mpeg4" THEN 5 ELSE 4]
SliceBytes == 3       \* slice header: what is read of it after the type

Verdict(s, intra) == [s EXCEPT !.iframe = intra, !.done = TRUE]

(* gst_ts_demux_parse_mpeg2_video, gst_ts_demux_parse_mpeg4_video: the      *)
(* first picture decides; each result is [s, stop].                         *)
JudgeMpeg(s, u) ==
  IF u.kind \in {"I", "P", "B"} THEN {[s |-> Verdict(s, u.kind = "I"), stop |-> TRUE]}
  ELSE {[s |-> [s EXCEPT !.caps = @ \/ (u.kind = "sps" /\ picture.codec = "mpeg2")], stop |-> FALSE]}

(* The size of the picture is in the SPS, which must be followed by another *)
(* prefix; else the scan comes back to it.                                  *)
JudgeSps(s, u, stream) ==
  LET next == Found(s.last, s.size)
  IN  IF IsUnit(next) /\ next + 2 < s.size THEN [stream EXCEPT !.caps = TRUE]
      ELSE [stream EXCEPT !.again = u.at]
(* gst_ts_demux_parse_h265_video                                            *)
JudgeH265(s, u) ==
  IF u.kind = "sps" /\ ~s.caps THEN {[s |-> JudgeSps(s, u, [s EXCEPT !.iframe = FALSE]), stop |-> FALSE]}
  ELSE IF u.kind = "I" THEN {[s |-> Verdict(s, TRUE), stop |-> TRUE]}
  ELSE {[s |-> [s EXCEPT !.iframe = FALSE], stop |-> FALSE]}

(* gst_ts_demux_parse_h264_video: slices of type 1 are looked into, all     *)
(* that are in the data; of one that is cut off, whatever follows in memory *)
(* is read.  The second field of an intra picture may be a P slice.         *)
SliceOf(s, kind, num) ==
  IF kind = "I" THEN [Verdict(s, TRUE) EXCEPT !.first = TRUE, !.prev = num]
  ELSE IF kind = "P" /\ s.prev >= 0 /\ s.prev = num /\ s.first
  THEN [Verdict(s, TRUE) EXCEPT !.first = FALSE]
  ELSE [Verdict(s, FALSE) EXCEPT !.first = FALSE, !.prev = -1]
JudgeH264(s, u) ==
  CASE u.kind = "idr" -> {[s |-> [Verdict(s, TRUE) EXCEPT !.first = FALSE], stop |-> TRUE]}
    [] u.kind \in {"I", "P", "B"} /\ s.size <= 16 -> {[s |-> [s EXCEPT !.unsure = TRUE], stop |-> FALSE]}
    [] u.kind \in {"I", "P", "B"} /\ u.at + 4 + SliceBytes <= s.size ->
         {[s |-> SliceOf(s, u.kind, u.num), stop |-> FALSE]}
    [] u.kind \in {"I", "P", "B"} ->      \* read beyond what is there
         {[s |-> [SliceOf(s, kind, u.num) EXCEPT !.unsure = TRUE], stop |-> FALSE] : kind \in {"I", "P", "B"}}
         \cup {[s |-> [s EXCEPT !.unsure = TRUE], stop |-> TRUE]}
    [] u.kind = "part" -> {[s |-> [Verdict(s, FALSE) EXCEPT !.first = FALSE], stop |-> TRUE]}
    [] u.kind = "sps" /\ ~s.caps ->
         {[s |-> JudgeSps(s, u, [s EXCEPT !.iframe = FALSE, !.first = FALSE]), stop |-> FALSE]}
    [] OTHER -> {[s |-> s, stop |-> FALSE]}
Judge(s, u) ==
  CASE picture.codec \in {"mpeg2", "mpeg4"} -> JudgeMpeg(s, u)
    [] picture.codec = "h264" -> JudgeH264(s, u)
    [] picture.codec = "h265" -> JudgeH265(s, u)

(* The loop of all four parsers.                                            *)
NoPlace == -1
RECURSIVE Scanned(_)
Scanned(s) ==
  LET at == Found(s.last, s.size)
      t == [s EXCEPT !.last = at]
  IN  IF at >= s.size - NeedsFrame[picture.codec] THEN {t}
      ELSE UNION {IF j.stop \/ s.size <= at + 5 THEN {j.s} ELSE Scanned(j.s) :
                    j \in Judge([t EXCEPT !.last = at + 3], UnitAt(at))}
ParseVideo(s) ==
  IF s.size < s.last + ToStart[picture.codec] THEN {s}
  ELSE {[t EXCEPT !.last = IF t.again # NoPlace THEN t.again ELSE @, !.again = NoPlace] :
          t \in Scanned(s)}

(* gst_ts_demux_handle_packet: data are queued, and looked at until the     *)
(* verdict is there.                                                        *)
FramePacket ==
  /\ sc.size < picture.total
  /\ \E n \in PacketSizes :
       LET s == [sc EXCEPT !.size = Min({@ + n, picture.total})]
       IN  sc' \in IF s.done THEN {s} ELSE ParseVideo(s)
  /\ UNCHANGED <<picture, upstream, sizes, said>>

-----------------------------------------------------------------------------
(* gst_ts_demux_get_duration.  -1: not known.  Sizes are turned into times  *)
(* by the packetizer (see TsPcr): here a size is its own time.              *)
Unknown == -1
Known(k) == IF k.file # Unknown THEN k ELSE [k EXCEPT !.file = upstream.size]
WithLength(k) == IF Known(k).file = Unknown THEN [k EXCEPT !.file = upstream.length] ELSE Known(k)
DurationOf(k) ==
  IF WithLength(k).file # Unknown THEN WithLength(k).file ELSE upstream.duration
(* DLNA_ORG_OP: bit 0 (none asked), ranges of bytes, ranges of time.        *)
Seekable(k) ==
  IF k.file = Unknown
  THEN upstream.size # Unknown \/ (upstream.length # Unknown /\ "bytes" \in upstream.op)
  ELSE IF "initial" \notin upstream.op THEN upstream.op \cap {"bytes", "time"} # {}
  ELSE TRUE
(* gst_ts_demux_srcpad_query: SEEKING and DURATION in time.                 *)
QuerySeeking ==
  /\ said.count < MaxQueries
  /\ said' = [said EXCEPT !.count = @ + 1, !.seekable = Append(@, Seekable(sizes)),
                          !.duration = IF DurationOf(sizes) # Unknown THEN Append(@, DurationOf(sizes)) ELSE @]
  /\ sizes' = WithLength(sizes)
  /\ UNCHANGED <<picture, sc, upstream>>
QueryDuration ==
  /\ said.count < MaxQueries
  /\ said' = [said EXCEPT !.count = @ + 1,
                          !.duration = IF DurationOf(sizes) # Unknown THEN Append(@, DurationOf(sizes)) ELSE @]
  /\ sizes' = WithLength(sizes)
  /\ UNCHANGED <<picture, sc, upstream>>

FramesInit ==
  /\ picture \in Pictures /\ upstream \in Upstreams
  /\ sc = [size |-> 0, last |-> 0, iframe |-> FALSE, done |-> FALSE, first |-> FALSE, prev |-> -1,
           caps |-> FALSE, again |-> NoPlace, unsure |-> FALSE]
  /\ sizes = [file |-> Unknown]
  /\ said = [count |-> 0, seekable |-> <<>>, duration |-> <<>>]

FramesNext == FramePacket \/ QuerySeeking \/ QueryDuration
FramesSpec == FramesInit /\ [][FramesNext]_framesVars

-----------------------------------------------------------------------------
FramesTypeOK ==
  /\ sc.size \in 0 .. picture.total /\ sc.last \in 0 .. picture.total /\ sc.prev >= -1
  /\ sizes.file >= Unknown

(* However a picture is cut into packets, the trick modes get the verdict   *)
(* that its first slice gives, if the slices agree: not when a slice header *)
(* was cut, or was looked for in the first 16 bytes.                        *)
PictureUnits(p) == SelectSeq(p.units, LAMBDA u : u.kind \in {"idr", "I", "P", "B", "part"})
IsIntra(u) == u.kind \in {"idr", "I"}
KeyFrameFound ==
  LET us == PictureUnits(picture)
  IN  sc.size = picture.total /\ ~sc.unsure /\ us # <<>>
      /\ (\A i, j \in DOMAIN us : IsIntra(us[i]) = IsIntra(us[j])) =>
        sc.iframe = IsIntra(us[1])

(* ... and the size of the video is told from an SPS that a slice follows.  *)
SizeTold ==
  sc.done /\ ~sc.unsure /\ picture.codec \in {"mpeg2", "h264", "h265"}
  /\ picture.units[1].kind = "sps" => sc.caps

(* What was answered about the duration stays the answer.                   *)
DurationStays == \A i \in 1 .. Len(said.duration) - 1 : said.duration[i] = said.duration[i + 1]
FramesTrue == KeyFrameFound /\ SizeTold /\ DurationStays
=============================================================================
