-------------------------------- MODULE TsCaps --------------------------------
(***************************************************************************)
(* Which source pads gst/dvrtsdemux/tsdemux.c makes for the streams of a   *)
(* PMT: create_pad_for_stream maps stream type, registration and           *)
(* descriptors to caps, and gst_ts_demux_program_started shows the pads.   *)
(* (TsPrograms says when a program is activated, started and freed; here   *)
(* one program at a time comes and replaces the one before.)               *)
(*                                                                         *)
(* A stream of the PMT is a record: pid, the stream type, the registration *)
(* of the stream, the set of descriptors, and what the models tells apart  *)
(* of the descriptors' contents.                                           *)
(***************************************************************************)
EXTENDS Integers, Sequences, SequencesExt, FiniteSets, TLC

CONSTANTS
  CapsPrograms,   \* programs: [number, reg, streams]
  CapsModes,      \* [thumbnail, only, dolby]: options of the element
  MaxPrograms     \* bound: programs

VARIABLES capsMode, cx, capsPrograms

capsVars == <<capsMode, cx, capsPrograms>>

None == [kind |-> "none", caps |-> "none", sparse |-> FALSE]
Audio(caps) == [kind |-> "audio", caps |-> caps, sparse |-> FALSE]
VideoCaps(caps) == [kind |-> "video", caps |-> caps, sparse |-> FALSE]
Text(caps) == [kind |-> "subpicture", caps |-> caps, sparse |-> TRUE]

-----------------------------------------------------------------------------
(* gst_ts_demux_set_caps_for_private_dovi_video: profiles 0, 1 and 9 are    *)
(* AVC, the others HEVC; unknown ones have no caps.                         *)
Dovi(s) ==
  IF s.dovi.profile \in {0, 1, 9} THEN VideoCaps("h264")
  ELSE IF s.dovi.profile \in 2 .. 8 THEN VideoCaps("h265")
  ELSE None
Unsupported(s, mode) == ~mode.dolby /\ "dovi" \in s.descs /\ s.dovi.profile \in {1, 3, 5}

(* gst_ts_demux_set_caps_for_private_dts                                    *)
Dts(s) ==
  IF "extension" \notin s.descs THEN Audio("x-dts")
  ELSE IF s.dts.core THEN Audio("x-dtsh")
  ELSE IF s.dts.asset \in 14 .. 17 THEN Audio("x-dtsl")
  ELSE IF s.dts.asset = 18 THEN Audio("x-dtse")
  ELSE Audio("x-dtsh")

(* Opus in a private stream: only configurations up to 8 get through the    *)
(* check; dual mono and the extended one have a higher bit set.             *)
Opus(s) == IF "opus" \in s.descs /\ s.opus \in 0 .. 8 THEN Audio("x-opus") ELSE None

(* Teletext that has no page of type 2 or 5 has nothing to show.            *)
ValidPages(s) == SelectSeq(s.entries, LAMBDA e : e.type \in {2, 5})
(* PES_PRIVATE: the descriptors in the order they are looked for, then the  *)
(* registration, then one known broadcaster.                                *)
ByDescriptor ==
  << <<"dvb_ac3", Audio("x-ac3")>>, <<"dvb_eac3", Audio("x-eac3")>>, <<"dvb_ac4", Audio("x-ac4")>>,
     <<"dvb_dts", Audio("x-dts")>>, <<"teletext", Text("x-teletext")>>,
     <<"subtitling", Text("x-dvb")>>, <<"isdb", Text("x-dvb jcap")>> >>
ByRegistration(s) ==
  CASE s.reg = "DTS" -> Dts(s)
    [] s.reg = "S302M" -> Audio("x-smpte-302m")
    [] s.reg = "OPUS" -> Opus(s)
    [] s.reg = "HEVC" -> VideoCaps("h265")
    [] s.reg = "KLVA" -> [kind |-> "private", caps |-> "x-klv", sparse |-> TRUE]
    [] s.reg = "AC3" -> Audio("x-ac3")
    [] s.reg = "AC4" -> Audio("x-ac4")
    [] s.reg = "DOVI" -> IF "dovi" \in s.descs THEN Dovi(s) ELSE None
    [] OTHER -> None
Private(s, program) ==
  LET found == SelectSeq(ByDescriptor, LAMBDA d : d[1] \in s.descs)
  IN  IF found # <<>> THEN found[1][2]
      ELSE IF ByRegistration(s) # None THEN ByRegistration(s)
      ELSE IF program.number = 10510 /\ s.pid = 3401 THEN VideoCaps("h264") ELSE None

(* Stream types that BluRay gives another meaning.                          *)
BluRay ==
  128 :> Audio("x-private-ts-lpcm") @@ 129 :> Audio("x-ac3") @@ 130 :> Audio("x-dts")
  @@ 132 :> Audio("x-eac3") @@ 133 :> Audio("x-dts") @@ 134 :> Audio("x-dts")
  @@ 135 :> Audio("x-eac3") @@ 144 :> Text("x-pgs")
(* ... and those that need no more than the type.                           *)
ByType ==
  1 :> VideoCaps("mpeg1") @@ 2 :> VideoCaps("mpeg2") @@ 3 :> Audio("mpeg1") @@ 4 :> Audio("mpeg1")
  @@ 15 :> Audio("adts") @@ 17 :> Audio("loas") @@ 16 :> VideoCaps("mpeg4")
  @@ 66 :> VideoCaps("x-cavs") @@ 131 :> Audio("x-private2-lpcm") @@ 135 :> Audio("x-eac3")
  @@ 138 :> Audio("x-dts") @@ 139 :> Audio("x-lpcm") @@ 234 :> VideoCaps("x-wmv")

(* JPEG 2000 of an interlaced or too short description makes no pad.        *)
Jp2k(s) == IF "j2k" \in s.descs /\ ~s.progressive THEN None ELSE VideoCaps("x-jpc")

(* create_pad_for_stream: what a stream is.                                 *)
Media(s, program) ==
  IF program.reg = "HDMV" /\ s.type = 131 THEN None
  ELSE IF program.reg = "HDMV" /\ s.type \in DOMAIN BluRay THEN BluRay[s.type]
  ELSE IF s.type \in DOMAIN ByType THEN ByType[s.type]
  ELSE CASE s.type = 6 -> Private(s, program)
         [] s.type \in {27, 36} -> IF "dovi" \in s.descs THEN Dovi(s)
                                   ELSE VideoCaps(IF s.type = 27 THEN "h264" ELSE "h265")
         [] s.type = 33 -> Jp2k(s)
         [] s.type = 128 -> IF program.reg # "none" THEN VideoCaps("mpeg2") ELSE None
         [] s.type = 129 -> Audio(IF "dvb_eac3" \in s.descs THEN "x-eac3" ELSE "x-ac3")
         [] s.type = 209 -> IF s.reg = "drac" THEN VideoCaps("x-dirac") ELSE None
         [] OTHER -> None

(* video_num: counted where the caps are chosen, whether there are caps or  *)
(* a pad in the end, but not for JPEG 2000 and AVS.                         *)
CountsAsVideo(s, program) ==
  \/ Media(s, program).kind = "video" /\ s.type \notin {33, 66}
  \/ s.type \in {27, 36}
  \/ s.type = 6 /\ s.reg = "DOVI" /\ \A i \in DOMAIN ByDescriptor : ByDescriptor[i][1] \notin s.descs

(* Options that leave pads out; the pad of an invalid teletext is looked    *)
(* for by a name that it does not have.                                     *)
LeftOut(m, mode) ==
  \/ mode.thumbnail /\ m.kind # "video"
  \/ mode.only = "video" /\ m.kind # "video"
  \/ mode.only = "audio" /\ m.kind # "audio"

(* gst_ts_demux_create_tags: the languages, from the first descriptor that  *)
(* is there; each teletext page is tagged with the language of the first.   *)
Languages(s) ==
  IF "iso639" \in s.descs THEN Range(s.langs)
  ELSE IF "subtitling" \in s.descs THEN {s.entries[i].lang : i \in DOMAIN s.entries}
  ELSE IF "teletext" \in s.descs /\ ValidPages(s) # <<>> THEN {s.entries[1].lang}
  ELSE {}
(* The caps of a teletext pad name the language of each valid page.         *)
PageLanguages(s) == {e.lang : e \in Range(ValidPages(s))}

(* Audio descriptions: by ISO 639 audio type, by the supplementary audio    *)
(* descriptor, by the component type of an AC-3 descriptor.                 *)
Described(s) == s.described \in {"audio_type", "supplementary"}
                \/ (s.described = "component" /\ s.descs \cap {"dvb_ac3", "dvb_eac3"} # {})

-----------------------------------------------------------------------------
Sorts == {"audio", "video", "private"}
Sort(m) == IF m.kind \in {"private", "subpicture"} THEN "private" ELSE m.kind
NewCapsProgram(p) == [number |-> p.number, pads |-> <<>>, valid |-> FALSE, videos |-> 0]

CapsInit ==
  /\ capsMode \in CapsModes
  /\ cx = [generation |-> 0, counts |-> [k \in Sorts |-> 0], shown |-> {}, gaps |-> {},
           video |-> -1, errors |-> {}, program |-> NewCapsProgram([number |-> -1]), before |-> {}]
  /\ capsPrograms = 0

(* gst_ts_demux_stream_added: the pad is made and kept for the start of the *)
(* program.                                                                 *)
PadFor(c, s, m) ==
  [name |-> <<Sort(m), m.kind, c.generation, s.pid, c.counts[Sort(m)]>>, pid |-> s.pid, type |-> s.type,
   kind |-> m.kind, caps |-> m.caps, sparse |-> m.sparse, langs |-> Languages(s),
   pages |-> IF m.caps = "x-teletext" THEN PageLanguages(s) ELSE {}, described |-> Described(s)]
Added(c, s, program) ==
  LET m == Media(s, program)
      made == m # None /\ ~LeftOut(m, capsMode)
  IN  [c EXCEPT !.counts = IF m # None THEN [@ EXCEPT ![Sort(m)] = @ + 1] ELSE @,
                !.program.pads = IF made THEN Append(@, PadFor(c, s, m)) ELSE @,
                !.program.valid = @ \/ (made /\ m.kind \in {"audio", "video"}),
                !.program.videos = @ + (IF CountsAsVideo(s, program) THEN 1 ELSE 0),
                !.errors = IF Unsupported(s, capsMode) /\ Dovi(s) # None THEN @ \cup {"unsupported"} ELSE @]

(* gst_ts_demux_program_started: all pads are added, then those of the      *)
(* program before are removed, then sparse pads get a gap.                  *)
Detected == {1, 2, 16, 27, 36}      \* gst_ts_demux_detect_video_stream
Shown(c) ==
  LET pads == Range(c.program.pads)
      detected == SelectSeq(c.program.pads, LAMBDA p : p.type \in Detected)
  IN  [c EXCEPT !.generation = (@ + 1) % 16,
                !.before = @ \cup pads,           \* pads there at once
                !.shown = pads,
                !.gaps = {p \in pads : p.sparse},
                !.video = IF detected # <<>> THEN Last(detected).pid ELSE @,
                !.errors = IF pads = {} THEN @ \cup {"no pads"} ELSE @]
ActivateProgram(p) ==
  LET fresh == [cx EXCEPT !.program = NewCapsProgram(p), !.before = cx.shown]
      c == FoldLeft(LAMBDA acc, s : Added(acc, s, p), fresh, p.streams)
  IN  /\ capsPrograms < MaxPrograms
      /\ cx' = IF c.program.valid THEN Shown(c) ELSE c
      /\ capsPrograms' = capsPrograms + 1
      /\ UNCHANGED capsMode

CapsNext == \E p \in CapsPrograms : ActivateProgram(p)
CapsSpec == CapsInit /\ [][CapsNext]_capsVars

-----------------------------------------------------------------------------
(* Pads that are there at the same time have different names, so that       *)
(* gst_element_add_pad takes them all (the generation only grows after the  *)
(* pads were named: it is the counts that tell apart).                      *)
PadNamesDiffer == \A p, q \in cx.before : p.name = q.name => p = q

(* A program that is shown has a pad that plays, and its video pid, which   *)
(* trick modes look at, is one of its streams if a known video is there.    *)
ShownPlays ==
  /\ cx.shown # {} => \E p \in cx.shown : p.kind \in {"audio", "video"}
  /\ "no pads" \notin cx.errors
  /\ (\E p \in cx.shown : p.type \in Detected) => \E p \in cx.shown : p.pid = cx.video /\ p.kind = "video"

(* Downstream waits for the first data of each pad: the sparse ones have    *)
(* had a gap.                                                               *)
SparseHaveGap == \A p \in cx.shown : p.kind \in {"subpicture", "private"} => p \in cx.gaps

(* The pads of a program can be told apart, play, and announce themselves.  *)
CapsTrue == PadNamesDiffer /\ ShownPlays /\ SparseHaveGap
=============================================================================
