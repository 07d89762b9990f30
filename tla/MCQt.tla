------------------------------ MODULE MCQt ---------------------------------
(* Small instances of the nine parts of the ISO MP4 demuxer, checked        *)
(* together: `part` says which of them runs, the others stay as they are.   *)
EXTENDS QtPush, QtLoop, QtSamples, QtCenc,
        QtStreams, QtCaps, QtTags, QtEdits, QtBoxes

VARIABLE part
qtAllVars == <<part, pushVars, loopVars, samplesVars, cencVars,
             streamsVars, moovVars, taggedVars, editVars, boxVars>>

-----------------------------------------------------------------------------
(* Files pushed by upstream: the header first, last or between two mdats,   *)
(* fragmented, with the mdat before its moof; of any seekability.           *)
Atom(kind, first, len) == [kind |-> kind, first |-> first, len |-> len]
Moof(first, len, adds) == [kind |-> "moof", first |-> first, len |-> len, adds |-> adds]
PushedAt(off, pts, key) == [off |-> off, size |-> 1, pts |-> pts, key |-> key]
WholeEdit == <<[time |-> 0, stop |-> 9, media |-> 0]>>
PushTrack(kind, samples) == [kind |-> kind, samples |-> samples, edits |-> WholeEdit]
Video(b) == PushTrack("video", <<PushedAt(b, 0, TRUE), PushedAt(b+2, 1, FALSE), PushedAt(b+3, 2,
      TRUE), PushedAt(b+5, 3, FALSE)>>)
Audio(b) == PushTrack("audio", <<PushedAt(b+1, 0, TRUE), PushedAt(b+4, 2, TRUE)>>)
Texts(b) == PushTrack("text", <<PushedAt(b, 0, TRUE)>>)
PushFile(size, atoms, tracks, frag, big, seekable) == [size |-> size, atoms |-> atoms,
      tracks |-> tracks, fragmented |-> frag, big |-> big, seekable |-> seekable, pushes |-> {1,
      3}]
MoovFirst == {PushFile(11, <<Atom("ftyp", 0, 1), Atom("moov", 1, 2), Atom("mdat", 3, 8)>>,
      <<Video(4), Audio(4), Texts(10)>>, FALSE, b, b) : b \in BOOLEAN}
MoovLast == {PushFile(11, <<Atom("mdat", 0, 8), Atom("free", 8, 1), Atom("moov", 9, 2)>>,
      <<Video(1), Audio(1), Texts(7)>>, FALSE, b, b) : b \in BOOLEAN}
MdatTwice == PushFile(12, <<Atom("mdat", 0, 4), Atom("moov", 4, 2), Atom("mdat", 6, 6)>>,
      <<PushTrack("video", <<PushedAt(1, 0, TRUE), PushedAt(3, 1, FALSE), PushedAt(8, 2, TRUE),
      PushedAt(10, 3, FALSE)>>), PushTrack("audio", <<PushedAt(2, 0, TRUE), PushedAt(9, 2,
      TRUE)>>)>>, FALSE, TRUE, TRUE)
NoSamples == <<PushTrack("video", <<>>), PushTrack("audio", <<>>)>>
Fragments == PushFile(11, <<Atom("moov", 0, 1), Moof(1, 1, <<<<PushedAt(3, 0, TRUE), PushedAt(5,
      1, FALSE)>>, <<PushedAt(4, 0, TRUE)>>>>), Atom("mdat", 2, 4), Moof(6, 1, <<<<PushedAt(8,
      2, TRUE), PushedAt(9, 3, FALSE)>>, <<>>>>), Atom("mdat", 7, 4)>>, NoSamples, TRUE, FALSE,
      FALSE)
MdatBefore == PushFile(11, <<Atom("moov", 0, 1), Atom("mdat", 1, 4), Moof(5, 1, <<<<PushedAt(2,
      0, TRUE), PushedAt(3, 1, FALSE)>>, <<PushedAt(4, 0, TRUE)>>>>), Atom("free", 6, 1),
      Atom("mdat", 7, 2), Moof(9, 1, <<<<PushedAt(8, 2, TRUE)>>, <<>>>>), Atom("free", 10, 1)>>,
      NoSamples, TRUE, FALSE, FALSE)
WholePiece == [MdatBefore EXCEPT !.pushes = {11}]
MCQtFiles == MoovFirst \cup MoovLast \cup {MdatTwice, Fragments, WholePiece}

(* All but one are plain: a fragment behind its media data is right only    *)
(* when the file comes in one piece.                                        *)
ASSUME PlainExamples == \A f \in MCQtFiles \ {WholePiece} : PlainFile(f)

-----------------------------------------------------------------------------
(* Files read by the loop: with edits, in fragments with and without their  *)
(* index, and sound alone; seeks of every kind, either way.                 *)
Picture(pts, key) == [off |-> 0, size |-> 2, pts |-> pts, key |-> key]
Reel(e) == [kind |-> "video", samples |-> [i \in 1..7 |-> Picture(i-1, i \in {1, 4, 6})],
      edits |-> e]
Sound(e) == [kind |-> "audio", samples |-> [i \in 1..4 |-> Picture(2*(i-1), TRUE)], edits |-> e]
Lines(e) == [kind |-> "text", samples |-> <<Picture(0, TRUE), Picture(1, TRUE), Picture(5,
      TRUE)>>, edits |-> e]
LoopEdit(t, s, m) == [time |-> t, stop |-> s, media |-> m]
PlainFilm == [atoms |-> <<"ftyp", "free", "mdat", "moov", "moov">>,
      tracks |-> <<Sound(<<LoopEdit(0, 9, 0)>>), Reel(<<LoopEdit(0, 9, 0)>>),
      Lines(<<LoopEdit(0, 9, 0)>>)>>, frags |-> <<>>, access |-> <<<<>>, <<>>, <<>>>>]
EditedFilm == [atoms |-> <<"ftyp", "moov", "empty">>, tracks |-> <<Reel(<<LoopEdit(0, 1, -1),
      LoopEdit(1, 4, 2), LoopEdit(4, 7, 0)>>), Sound(<<LoopEdit(0, 2, 4), LoopEdit(2, 9,
      0)>>)>>, frags |-> <<>>, access |-> <<<<>>, <<>>>>]
FragmentedFilm == [atoms |-> <<"ftyp", "moov", "sidx", "moof", "mdat">>,
      tracks |-> <<Reel(<<LoopEdit(0, 9, 0)>>), Sound(<<LoopEdit(0, 9, 0)>>)>>, frags |-> <<<<3,
      1>>, <<5, 3>>, <<7, 4>>>>, access |-> <<<<1, 2, 3>>, <<>>>>]
UnindexedFilm == [FragmentedFilm EXCEPT !.access = <<<<>>, <<>>>>]
SongFilm == [atoms |-> <<"moov", "uuid">>, tracks |-> <<Sound(<<LoopEdit(0, 9, 0)>>)>>,
      frags |-> <<>>, access |-> <<<<>>>>]
TrimmedFilm == [SongFilm EXCEPT !.tracks = <<Reel(<<LoopEdit(0, 1, 0), LoopEdit(1, 5, 2)>>)>>]
MCLoopFiles == {TrimmedFilm} \cup {PlainFilm, EditedFilm, FragmentedFilm, UnindexedFilm, SongFilm}
SeekTo(p, o, r, key, n, t) == [pos |-> p, other |-> o, rate |-> r, key |-> key, next |-> n,
      trick |-> t]
MCLoopSeeks == {SeekTo(3, -1, 1, FALSE, FALSE, FALSE), SeekTo(5, 6, 1, TRUE, FALSE, FALSE),
      SeekTo(4, -1, 1, TRUE, TRUE, FALSE), SeekTo(1, 5, 1, FALSE, FALSE, TRUE),
  SeekTo(6, 0, -1, FALSE, FALSE, FALSE), SeekTo(5, 2, -1, TRUE, FALSE, FALSE), SeekTo(6, 1, -1,
      FALSE, FALSE, TRUE)}

-----------------------------------------------------------------------------
(* Sample tables in blocks that do not end together, some too short; tracks *)
(* in fragments with every base offset.                                     *)
TableMixed == [count |-> 7, sizes |-> <<2, 3, 1, 4, 2, 2, 5>>, chunks |-> <<10, 40, 70, 100>>,
      stsc |-> <<[first |-> 1, per |-> 2], [first |-> 3, per |-> 1], [first |-> 4, per |-> 4]>>,
  stts |-> <<[n |-> 2, by |-> 3], [n |-> 4, by |-> 1], [n |-> 1, by |-> 2]>>,
      ctts |-> <<[n |-> 1, by |-> 0], [n |-> 2, by |-> -1], [n |-> 4, by |-> 2]>>, stss |-> {1,
      4, 6}]
TableKeyless == [TableMixed EXCEPT !.stss = NoKeys, !.ctts = <<>>, !.stts = <<[n |-> 5,
      by |-> 2]>>, !.stsc = <<[first |-> 2, per |-> 3]>>]
TableShort == [TableMixed EXCEPT !.stss = {}, !.chunks = <<10, 40>>, !.stsc = <<[first |-> 1,
      per |-> 2]>>, !.ctts = <<[n |-> 1, by |-> 1], [n |-> 1, by |-> 2]>>]
MCTables == {TableMixed, TableKeyless, TableShort}
TrackRun(o, d, ss) == [offset |-> o, data |-> d, samples |-> ss]
Cut(z, d) == [size |-> z, dur |-> d]
Traf(m, b, g, d, rs) == [mine |-> m, base |-> b, given |-> g, dts |-> d, runs |-> rs]
Fragment(a, l, t) == [at |-> a, length |-> l, found |-> a, trafs |-> t]
LongStream == << Fragment(10, 5, <<Traf(TRUE, "moof", 0, 0, <<TrackRun(13, 23, <<Cut(2, 1),
      Cut(1, 1)>>), TrackRun(-1, 26, <<Cut(2, 7)>>)>>)>>),
         Fragment(30, 5, <<Traf(TRUE, "none", 0, 9, <<TrackRun(-1, 43, <<Cut(3, 3)>>)>>),
      Traf(TRUE, "none", 0, 12, <<TrackRun(-1, 46, <<Cut(3, 3)>>), TrackRun(4, 50, <<Cut(1,
      2)>>)>>)>>),
         Fragment(60, 5, <<Traf(FALSE, "moof", 0, 0, <<TrackRun(13, 73, <<Cut(9, 9)>>)>>),
      Traf(TRUE, "moof", 0, 30, <<TrackRun(22, 82, <<Cut(1, 2), Cut(2, 2)>>)>>)>>),
         Fragment(90, 5, <<Traf(TRUE, "given", 103, 35, <<TrackRun(-1, 103, <<Cut(1, 1)>>)>>),
      Traf(FALSE, "none", 0, 0, <<>>), Traf(TRUE, "none", 0, 36, <<TrackRun(-1, 0, <<Cut(1,
      1)>>)>>)>>) >>
GapStream == << Fragment(10, 5, <<Traf(TRUE, "moof", 0, -1, <<TrackRun(13, 23, <<Cut(2, 3),
      Cut(1, 3)>>)>>)>>), Fragment(30, 5, <<Traf(TRUE, "moof", 0, 20, <<TrackRun(13, 43,
      <<Cut(2, 3)>>)>>)>>) >>
MCStreams == {LongStream, GapStream}

-----------------------------------------------------------------------------
(* Encrypted tracks whose vectors come in saio and saiz or in senc.         *)
CencMoof(n, info, g, k, p) == [n |-> n, info |-> info, good |-> n, groups |-> g, kids |-> k,
      pssh |-> p]
CencTrack(mode, sch, ms) == [mode |-> mode, scheme |-> sch, tenc |-> "whole",
      ids |-> {"served"}, moofs |-> ms]
GroupOf(n) == <<[n |-> n, idx |-> 1]>>
AuxMoofs == <<CencMoof(2, "aux", <<>>, <<>>, TRUE), CencMoof(3, "aux", <<>>, <<>>, FALSE),
      CencMoof(1, "aux", <<>>, <<>>, TRUE), [CencMoof(2, "aux", <<>>, <<>>,
      TRUE) EXCEPT !.good = 1]>>
GroupMoofs == <<CencMoof(2, "aux", GroupOf(2), <<"a">>, TRUE), CencMoof(2, "aux", GroupOf(2),
      <<"b">>, TRUE), CencMoof(2, "aux", GroupOf(2), <<"c">>, TRUE)>>
SencMoofs == <<CencMoof(2, "senc", <<>>, <<>>, TRUE), CencMoof(3, "senc", GroupOf(2), <<"b">>,
      FALSE), CencMoof(1, "none", <<>>, <<>>, TRUE), [CencMoof(2, "senc", <<>>, <<>>,
      TRUE) EXCEPT !.good = 1]>>
MCCenc == {CencTrack(mode, "cenc", f) : mode \in {"pull", "push", "time"}, f \in {AuxMoofs,
      GroupMoofs}} \cup {CencTrack(mode, "cbcs", SencMoofs) : mode \in {"push", "time"}}
  \cup {[CencTrack("pull", "none", AuxMoofs) EXCEPT !.tenc = "no tenc"]}

-----------------------------------------------------------------------------
(* Movie headers that follow each other: tracks change, repeat or fail.     *)
TrakOf(id, k, c) == [id |-> id, kind |-> k, fate |-> "ok", caps |-> c, locked |-> FALSE]
HeaderPlain == <<TrakOf(1, "vide", "a"), TrakOf(2, "soun", "a")>>
HeaderSwapped == <<TrakOf(2, "soun", "b"), TrakOf(1, "vide", "b")>>
HeaderBad == <<TrakOf(1, "vide", "a"), TrakOf(3, "text", "a"), [TrakOf(4, "soun",
      "a") EXCEPT !.fate = "corrupt"], [TrakOf(5, "soun", "a") EXCEPT !.fate = "empty"]>>
HeaderTwice == <<TrakOf(2, "soun", "a"), TrakOf(2, "vide", "a"), [TrakOf(3, "vide",
      "a") EXCEPT !.locked = TRUE], TrakOf(6, "strm", "none")>>
HeaderOther == <<TrakOf(1, "other", "b"), [TrakOf(3, "text", "a") EXCEPT !.fate = "chapters"],
      [TrakOf(5, "vide", "a") EXCEPT !.fate = "short"]>>
MCHeaders == {HeaderPlain, HeaderSwapped, HeaderBad, HeaderTwice, HeaderOther}

-----------------------------------------------------------------------------
(* Descriptions of every codec family, alone and in pairs of layers.        *)
NoEsds == [type |-> "none", max |-> 0, avg |-> 0, config |-> "none", chan |-> 0, rate |-> 0,
      cut |-> FALSE]
EntryOf(cc, len) == [cc |-> cc, real |-> cc, len |-> len, ver |-> 0, w |-> 4, h |-> 2,
      depth |-> 24, ctab |-> "none", last |-> 0, ch |-> 2, size |-> 16, v2 |-> [ch |-> 6, rate |-> 96],
   flags |-> {"signed"}, rate |-> 44, cmp |-> FALSE, v1 |-> [perPacket |-> 6, packet |-> 2,
      frame |-> 4, sample |-> 2, perFrame |-> 0],
   boxes |-> <<>>, pasp |-> <<0, 0>>, fiel |-> <<0, 0>>, colr |-> "none", esds |-> NoEsds]
BoxOf(t, s, d) == [type |-> t, size |-> s, data |-> d]
CapsTrack(sub, es) == [sub |-> sub, stsd |-> 16 + FoldLeft(LAMBDA a, e : a + e.len, 8, es),
      shape |-> <<8, 4>>, view |-> -1,
   all |-> [n |-> 5, dur |-> 12], moof |-> [n |-> 0, dur |-> 0], first |-> 4, entries |-> es]
MoovFile(ts) == [brand |-> "isom", fragmented |-> FALSE, support |-> FALSE, profile |-> -1,
      tracks |-> ts]
AvcEntry == [EntryOf("avc1", 140) EXCEPT !.boxes = <<BoxOf("avcC", 20, "avc"), BoxOf("btrt", 20,
      <<10, 20>>), BoxOf("free", 60, "x")>>, !.pasp = <<4, 3>>, !.fiel = <<2, 9>>]
LayerEntry == [EntryOf("dvhe", 120) EXCEPT !.boxes = <<BoxOf("hvcC", 34, "hvc")>>]
AacEntry == [EntryOf("mp4a", 80) EXCEPT !.esds = [NoEsds EXCEPT !.type = "aac",
      !.config = "asc", !.chan = 6, !.rate = 48, !.max = 9, !.avg = 7]]
EsdsEntry == [EntryOf("mp4v", 100) EXCEPT !.esds = [NoEsds EXCEPT !.type = "mpeg2",
      !.config = "seq"], !.pasp = <<1, 1>>]
StrfEntry == [EntryOf("H264", 200) EXCEPT !.boxes = <<BoxOf("avcC", 20, "avc"), BoxOf("strf", 60,
      "riff"), BoxOf("avcC", 30, "behind")>>]
HangEntry == [EntryOf("H264", 200) EXCEPT !.boxes = <<BoxOf("strf", 40, "x")>>]
(* JPEG 2000: with maps, with lengths that do not fit, without what it needs. *)
Jp2Entry(in) == [EntryOf("mjp2", 300) EXCEPT !.fiel = <<2, 9>>, !.boxes = <<BoxOf("jp2h", 80, in),
      BoxOf("jp2x", 20, "pre")>>]
Ihdr == BoxOf("ihdr", 22, 3)
ColrOf(m, n) == BoxOf("colr", 15, [method |-> m, space |-> n])
ChannelOf(c, t, a) == [cn |-> c, typ |-> t, asoc |-> a]
Jp2Entries == {Jp2Entry(<<Ihdr, ColrOf(1, 16), BoxOf("cmap", 16, <<"y", "u">>), BoxOf("cdef", 28,
      <<ChannelOf(1, 0, 2), ChannelOf(0, 1, 0), ChannelOf(1, 2, 5)>>)>>), Jp2Entry(<<Ihdr, ColrOf(1,
      17), BoxOf("cmap", 15, <<"y">>), BoxOf("cdef", 23, <<ChannelOf(0, 0, 1)>>)>>),
   Jp2Entry(<<ColrOf(1, 18)>>), Jp2Entry(<<Ihdr, ColrOf(2, 16)>>), EntryOf("mjp2", 86)}
FlacBox(l, r) == BoxOf("dfLa", 64, [last |-> l, rate |-> r])
MCMoovs == {MoovFile(<<CapsTrack("vide", <<v>>), CapsTrack("soun", <<a>>)>>) :
   v \in {AvcEntry, StrfEntry, HangEntry, EsdsEntry, EntryOf("png", 86), [EntryOf("SVQ3", 150) EXCEPT !.ver = 3,
      !.boxes = <<BoxOf("gama", 12, 1), BoxOf("SMI ", 40, 2)>>],
         [EntryOf("raw ", 90) EXCEPT !.depth = 8], [EntryOf("WRAW", 100) EXCEPT !.depth = 8,
      !.ctab = "here", !.last = 300], [EntryOf("WRAW", 93) EXCEPT !.depth = 8, !.ctab = "here"],
         [EntryOf("ovc1", 210) EXCEPT !.fiel = <<1, 0>>], [EntryOf("encv",
      120) EXCEPT !.real = "avc1", !.boxes = <<BoxOf("avcC", 34, "avc")>>], EntryOf("avc1", 80),
      EntryOf("raw ", 86), EntryOf("drmi", 90)} \cup Jp2Entries,
   a \in {AacEntry, EntryOf("ima4", 36), [EntryOf("MAC3", 52) EXCEPT !.ver = 1], EntryOf("sowt",
      36), EntryOf("twos", 30), [EntryOf("samr", 69) EXCEPT !.ch = 0, !.flags = {1, 5, 9}],
      [EntryOf("lpcm", 72) EXCEPT !.ver = 2], [EntryOf("alac", 80) EXCEPT !.boxes = <<BoxOf("alac", 36,
      [frame |-> 9, ch |-> 1, rate |-> 48])>>],
          [EntryOf("ec3", 60) EXCEPT !.boxes = <<BoxOf("dec3", 24, "type a")>>],
      [EntryOf("fLaC", 100) EXCEPT !.boxes = <<FlacBox(TRUE, 96)>>],
          [AacEntry EXCEPT !.esds.config = "none"], EntryOf("sqcp", 40), [EntryOf("enca",
      80) EXCEPT !.real = "mp4a", !.esds = AacEntry.esds]}}
 \cup {[MoovFile(<<CapsTrack("vide", <<AvcEntry>>), CapsTrack("vide",
      <<LayerEntry>>)>>) EXCEPT !.support = s, !.profile = p] : s \in BOOLEAN, p \in {4, 7}}
 \cup {[MoovFile(<<CapsTrack("vide", <<LayerEntry>>)>>) EXCEPT !.profile = 5],
      MoovFile(<<[CapsTrack("vivo", <<>>) EXCEPT !.stsd = 16], CapsTrack("vide", <<AvcEntry>>)>>),
       MoovFile(<<CapsTrack("text", <<EntryOf("tx3g", 40)>>), CapsTrack("strm",
      <<EntryOf("rtsp", 40)>>), CapsTrack("data", <<EntryOf("m1v", 40)>>), CapsTrack("data",
      <<EntryOf("zzz", 40)>>), CapsTrack("vide", <<[AvcEntry EXCEPT !.pasp = <<0, 0>>]>>)>>),
       MoovFile(<<CapsTrack("soun", <<[EntryOf("fLaC", 100) EXCEPT !.boxes = <<FlacBox(FALSE, 96)>>],
      [EntryOf("fLaC", 100) EXCEPT !.boxes = <<FlacBox(TRUE, 48)>>]>>), CapsTrack("vide", <<EntryOf(
      "XiTh", 140)>>)>>),
       [MoovFile(<<[CapsTrack("vide", <<AvcEntry>>) EXCEPT !.view = 1, !.moof = [n |-> 1,
      dur |-> 3]]>>) EXCEPT !.fragmented = TRUE]}

-----------------------------------------------------------------------------
(* Headers with the tags of iTunes, 3GPP, ID3 and XMP, packed headers, and  *)
(* those that lead elsewhere.                                               *)
TagBox(type, fixed, val, in) == [type |-> type, off |-> fixed, val |-> val, in |-> in,
   len |-> fixed + FoldLeft(LAMBDA a, c : a + c.len, 0, in)]
TagData(kind, len, a, b, text) == TagBox("data", len, [kind |-> kind, a |-> a, b |-> b,
      text |-> text], <<>>)
TextTag(c, lang, utf8, text) == [c |-> c, lang |-> lang, utf8 |-> utf8, text |-> text,
      words |-> <<>>, a |-> 0, onEarth |-> FALSE]
MvhdOf(dur, scale, cr) == TagBox("mvhd", 108, [version |-> 0, duration |-> dur, scale |-> scale,
      created |-> cr], <<>>)
Word(s, n) == [word |-> s, len |-> n]
Ilst(in) == TagBox("udta", 8, "", <<TagBox("meta", 12, "full", <<TagBox("hdlr", 24, "", <<>>),
      TagBox("ilst", 8, "", in)>>), TagBox("XMP_", 40, {<<"title", "xmp">>, <<"audio codec",
      "x">>, <<"rating", "5">>}, <<>>)>>)
Flat(in) == TagBox("udta", 8, "", in)
AppleTags == Ilst(<<TagBox("nam", 8, TextTag(TRUE, FALSE, TRUE, ""), <<TagData(1, 20, 0, 0,
      "song")>>),
   TagBox("covr", 8, 0, <<TagData(13, 40, 0, 0, "one")>>), TagBox("covr", 8, 0, <<TagData(14,
      40, 0, 0, "two")>>),
   TagBox("pgap", 8, 0, <<TagData(21, 17, 0, 0, "")>>), TagBox("trkn", 8, 0, <<TagData(0, 24, 3,
      0, "")>>), TagBox("tmpo", 8, 0, <<TagData(15, 18, 120, 0, "")>>),
   TagBox("gnre", 8, TextTag(FALSE, FALSE, TRUE, "rock"), <<TagData(0, 18, 5, 0, "")>>),
      TagBox("day", 8, 0, <<TagData(1, 26, 2001, 0, "")>>),
   TagBox("----", 8, 0, <<TagBox("mean", 28, "iTunes", <<>>), TagBox("name", 20, "gain", <<>>),
      TagData(1, 22, 0, 0, "-3")>>),
   TagBox("cpil", 8, 0, <<>>), TagBox("nam", 8, TextTag(TRUE, FALSE, TRUE, ""), <<TagData(1, 20,
      0, 0, "song2")>>)>>)
PhoneTags == Flat(<<TagBox("titl", 20, TextTag(FALSE, TRUE, FALSE, "t"), <<>>), TagBox("kywd",
      24, [TextTag(FALSE, TRUE, FALSE, "") EXCEPT !.words = <<Word("a", 3), Word("b", 3),
      Word("c", 9)>>], <<>>),
   TagBox("loci", 40, [TextTag(FALSE, TRUE, TRUE, "home") EXCEPT !.a = 4, !.onEarth = TRUE],
      <<>>), TagBox("loci", 31, [TextTag(FALSE, TRUE, TRUE, "there") EXCEPT !.a = 5], <<>>),
   TagBox("clsf", 26, TextTag(FALSE, TRUE, TRUE, "c1"), <<>>), TagBox("clsf", 26, TextTag(FALSE,
      TRUE, TRUE, "c2"), <<>>), TagBox("yrrc", 14, TextTag(FALSE, TRUE, TRUE, "") , <<>>),
   TagBox("gnre", 20, TextTag(FALSE, TRUE, TRUE, "pop"), <<>>), TagBox("ccid", 20, 0, <<>>)>>)
Id32Tags == TagBox("meta", 12, "full", <<TagBox("hdlr", 24, "", <<>>), TagBox("ID32", 60,
      {<<"title", "id3">>, <<"mood", "x">>}, <<>>), TagBox("ilst", 8, "", <<>>)>>)
RefBox(v, r, u) == TagBox("rmda", 8, 0, <<TagBox("rdrf", 24, [kind |-> "url ", url |-> u],
      <<>>), TagBox("rmdr", 16, r, <<>>), TagBox("rmvc", 26, v, <<>>)>>)
RedirectMoov == TagBox("moov", 8, 0, <<TagBox("rmra", 8, 0, <<RefBox(0, 28, "a"), RefBox(6, 56,
      "b"), TagBox("rmda", 8, 0, <<TagBox("rdrf", 60, [kind |-> "alis", url |-> "short"],
      <<>>)>>), RefBox(6, 128, "c"), RefBox(6, 56, "d")>>)>>)
Mvex(n) == TagBox("mvex", 8, 0, <<TagBox("mehd", 16, n, <<>>)>>)
MoovOf(in) == TagBox("moov", 8, 0, in)
PackedMoov(m) == TagBox("moov", 8, 0, <<TagBox("cmov", 8, 0, <<TagBox("dcom", 12, m, <<>>),
      TagBox("cmvd", 40, <<MoovOf(<<MvhdOf(3, 1, 9)>>)>>, <<>>)>>)>>)
HeadOf(whole, rates) == [moov |-> whole, major |-> "qt", brands |-> {"3g"}, pull |-> TRUE,
      big |-> FALSE, size |-> 100, header |-> 20, upstream |-> "none", rates |-> rates]
MCTagHeaders == <<HeadOf(MoovOf(<<MvhdOf(3, 1, 1), AppleTags, Id32Tags>>), <<40, 0>>),
      [HeadOf(MoovOf(<<MvhdOf(5, 1, 0), PhoneTags>>), <<0>>) EXCEPT !.pull = FALSE, !.big = TRUE],
   [HeadOf(MoovOf(<<MvhdOf(5, 1, 0), PhoneTags>>), <<0, 0>>) EXCEPT !.major = "3g",
      !.upstream = "bytes", !.pull = FALSE],
   HeadOf(RedirectMoov, <<>>), HeadOf(MoovOf(<<MvhdOf(0, 1, 3), Mvex(9), Id32Tags,
      TagBox("udta", 8, 0, <<TagBox("meta", 12, "full", <<TagBox("hdlr", 24, 0, <<>>)>>)>>)>>),
      <<0, 7>>),
   HeadOf(PackedMoov("zlib"), <<700, 0>>), HeadOf(PackedMoov("lzma"), <<>>),
      HeadOf(MoovOf(<<TagBox("cmov", 8, 0, <<>>)>>), <<>>),
   [HeadOf(MoovOf(<<MvhdOf(0, 1, 1), AppleTags, TagBox("free", 4, 0, <<>>), PhoneTags>>),
      <<>>) EXCEPT !.major = "3g", !.upstream = "time"]>>

-----------------------------------------------------------------------------
(* Edit lists, cut units, raw audio, texts; MCTrail ends with an empty edit.*)
EditLine(d, m) == [dur |-> d, media |-> m, rate |-> 1]
UnitOf(p, d, s) == [pts |-> p, dur |-> d, size |-> s, cut |-> 3]
EditTrack(edits, movie, len, sub) == [edits |-> edits, movie |-> movie, length |-> len,
      pull |-> FALSE, sub |-> sub, frame |-> 2, rate |-> <<2, 1>>,
   units |-> {UnitOf(0, 3, 12), UnitOf(2, 3, 12), UnitOf(4, 1, 4), UnitOf(1, -1, 8), UnitOf(-1,
      1, 4)}, matrix |-> "upright", dref |-> <<>>]
MCEditTracks == {EditTrack(<<EditLine(2, -1), EditLine(4, 1)>>, 6, 5, "soun"), EditTrack(<<>>,
      4, 4, "soun"), [EditTrack(<<>>, 5, 5, "soun") EXCEPT !.rate = <<1, 2>>,
      !.units = {UnitOf(0, 4, 4), UnitOf(2, 6, 6), UnitOf(3, 4, 4), UnitOf(1, -1, 4)}],
  EditTrack(<<EditLine(1, -1), EditLine(2, -1), EditLine(0, 1)>>, 6, 5, "vide"),
      [EditTrack(<<EditLine(2, 0), EditLine(2, 3)>>, 4, 4, "vide") EXCEPT !.matrix = "quarter"],
  [EditTrack(<<EditLine(2, 0), EditLine(2, 3), EditLine(3, -1)>>, 6, 5,
      "vide") EXCEPT !.pull = TRUE, !.matrix = "skewed"],
  [EditTrack(<<>>, 4, 0, "text") EXCEPT !.units = {UnitOf(0, 1, 2), UnitOf(1, 2, 4), UnitOf(2,
      1, 12)}],
  [EditTrack(<<EditLine(3, 0)>>, 3, 3, "subp") EXCEPT !.units = {UnitOf(0, 1, 2), UnitOf(1, 2,
      4)}, !.dref = <<[type |-> "alis", atoms |-> <<>>], [type |-> "hndl",
      atoms |-> <<[type |-> "ftyp", rtsp |-> FALSE, uri |-> "x"], [type |-> "data",
      rtsp |-> TRUE, uri |-> "rtsp://a"]>>]>>],
  EditTrack(<<EditLine(0, 8)>>, 6, 9, "vide"), EditTrack(<<EditLine(0, 3)>>, -1, 9, "soun")}
MCTrail == MCEditTracks \cup {EditTrack(<<EditLine(3, 0), EditLine(2, -1)>>, 5, 4, "vide")}

-----------------------------------------------------------------------------
(* Fragmented files with sidx and mfra tables, true and nested, with uuid   *)
(* boxes, Smooth Streaming, cut off and not media at all.                   *)
SidxBox(track, v, e, f, es) == [kind |-> "sidx", size |-> 4, track |-> track, version |-> v,
      scale |-> 2, earliest |-> e, first |-> f, whole |-> TRUE, entries |-> es]
SidxEntry(r, d, s) == [ref |-> r, dur |-> d, size |-> s]
AuxOf(n) == [size |-> 0, n |-> n, sizes |-> <<8, 9>>, offsets |-> 1]
Pssh(d) == [size |-> 40, system |-> "s1", data |-> d]
MoofBox(t, at, size) == [kind |-> "moof", size |-> size, track |-> t, start |-> at, tfhd |-> 0,
      pssh |-> <<>>, aux |-> AuxOf(2)]
TrexOf(t, d) == [track |-> t, whole |-> TRUE, dur |-> d, desc |-> 1]
MoovBox(tracks, ps) == [kind |-> "moov", size |-> 20, tracks |-> tracks,
      trex |-> [i \in DOMAIN tracks |-> TrexOf(i, 2 * i)], pssh |-> ps]
UuidBox(t) == [kind |-> "uuid", size |-> 3, type |-> t, whole |-> TRUE, piff |-> [subs |-> TRUE,
      samples |-> <<[iv |-> TRUE, subs |-> 1], [iv |-> TRUE, subs |-> 0]>>]]
MfraBox(ts, size) == [kind |-> "mfra", size |-> size, claims |-> size, tables |-> ts]
BoxFile(mode, boxes) == [mode |-> mode, rates |-> {1, 2, 0 - 1}, caps |-> {}, boxes |-> boxes]
MCBoxFiles == <<
  BoxFile("pull", <<MoovBox(<<2, 4>>, <<Pssh(1), Pssh(2)>>), SidxBox(1, 1, 3, 0,
      <<SidxEntry(FALSE, 2, 5), SidxEntry(FALSE, 2, 7)>>), MoofBox(1, 6, 5), MoofBox(1, 10, 7)>>),
  BoxFile("pull", <<MoovBox(<<2, 4>>, <<>>), UuidBox("xmp"), SidxBox(1, 0, 0, 0,
      <<SidxEntry(FALSE, 2, 5), SidxEntry(FALSE, 2, 7)>>), MoofBox(1, 0, 5), [MoofBox(1, 4,
      7) EXCEPT !.pssh = <<Pssh(3)>>],
     MoofBox(2, 0, 6), MfraBox(<<[track |-> 2, whole |-> TRUE, entries |-> <<[time |-> 0,
      at |-> 39]>>], [track |-> 3, whole |-> TRUE, entries |-> <<[time |-> 0, at |-> 38]>>]>>,
      9)>>),
  BoxFile("pull", <<MoovBox(<<2>>, <<>>), SidxBox(1, 1, 0, 0, <<SidxEntry(TRUE, 2, 4),
      SidxEntry(FALSE, 2, 7), SidxEntry(FALSE, 1, 7)>>), SidxBox(1, 1, 0, 0, <<>>), MoofBox(1,
      4, 7), MoofBox(1, 8, 7)>>),
  BoxFile("push", <<MoovBox(<<2>>, <<>>), UuidBox("dvr"), MoofBox(1, 0, 5), [kind |-> "cut",
      size |-> 3]>>),
  BoxFile("push", <<[kind |-> "bogus", size |-> 3]>>),
  [BoxFile("mss", <<UuidBox("piff"), MoofBox(1, 0, 5), UuidBox("piff"), UuidBox("playready"),
      MoofBox(1, 8, 5)>>) EXCEPT !.caps = {[media |-> "cenc", scale |-> 2], [media |-> "video",
      scale |-> 4]}]>>

-----------------------------------------------------------------------------
(* A part that does not run has one of its files.                           *)
Parts == {"push", "loop", "samples", "cenc", "streams", "caps", "tags", "edits", "boxes"}

Still(name) == part # name

Init ==
  /\ part \in Parts
  /\ part = "push"    \/ (Still("push") /\ file = CHOOSE f \in QtFiles : TRUE)
  /\ part = "loop"    \/ (Still("loop") /\ film = CHOOSE f \in LoopFiles : TRUE)
  /\ part = "samples" \/ (/\ Still("samples")
                          /\ table = CHOOSE t \in Tables : Accepted(t)
                          /\ stream = CHOOSE s \in Streams : TRUE)
  /\ PushInit /\ LoopInit /\ SamplesInit /\ HeadInit /\ EditInit
  /\ StreamsInit /\ (Still("streams") => demux.aware /\ demux.pull /\ demux.fragmented)
  /\ BoxInit /\ (Still("boxes") => box.file = 1)
  /\ CencInit /\ (Still("cenc") => cenc.track = CHOOSE t \in CencTracks : Tracked(t) /\ Decryptable(t))
  /\ CapsInit /\ (Still("caps") => moov.file = CHOOSE f \in Moovs : TRUE)

Next ==
  \/ /\ part = "push" /\ PushNext
     /\ UNCHANGED <<part, loopVars, samplesVars, cencVars, streamsVars, moovVars,
                    taggedVars, editVars, boxVars>>
  \/ /\ part = "loop" /\ LoopNext
     /\ UNCHANGED <<part, pushVars, samplesVars, cencVars, streamsVars, moovVars,
                    taggedVars, editVars, boxVars>>
  \/ /\ part = "samples" /\ SamplesNext
     /\ UNCHANGED <<part, pushVars, loopVars, cencVars, streamsVars, moovVars,
                    taggedVars, editVars, boxVars>>
  \/ /\ part = "cenc" /\ CencNext
     /\ UNCHANGED <<part, pushVars, loopVars, samplesVars, streamsVars, moovVars,
                    taggedVars, editVars, boxVars>>
  \/ /\ part = "streams" /\ StreamsNext
     /\ UNCHANGED <<part, pushVars, loopVars, samplesVars, cencVars, moovVars,
                    taggedVars, editVars, boxVars>>
  \/ /\ part = "caps" /\ CapsNext
     /\ UNCHANGED <<part, pushVars, loopVars, samplesVars, cencVars, streamsVars,
                    taggedVars, editVars, boxVars>>
  \/ /\ part = "tags" /\ HeadNext
     /\ UNCHANGED <<part, pushVars, loopVars, samplesVars, cencVars, streamsVars,
                    moovVars, editVars, boxVars>>
  \/ /\ part = "edits" /\ EditNext
     /\ UNCHANGED <<part, pushVars, loopVars, samplesVars, cencVars, streamsVars,
                    moovVars, taggedVars, boxVars>>
  \/ /\ part = "boxes" /\ BoxNext
     /\ UNCHANGED <<part, pushVars, loopVars, samplesVars, cencVars, streamsVars,
                    moovVars, taggedVars, editVars>>

Spec == Init /\ [][Next]_qtAllVars

(* The tracks with an edit list alone.                                      *)
EditsOnly == Init /\ part = "edits" /\ [][Next]_qtAllVars

-----------------------------------------------------------------------------
(* Each part's own properties, of the part that runs.                       *)

(* gst_qtdemux_loop, gst_qtdemux_seek_to_previous_keyframe and the edit     *)
(* lists: in pull mode every segment begins at a key frame, runs without a  *)
(* gap and ends where it was asked to, also backwards; what is sent for a   *)
(* track has the running times its edits say.                               *)
PlayRight ==
  /\ part = "loop" => LoopTypeOK /\ LoopTrue
  /\ part = "edits" => EditTypeOK /\ EditsTrue

(* qtdemux_parse_samples, _parse_trun, the sidx and mfra tables and the     *)
(* boxes of encryption: however a table is read, piece by piece, ahead, or  *)
(* by fragments, each sample has its own place, time, key frame flag and    *)
(* initialization vector.                                                   *)
SamplesRight ==
  /\ part = "samples" => SamplesTypeOK /\ SamplesTrue
  /\ part = "cenc" => CencTypeOK /\ CencTrue
  /\ part = "boxes" => BoxTypeOK /\ BoxesTrue

(* qtdemux_parse_trak, qtdemux_expose_streams, qtdemux_parse_udta: after    *)
(* any row of headers, segments, seeks and ends each pad has one stream and *)
(* the caps of its own description, is told the tags of the file once, with *)
(* its first segment, and has an EOS at the end; what any of the formats of *)
(* tags says of the film is kept, with one value for a tag, and where a     *)
(* header leads elsewhere the best is posted first.                         *)
HeadRight ==
  /\ part = "streams" => StreamsTypeOK /\ QtStreamsTrue
  /\ part = "caps" => CapsTypeOK /\ CapsRight
  /\ part = "tags" => HeadTypeOK /\ HeadTrue
=============================================================================
