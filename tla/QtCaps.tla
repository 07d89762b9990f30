------------------------------- MODULE QtCaps -------------------------------
(***************************************************************************)
(* What the ISO MP4 demuxer makes of the sample descriptions of a track:   *)
(* the caps, the configuration for the decoder, the layout of the audio    *)
(* frames, the picture shape, and which tracks it leaves out.              *)
(*                                                                         *)
(* A header is [brand, fragmented, bl, support, profile, tracks]; a track  *)
(* is [sub, stsd, dur, shape, view, rate, entries] with the length of its  *)
(* stsd box, the duration, the size its tkhd shows it in, the frame type   *)
(* of its svmi box and the [n, dur, first] its samples add up to.  An      *)
(* entry is [cc, real, len, ver, w, h, depth, ctab, ch, size, boxes, pasp, *)
(* fiel, colr, esds, rate, v1, v2]: the fourcc, that of the frma box, its  *)
(* length, the version, width, height and depth, the colour table and its  *)
(* last index, the channels, bits of a sample, the boxes behind the fixed  *)
(* part as [type, size, data], and what versions 1 and 2 add for audio.    *)
(***************************************************************************)
EXTENDS Integers, Sequences, FiniteSets, SequencesExt

CONSTANTS Moovs

VARIABLES moov           \* the header, how far it was read, what was made of it
moovVars == <<moov>>

NoData == "none"
NoFrames == [perPacket |-> 0, packet |-> 0, sample |-> 0, frame |-> 0, perFrame |-> 0]
----------------------------------------------------------------------------
(* qtdemux_video_caps: the media type of a fourcc.                         *)
StillTypes == [png |-> "image/png", jpeg |-> "image/jpeg", MJPG |-> "image/jpeg",
               mjp2 |-> "image/x-j2c", SVQ3 |-> "video/x-svq", WRAW |-> "video/x-raw"]
RawFormats(e) ==
    CASE e.cc = "raw " -> IF e.depth \in {15, 16, 24, 32} THEN "video/x-raw" ELSE NoData
      [] e.cc \in {"yv12", "yuv2", "2vuy", "v308", "v216", "v210", "r210"} -> "video/x-raw"
      [] OTHER -> NoData
MpegTypes == [mpg1 |-> "video/mpeg1", hdv1 |-> "video/mpeg2", mx5n |-> "video/mpeg2",
              xdv1 |-> "video/mpeg2", m2v1 |-> "video/mpeg2", h263 |-> "video/x-h263",
              mp4v |-> "video/mpeg4", DIVX |-> "video/mpeg4", xvid |-> "video/mpeg4"]
CodecTypes == [H264 |-> "video/x-h264", H265 |-> "video/x-h265",
               avc1 |-> "video/x-h264", dvav |-> "video/x-h264", avc3 |-> "video/x-h264",
               hvc1 |-> "video/x-h265", hev1 |-> "video/x-h265", dvh1 |-> "video/x-h265",
               dvhe |-> "video/x-h265", dvc |-> "video/x-dv", VP31 |-> "video/x-vp3"]
LateTypes == [XiTh |-> "video/x-theora", vp09 |-> "video/x-vp9", apch |-> "video/x-prores",
              ovc1 |-> "video/x-wmv", vc1 |-> "video/x-wmv"]
(* raw video of a depth that is not known has no caps, and its track goes. *)
TypeOfVideo(cc, e) ==
    LET named(t) == cc \in DOMAIN t
    IN IF named(StillTypes) THEN StillTypes[cc] ELSE IF named(MpegTypes) THEN MpegTypes[cc]
       ELSE IF named(CodecTypes) THEN CodecTypes[cc] ELSE IF named(LateTypes) THEN LateTypes[cc]
       ELSE IF cc = "raw " \/ RawFormats(e) # NoData THEN RawFormats(e) ELSE "video/x-gst-fourcc"

(* qtdemux_audio_caps: raw audio, by the bits of a sample and the flags.   *)
PcmFormat(cc, depth) ==
    IF cc \in {"NONE", "raw "} /\ depth = 8 THEN "U8"
    ELSE <<"S", depth, IF cc = "sowt" THEN "LE" ELSE "BE">>
LpcmFormat(flags, depth, width) ==
    LET order == IF "big endian" \in flags THEN "BE" ELSE "LE"
        wide == IF width = 0 THEN 16 ELSE width
        deep == IF "aligned high" \in flags THEN wide ELSE IF depth = 0 THEN 16 ELSE depth
    IN IF "float" \in flags THEN <<"F", IF width = 64 THEN 64 ELSE 32, order>>
       ELSE <<IF "signed" \in flags THEN "S" ELSE "U", deep, order>>
AudioTypes == [ulaw |-> "audio/x-mulaw", ima4 |-> "audio/x-adpcm", MAC3 |-> "audio/x-mace",
               agsm |-> "audio/x-gsm", mp3 |-> "audio/mpeg1"]
FramedTypes == [ec3 |-> "audio/x-eac3", ac3 |-> "audio/x-ac3", ac4 |-> "audio/x-ac4",
                dtsc |-> "audio/x-dts", dtsh |-> "audio/x-dtsh", mhm1 |-> "audio/mpeg-h"]
CodedTypes == [mp4a |-> "audio/mpeg4", QDM2 |-> "audio/x-qdm2", samr |-> "audio/AMR",
               sawb |-> "audio/AMR-WB", alac |-> "audio/x-alac", fLaC |-> "audio/x-flac",
               wma |-> "audio/x-wma", opus |-> "audio/x-opus"]
TypeOfAudio(cc) ==
    CASE cc \in {"NONE", "raw ", "twos", "sowt", "lpcm", "in24"} -> "audio/x-raw"
      [] cc \in DOMAIN AudioTypes -> AudioTypes[cc] [] cc \in DOMAIN FramedTypes -> FramedTypes[cc]
      [] cc \in DOMAIN CodedTypes -> CodedTypes[cc] [] OTHER -> "audio/x-gst-fourcc"

----------------------------------------------------------------------------
(* The boxes behind the fixed part of a description: one whose length goes *)
(* beyond the end is cut, one with nothing in it ends the search.  The last *)
(* one counts, of the types asked for, that has as many bytes as its type  *)
(* needs.                                                                  *)
Found(boxes, room, least) ==
    LET step(s, b) ==
          LET size == (IF b.size <= s.room THEN b.size ELSE s.room) - 8
          IN IF s.over \/ s.room < 8 \/ size < 1 THEN [s EXCEPT !.over = TRUE]
             ELSE [s EXCEPT !.room = @ - size - 8,
                     !.got = IF b.type \in DOMAIN least /\ size >= least[b.type]
                             THEN [data |-> b.data, size |-> size] ELSE @]
    IN FoldLeft(step, [room |-> room, over |-> FALSE, got |-> [data |-> NoData, size |-> 0]], boxes).got
DataOf(e, fixed, type) == Found(e.boxes, e.len - fixed, [t \in {type} |-> 1]).data

(* qtdemux_tree_get_child_by_type: the first of its type.                  *)
ChildBox(boxes, type) ==
    LET of == SelectSeq(boxes, LAMBDA b : b.type = type)
    IN IF of = <<>> THEN [type |-> "none", size |-> 0, data |-> NoData] ELSE Head(of)
Present(boxes, type) == ChildBox(boxes, type).size > 0
Payload(b) == IF b.size > 8 THEN b.data ELSE NoData

(* The boxes of an H.264 description: behind a strf the search goes on 40  *)
(* bytes too early, inside that box, and finds no other; of a strf of 40   *)
(* bytes it finds itself for ever.  Shorter ones are not modelled.         *)
Avc == {"H264", "avc1", "avc3", "dvav"}
AvcBoxes(e) ==
    LET strf == SelectInSeq(e.boxes, LAMBDA b : b.type = "strf")
    IN IF strf = 0 THEN e.boxes ELSE SubSeq(e.boxes, 1, strf)
AvcHangs(e) == Found(AvcBoxes(e), e.len - 86, [strf |-> 1]).size = 32

(* btrt: average and maximum are swapped back when they are in each other's place. *)
BitratesOf(e) ==
    LET b == Found(AvcBoxes(e), e.len - 86, [btrt |-> 12])
    IN IF b.size < 12 THEN <<>>
       ELSE IF b.data[1] > 0 /\ b.data[1] < b.data[2] THEN <<b.data[2], b.data[1]>> ELSE b.data

(* The configuration of H.264, H.265, VC-1 and MPEG-4.  For H.264 it is    *)
(* the avcC box or what is behind the 40 bytes of BITMAPINFOHEADER in a    *)
(* strf box, whichever comes last.                                         *)
Hevc == {"H265", "hvc1", "hev1", "dvh1", "dvhe"}
ConfigOf(cc, e) ==
    CASE cc \in Avc -> Found(AvcBoxes(e), e.len - 86, [avcC |-> 1, strf |-> 42]).data
      [] cc \in Hevc -> DataOf(e, 86, "hvcC")
      [] cc = "vc1" -> DataOf(e, 86, "dvc1")
      [] cc \in {"mp4v", "xvid"} -> Payload(ChildBox(e.boxes, "glbl"))
      [] cc = "ovc1" -> IF e.len > 198 THEN "ovc1 config" ELSE NoData
      [] cc \in {"SVQ3", "VP31"} -> "stsd"
      [] OTHER -> NoData

(* mjp2: components, colour space, maps and prefix are all there or none.  *)
(* What jp2h holds is in the data of its box; a map or a definition of a   *)
(* length that does not fit is left out.                                   *)
ColourSpace(b) ==
    CASE b.data.method # 1 -> NoData [] b.data.space = 16 -> "sRGB" [] b.data.space = 17 -> "GRAY"
      [] b.data.space = 18 -> "sYUV" [] OTHER -> NoData
Jp2h(e) == ChildBox(e.boxes, "jp2h").data
Jpeg2000Known(e) ==
    /\ Present(e.boxes, "jp2h") /\ ChildBox(Jp2h(e), "ihdr").size = 22 /\ Present(Jp2h(e), "colr")
    /\ ColourSpace(ChildBox(Jp2h(e), "colr")) # NoData
ComponentMap(b) ==
    IF b.size >= 8 /\ (b.size - 8) % 4 = 0 THEN SubSeq(b.data, 1, (b.size - 8) \div 4) ELSE <<>>
(* The association of each channel: 0 for alpha, negative for other types, *)
(* -1 where nothing is said; the last one that is said counts.             *)
ChannelDefs(b) ==
    LET n == IF b.size >= 10 /\ (b.size - 10) % 6 = 0 THEN (b.size - 10) \div 6 ELSE 0
        said(c) == SelectSeq(SubSeq(b.data, 1, n), LAMBDA d : d.cn = c)
        means(d) == CASE d.typ = 0 -> d.asoc [] d.typ = 1 -> 0 [] OTHER -> -d.typ
    IN [c \in 1..n |-> IF said(c - 1) = <<>> THEN -1 ELSE means(Last(said(c - 1)))]
Jpeg2000(e) ==
    [components |-> ChildBox(Jp2h(e), "ihdr").data, space |-> ColourSpace(ChildBox(Jp2h(e), "colr")),
     map |-> ComponentMap(ChildBox(Jp2h(e), "cmap")), defs |-> ChannelDefs(ChildBox(Jp2h(e), "cdef")),
     fields |-> IF e.fiel[1] \in {0, 1} THEN 1 ELSE e.fiel[1]]

(* SVQ3 takes the whole stsd box, and hangs on an atom that says it is     *)
(* longer than what is left.                                               *)
Svq3Hangs(e) ==
    LET step(s, b) == IF s.hung \/ s.left <= 8 THEN s
                      ELSE IF b.size > s.left THEN [s EXCEPT !.hung = TRUE]
                      ELSE [s EXCEPT !.left = @ - b.size]
    IN e.len >= 86 /\ e.ver = 3 /\ FoldLeft(step, [left |-> e.len - 86, hung |-> FALSE], e.boxes).hung

(* XiTh: the header, the comment and the tables are sent ahead.            *)
TheoraHeaders(e) == {b \in Range(e.boxes) : b.type \in {"tCtH", "tCt ", "tCtC"}}

(* The palette of a picture of few colours: of the file, or by the depth.  *)
(* The file has one where the fourcc ctab follows.  The first index is     *)
(* read from the bytes of that fourcc: it is beyond the last in any file,  *)
(* and is cut down to it, so that one colour is read.                      *)
CtabFourcc == 1668571490
LastColour(e) == IF e.last > 255 THEN 255 ELSE e.last
FirstColour(e) == IF CtabFourcc > LastColour(e) THEN LastColour(e) ELSE CtabFourcc
PaletteLength(e) == 94 + (LastColour(e) - FirstColour(e)) * 8
Deep(e) == e.depth % 32
PaletteOf(e) ==
    IF e.ctab = "here" THEN <<"file", FirstColour(e), LastColour(e)>>
    ELSE IF Deep(e) \in {1, 2} THEN <<"default", Deep(e)>>
    ELSE IF Deep(e) \in {4, 8} THEN <<IF e.depth > 32 THEN "gray" ELSE "default", Deep(e)>>
    ELSE <<>>

----------------------------------------------------------------------------
(* gst_qtdemux_handle_esds: [type, max, avg, config, chan, rate].  The     *)
(* object type decides over the fourcc.                                    *)
Replaced == [h264 |-> "video/x-h264", mpeg2 |-> "video/mpeg2", mpeg1a |-> "audio/mpeg1",
             mpeg1v |-> "video/mpeg1", mjpeg |-> "image/jpeg", png |-> "image/png",
             j2c |-> "image/x-j2c", dirac |-> "video/x-dirac", ac3 |-> "audio/x-ac3",
             dts |-> "audio/x-dts", qcelp |-> "audio/qcelp", vorbis |-> "audio/x-unknown"]
Descriptors(d) == d.cut = FALSE      \* a descriptor longer than the box ends the reading
WithEsds(made, d) ==
    LET config == IF Descriptors(d) THEN d.config ELSE NoData
    IN [made EXCEPT
         !.type = IF d.type \in DOMAIN Replaced THEN Replaced[d.type] ELSE @,
         !.config = IF config # NoData THEN config ELSE @,
         !.ch = IF d.type = "aac" /\ config # NoData /\ d.chan > 0 THEN d.chan ELSE @,
         !.rate = IF d.type = "aac" /\ config # NoData /\ d.rate > 0 THEN d.rate ELSE @,
         !.bitrates = <<d.max, d.avg>>]

(* AAC without configuration gets one made up, on the first description.   *)
Invents(d) == d.type = "aac" /\ (d.config = NoData \/ ~Descriptors(d))

(* The frames of an audio description, by the fourcc and by its version.   *)
FixedPoint == [MAC6 |-> <<6, 1, 1>>, MAC3 |-> <<3, 1, 1>>, ima4 |-> <<64, 34, 2>>,
          ulaw |-> <<1, 1, 1>>, agsm |-> <<160, 33, 2>>]
FramesOf(cc, e) ==
    IF cc \in DOMAIN FixedPoint
    THEN [perPacket |-> FixedPoint[cc][1], packet |-> FixedPoint[cc][2], sample |-> FixedPoint[cc][3],
          frame |-> FixedPoint[cc][2] * e.ch, perFrame |-> FixedPoint[cc][1] * e.ch]
    ELSE LET bytes == e.size \div 8
         IN [perPacket |-> e.ch, packet |-> bytes, sample |-> bytes, frame |-> e.ch * bytes,
             perFrame |-> e.ch]
Pcm == {"twos", "sowt", "raw ", "lpcm"}
Reframed(f, cc, e, sampled) ==
    IF e.ver # 1 \/ cc \in Pcm THEN f
    ELSE LET g == e.v1
         IN [g EXCEPT !.perFrame = IF ~sampled /\ g.packet > 0
                                   THEN (g.frame \div g.packet) * g.perPacket ELSE f.perFrame]

(* dec3: an extension of type a behind the substreams means Atmos.         *)
Atmos(e) == ChildBox(e.boxes, "dec3").size >= 12 /\ ChildBox(e.boxes, "dec3").data = "type a"

(* fLaC: the blocks count only when the last of them is there; the rate is *)
(* taken from them in any case.  Both go to the current description, the   *)
(* first.                                                                  *)
WithFlac(made, e) ==
    LET b == ChildBox(e.boxes, "dfLa")
    IN IF b.size < 50 THEN made
       ELSE [made EXCEPT ![1].rate = b.data.rate,
                         ![1].config = IF b.data.last THEN "flac blocks" ELSE @]

(* qtdemux_parse_amr_bitrate: the highest mode of the set.                 *)
HighestMode(modes, wide) == LET all == modes \cap (0..(IF wide THEN 8 ELSE 7))
                            IN IF all = {} THEN -1 ELSE CHOOSE m \in all : \A k \in all : k <= m

(* alac, QDM2, mp4a without esds, AMR: where the configuration comes from. *)
AudioConfig(cc, e) ==
    CASE cc = "alac" -> IF ChildBox(e.boxes, "alac").size >= 36 THEN "alac config" ELSE NoData
      [] cc = "QDM2" -> IF e.len > 60 THEN "qdm2 config" ELSE NoData
      [] cc \in {"samr", "sawb"} -> IF e.len > 36 THEN "amr config" ELSE NoData
      [] cc = "mp4a" -> IF e.ver = 1 THEN "made up" ELSE NoData
      [] cc = "wma" -> DataOf(e, 36, "wfex")
      [] OTHER -> NoData

(* The box of alac has the frame size, the channels and the rate as well.  *)
WithAlac(made, e) ==
    LET b == ChildBox(e.boxes, "alac")
    IN IF made.cc # "alac" \/ b.size < 36 THEN made
       ELSE [made EXCEPT !.frames.frame = b.data.frame, !.ch = b.data.ch, !.rate = b.data.rate]

----------------------------------------------------------------------------
CapsTracks == moov.file.tracks
Here == CapsTracks[moov.t]
Entry == Here.entries[moov.e]
Cc(e) == IF e.cc \in {"encv", "enca"} THEN e.real ELSE e.cc
Subtitle == {"subp", "text", "sbtl", "subt"}

(* Of a description only a picture, mp4a and mp4s are asked for an esds box. *)
HasEsds(t, e) ==
    /\ e.esds.type # NoData
    /\ t.sub = "soun" => Cc(e) = "mp4a"
    /\ t.sub \in Subtitle => e.cc = "mp4s"

(* The enhancement layer of Dolby Vision is left out where it cannot be    *)
(* shown and its base layer can; sqcp audio is left out of plain files.    *)
Skipped(cc, e) ==
    /\ ~HasEsds(Here, e) /\ ~moov.file.fragmented
    /\ \/ cc \in {"dvav", "dvhe"} /\ ~moov.file.support /\ moov.bl
       \/ cc = "sqcp"
Hangs(t, e) ==
    /\ t.sub = "vide" /\ ~HasEsds(t, e)
    /\ (Cc(e) \in {"SVQ3", "VP31"} /\ Svq3Hangs(e)) \/ (Cc(e) \in Avc /\ AvcHangs(e) /\ ~Skipped(Cc(e), e))
TooShort(t, e) ==
    \/ e.len > moov.room
    \/ t.sub = "vide" /\ (e.len < 86 \/ (e.ctab = "here" /\ e.len < PaletteLength(e)))
    \/ t.sub = "soun" /\ e.len < (CASE e.ver = 1 -> 52 [] e.ver = 2 -> 72 [] OTHER -> 36)
Unknown(t, e) ==
    \/ t.sub = "vide" /\ TypeOfVideo(Cc(e), e) = NoData
    \/ t.sub = "strm" /\ e.cc # "rtsp"
    \/ t.sub = "data" /\ e.cc # "m1v"
TypeOf(t, e) ==
    CASE t.sub = "vide" -> TypeOfVideo(Cc(e), e) [] t.sub = "soun" -> TypeOfAudio(Cc(e))
      [] t.sub \in Subtitle -> (CASE e.cc = "mp4s" -> "subpicture/x-dvd" [] e.cc \in {"text", "tx3g"}
                                  -> "text/x-raw" [] OTHER -> "text/x-gst-fourcc")
      [] t.sub = "data" -> "video/mpeg1" [] OTHER -> NoData

(* What else goes into the caps or the tags by the fourcc: the headers of  *)
(* Theora, the components of JPEG 2000, the highest bitrate of AMR, Atmos. *)
Details(t, e, cc) ==
    CASE t.sub = "vide" /\ cc = "XiTh" -> <<Cardinality(TheoraHeaders(e))>>
      [] t.sub = "vide" /\ cc = "mjp2" /\ Jpeg2000Known(e) -> <<Jpeg2000(e)>>
      [] t.sub = "soun" /\ cc \in {"samr", "sawb"} /\ e.len > 60 -> <<HighestMode(e.flags, cc = "sawb")>>
      [] t.sub = "soun" /\ cc = "ec3" /\ Atmos(e) -> <<"immersive">>
      [] OTHER -> <<>>

(* The sample format that goes into the caps of raw audio.                 *)
FormatOf(cc, e, frames) ==
    CASE cc = "lpcm" -> <<LpcmFormat(e.flags, e.depth, e.w)>>
      [] cc \in {"NONE", "raw ", "twos", "sowt"} -> <<PcmFormat(cc, frames.packet * 8)>>
      [] OTHER -> <<>>

(* The fixed part of a description, before the boxes are looked at.        *)
Blank(cc, t, e) ==
    [cc |-> cc, type |-> TypeOf(t, e), format |-> <<>>, detail |-> <<>>, ch |-> e.ch, rate |-> e.rate,
     sampled |-> TRUE, frames |-> NoFrames, palette |-> <<>>, config |-> NoData, bitrates |-> <<>>,
     sparse |-> t.sub \in Subtitle, pasp |-> <<0, 0>>, fiel |-> <<0, 0>>, colr |-> NoData]
(* Audio: the layout of the frames is that of the 16-bit fields; version 2 *)
(* has another rate and number of channels behind them.                    *)
PlainSound(t, e) ==
    LET cc == Cc(e)
        frames == Reframed(FramesOf(cc, e), cc, e, e.cmp)
    IN [Blank(cc, t, e) EXCEPT
         !.frames = frames, !.format = FormatOf(cc, e, frames),
         !.ch = IF e.ver = 2 THEN e.v2.ch ELSE @, !.rate = IF e.ver = 2 THEN e.v2.rate ELSE @,
         !.sampled = e.cmp \/ cc \in DOMAIN FramedTypes]
Plain(t, e) ==
    IF t.sub = "soun" THEN PlainSound(t, e)
    ELSE [Blank(Cc(e), t, e) EXCEPT !.palette = IF t.sub = "vide" THEN PaletteOf(e) ELSE <<>>]

(* Without esds the fourcc decides where the configuration is.             *)
ByFourcc(made, t, e) ==
    LET cc == made.cc
    IN WithAlac([made EXCEPT
         !.detail = Details(t, e, cc),
         !.config = CASE t.sub = "vide" /\ cc = "mjp2" ->
                           IF Jpeg2000Known(e) THEN Payload(ChildBox(e.boxes, "jp2x")) ELSE NoData
                      [] t.sub = "vide" /\ cc # "mjp2" -> ConfigOf(cc, e)
                      [] t.sub = "soun" -> AudioConfig(cc, e) [] OTHER -> NoData,
         !.bitrates = IF t.sub = "vide" /\ cc \in Avc THEN BitratesOf(e) ELSE <<>>], e)
Promoted(made, e) ==
    CASE e.cc = "samr" -> [made EXCEPT !.sampled = TRUE, !.ch = 1, !.rate = 8000]
      [] e.cc = "sawb" -> [made EXCEPT !.sampled = TRUE, !.ch = 1, !.rate = 16000]
      [] e.cc = "mp4a" -> [made EXCEPT !.sampled = TRUE]
      [] OTHER -> made
Made(t, e) ==
    Promoted(IF HasEsds(t, e) THEN WithEsds(Plain(t, e), e.esds) ELSE ByFourcc(Plain(t, e), t, e), e)

(* The picture shape goes to the current description, the first, whichever *)
(* one it stands in; so does the configuration made up for AAC.            *)
Shaped(made, t, e) ==
    IF t.sub = "soun" /\ HasEsds(t, e) /\ Invents(e.esds)
    THEN [made EXCEPT ![1].config = "made up"]
    ELSE IF t.sub = "soun" /\ Cc(e) = "fLaC" THEN WithFlac(made, e)
    ELSE IF t.sub # "vide" THEN made
    ELSE [made EXCEPT ![1].pasp = e.pasp,
                      ![1].fiel = IF e.fiel = <<0, 0>> THEN @ ELSE e.fiel,
                      ![1].colr = IF e.colr = NoData THEN @ ELSE e.colr]

----------------------------------------------------------------------------
AllEntries(f) == {f.tracks[t].entries[i] : <<t, i>> \in
                    {<<t, i>> \in (1..Len(f.tracks)) \X (1..4) : i <= Len(f.tracks[t].entries)}}
(* The tree was parsed before: which layers of Dolby Vision there are.     *)
CapsInit ==
    \E f \in Moovs :
      moov = [file |-> f, t |-> 1, e |-> 1, room |-> f.tracks[1].stsd - 16, made |-> <<>>, streams |-> <<>>,
              shown |-> <<>>, state |-> "reading", error |-> NoData,
              bl |-> \E e \in AllEntries(f) : e.cc \in {"avc1", "avc3", "hvc1", "hev1"},
              el |-> \E e \in AllEntries(f) : e.cc \in {"dvav", "dvhe", "dvh1"}]

NextTrack(m) ==
    IF m.t = Len(CapsTracks) THEN [m EXCEPT !.state = "configuring", !.t = 1]
    ELSE [m EXCEPT !.t = @ + 1, !.e = 1, !.made = <<>>, !.room = CapsTracks[m.t + 1].stsd - 16]

(* qtdemux_parse_trak: an entry of its stsd box.  A corrupt or encrypted   *)
(* one ends the file, one nobody knows ends the track.                     *)
Fails(why) == moov' = [moov EXCEPT !.state = "failed", !.error = why]
DescribeEntry ==
    /\ moov.state = "reading" /\ moov.e <= Len(Here.entries) /\ Here.stsd >= 24
    /\ IF TooShort(Here, Entry) THEN Fails("corrupt")
       ELSE IF Entry.cc \in {"drms", "drmi"} THEN Fails("encrypted")
       ELSE IF Hangs(Here, Entry) THEN Fails("hung")
       ELSE IF Skipped(Cc(Entry), Entry) \/ Unknown(Here, Entry)
       THEN moov' = NextTrack([moov EXCEPT !.el = @ /\ Cc(Entry) \notin {"dvav", "dvhe"}])
       ELSE moov' = [moov EXCEPT !.made = Shaped(Append(@, Made(Here, Entry)), Here, Entry),
                                 !.e = @ + 1, !.room = @ - Entry.len]

(* All entries are read: the track is a stream.  One with an empty stsd    *)
(* box is left out when it is of a Vivotek camera, and corrupt otherwise.  *)
FinishTrack ==
    /\ moov.state = "reading" /\ (moov.e > Len(Here.entries) \/ Here.stsd < 24)
    /\ IF Here.stsd < 24
       THEN IF Here.sub = "vivo" THEN moov' = NextTrack(moov) ELSE Fails("corrupt")
       ELSE moov' = NextTrack([moov EXCEPT !.streams = Append(@, [t |-> moov.t, made |-> moov.made])])

----------------------------------------------------------------------------
(* gst_qtdemux_configure_stream: the frame rate, from the average length   *)
(* of the samples behind the first.                                        *)
FrameRate(t) ==
    LET s == IF moov.file.fragmented /\ t.moof.n > 0 /\ t.moof.dur > 0 THEN t.moof ELSE t.all
    IN IF (t.all.n = 1 /\ t.first = 0) \/ (moov.file.fragmented /\ t.moof.n = 1) THEN "still"
       ELSE IF s.dur = 0 \/ s.n < 2 THEN "not known"
       ELSE (s.dur - t.first) \div (s.n - 1)

(* The shape of a pixel: of the pasp box, or from the size it is shown in. *)
PixelShape(t, e, made) ==
    IF made.pasp[1] > 0 /\ made.pasp[2] > 0 THEN made.pasp
    ELSE IF t.shape[1] > 0 /\ t.shape[2] > 0 /\ e.w > 0 /\ e.h > 0
    THEN LET n == t.shape[1] * e.h
             d == t.shape[2] * e.w
         IN IF n = d THEN <<1, 1>> ELSE <<n, d>>
    ELSE <<0, 0>>
Interlace(made) ==
    CASE made.fiel[1] = 1 -> "progressive"
      [] made.fiel[1] = 2 /\ made.fiel[2] = 9 -> "top first"
      [] made.fiel[1] = 2 /\ made.fiel[2] = 14 -> "bottom first"
      [] made.fiel[1] = 2 -> "interleaved" [] OTHER -> NoData

(* Stereo video, by the frame type of its svmi box.                        *)
Views == <<"side by side", "row interleaved", "frame by frame">>
MultiView(t) == IF t.view \in 0..2 THEN Views[t.view + 1] ELSE NoData

(* qtdemux_prepare_dolby_track.                                            *)
Dolby(f) ==
    IF f.profile = -1 THEN NoData
    ELSE IF ~f.support THEN (IF f.profile \in {1, 3, 5} THEN "error" ELSE "base only")
    ELSE IF moov.bl /\ moov.el THEN "dual" ELSE "single"

ConfigureStream ==
    /\ moov.state = "configuring" /\ Len(moov.shown) < Len(moov.streams)
    /\ LET s == moov.streams[Len(moov.shown) + 1]
           t == CapsTracks[s.t]
           m == s.made[1]
       IN moov' = [moov EXCEPT !.shown = Append(@,
            [t |-> s.t, type |-> m.type, config |-> m.config, ch |-> m.ch, rate |-> m.rate,
             detail |-> m.detail,
             fps |-> IF t.sub = "vide" THEN FrameRate(t) ELSE NoData,
             par |-> IF t.sub = "vide" THEN PixelShape(t, t.entries[1], m) ELSE <<0, 0>>,
             lace |-> IF t.sub = "vide" THEN Interlace(m) ELSE NoData,
             view |-> IF t.sub = "vide" THEN MultiView(t) ELSE NoData,
             dolby |-> IF t.sub = "vide" THEN Dolby(moov.file) ELSE NoData])]

CapsNext == DescribeEntry \/ FinishTrack \/ ConfigureStream
CapsSpec == CapsInit /\ [][CapsNext]_moovVars

----------------------------------------------------------------------------
CapsTypeOK ==
    /\ moov.state \in {"reading", "configuring", "failed"}
    /\ moov.t \in 1..Len(CapsTracks) /\ Len(moov.shown) <= Len(moov.streams)

(* Of a track with one description, what is shown is what it says: of two  *)
(* boxes that could be its configuration the last (a strf ends the search), *)
(* of version 2 the fields behind, of JPEG 2000 all or nothing.            *)
PictureAsWritten(s, e) ==
    /\ e.pasp # <<0, 0>> => s.par = e.pasp
    /\ e.fiel[1] = 2 => s.lace # "progressive"
    /\ \A i \in DOMAIN e.boxes :
         /\ ~HasEsds(CapsTracks[s.t], e) /\ e.boxes[i].type \in {"avcC", "hvcC"} /\ e.boxes[i].size > 8
         /\ \A k \in DOMAIN e.boxes : e.boxes[k].type # "strf" /\ (k > i => e.boxes[k].type # e.boxes[i].type)
         => s.config = e.boxes[i].data
    /\ \A i \in DOMAIN e.boxes :
         /\ Cc(e) \in Avc /\ e.boxes[i].type = "strf" /\ e.boxes[i].size >= 50
         /\ \A k \in DOMAIN e.boxes : k < i => e.boxes[k].type # "strf"
         => s.config = e.boxes[i].data
    /\ e.cc = "mjp2" /\ s.detail = <<>> => s.config = NoData
SoundAsWritten(s, e) ==
    /\ (e.ver = 2 /\ e.cc \notin {"samr", "sawb"}) => s.ch = e.v2.ch /\ s.rate = e.v2.rate
    /\ e.cc \in {"samr", "sawb"} => s.ch = 1 /\ s.rate = IF e.cc = "samr" THEN 8000 ELSE 16000
ShownAsWritten ==
    \A i \in DOMAIN moov.shown :
      LET s == moov.shown[i]
          t == CapsTracks[s.t]
      IN Len(t.entries) = 1 =>
           /\ t.sub = "vide" => PictureAsWritten(s, t.entries[1])
           /\ t.sub = "soun" => SoundAsWritten(s, t.entries[1])

(* The layout of the frames of uncompressed and of fixed audio is that of  *)
(* all its channels: the samples in a frame are those of whole packets.    *)
FramesWhole ==
    \A i \in DOMAIN moov.streams : \A k \in DOMAIN moov.streams[i].made :
      LET m == moov.streams[i].made[k]
      IN (m.cc \in DOMAIN FixedPoint /\ m.frames.packet > 0) =>
           m.frames.perFrame = (m.frames.frame \div m.frames.packet) * m.frames.perPacket

(* A stream that asks for both layers of Dolby Vision has both, and the    *)
(* enhancement layer is left out only when a base layer is there.          *)
LayersThere ==
    moov.state = "configuring" =>
      /\ \A i \in DOMAIN moov.shown : moov.shown[i].dolby = "dual" =>
           \E j \in DOMAIN moov.streams : \E k \in DOMAIN moov.streams[j].made :
              moov.streams[j].made[k].cc \in {"dvav", "dvhe", "dvh1"}
      /\ (\A t \in DOMAIN CapsTracks : CapsTracks[t].sub = "vide") => moov.streams # <<>>

CapsRight == ShownAsWritten /\ FramesWhole /\ LayersThere
=============================================================================
