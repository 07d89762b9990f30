----------------------------- MODULE MCSetup --------------------------------
(* Small instances of the set-up of a manifest and of four elements beside  *)
(* the demuxers, checked together: `part` says which of them runs.          *)
EXTENDS MpdSetup, Elements

VARIABLE part
setupVars == <<part, mpdVars, muxVars, routerVars, sourceVars, fakeVars>>

-----------------------------------------------------------------------------
(* Manifests: periods of every form of segments, each with a twin that says *)
(* the same in another order and layer; remote periods, sets and lists; a   *)
(* live one; anchors.                                                       *)
XmlOf(name, props, kids) == [name |-> name, props |-> props, children |-> kids]
Word(s) == <<[n |-> -1, s |-> s, digits |-> 0]>>
Words(a, b) == Word(a) \o Word(b)
IntWord(n) == <<[n |-> n, s |-> "", digits |-> 0]>>
Units(n, s) == <<[n |-> n, s |-> s, digits |-> 0]>>
DotUnits(n) == <<[n |-> 0, s |-> ".", digits |-> 1], [n |-> n, s |-> "S", digits |-> 3]>>
PTime(fields) == Word("P") \o Word("T") \o fields
RangeText(a, b) == <<[n |-> a, s |-> "-", digits |-> 0], [n |-> b, s |-> "", digits |-> 0]>>

RepNode(id, bw, w, kids) ==
  XmlOf("Representation", [id |-> Word(id), bandwidth |-> IntWord(bw), width |-> IntWord(w)],
      kids)
VideoSet(kids) == XmlOf("AdaptationSet", [mimeType |-> Words("video", "mp4")], kids)
RoleNode == XmlOf("Role", [schemeIdUri |-> Word("urn:mpeg:dash:role:2011"),
      value |-> Word("main")], <<>>)
AudioSet(kids) == XmlOf("AdaptationSet", [mimeType |-> Words("audio", "mp4"),
      lang |-> Word("fr")], kids)
SubsSet(kids) == XmlOf("AdaptationSet", [mimeType |-> Words("text", "vtt")], kids)
SNode(t, d, r) == XmlOf("S", [t |-> IntWord(t), d |-> IntWord(d), r |-> IntWord(r)], <<>>)
LineNode(s) == XmlOf("SegmentTimeline", <<>>, s)
TemplateNode(props, kids) == XmlOf("SegmentTemplate", props, kids)
MediaProp == [media |-> Words("Number", "m4s")]
UrlNode(x) == XmlOf("SegmentURL", [media |-> Word(x)], <<>>)

TimedSet == VideoSet(<<TemplateNode(MediaProp @@ [timescale |-> IntWord(1000)],
      <<LineNode(<<SNode(0, 2000, 1), SNode(0, 1000, 0), SNode(5000, 1000, 2)>>)>>),
                 RepNode("a", 400, 100, <<>>), RepNode("b", 900, 200, <<>>)>>)
TimedTwinSet == XmlOf("AdaptationSet", [mimeType |-> Words("video", "mp4")],
               <<RepNode("a", 400, 100,
      <<TemplateNode(MediaProp @@ [timescale |-> IntWord(1000)], <<LineNode(<<SNode(0, 2000, 1),
      SNode(0, 1000, 0), SNode(5000, 1000, 2)>>)>>)>>),
                 RepNode("b", 900, 200, <<TemplateNode(MediaProp, <<LineNode(<<SNode(0, 2000,
      1), SNode(0, 1000, 0), SNode(5000, 1000, 2)>>)>>)>>),
                 TemplateNode([timescale |-> IntWord(1000)], <<>>)>>)
ListedSet == AudioSet(<<XmlOf("SegmentList", [duration |-> IntWord(4000),
      timescale |-> IntWord(1000)], <<UrlNode("u1"), UrlNode("u2"), UrlNode("u3")>>),
                  RepNode("c", 100, 0, <<XmlOf("SegmentList", [startNumber |-> IntWord(3)],
      <<>>)>>), RoleNode>>)
ListedTwinSet == AudioSet(<<RepNode("c", 100, 0, <<XmlOf("SegmentList",
      [startNumber |-> IntWord(3), duration |-> IntWord(4000), timescale |-> IntWord(1000)],
      <<UrlNode("u1"), UrlNode("u2"), UrlNode("u3")>>)>>), RoleNode,
                      XmlOf("SegmentList", [duration |-> IntWord(4000),
      timescale |-> IntWord(1000)], <<UrlNode("u1"), UrlNode("u2"), UrlNode("u3")>>)>>)
BasedSet == SubsSet(<<RepNode("d", 10, 0, <<XmlOf("SegmentBase", [indexRange |-> RangeText(100,
      200)], <<>>)>>)>>)
CountedSet == VideoSet(<<RepNode("e", 500, 50,
      <<TemplateNode(MediaProp @@ [duration |-> IntWord(3)], <<>>)>>)>>)
ExtSet == XmlOf("AdaptationSet", [href |-> Word("set")], <<>>)
ExtList == AudioSet(<<RepNode("x", 100, 0, <<XmlOf("SegmentList", [href |-> Word("list"),
      actuate |-> Word("onRequest"), duration |-> IntWord(4)], <<>>)>>)>>)
PeriodNode(props, kids) == XmlOf("Period", props, kids)
RootNode(props, kids) == XmlOf("MPD", props, kids)

Total(s) == [mediaPresentationDuration |-> PTime(s)]
ThreePeriods == RootNode(Total(Units(20, "S")), <<PeriodNode([id |-> Word("p1"),
      duration |-> PTime(Units(8, "S"))], <<TimedSet, ListedSet>>),
      PeriodNode([id |-> Word("p2"), start |-> PTime(Units(8, "S"))], <<BasedSet, CountedSet>>),
        PeriodNode([id |-> Word("p3"), start |-> PTime(Units(14, "S"))], <<ListedSet,
      TimedSet>>)>>)
ThreePeriodsTwin == RootNode(Total(Units(20, "S")), <<PeriodNode([id |-> Word("p1"),
      duration |-> PTime(Units(8, "S"))], <<TimedTwinSet, ListedTwinSet>>),
      PeriodNode([id |-> Word("p2"), start |-> PTime(Units(8, ".") \o <<[n |-> 0, s |-> "S",
      digits |-> 3]>>)], <<BasedSet, CountedSet>>),
        PeriodNode([id |-> Word("p3"), start |-> PTime(Units(14, "S"))], <<ListedTwinSet,
      TimedTwinSet>>)>>)
RemotePeriods == RootNode(Total(Units(1, "M") \o Units(10, "S")),
      <<PeriodNode([href |-> Word("ads"), actuate |-> Word("onLoad")], <<>>),
      PeriodNode([id |-> Word("p2"), duration |-> PTime(Units(9, ".") \o <<[n |-> 5, s |-> "S",
      digits |-> 1]>>)], <<TimedSet, ExtSet>>),
        PeriodNode([href |-> Word("more")], <<>>), PeriodNode([start |-> PTime(Units(30, "S"))],
      <<ExtList>>)>>)
RemotePeriodsTwin == RootNode(Total(Units(70, "S")), <<PeriodNode([href |-> Word("ads"),
      actuate |-> Word("onLoad")], <<>>), PeriodNode([id |-> Word("p2"),
      duration |-> PTime(Units(9, ".") \o <<[n |-> 500, s |-> "S", digits |-> 3]>>)],
      <<TimedTwinSet, ExtSet>>),
        PeriodNode([href |-> Word("more")], <<>>), PeriodNode([start |-> PTime(Units(30, "S"))],
      <<ExtList>>)>>)
Remotes == [ads |-> XmlOf("external", <<>>, <<PeriodNode([id |-> Word("ad"),
      duration |-> PTime(Units(5, "S"))], <<CountedSet>>), PeriodNode([id |-> Word("ad2"),
      duration |-> PTime(Units(6, "S"))], <<CountedSet>>)>>),
         more |-> XmlOf("external", <<>>, <<PeriodNode([id |-> Word("m"),
      duration |-> PTime(Units(4, "S"))], <<ListedSet>>)>>),
         set |-> XmlOf("external", <<>>, <<ListedSet>>),
         list |-> XmlOf("external", <<>>, <<XmlOf("SegmentList", [duration |-> IntWord(5)],
      <<UrlNode("y1"), UrlNode("y2")>>)>>)]
LivePeriods == RootNode([type |-> Word("dynamic"), availabilityStartTime |-> Units(10,
      ":") \o Units(0, "Z"), suggestedPresentationDelay |-> PTime(Units(2, "S"))],
           <<PeriodNode([id |-> Word("p1"), start |-> PTime(Units(0, "S"))], <<CountedSet,
      TimedSet>>), PeriodNode([id |-> Word("p2"), start |-> PTime(Units(12, "S")),
      duration |-> PTime(Units(10, "S"))], <<CountedSet>>)>>)
ManifestOf(d, t, r) == [doc |-> d, twin |-> t, remote |-> r, anchor |-> <<>>, delay |-> <<>>]
MCManifests == <<ManifestOf(ThreePeriods, ThreePeriodsTwin, <<>>), ManifestOf(RemotePeriods,
      RemotePeriodsTwin, Remotes), ManifestOf(LivePeriods, LivePeriods, <<>>),
         [ManifestOf(ThreePeriods, ThreePeriodsTwin,
      <<>>) EXCEPT !.anchor = <<[period |-> Word("p3"), start |-> 0]>>]>>
MCAnchor == <<[ManifestOf(ThreePeriods, ThreePeriodsTwin,
      <<>>) EXCEPT !.anchor = <<[period |-> Word("p1"), start |-> 5000]>>]>>
MCIds == {Word("p1"), Word("p3")}

-----------------------------------------------------------------------------
(* Two layers as the demuxer sends them, one shorter than the other.        *)
EventOf(k) == [kind |-> k]
FrameOf(p, d) == [pts |-> p, delta |-> d,
             units |-> <<[plain |-> d, size |-> 3], [plain |-> FALSE, size |-> 2]>>]
Feed(ps, tag) == [events |-> <<EventOf("caps"), EventOf("segment")>> \o tag,
                  frames |-> [i \in DOMAIN ps |-> FrameOf(ps[i], i > 1)]]
FeedPair(b, e, t) == [l \in Layers |-> IF l = "BASE" THEN Feed(b, t) ELSE Feed(e, <<>>)]
MCFeeds == {FeedPair(<<0, 5, 11>>, <<0, 5, 11>>, <<EventOf("tag")>>), FeedPair(<<0, 5, 11>>,
      <<0, 5>>, <<>>), FeedPair(<<3>>, <<3, 6, 9>>, <<>>)}
ASSUME AllFeedsSound == \A feeds \in MCFeeds : SoundFeeds(feeds)

-----------------------------------------------------------------------------
(* Streams that follow each other, come back, or leave with a collection.   *)
StreamStart(i) == [kind |-> "stream-start", id |-> i]
Collection(s) == [kind |-> "collection", ids |-> s]
Buffer(i, n) == [kind |-> "buffer", id |-> i, n |-> n]
EosItem == [kind |-> "eos"]
Preface(i, s) == <<StreamStart(i), Collection(s), Buffer(i, 1)>>
MCShows == {
  Preface("a", {"a", "b"}) \o Preface("b", {"a", "b"}) \o <<StreamStart("a"), Buffer("a", 2),
      StreamStart("b"), Buffer("b", 2), EosItem>>,
  Preface("a", {"a", "b"}) \o Preface("b", {"a", "b"}) \o Preface("c", {"c"}) \o <<Buffer("c",
      2), EosItem>> \o Preface("a", {"a"}),
  <<StreamStart("a"), Buffer("a", 1), StreamStart("b"), Buffer("b", 1), StreamStart("a"),
      Buffer("a", 2), EosItem, StreamStart("b"), Buffer("b", 2)>> }
ASSUME SoundShows == \A show \in MCShows : SoundShow(show)

-----------------------------------------------------------------------------
(* A part that does not run has one of its inputs.                          *)
Parts == {"mpd", "dolby", "router", "source", "fake"}

Still(name) == part # name

Init ==
  /\ part \in Parts
  /\ MpdInit /\ SourceInit /\ FakeInit
  /\ MuxInit /\ (Still("dolby") => mux.feeds = CHOOSE f \in LayerFeeds : TRUE)
  /\ RouterInit /\ (Still("router") => router.show = CHOOSE s \in Shows : TRUE)

Next ==
  \/ /\ part = "mpd" /\ MpdNext
     /\ UNCHANGED <<part, muxVars, routerVars, sourceVars, fakeVars>>
  \/ /\ part = "dolby" /\ MuxNext
     /\ UNCHANGED <<part, mpdVars, routerVars, sourceVars, fakeVars>>
  \/ /\ part = "router" /\ RouterNext
     /\ UNCHANGED <<part, mpdVars, muxVars, sourceVars, fakeVars>>
  \/ /\ part = "source" /\ SourceNext
     /\ UNCHANGED <<part, mpdVars, muxVars, routerVars, fakeVars>>
  \/ /\ part = "fake" /\ FakeNext
     /\ UNCHANGED <<part, mpdVars, muxVars, routerVars, sourceVars>>

Spec == Init /\ [][Next]_setupVars

-----------------------------------------------------------------------------
(* gst_mpdparser_setup_media_presentation, _setup_streaming, _get_next_     *)
(* fragment: the periods follow each other without overlap whatever was     *)
(* downloaded on the way, the segments of a stream are those the manifest   *)
(* lists whichever layer and order it lists them in, and every operation    *)
(* between periods, ids and representations lands in the one asked for.     *)
ManifestRight == part = "mpd" => MpdTypeOK /\ MpdTrue
=============================================================================
