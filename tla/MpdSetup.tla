------------------------------- MODULE MpdSetup -------------------------------
(***************************************************************************)
(* The client side of gst/dvrdashdemux/gstmpdparser.c: the list of periods *)
(* it builds as far as it is asked to, with the elements it downloads on   *)
(* the way, the streams it sets up in a period and the list of segments of *)
(* their Representation.                                                   *)
(*                                                                         *)
(* Every time counts milliseconds.                                         *)
(***************************************************************************)
EXTENDS MpdParse

S == INSTANCE MpdSegments

CONSTANTS
  Manifests,  \* a sequence of [doc, twin, remote, anchor, delay]: the XML, another one that
              \* says the same, what each href downloads: [name, children],
              \* and the anchor of its URI, <<>> or <<[period, start]>>, and
              \* the property presentation-delay (delay)
  MpdTimes,   \* the times that are asked for
  MpdIds,     \* the ids of periods that are asked for
  MaxMpdAsked

VARIABLE mpd
mpdVars == <<mpd>>

Zero == "urn:mpeg:dash:resolve-to-zero:2013"
NoMpd == [of |-> 0, root |-> <<>>, remote |-> <<>>, periods |-> <<>>, at |-> 0,
          streams |-> <<>>, outs |-> <<>>, pads |-> [k \in {"audio", "video", "application"} |-> 0],
          anchor |-> None, trick |-> FALSE, clock |-> <<>>, asked |-> 0]

-----------------------------------------------------------------------------
(* External elements.  remote maps an href to the element a download gives, *)
(* or has no such href: the download fails.                                 *)
Download(remote, href) ==
  IF href[1].s = Zero \/ href[1].s \notin DOMAIN remote THEN <<>> ELSE <<remote[href[1].s]>>

(* Several Periods may come without a root; any other element drops all of  *)
(* them, one that cannot be parsed only itself.                             *)
FetchPeriods(remote, node) ==
  LET got == Download(remote, node.href)
  IN IF got = <<>> \/ (\E i \in DOMAIN got[1].children : got[1].children[i].name # "Period")
     THEN <<>> ELSE ParseAll(got[1].children, ParsePeriod)

FetchSets(remote, period, set) ==
  LET got == Download(remote, set.href)
      found == IF got = <<>> THEN <<>> ELSE Kids(got[1], "AdaptationSet")
  IN IF Len(found) # 1 THEN <<>> ELSE ParseSet(found[1], period.infos, FALSE)

FetchList(remote, list, parent) ==
  LET got == Download(remote, list.href)
      found == IF got = <<>> THEN <<>> ELSE Kids(got[1], "SegmentList")
  IN IF Len(found) # 1 THEN <<>> ELSE ParseList(found[1], parent, "external")

(* An external node in front is replaced by what it resolves to, until the  *)
(* first one is there.  Also the lists of a loaded manifest's Periods.      *)
RECURSIVE Resolved(_, _)
Resolved(nodes, remote) ==
  IF nodes = <<>> \/ Head(nodes).href = <<>> THEN nodes
  ELSE Resolved(FetchPeriods(remote, Head(nodes)) \o Tail(nodes), remote)

RECURSIVE ResolvedSets(_, _, _, _)
ResolvedSets(sets, period, remote, all) ==
  IF sets = <<>> THEN <<>>
  ELSE IF Head(sets).href # <<>> /\ (all \/ Head(sets).onLoad)
  THEN ResolvedSets(FetchSets(remote, period, Head(sets)) \o Tail(sets), period, remote, all)
  ELSE <<Head(sets)>> \o ResolvedSets(Tail(sets), period, remote, all)

ResolvedList(list, parent, remote, Wanted(_)) ==
  IF list # <<>> /\ list[1].href # <<>> /\ Wanted(list[1])
  THEN FetchList(remote, list[1], parent) ELSE list

(* gst_mpd_client_fetch_on_load_external_resources.                         *)
OnLoadList(infos, parent, remote) ==
  [infos EXCEPT !.list = ResolvedList(@, parent, remote, LAMBDA x : x.onLoad)]

LoadedRep(rep, set, remote) ==
  [rep EXCEPT !.infos = OnLoadList(@, set.infos.list, remote)]

WithLoadedReps(set, remote) ==
  [set EXCEPT !.reps = [i \in DOMAIN @ |-> LoadedRep(@[i], set, remote)]]

LoadedSet(set, period, remote) ==
  WithLoadedReps([set EXCEPT !.infos = OnLoadList(@, period.infos.list, remote)], remote)

LoadedSets(sets, period, remote) ==
  [i \in DOMAIN sets |-> LoadedSet(sets[i], period, remote)]

WithLoadedSets(period, remote) ==
  [period EXCEPT !.sets = LoadedSets(ResolvedSets(@, period, remote, FALSE), period, remote)]

LoadedPeriod(period, remote) ==
  WithLoadedSets([period EXCEPT !.infos = OnLoadList(@, <<>>, remote)], remote)

RECURSIVE LoadedNodes(_, _)
LoadedNodes(nodes, remote) ==
  IF nodes = <<>> THEN <<>>
  ELSE IF Head(nodes).href # <<>> /\ Head(nodes).onLoad
  THEN LoadedNodes(FetchPeriods(remote, Head(nodes)) \o Tail(nodes), remote)
  ELSE <<LoadedPeriod(Head(nodes), remote)>> \o LoadedNodes(Tail(nodes), remote)

-----------------------------------------------------------------------------
(* gst_mpd_client_setup_media_presentation.  want: [time, index, id].       *)
ForTime(time) == [time |-> time, index |-> -1, id |-> <<>>]
ForIndex(index) == [time |-> None, index |-> index, id |-> <<>>]
ForId(id) == [time |-> None, index |-> -1, id |-> id]
ForAll == ForTime(None)

FarEnough(p, number, id, want) ==
  \/ want.time # None /\ p.duration # None /\ p.start + p.duration >= want.time
  \/ want.time # None /\ p.start >= want.time
  \/ want.index # -1 /\ number >= want.index
  \/ want.id # <<>> /\ id = want.id

(* Where the first node of todo starts, None if the list ends before it.    *)
(* duration is that of the period before, still that of an earlier one if   *)
(* the period before has none of its own.                                   *)
StartOf(m, todo, made, start, duration) ==
  IF todo[1].start # None THEN
    IF made # <<>> /\ start >= todo[1].start THEN None ELSE todo[1].start
  ELSE IF duration # None THEN start + duration
  ELSE IF made = <<>> /\ ~m.root[1].dynamic THEN 0
  ELSE IF m.root[1].dynamic THEN start ELSE None

Positive(n) == IF n > 0 THEN <<n>> ELSE <<>>

DurationOf(m, node, rest, start, duration) ==
  LET Unspecified == IF m.root[1].dynamic THEN <<duration>> ELSE <<>>
  IN IF rest # <<>> THEN
       IF rest[1].start # None THEN Positive(rest[1].start - start)
       ELSE IF node.duration # None THEN Positive(node.duration)
       ELSE Unspecified
     ELSE IF m.root[1].total # None THEN Positive(m.root[1].total - start)
     ELSE IF node.duration # None THEN <<node.duration>>
     ELSE Unspecified

(* done: the nodes of made; todo: those that follow, the first resolved;    *)
(* rest: those behind it, their first resolved.                             *)
RECURSIVE BuildOn(_, _, _, _, _, _, _)
BuildWith(m, done, todo, rest, made, from, long, want) ==
  LET Stopped(nodes, periods) == [m EXCEPT !.root[1].nodes = nodes, !.periods = periods]
      period == [start |-> from, duration |-> long[1]]
  IN IF from = None THEN Stopped(done \o todo, made)
     ELSE IF long = <<>> THEN Stopped(done \o <<todo[1]>> \o rest, made)
     ELSE IF FarEnough(period, Len(made), todo[1].id, want)
     THEN Stopped(done \o <<todo[1]>> \o rest, Append(made, period))
     ELSE BuildOn(m, Append(done, todo[1]), rest, Append(made, period), from, long[1], want)

BuildFrom(m, done, todo, rest, made, from, duration, want) ==
  BuildWith(m, done, todo, rest, made, from, DurationOf(m, todo[1], rest, from, duration), want)

BuildOn(m, done, todo, made, start, duration, want) ==
  IF todo = <<>> THEN [m EXCEPT !.root[1].nodes = done, !.periods = made]
  ELSE BuildFrom(m, done, todo, Resolved(Tail(todo), m.remote), made,
                 StartOf(m, todo, made, start, duration), duration, want)

Reaches(m, want) ==
  \E i \in DOMAIN m.periods : FarEnough(m.periods[i], i - 1, m.root[1].nodes[i].id, want)

SetUp(m, want) ==
  IF Reaches(m, want) THEN m
  ELSE IF m.root[1].total = 0 THEN [m EXCEPT !.periods = <<>>]
  ELSE BuildOn(m, <<>>, Resolved(m.root[1].nodes, m.remote), <<>>, 0, None, want)

(* The period that holds a time: none at the end of the last one built.     *)
IndexAt(m, time) ==
  LET in == {i \in DOMAIN m.periods :
               /\ m.periods[i].start <= time
               /\ m.periods[i].duration = None \/ m.periods[i].start + m.periods[i].duration > time}
  IN IF in = {} THEN -1 ELSE (CHOOSE i \in in : \A j \in in : i <= j) - 1

(* gst_dash_demux_seek: the end of a period still belongs to it; a period   *)
(* whose end is not known holds no time, unless it starts at 0.             *)
SeekIndex(m, time) ==
  LET in == {i \in DOMAIN m.periods :
               /\ m.periods[i].start <= time
               /\ IF m.periods[i].duration = None THEN m.periods[i].start = 0
                  ELSE time <= m.periods[i].start + m.periods[i].duration}
  IN IF in = {} THEN -1 ELSE (CHOOSE i \in in : \A j \in in : i <= j) - 1

(* gst_mpd_client_parse_mpd_anchor: the period of the anchor and the time   *)
(* counted from the start of the presentation.  <<>> if it is refused.      *)
Anchored(m, anchor) ==
  LET id == IF anchor.period # <<>> THEN anchor.period ELSE m.root[1].nodes[1].id
      named == {i \in DOMAIN m.periods : m.root[1].nodes[i].id = id}
      base == CHOOSE i \in named : \A j \in named : i <= j
      time == m.periods[base].start + anchor.start
      holds == {i \in base .. Len(m.periods) :
                  m.periods[i].duration = None \/ time < m.periods[i].start + m.periods[i].duration}
  IN IF m.periods = <<>> THEN <<>>
     ELSE IF id = <<>> THEN <<[index |-> 0, time |-> anchor.start]>>
     ELSE IF named = {} \/ holds = {} THEN <<>>
     ELSE <<[index |-> (CHOOSE i \in holds : \A j \in holds : i <= j) - 1, time |-> time]>>

-----------------------------------------------------------------------------
(* Streams: [set, rep, ok, single, list, template, base, segments, listed,  *)
(* offset, url, index, repeat].  set and rep count from 1; list, template and base   *)
(* are those of the last Representation that had one; single: it has a base *)
(* or a list.                                                               *)
Period(m) == m.periods[m.at + 1]
Node(m) == m.root[1].nodes[m.at + 1]
SetOf(m, s) == Node(m).sets[s.set]
RepOf(m, s) == SetOf(m, s).reps[s.rep]

Scaled(n, scale) == (n * 1000) \div scale

MediaSegment(number, start, duration, repeat) ==
  [number |-> number, start |-> start, duration |-> duration, repeat |-> repeat]

AddS_KeepsNumber(acc, s, scale) ==
  LET at == IF s.t > 0 THEN Scaled(s.t, scale) ELSE acc.time
  IN [number |-> acc.number + 1, time |-> at + Scaled(s.d, scale) * (s.r + 1),
      made |-> Append(acc.made, MediaSegment(acc.number, at, Scaled(s.d, scale), s.r))]

(* The entries of a SegmentTimeline, one segment each.                      *)
AddS(acc, s, scale) ==
  LET at == IF s.t > 0 THEN Scaled(s.t, scale) ELSE acc.time
  IN [number |-> acc.number + s.r + 1, time |-> at + Scaled(s.d, scale) * (s.r + 1),
      made |-> Append(acc.made, MediaSegment(acc.number, at, Scaled(s.d, scale), s.r))]

OfTimeline(mult) ==
  FoldLeft(LAMBDA acc, s : AddS(acc, s, mult.base[1].scale),
           [number |-> mult.first, time |-> 0, made |-> <<>>], mult.timeline[1]).made

OfUrls(list) ==
  LET d == Scaled(list.mult.duration, list.mult.base[1].scale)
  IN [i \in DOMAIN list.urls |-> MediaSegment(list.mult.first + i - 1, (i - 1) * d, d, 0)]

WholePeriod(m) == <<MediaSegment(1, 0, Period(m).duration, 0)>>

(* Clips the segments to the period; the first one nothing is left of ends  *)
(* the list.                                                                *)
Clipped_(segments, length) ==
  LET Over(n) == segments[n].start + segments[n].duration > length
      Stop(n) == IF n < Len(segments) /\ segments[n + 1].start < length
                 THEN segments[n + 1].start ELSE length
      Left(n) == IF ~Over(n) THEN segments[n].duration
                 ELSE IF segments[n].start > Stop(n) THEN 0 ELSE Stop(n) - segments[n].start
      empty == {n \in DOMAIN segments : Over(n) /\ Left(n) = 0}
      kept == IF empty = {} THEN Len(segments) ELSE (CHOOSE n \in empty : \A k \in empty : n <= k) - 1
  IN [n \in 1 .. kept |-> [segments[n] EXCEPT !.duration = Left(n)]]

(* gst_mpdparser_get_segment_base: SegmentBases first, then those inside    *)
(* SegmentLists, of the nearest level that has one.                         *)
NearestBase(infos) ==
  LET with == SelectSeq(infos, LAMBDA i : i.base # <<>>)
      lists == SelectSeq(infos, LAMBDA i : i.list # <<>>)
  IN IF with # <<>> THEN with[1].base
     ELSE IF lists # <<>> THEN lists[1].list[1].mult.base ELSE <<>>

(* gst_mpdparser_get_segment_list: an external one is downloaded, and kept  *)
(* where it stood.                                                          *)
TheList(m, infos) ==
  LET level == IF infos[1].list # <<>> THEN 1 ELSE IF infos[2].list # <<>> THEN 2 ELSE 3
  IN ResolvedList(infos[level].list, IF level = 3 THEN <<>> ELSE infos[level + 1].list,
                  m.remote, LAMBDA x : TRUE)

Url(urls, up) ==
  IF urls = <<>> THEN up ELSE IF urls[1][1].s = "http" THEN urls[1] ELSE up \o urls[1]

BaseUrl(m, set, rep) == Url(rep.urls, Url(set.urls, Url(Node(m).urls, Url(m.root[1].urls, <<>>))))

(* The list, the template or the base of a stream whose Representation is   *)
(* the k-th of its set; without one of its own the stream keeps the last.   *)
WithInfos(m, s, k) ==
  LET rep == SetOf(m, s).reps[k]
      infos == <<rep.infos, SetOf(m, s).infos, Node(m).infos>>
      templates == SelectSeq(infos, LAMBDA i : i.template # <<>>)
  IN IF rep.infos.base # <<>> \/ rep.infos.list # <<>>
     THEN [s EXCEPT !.rep = k, !.single = TRUE, !.list = TheList(m, infos),
                    !.base = NearestBase(infos)]
     ELSE [s EXCEPT !.rep = k, !.single = FALSE,
                    !.template = IF templates # <<>> THEN templates[1].template ELSE @]

Source(s) == IF s.single THEN s.list ELSE s.template
Timed(s) == Source(s) # <<>> /\ Source(s)[1].mult.timeline # <<>>

Listed(m, s) ==
  IF Source(s) = <<>> THEN WholePeriod(m)
  ELSE IF Timed(s) THEN OfTimeline(Source(s)[1].mult)
  ELSE IF s.single THEN OfUrls(s.list[1]) ELSE <<>>

EnoughUrls(s) ==
  ~s.single \/ s.list = <<>>
  \/ (s.list[1].urls # <<>>
      /\ (Timed(s) => Len(s.list[1].urls) >= Len(s.list[1].mult.timeline[1])))

OffsetOf(s) ==
  LET used == IF s.list # <<>> THEN s.list[1].mult.base
              ELSE IF s.template # <<>> THEN s.template[1].mult.base ELSE s.base
  IN IF used = <<>> THEN 0 ELSE Scaled(used[1].offset, used[1].scale)

WithSegments(m, s, ok, made) ==
  [s EXCEPT !.ok = ok, !.listed = s.single \/ Source(s) = <<>> \/ Timed(s),
            !.segments = IF Period(m).duration = None \/ made = <<>> \/ ~ok THEN made
                         ELSE Clipped_(made, Period(m).duration),
            !.offset = OffsetOf(s), !.url = BaseUrl(m, SetOf(m, s), RepOf(m, s))]

Filled(m, s) == WithSegments(m, s, EnoughUrls(s), Listed(m, s))

(* gst_mpd_client_setup_representation.                                     *)
SetupRepresentation(m, s, k) == Filled(m, WithInfos(m, s, k))

(* The list an external SegmentList became stands in the manifest from now  *)
(* on, where the Representation, its set or the Period had it.              *)
Keeps(m, s) ==
  LET infos == <<RepOf(m, s).infos, SetOf(m, s).infos, Node(m).infos>>
  IN IF infos[1].base = <<>> /\ infos[1].list = <<>> THEN m
     ELSE IF infos[1].list # <<>>
     THEN [m EXCEPT !.root[1].nodes[m.at + 1].sets[s.set].reps[s.rep].infos.list = s.list]
     ELSE IF infos[2].list # <<>>
     THEN [m EXCEPT !.root[1].nodes[m.at + 1].sets[s.set].infos.list = s.list]
     ELSE [m EXCEPT !.root[1].nodes[m.at + 1].infos.list = s.list]

PutStream(m, i, s) ==
  Keeps([m EXCEPT !.streams = IF i > Len(@) THEN Append(@, s) ELSE [@ EXCEPT ![i] = s]], s)

(* gst_mpdparser_get_lowest_representation, .._rep_idx_with_max_bandwidth.  *)
LowestOf(reps) ==
  CHOOSE i \in DOMAIN reps : \A j \in DOMAIN reps :
    reps[i].bandwidth < reps[j].bandwidth \/ (reps[i].bandwidth = reps[j].bandwidth /\ i <= j)

BestFor(reps, bandwidth, width) ==
  LET fit == {i \in DOMAIN reps : /\ reps[i].bandwidth \in 1 .. bandwidth
                                  /\ width > 0 => reps[i].base.width <= width}
  IN IF bandwidth <= 0 THEN LowestOf(reps)
     ELSE IF fit = {} THEN 0
     ELSE CHOOSE i \in fit : \A j \in fit :
            reps[i].bandwidth > reps[j].bandwidth
            \/ (reps[i].bandwidth = reps[j].bandwidth /\ i <= j)

MimeOf(set, rep) == IF rep.base.mime # <<>> THEN rep.base.mime ELSE set.base.mime
KnownMimes == {"audio", "video", "application", "text"}

(* gst_mpd_client_setup_streaming: a stream whose Representation cannot be  *)
(* set up stays in the list of active streams.                              *)
AddStream_(m, j) ==
  LET set == Node(m).sets[j]
      s == [set |-> j, rep |-> 1, ok |-> TRUE, list |-> <<>>, template |-> <<>>, base |-> <<>>,
            single |-> TRUE, segments |-> <<>>, listed |-> TRUE, offset |-> 0, url |-> <<>>, index |-> 0, repeat |-> 0]
      low == LowestOf(set.reps)
  IN IF set.reps = <<>> \/ MimeOf(set, set.reps[low]) = <<>>
        \/ MimeOf(set, set.reps[low])[1].s \notin KnownMimes
     THEN m
     ELSE PutStream(m, Len(m.streams) + 1, SetupRepresentation(m, s, low))

-----------------------------------------------------------------------------
(* What a stream says of itself.                                            *)
AsList(m, s) ==
  [segments |-> s.segments,
   duration |-> IF s.template = <<>> THEN 0
                ELSE Scaled(s.template[1].mult.duration, s.template[1].mult.base[1].scale),
   start |-> Period(m).start, length |-> Period(m).duration]

Counted(m, s) == IF s.listed THEN Len(s.segments) ELSE S!Count(AsList(m, s))

(* gst_mpd_client_get_next_header and .._next_header_index: the range of    *)
(* the header, without one everything in front of the index.                *)
Header(s) ==
  IF s.base = <<>> THEN <<>>
  ELSE IF s.base[1].init # <<>> THEN s.base[1].init[1].range
  ELSE IF s.base[1].index # <<>> THEN <<[first |-> 0, last |-> s.base[1].index[1].first - 1]>>
  ELSE <<>>

HeaderIndex(s) == IF s.base = <<>> THEN <<>> ELSE s.base[1].index

(* gst_mpdparser_build_URL_from_template: identifiers that are not known,   *)
(* or a format without its "d", make no URL.                                *)
Identifier(token, rep, number, time) ==
  CASE token.s = "RepresentationID" -> rep.id
    [] token.s = "Number" -> <<[n |-> number, s |-> "", digits |-> token.digits]>>
    [] token.s = "Bandwidth" -> <<[n |-> rep.bandwidth, s |-> "", digits |-> token.digits]>>
    [] token.s = "Time" -> <<[n |-> time, s |-> "", digits |-> token.digits]>>
    [] OTHER -> <<token>>

UrlFrom(text, rep, number, time) ==
  IF \E i \in DOMAIN text : text[i].s = "$invalid" THEN <<>>
  ELSE FlattenSeq([i \in DOMAIN text |-> Identifier(text[i], rep, number, time)])

(* The URL of a segment of a template and its repetition.                   *)
SegmentUrlOf(m, s, n, k) ==
  LET segment == s.segments[n]
  IN UrlFrom(s.template[1].media, RepOf(m, s), segment.number + k,
             segment.start + k * segment.duration)

(* gst_mpd_client_get_video_stream_*, _stream_caps, the languages: the      *)
(* Representation first, its set if it says nothing; the frame rate of the  *)
(* set first.                                                               *)
WidthOf(m, s) ==
  IF RepOf(m, s).base.width # 0 THEN RepOf(m, s).base.width ELSE SetOf(m, s).base.width

HeightOf(m, s) ==
  IF RepOf(m, s).base.height # 0 THEN RepOf(m, s).base.height ELSE SetOf(m, s).base.height

Largest(own, sizes, otherwise) ==
  IF own # 0 THEN own
  ELSE IF sizes # {} /\ (\E n \in sizes : n > 0) THEN CHOOSE n \in sizes : \A k \in sizes : k <= n
  ELSE otherwise

MaxWidthOf(m, s) ==
  Largest(SetOf(m, s).maxWidth,
          {SetOf(m, s).reps[i].base.width : i \in DOMAIN SetOf(m, s).reps}, WidthOf(m, s))

MaxHeightOf(m, s) ==
  Largest(SetOf(m, s).maxHeight,
          {SetOf(m, s).reps[i].base.height : i \in DOMAIN SetOf(m, s).reps}, HeightOf(m, s))

FirstOf(options) ==
  LET given == SelectSeq(options, LAMBDA o : o # <<>>)
  IN IF given = <<>> THEN <<>> ELSE given[1]

RateOf(m, s) == FirstOf(<<SetOf(m, s).base.rate, SetOf(m, s).base.maxRate,
                          RepOf(m, s).base.rate, RepOf(m, s).base.maxRate>>)

MaxRateOf(m, s) ==
  LET rates == {SetOf(m, s).reps[i].base.rate : i \in DOMAIN SetOf(m, s).reps} \ {<<>>}
      Faster(a, b) == a[1].num * b[1].den >= b[1].num * a[1].den
  IN FirstOf(<<SetOf(m, s).base.maxRate, RepOf(m, s).base.maxRate,
               IF rates = {} THEN <<>> ELSE CHOOSE a \in rates : \A b \in rates : Faster(a, b),
               SetOf(m, s).base.rate, RepOf(m, s).base.rate>>)

SamplingOf(m, s) == FirstOf(<<RepOf(m, s).base.sampling, SetOf(m, s).base.sampling>>)

Subtitles(m, s) ==
  LET mime == MimeOf(SetOf(m, s), RepOf(m, s))
      Stpp(base) == base.codecs # <<>> /\ base.codecs[1].s = "stpp"
  IN \/ Len(mime) > 1 /\ mime[2].s \in {"ttml", "vtt"}
     \/ Stpp(SetOf(m, s).base) \/ Stpp(RepOf(m, s).base)

(* gst_dash_demux_create_pad: an application stream without subtitles has   *)
(* no pad.                                                                  *)
HasPad(m, s) == MimeOf(SetOf(m, s), RepOf(m, s))[1].s # "application" \/ Subtitles(m, s)

(* What create_pad, get_input_caps and the flags make of a stream.          *)
Kind(m, s) ==
  LET kind == MimeOf(SetOf(m, s), RepOf(m, s))[1].s
  IN IF kind = "text" THEN "application" ELSE kind

CapsOf(m, s) ==
  [mime |-> MimeOf(SetOf(m, s), RepOf(m, s)), width |-> WidthOf(m, s), height |-> HeightOf(m, s),
   rate |-> RateOf(m, s), sampling |-> SamplingOf(m, s),
   maxWidth |-> MaxWidthOf(m, s), maxHeight |-> MaxHeightOf(m, s), maxRate |-> MaxRateOf(m, s)]

Main(role) ==
  /\ role.scheme # <<>> /\ role.scheme[1].s = "urn:mpeg:dash:role:2011"
  /\ role.value # <<>> /\ role.value[1].s = "main"

(* The language of the set, or the first one of its components.             *)
LanguageOf(set) ==
  FirstOf(<<set.lang>> \o [i \in DOMAIN set.components |-> set.components[i].lang])

(* The events of the ContentProtections of the set that name a system by    *)
(* its UUID.                                                                *)
ProtectionOf(set) ==
  SelectSeq(set.base.protection, LAMBDA p : p.scheme # <<>> /\ p.scheme[1].s = "urn:uuid:")

(* gst_dash_demux_setup_all_streams: every set of the period, the external  *)
(* ones resolved first; then a stream of the demuxer for each that has a    *)
(* pad, without those of audio in a trick mode that leaves it out.          *)
AddOutput(m, i) ==
  LET s == m.streams[i]
      kind == Kind(m, s)
      same == SelectSeq(m.outs, LAMBDA o : o.kind = kind)
  IN IF (m.trick /\ kind = "audio") \/ ~HasPad(m, s) THEN m
     ELSE [m EXCEPT !.pads[kind] = @ + 1,
                    !.outs = Append(@,
            [stream |-> i, kind |-> kind, pad |-> m.pads[kind], track |-> Len(same),
             lang |-> LanguageOf(SetOf(m, s)), caps |-> CapsOf(m, s),
             events |-> ProtectionOf(SetOf(m, s)), sparse |-> kind = "application",
             default |-> s.ok /\ \E r \in DOMAIN SetOf(m, s).roles : Main(SetOf(m, s).roles[r])])]

WithOutputs(m) ==
  FoldLeft(AddOutput, m, [i \in DOMAIN m.streams |-> i])

WithSets(m, sets) ==
  WithOutputs(FoldLeft(AddStream_,
                       [m EXCEPT !.streams = <<>>, !.outs = <<>>,
                                 !.root[1].nodes[m.at + 1].sets = sets],
                       [j \in DOMAIN sets |-> j]))

WithStreams(m) == WithSets(m, ResolvedSets(Node(m).sets, Node(m), m.remote, TRUE))

(* gst_mpd_client_get_next_segment_availability_start_time: None if the     *)
(* manifest does not say when it is available.                              *)
Available(m, s) ==
  LET segment == s.segments[s.index + 1]
      end == IF ~s.listed THEN (1 + s.index) * AsList(m, s).duration
             ELSE IF segment.repeat >= 0 THEN segment.start + (s.repeat + 1) * segment.duration
             ELSE S!SegmentEnd(AsList(m, s), s.index)
  IN IF m.root[1].available = <<>> THEN None
     ELSE m.root[1].available[1] * 60000 + Period(m).start + end

(* gst_mpd_client_parse_default_presentation_delay: in fragments the delay  *)
(* of a manifest that does not say how long they are is negative.           *)
Delay(m, text) ==
  IF m.root[1].suggested # None THEN m.root[1].suggested
  ELSE IF ~Reads(text) THEN 0
  ELSE IF text[1].s \in {"s", "S"} THEN 1000 * text[1].n
  ELSE IF text[1].s \in {"f", "F"} THEN text[1].n * m.root[1].longest
  ELSE IF text[1].s \in {"ms", "m", "M"} THEN text[1].n ELSE 0

SupportedClocks == {"ntp", "head", "xsdate", "iso", "http-ntp"}
TimingSource(m, methods) ==
  FirstOf([i \in DOMAIN m.root[1].timing |->
            IF m.root[1].timing[i].method \in methods THEN m.root[1].timing[i].urls ELSE <<>>])

-----------------------------------------------------------------------------
(* The demuxer's calls.                                                     *)
EachStream(m, At(_)) == [m EXCEPT !.streams = [i \in DOMAIN m.streams |-> At(m.streams[i])]]

ToFirst(m) == EachStream(m, LAMBDA s : [s EXCEPT !.index = 0, !.repeat = 0])

ToLast(m) ==
  EachStream(m, LAMBDA s : [s EXCEPT !.repeat = 0,
    !.index = IF Counted(m, s) > 1 THEN Counted(m, s) - 1 ELSE 0])

StandsAt(s, p) == [s EXCEPT !.index = p.index, !.repeat = p.repeat]

ToTime(m, time) ==
  EachStream(m, LAMBDA s : IF s.listed /\ s.segments = <<>> THEN s
                           ELSE StandsAt(s, S!Seek(AsList(m, s), TRUE, time).at))

(* gst_dash_demux_process_manifest with gst_mpd_parse.  lost: the downloads *)
(* that fail.                                                               *)
OpenedAs(i, parsed, remote) ==
  LET m == [NoMpd EXCEPT !.of = i, !.root = parsed, !.remote = remote]
  IN IF parsed = <<>> THEN m
     ELSE SetUp([m EXCEPT !.root[1].nodes = LoadedNodes(@, remote)],
                [ForTime(0) EXCEPT !.index = 0])

Opened(i, doc, lost) ==
  OpenedAs(i, ParseRoot(doc),
           [h \in DOMAIN Manifests[i].remote \ lost |-> Manifests[i].remote[h]])

(* gst_mpd_client_set_period_index, and the streams of the period.          *)
Entered(m, index) ==
  IF index \in 0 .. Len(m.periods) - 1 THEN WithStreams([m EXCEPT !.at = index]) ELSE m

InPeriod(m, index) == Entered(SetUp(m, ForIndex(index)), index)

(* gst_dash_demux_setup_streams: where a live presentation begins, and one  *)
(* on demand with an anchor or without.                                     *)
StartLive(far, now) == <<far, IndexAt(far, now), now>>

StartAt(m, all, anchor) ==
  <<all, IF anchor # <<>> THEN anchor[1].index ELSE 0,
    IF anchor # <<>> THEN anchor[1].time ELSE None>>

StartOnDemand(m, all) == StartAt(m, all, Anchored(all, Manifests[m.of].anchor[1]))

StartingPoint(m, now) ==
  IF m.root[1].dynamic THEN StartLive(SetUp(m, ForTime(now)), now)
  ELSE IF Manifests[m.of].anchor = <<>> THEN <<m, 0, None>>
  ELSE StartOnDemand(m, SetUp(m, ForAll))

(* The positions of a stream on demand are those of the first segments,     *)
(* also after the seek to the anchor.                                       *)
Positioned(far, in, time) ==
  IF in.streams = <<>> THEN far
  ELSE IF in.root[1].dynamic
  THEN [ToTime(in, time) EXCEPT !.clock = TimingSource(in, SupportedClocks)]
  ELSE [ToFirst(IF time = None THEN in ELSE ToTime(in, time)) EXCEPT !.anchor = time]

StartedIn(from) ==
  IF from[2] = -1 THEN from[1]
  ELSE Positioned(from[1], InPeriod(from[1], from[2]), from[3])

Started_(m, clock) ==
  IF m.root[1].dynamic /\ m.root[1].available = <<>> THEN m
  ELSE StartedIn(StartingPoint(m, clock - Delay(m, Manifests[m.of].delay)))

Ready == mpd.root # <<>> /\ mpd.periods # <<>>
Ask == mpd.asked < MaxMpdAsked
Asked(m) == mpd' = [m EXCEPT !.asked = mpd.asked + 1]

OpenManifest ==
  /\ mpd.of = 0
  /\ \E i \in DOMAIN Manifests : \E lost \in SUBSET DOMAIN Manifests[i].remote :
       mpd' = Opened(i, Manifests[i].doc, lost)

StartStreams ==
  /\ Ready /\ mpd.asked = 0
  /\ \E now \in MpdTimes : Asked(Started_(mpd, now))

(* gst_dash_demux_advance_period after has_next_period: nothing changes if  *)
(* there is no such period.                                                 *)
AtItsEdge(m, index, forward) ==
  IF m.at # index THEN m
  ELSE [IF forward THEN ToFirst(m) ELSE ToLast(m) EXCEPT !.anchor = None]

MovedTo(index, forward) == AtItsEdge(InPeriod(mpd, index), index, forward)

AdvancePeriod ==
  /\ Ready /\ Ask /\ mpd.streams # <<>>
  /\ \E forward \in BOOLEAN : Asked(MovedTo(IF forward THEN mpd.at + 1 ELSE mpd.at - 1, forward))

(* The part of gst_dash_demux_seek that finds the period: its streams are   *)
(* made again when it is another one, when the trick mode changes what they *)
(* are, and when they are not exposed yet (again).                          *)
SoughtAt(far, index, time, trick, again) ==
  IF index = -1 THEN far
  ELSE [ToTime(IF index = far.at /\ trick = far.trick /\ ~again THEN far
               ELSE InPeriod([far EXCEPT !.trick = trick], index), time)
         EXCEPT !.anchor = None]

SoughtIn(far, time, trick, again) == SoughtAt(far, SeekIndex(far, time), time, trick, again)

SeekInPeriods ==
  /\ Ready /\ Ask /\ mpd.streams # <<>>
  /\ \E time \in MpdTimes, trick, again \in BOOLEAN :
       Asked(SoughtIn(SetUp(mpd, ForTime(time)), time, trick, again))

(* gst_mpd_client_set_period_id, as for an updated manifest.                *)
InNamed(far, id) ==
  LET named == {i \in DOMAIN far.periods : far.root[1].nodes[i].id = id}
  IN IF named = {} THEN far
     ELSE WithStreams([far EXCEPT !.at = (CHOOSE i \in named : \A j \in named : i <= j) - 1,
                                  !.anchor = None])

SetPeriodId ==
  /\ Ready /\ Ask
  /\ \E id \in MpdIds : Asked(InNamed(SetUp(mpd, ForId(id)), id))

(* gst_dash_demux_stream_select_bitrate: the streams of the manifest switch *)
(* to the best Representation for a bandwidth.                              *)
SwitchRepresentation ==
  /\ Ready /\ Ask
  /\ \E i \in DOMAIN mpd.streams, bandwidth \in {0, 500, 1000} :
       LET s == mpd.streams[i]
           best == BestFor(SetOf(mpd, s).reps, bandwidth, 0)
           k == IF best = 0 THEN LowestOf(SetOf(mpd, s).reps) ELSE best
       IN k # s.rep /\ Asked(PutStream(mpd, i, SetupRepresentation(mpd, s, k)))

MpdInit == mpd = NoMpd
MpdNext ==
  \/ OpenManifest \/ StartStreams \/ AdvancePeriod \/ SeekInPeriods
  \/ SetPeriodId \/ SwitchRepresentation
MpdSpec == MpdInit /\ [][MpdNext]_mpdVars

-----------------------------------------------------------------------------
(* Types.                                                                   *)
MpdTypeOK ==
  /\ mpd.of \in 0 .. Len(Manifests) /\ mpd.asked \in 0 .. MaxMpdAsked /\ mpd.at \in Nat
  /\ \A i \in DOMAIN mpd.periods : mpd.periods[i].start \in Nat
                                   /\ mpd.periods[i].duration \in Nat \cup {None}
  /\ \A i \in DOMAIN mpd.streams : mpd.streams[i].index \in Nat /\ mpd.streams[i].repeat \in Nat

(* In whatever order periods are asked for, and whatever was downloaded on  *)
(* the way, the list built so far is the beginning of the whole list, its   *)
(* periods follow each other without a gap, and the current one is in it    *)
(* (setup_media_presentation frees and rebuilds the list that period_idx    *)
(* points into).                                                            *)
PeriodsTrue ==
  Ready =>
    /\ mpd.at < Len(mpd.periods)
    /\ \A i \in 1 .. Len(mpd.periods) - 1 : LET p == mpd.periods[i] IN
         p.duration # None => p.duration > 0 /\ mpd.periods[i + 1].start = p.start + p.duration
    /\ IsPrefix(mpd.periods, BuildOn(mpd, <<>>, Resolved(mpd.root[1].nodes, mpd.remote),
                                     <<>>, 0, None, ForAll).periods)

(* The segments of a stream follow each other inside their period, no two   *)
(* of them, counting the repetitions, have the same number or the same URL, *)
(* and a later one is not available earlier; the header ends where the      *)
(* index starts (setup_representation, get_segment_url, get_next_header,    *)
(* get_next_segment_availability_start_time).                               *)
SegmentsTrue ==
  \A i \in DOMAIN mpd.streams :
    LET s == mpd.streams[i]
        length == Period(mpd).duration
    IN /\ \A n \in DOMAIN s.segments : LET g == s.segments[n] IN
            /\ length # None => g.duration > 0 /\ g.start + g.duration <= length
            /\ n < Len(s.segments) =>
                 /\ g.start + g.duration * (g.repeat + 1) <= s.segments[n + 1].start
                 /\ g.number + g.repeat + 1 = s.segments[n + 1].number
            /\ \A k \in 1 .. n - 1 : /\ s.template # <<>> => SegmentUrlOf(mpd, s, k, 0) # SegmentUrlOf(mpd, s, n, 0)
                                    /\ Available(mpd, [s EXCEPT !.index = k - 1])
                                         <= Available(mpd, [s EXCEPT !.index = n - 1])
       /\ Header(s) # <<>> /\ HeaderIndex(s) # <<>> => Header(s)[1].last < HeaderIndex(s)[1].first

(* Whatever periods were entered, the demuxer's streams are those of the    *)
(* current one: each belongs to an active stream of its kind, no two have   *)
(* the same active stream, pad or track, and whatever Representation is     *)
(* switched to, it is not larger than the pad was told.                     *)
OutputsTrue ==
  \A o \in DOMAIN mpd.outs : LET out == mpd.outs[o] IN
    /\ out.stream \in DOMAIN mpd.streams
    /\ LET s == mpd.streams[out.stream] IN
         /\ Kind(mpd, s) = out.kind
         /\ WidthOf(mpd, s) <= out.caps.maxWidth /\ HeightOf(mpd, s) <= out.caps.maxHeight
         /\ LanguageOf(SetOf(mpd, s)) = out.lang
    /\ \A p \in 1 .. o - 1 : LET other == mpd.outs[p] IN
         /\ other.stream # out.stream
         /\ other.kind = out.kind => other.pad # out.pad /\ other.track # out.track

(* A value that is spelled out where it is used and one that is inherited,  *)
(* children in another order and another spelling of a duration make the    *)
(* same manifest (the comments on inheritance at 1729 and in the parsers    *)
(* of AdaptationSet and Period).                                            *)
Said(root) ==
  [total |-> root[1].total, dynamic |-> root[1].dynamic, available |-> root[1].available,
   nodes |-> [i \in DOMAIN root[1].nodes |-> LET p == root[1].nodes[i] IN
     [start |-> p.start, duration |-> p.duration,
      sets |-> [j \in DOMAIN p.sets |-> LET set == p.sets[j] IN
        [reps |-> [k \in DOMAIN set.reps |->
          [infos |-> Nearest(set.reps[k].infos, Nearest(set.infos, p.infos)),
           mime |-> MimeOf(set, set.reps[k])]]]]]]]

SameMeaning ==
  mpd.of # 0 /\ mpd.root # <<>> =>
    Said(ParseRoot(Manifests[mpd.of].doc)) = Said(ParseRoot(Manifests[mpd.of].twin))

MpdTrue == PeriodsTrue /\ SegmentsTrue /\ OutputsTrue /\ SameMeaning

(* A stream that starts at an MPD anchor starts at the segment that holds   *)
(* its time.                                                                *)
AnchorHonoured ==
  mpd.anchor # None =>
    \A i \in DOMAIN mpd.streams :
      ToTime(mpd, mpd.anchor).streams[i].index = mpd.streams[i].index
=============================================================================
