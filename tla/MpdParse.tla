------------------------------- MODULE MpdParse -------------------------------
(***************************************************************************)
(* The manifest as gst/dvrdashdemux/gstmpdparser.c reads it: properties of *)
(* the XML nodes, the nodes themselves and what a Representation inherits  *)
(* from its AdaptationSet and its Period.                                  *)
(*                                                                         *)
(* An XML node is [name, props, children].  The text of a property is a    *)
(* sequence of tokens [n, s, digits]: a number (-1: none) and what follows *)
(* it up to the next digit; <<>> if the node has no such property.  A      *)
(* parsed node that is absent or could not be parsed is <<>>, any other is *)
(* a sequence of one.                                                      *)
(***************************************************************************)
EXTENDS Integers, Sequences, SequencesExt

None == -1   \* GST_CLOCK_TIME_NONE and GST_MPD_DURATION_NONE

Text(node, prop) == IF prop \in DOMAIN node.props THEN node.props[prop] ELSE <<>>
Kids(node, name) == SelectSeq(node.children, LAMBDA kid : kid.name = name)

-----------------------------------------------------------------------------
(* gst_mpdparser_get_xml_prop_*: what cannot be read leaves the default.    *)
Minus(text) == \E i \in DOMAIN text : text[i].s = "-"
Reads(text) == text # <<>> /\ text[1].n >= 0

Unsigned(text, default) ==
  IF Reads(text) /\ ~Minus(text) THEN text[1].n ELSE default

Signed(text, default) ==
  IF Reads(text) THEN text[1].n
  ELSE IF Len(text) > 1 /\ text[1].s = "-" THEN -text[2].n
  ELSE default

(* The whole vector is dropped if one of its numbers is not one.            *)
Vector(text) ==
  IF \E i \in DOMAIN text : text[i].n < 0 THEN <<>>
  ELSE [i \in DOMAIN text |-> text[i].n]

(* Only the words "true" and "false": the "1" of an xs:boolean is refused.  *)
Boolean(text, default) ==
  IF text = <<>> \/ text[1].s \notin {"true", "false"} THEN default
  ELSE text[1].s = "true"

Dynamic(text) == text # <<>> /\ text[1].s \in {"Live", "dynamic"}

SapType(text) == IF Reads(text) /\ text[1].n <= 6 THEN text[1].n ELSE 0

(* "first-last", "first-" or "-last".                                       *)
ByteRange(text) ==
  LET at == {i \in DOMAIN text : text[i].s = "-"}
      dash == CHOOSE i \in at : TRUE
  IN IF Cardinality(at) # 1 THEN <<>>
     ELSE <<[first |-> IF text[dash].n >= 0 THEN text[dash].n ELSE 0,
             last |-> IF dash < Len(text) THEN text[dash + 1].n ELSE -1]>>

(* A ratio needs its ":", a frame rate may do without its "/".              *)
Fraction(text, sign, needed) ==
  IF text = <<>> \/ Minus(text) \/ (needed /\ text[1].s # sign) THEN <<>>
  ELSE <<[num |-> IF text[1].n >= 0 THEN text[1].n ELSE 0,
          den |-> IF Len(text) > 1 THEN text[2].n ELSE 1]>>

Condition(text) ==
  IF text = <<>> \/ (text[1].n < 0 /\ text[1].s \notin {"true", "false"}) \/ Minus(text)
  THEN <<>>
  ELSE <<[flag |-> text[1].s # "false", value |-> IF text[1].n >= 0 THEN text[1].n ELSE 0]>>

(* A date counts minutes: hour and minute, less the offset of its zone.     *)
DateTime(text) ==
  IF Len(text) < 2 \/ text[1].n < 0 \/ text[2].n < 0 THEN <<>>
  ELSE LET zone == IF Len(text) < 4 THEN 0 ELSE 60 * text[3].n + text[4].n
       IN <<60 * text[1].n + text[2].n - (IF text[2].s = "-" THEN -zone ELSE zone)>>

-----------------------------------------------------------------------------
(* gst_mpdparser_parse_duration, in milliseconds; None if it is refused.    *)
(* The fields keep their order and their ranges, after the T those of the   *)
(* time; a comma or a point makes the next number decimals of the second.   *)
DatePart == <<"Y", "M", "D">>
TimePart == <<"H", "M", "S">>
IndexIn(parts, s) == CHOOSE i \in 1 .. 3 : parts[i] = s

Ordered(fields, parts) ==
  /\ \A i \in DOMAIN fields : fields[i].n >= 0 /\ fields[i].s \in Range(parts)
  /\ \A i, j \in DOMAIN fields :
       i < j => IndexIn(parts, fields[i].s) < IndexIn(parts, fields[j].s)

FieldOf(fields, s) ==
  LET of == SelectSeq(fields, LAMBDA f : f.s = s)
  IN IF of = <<>> THEN 0 ELSE of[1].n

PowerOf10 == [i \in 0 .. 6 |-> <<1, 10, 100, 1000, 10000, 100000, 1000000>>[i + 1]]

(* convert_to_millisecs.                                                    *)
Millisecs(decimals, digits) ==
  IF digits <= 3 THEN decimals * PowerOf10[3 - digits]
  ELSE decimals \div PowerOf10[digits - 3]

Duration_(date, time, decimals) ==
  LET days == 365 * FieldOf(date, "Y") + 30 * FieldOf(date, "M") + FieldOf(date, "D")
      hours == 24 * days + FieldOf(time, "H")
      minutes == 60 * hours + FieldOf(time, "M")
  IN 1000 * (60 * minutes + FieldOf(time, "S")) + decimals

OrderedRanges(date, time) ==
  /\ Ordered(date, DatePart) /\ Ordered(time, TimePart)
  /\ FieldOf(date, "M") < 12 /\ FieldOf(date, "D") < 31
  /\ FieldOf(time, "H") < 24 /\ FieldOf(time, "M") < 60

(* The fields in front of the T and those behind it, where a decimal point  *)
(* makes the number in front of it the seconds.                             *)
DurationFrom(date, rest) ==
  LET point == {i \in DOMAIN rest : rest[i].s \in {".", ","}}
      whole == IF point = {} THEN rest
               ELSE [SubSeq(rest, 1, Len(rest) - 1) EXCEPT ![Len(rest) - 1].s = "S"]
      decimals == IF point = {} THEN 0
                  ELSE Millisecs(rest[Len(rest)].n, rest[Len(rest)].digits)
  IN IF \/ ~(point \subseteq {Len(rest) - 1}) \/ (point # {} /\ rest[Len(rest)].s # "S")
        \/ ~OrderedRanges(date, whole)
     THEN None ELSE Duration_(date, whole, decimals)

ParseDuration(text) ==
  LET t == {i \in DOMAIN text : text[i].s = "T"}
      cut == IF t = {} THEN Len(text) + 1 ELSE CHOOSE i \in t : TRUE
  IN IF text = <<>> \/ text[1].s # "P" \/ text[1].n >= 0 \/ Minus(text) THEN None
     ELSE DurationFrom(SubSeq(text, 2, cut - 1), SubSeq(text, cut + 1, Len(text)))

-----------------------------------------------------------------------------
(* Segment information.  A node starts from the values of its parent and    *)
(* takes each one it has itself.                                            *)
UrlType(node) == [source |-> Text(node, "sourceURL"), range |-> ByteRange(Text(node, "range"))]

FromKids(node, names, inherited) ==
  LET kids == SelectSeq(node.children, LAMBDA kid : kid.name \in names)
  IN IF kids = <<>> THEN inherited ELSE <<UrlType(kids[Len(kids)])>>

OtherwiseRange(range, up) == IF range # <<>> THEN range ELSE up

SegBaseFrom(node, up) ==
  <<[scale |-> Unsigned(Text(node, "timescale"), up.scale),
     offset |-> Unsigned(Text(node, "presentationTimeOffset"), up.offset),
     index |-> OtherwiseRange(ByteRange(Text(node, "indexRange")), up.index),
     exact |-> Boolean(Text(node, "indexRangeExact"), up.exact),
     init |-> FromKids(node, {"Initialization", "Initialisation"}, up.init),
     repIndex |-> FromKids(node, {"RepresentationIndex"}, up.repIndex)]>>

ParseSegBase(node, parent) ==
  SegBaseFrom(node, IF parent # <<>> THEN parent[1]
                    ELSE [scale |-> 1, offset |-> 0, index |-> <<>>, exact |-> FALSE,
                          init |-> <<>>, repIndex |-> <<>>])

ParseS(node) == [t |-> Unsigned(Text(node, "t"), 0), d |-> Unsigned(Text(node, "d"), 0),
                 r |-> Signed(Text(node, "r"), 0)]

ParseTimeline(node) ==
  LET entries == Kids(node, "S") IN [i \in DOMAIN entries |-> ParseS(entries[i])]

MultSegFrom(node, up) ==
  LET lines == Kids(node, "SegmentTimeline")
  IN [duration |-> Unsigned(Text(node, "duration"), up.duration),
      first |-> Unsigned(Text(node, "startNumber"), up.first),
      timeline |-> IF lines = <<>> THEN up.timeline ELSE <<ParseTimeline(lines[Len(lines)])>>,
      base |-> ParseSegBase(node, up.base)]

(* gst_mpdparser_parse_mult_seg_base_type_ext: one of a Representation      *)
(* needs a duration or a timeline, its own or inherited.                    *)
Complete(mult, level) ==
  IF level = "Representation" /\ mult.duration = 0 /\ mult.timeline = <<>>
  THEN <<>> ELSE <<mult>>

ParseMultSeg(node, parent, level) ==
  Complete(MultSegFrom(node, IF parent # <<>> THEN parent[1]
                             ELSE [duration |-> 0, first |-> 1, timeline |-> <<>>, base |-> <<>>]),
           level)

MultOf(parent) == IF parent = <<>> THEN <<>> ELSE <<parent[1].mult>>
Href(node) == Text(node, "href")
OnLoad(node) == Href(node) # <<>> /\ Text(node, "actuate") # <<>>
                /\ Text(node, "actuate")[1].s = "onLoad"

SegmentUrl(node) == [media |-> Text(node, "media"), range |-> ByteRange(Text(node, "mediaRange")),
                     index |-> Text(node, "index"), indexRange |-> ByteRange(Text(node, "indexRange"))]

(* The first SegmentURL of its own clears the inherited ones.               *)
ListWith(mult, node, parent) ==
  LET own == Kids(node, "SegmentURL")
      urls == IF own # <<>> THEN [i \in DOMAIN own |-> SegmentUrl(own[i])]
              ELSE IF parent # <<>> THEN parent[1].urls ELSE <<>>
  IN [i \in DOMAIN mult |->
        [mult |-> mult[i], urls |-> urls, href |-> Href(node), onLoad |-> OnLoad(node)]]

ParseList(node, parent, level) == ListWith(ParseMultSeg(node, MultOf(parent), level), node, parent)

TemplateWith(mult, node, parent) ==
  LET Inherits(prop) == IF Text(node, prop) # <<>> \/ parent = <<>> THEN Text(node, prop)
                        ELSE parent[1][prop]
  IN [i \in DOMAIN mult |-> [mult |-> mult[i], media |-> Inherits("media"),
        index |-> Inherits("index"), initialization |-> Inherits("initialization")]]

ParseTemplate(node, parent, level) ==
  TemplateWith(ParseMultSeg(node, MultOf(parent), level), node, parent)

(* A child of the kind, parsed (the last one counts), or none; Broken if    *)
(* one of them is refused.                                                  *)
Refused(node, name, Parse(_)) == \E i \in DOMAIN Kids(node, name) : Parse(Kids(node, name)[i]) = <<>>
ParseKid(node, name, Parse(_)) ==
  LET kids == Kids(node, name) IN IF kids = <<>> THEN <<>> ELSE Parse(kids[Len(kids)])

ParseAll(nodes, Parse(_)) == FlattenSeq([i \in DOMAIN nodes |-> Parse(nodes[i])])

(* Several children, each parsed to one: a sequence of one, the children,   *)
(* or nothing if one of them is refused.                                    *)
NoneRefused(parsed) ==
  IF \E i \in DOMAIN parsed : parsed[i] = <<>> THEN <<>> ELSE <<FlattenSeq(parsed)>>

Infos(node, up, level) ==
  [base |-> ParseKid(node, "SegmentBase", LAMBDA k : ParseSegBase(k, up.base)),
   list |-> ParseKid(node, "SegmentList", LAMBDA k : ParseList(k, up.list, level)),
   template |-> ParseKid(node, "SegmentTemplate", LAMBDA k : ParseTemplate(k, up.template, level))]

InfosRefused(node, up, level) ==
  \/ Refused(node, "SegmentList", LAMBDA k : ParseList(k, up.list, level))
  \/ Refused(node, "SegmentTemplate", LAMBDA k : ParseTemplate(k, up.template, level))

NoInfos == [base |-> <<>>, list |-> <<>>, template |-> <<>>]
Nearest(near, far) == [f \in DOMAIN near |-> IF near[f] # <<>> THEN near[f] ELSE far[f]]

-----------------------------------------------------------------------------
(* gst_mpdparser_parse_representation_base_type, and ContentProtection: of  *)
(* a PlayReady one the first "pro" child is the value.                      *)
Descriptor(node) == [scheme |-> Text(node, "schemeIdUri"), value |-> Text(node, "value")]

Protection(node) ==
  IF Text(node, "value") = <<>> \/ Text(node, "value")[1].s # "MSPR" THEN <<Descriptor(node)>>
  ELSE IF Kids(node, "pro") = <<>> THEN <<>>
  ELSE <<[scheme |-> Text(node, "schemeIdUri"), value |-> Text(Kids(node, "pro")[1], "content")]>>

Descriptors(node, name) ==
  LET kids == Kids(node, name) IN [i \in DOMAIN kids |-> Descriptor(kids[i])]

RepBase(node) ==
  [mime |-> Text(node, "mimeType"), codecs |-> Text(node, "codecs"),
   width |-> Unsigned(Text(node, "width"), 0), height |-> Unsigned(Text(node, "height"), 0),
   sar |-> Fraction(Text(node, "sar"), ":", TRUE),
   rate |-> Fraction(Text(node, "frameRate"), "/", FALSE),
   maxRate |-> Fraction(Text(node, "maxFrameRate"), "/", FALSE),
   sampling |-> Text(node, "audioSamplingRate"), sap |-> SapType(Text(node, "startWithSAP")),
   coding |-> Boolean(Text(node, "codingDependency"), FALSE),
   protection |-> FlattenSeq([i \in DOMAIN Kids(node, "ContentProtection") |->
                               Protection(Kids(node, "ContentProtection")[i])])]

BaseUrls(node) ==
  LET kids == Kids(node, "BaseURL") IN [i \in DOMAIN kids |-> Text(kids[i], "content")]

Components(node) ==
  LET kids == Kids(node, "ContentComponent")
  IN [i \in DOMAIN kids |-> [id |-> Unsigned(Text(kids[i], "id"), 0), lang |-> Text(kids[i], "lang"),
                             roles |-> Descriptors(kids[i], "Role")]]

SubReps(node) ==
  LET kids == Kids(node, "SubRepresentation")
  IN [i \in DOMAIN kids |-> [level |-> Unsigned(Text(kids[i], "level"), 0),
                             dependency |-> Vector(Text(kids[i], "dependencyLevel")),
                             base |-> RepBase(kids[i])]]

(* id and bandwidth are needed.  up: the segment infos around it.           *)
RepresentationIn(node, up) ==
  IF Text(node, "id") = <<>> \/ Unsigned(Text(node, "bandwidth"), -1) < 0
     \/ InfosRefused(node, up, "Representation")
  THEN <<>>
  ELSE <<[id |-> Text(node, "id"), bandwidth |-> Unsigned(Text(node, "bandwidth"), 0),
          base |-> RepBase(node), infos |-> Infos(node, up, "Representation"),
          urls |-> BaseUrls(node), subs |-> SubReps(node)]>>

(* The nearest level that has one counts: the set, then the Period.         *)
ParseRepresentation(node, set, period) == RepresentationIn(node, Nearest(set, period))

ParseReps(nodes, own, infos) ==
  NoneRefused([i \in DOMAIN nodes |-> ParseRepresentation(nodes[i], own, infos)])

(* The Representations are parsed after everything else of the set.  The    *)
(* set of a Period that switches bitstreams does so, too.                   *)
SetWith(reps, node, own, switching) ==
  [k \in DOMAIN reps |->
    [id |-> Unsigned(Text(node, "id"), 0), lang |-> Text(node, "lang"),
     par |-> Fraction(Text(node, "par"), ":", TRUE),
     maxWidth |-> Unsigned(Text(node, "maxWidth"), 0),
     maxHeight |-> Unsigned(Text(node, "maxHeight"), 0),
     aligned |-> Condition(Text(node, "segmentAlignment")),
     switching |-> switching \/ Boolean(Text(node, "bitstreamSwitching"), switching),
     roles |-> Descriptors(node, "Role"), components |-> Components(node),
     base |-> RepBase(node), infos |-> own, urls |-> BaseUrls(node),
     reps |-> reps[k], href |-> Href(node), onLoad |-> OnLoad(node)]]

SetWithInfos(node, own, infos, switching) ==
  SetWith(ParseReps(Kids(node, "Representation"), own, infos), node, own, switching)

ParseSet(node, infos, switching) ==
  IF InfosRefused(node, infos, "AdaptationSet") THEN <<>>
  ELSE SetWithInfos(node, Infos(node, infos, "AdaptationSet"), infos, switching)

ParseSets(nodes, infos, switching) ==
  NoneRefused([i \in DOMAIN nodes |-> ParseSet(nodes[i], infos, switching)])

PeriodWith(sets, node, own) ==
  LET subsets == Kids(node, "Subset")
  IN [k \in DOMAIN sets |->
       [id |-> Text(node, "id"), start |-> ParseDuration(Text(node, "start")),
        duration |-> ParseDuration(Text(node, "duration")), infos |-> own,
        subsets |-> [i \in DOMAIN subsets |-> Vector(Text(subsets[i], "contains"))],
        urls |-> BaseUrls(node), sets |-> sets[k],
        href |-> Href(node), onLoad |-> OnLoad(node)]]

PeriodWithInfos(node, own) ==
  PeriodWith(ParseSets(Kids(node, "AdaptationSet"), own,
                       Boolean(Text(node, "bitstreamSwitching"), FALSE)), node, own)

ParsePeriod(node) ==
  IF InfosRefused(node, NoInfos, "Period") THEN <<>>
  ELSE PeriodWithInfos(node, Infos(node, NoInfos, "Period"))

-----------------------------------------------------------------------------
(* The root.  A UTCTiming element counts with a known method and a value;   *)
(* its value is a list of servers, that of the direct method a single time. *)
TimingMethods == {"ntp", "sntp", "head", "xsdate", "iso", "http-ntp", "direct"}

Timing(node) ==
  LET method == Text(node, "schemeIdUri")
      value == Text(node, "value")
  IN IF method = <<>> \/ method[1].s \notin TimingMethods \/ value = <<>> THEN <<>>
     ELSE <<[method |-> method[1].s,
             urls |-> IF method[1].s = "direct" THEN <<value>>
                      ELSE [i \in DOMAIN value |-> <<value[i]>>]]>>

Metrics(node) ==
  [metrics |-> Text(node, "metrics"),
   ranges |-> [i \in DOMAIN Kids(node, "Range") |->
                <<ParseDuration(Text(Kids(node, "Range")[i], "starttime")),
                  ParseDuration(Text(Kids(node, "Range")[i], "duration"))>>]]

ProgramInfo(node) ==
  [lang |-> Text(node, "lang"),
   title |-> [i \in DOMAIN Kids(node, "Title") |-> Text(Kids(node, "Title")[i], "content")]]

RootWith(nodes, node) ==
  LET All(name, Parse(_)) == [i \in DOMAIN Kids(node, name) |-> Parse(Kids(node, name)[i])]
  IN [k \in DOMAIN nodes |->
       [dynamic |-> Dynamic(Text(node, "type")),
        available |-> DateTime(Text(node, "availabilityStartTime")),
        total |-> ParseDuration(Text(node, "mediaPresentationDuration")),
        suggested |-> ParseDuration(Text(node, "suggestedPresentationDelay")),
        longest |-> ParseDuration(Text(node, "maxSegmentDuration")),
        nodes |-> nodes[k], urls |-> BaseUrls(node),
        info |-> All("ProgramInformation", ProgramInfo), metrics |-> All("Metrics", Metrics),
        locations |-> All("Location", LAMBDA k1 : Text(k1, "content")),
        timing |-> ParseAll(Kids(node, "UTCTiming"), Timing)]]

ParsePeriods(nodes) == NoneRefused([i \in DOMAIN nodes |-> ParsePeriod(nodes[i])])

ParseRoot(node) ==
  IF node.name # "MPD" THEN <<>> ELSE RootWith(ParsePeriods(Kids(node, "Period")), node)
=============================================================================
