------------------------------- MODULE QtTags -------------------------------
(***************************************************************************)
(* The header of an ISO MP4 file beside its tracks: how the box tree is    *)
(* built, what qtdemux_parse_tree takes from mvhd and mvex, the tags of    *)
(* udta and meta, the redirects of a reference movie, the bitrate that is  *)
(* guessed, and what pads and queries get of all that.                     *)
(*                                                                         *)
(* A box is [type, len, off, val, in]: the fourcc, the length its header   *)
(* says, where the boxes in it begin (0: it holds none, or its layout is   *)
(* not known), what the other fields of it say, and the boxes in it.       *)
(***************************************************************************)
EXTENDS Integers, Sequences, FiniteSets, SequencesExt

CONSTANTS
    TagHeaders,       \* [moov, major, brands, pull, big, size, header, upstream, rates]
    MaxTagReads       \* bound: how many headers are read in one run

VARIABLES tagged     \* the header, how far it was read, what was made of it
taggedVars == <<tagged>>

Absent == [type |-> "none", len |-> 0, off |-> 0, val |-> <<>>, in |-> <<>>]
----------------------------------------------------------------------------
(* qtdemux_parse_node: where the children of a box begin, 0 when it is not *)
(* looked into.  stsd, the sound descriptions by their version, the video  *)
(* descriptions and meta in its two layouts each have their own place, and *)
(* each a length below which they are left alone.                          *)
PlainContainers == {"moov", "trak", "udta", "mvex", "ilst", "rmra", "rmda", "cmov", "edts", "tag"}
FixedPart(b) == CASE b.type = "stsd" -> 16 [] b.type = "XiTh" -> 98 [] b.type = "in24" -> 52
              [] b.type \in {"avc1", "encv"} -> 86 [] b.type = "mp4s" -> 16
              [] b.type \in {"enca", "ec-3"} -> 36
              [] b.type \in {"mp4a", "alac"} -> (CASE b.val = 0 -> 36 [] b.val = 1 -> 52
                                                   [] b.val = 2 -> 72 [] OTHER -> 0)
              [] b.type = "meta" -> (CASE b.val = "short" -> 8 [] b.val = "full" -> 12 [] OTHER -> 0)
              [] OTHER -> IF b.type \in PlainContainers THEN 8 ELSE 0
LeastSize(type) == CASE type = "stsd" -> 20 [] type = "mp4a" -> 20 [] type = "alac" -> 40
                 [] type \in {"avc1", "encv"} -> 86 [] type = "meta" -> 16 [] type = "XiTh" -> 98
                 [] OTHER -> 0
Opened(b) == IF b.len = 8 \/ b.len < LeastSize(b.type) THEN 0 ELSE FixedPart(b)

(* qtdemux_parse_container: the boxes up to the first whose length is not  *)
(* one, or that does not fit into what is left.                            *)
Children(b) ==
    LET step(s, c) == IF s.over \/ c.len < 8 \/ c.len > s.room THEN [s EXCEPT !.over = TRUE]
                      ELSE [s EXCEPT !.room = @ - c.len, !.got = Append(@, c)]
    IN IF Opened(b) = 0 THEN <<>>
       ELSE FoldLeft(step, [over |-> FALSE, room |-> b.len - Opened(b), got |-> <<>>], b.in).got

(* qtdemux_tree_get_child_by_type and its siblings: the first is the one.  *)
OfType(b, type) == SelectSeq(Children(b), LAMBDA c : c.type = type)
Child(b, type) == LET all == OfType(b, type) IN IF all = <<>> THEN Absent ELSE all[1]
Has(b, type) == OfType(b, type) # <<>>

(* qtdemux_parse_moov: a header that is compressed is inflated and takes   *)
(* the place of the one read (cmvd.val: the boxes in it, none when zlib    *)
(* does not understand it); one that cannot be stays as it is.             *)
Unpacked(moov) ==
    LET cmov == Child(moov, "cmov")
        cmvd == Child(cmov, "cmvd")
    IN IF ~Has(moov, "cmov") THEN [ok |-> TRUE, moov |-> moov]
       ELSE IF ~Has(cmov, "dcom") \/ ~Has(cmov, "cmvd") THEN [ok |-> FALSE, moov |-> moov]
       ELSE IF Child(cmov, "dcom").val = "zlib" /\ cmvd.val # <<>>
            THEN [ok |-> TRUE, moov |-> cmvd.val[1]] ELSE [ok |-> TRUE, moov |-> moov]
----------------------------------------------------------------------------
(* The tags.  tags: <<tag, value>> as they are now; the functions differ   *)
(* in what they accept.                                                    *)
Is3gp(h, major) == IF major THEN h.major = "3g" ELSE "3g" \in h.brands
Tag(tags, tag, v) == {t \in tags : t[1] # tag} \cup {<<tag, v>>}
DataBox(b) == Child(b, "data")

(* qtdemux_tag_add_str_full: a data box of type text; else the box itself, *)
(* in one of three layouts.  A box that is read as plain text and is not   *)
(* text gives nothing, and says so.                                        *)
SpecStrings == {"cprt", "gnre", "titl", "perf", "albm"}
Layout(h, b) ==
    IF b.val.c /\ b.len > 12 THEN "international"
    ELSE IF /\ b.len > 14 /\ b.type \in SpecStrings
            /\ Is3gp(h, TRUE) \/ (Is3gp(h, FALSE) /\ b.val.lang) THEN "3gp" ELSE "plain"
StringOf(h, b) ==
    LET d == DataBox(b)
    IN IF Has(b, "data") THEN IF d.val.kind = 1 /\ d.len > 16 THEN d.val.text ELSE ""
       ELSE IF b.val.utf8 \/ Layout(h, b) # "plain" THEN b.val.text ELSE ""
Undecided(h, b) == ~Has(b, "data") /\ StringOf(h, b) = "" /\ Layout(h, b) = "plain"
AddStr(h, tags, tag, b) == IF StringOf(h, b) = "" THEN tags ELSE Tag(tags, tag, StringOf(h, b))

(* qtdemux_tag_add_keywords: the 3GPP list, up to the first that is cut.   *)
AddKeywords(h, tags, b) ==
    LET step(s, w) == IF s.short \/ s.at + 1 + w.len > b.len THEN [s EXCEPT !.short = TRUE]
                      ELSE [s EXCEPT !.at = @ + 1 + w.len, !.k = Append(@, w.word)]
        list == FoldLeft(step, [short |-> FALSE, at |-> 15, k |-> <<>>], b.val.words).k
    IN IF ~Is3gp(h, TRUE) /\ ~Undecided(h, b) THEN AddStr(h, tags, "keywords", b)
       ELSE IF b.len < 15 \/ ~(Is3gp(h, TRUE) \/ Is3gp(h, FALSE)) \/ list = <<>> THEN tags
       ELSE Tag(tags, "keywords", list)

(* trkn, disk: two numbers, each only when it is not 0.                    *)
AddNum(tags, tag, count, b) ==
    LET d == DataBox(b)
        one == IF d.val.a > 0 THEN Tag(tags, tag, d.val.a) ELSE tags
    IN IF ~Has(b, "data") \/ d.val.kind # 0 \/ d.len < 22 THEN tags
       ELSE IF d.val.b > 0 THEN Tag(one, count, d.val.b) ELSE one

(* tmpo and tvsn: some files write 15 where 21 is meant.                   *)
AddUint(tags, tag, b, least) ==
    LET d == DataBox(b)
    IN IF Has(b, "data") /\ d.val.kind \in {15, 21} /\ d.len >= least /\ d.val.a > 0
       THEN Tag(tags, tag, d.val.a) ELSE tags

(* covr: the first picture is the front cover, and REPLACE keeps the last. *)
AddCover(tags, b) ==
    LET d == DataBox(b)
        front == ~\E t \in tags : t[1] = "image"
    IN IF Has(b, "data") /\ d.val.kind \in {13, 14} /\ d.len > 16
       THEN Tag(tags, "image", <<d.val.text, front>>) ELSE tags

AddDate(tags, b) ==
    LET d == DataBox(b)
    IN IF Has(b, "data") /\ d.val.kind = 1 /\ d.len > 16 /\ d.val.a > 1500 /\ d.val.a < 3000
       THEN Tag(tags, "date", d.val.a) ELSE tags
AddYear(tags, b) == IF b.len < 14 \/ b.val.a = 0 THEN tags ELSE Tag(tags, "date", b.val.a)

(* gnre: a string in 3GPP files, else a number into the ID3 list.          *)
AddGenre(h, tags, b) ==
    LET d == DataBox(b)
    IN IF Is3gp(h, TRUE) \/ (Is3gp(h, FALSE) /\ ~Has(b, "data")) THEN AddStr(h, tags, "genre", b)
       ELSE IF Has(b, "data") /\ d.val.kind = 0 /\ d.len >= 18 /\ d.val.a \in 1..192
            THEN Tag(tags, "genre", d.val.a - 1) ELSE tags

(* loci: the name stands alone when the box ends behind it, and one wrong  *)
(* coordinate takes the others with it.                                    *)
AddLocation(tags, b) ==
    LET named == IF b.val.text # "" THEN Tag(tags, "location", b.val.text) ELSE tags
    IN IF b.len <= 14 THEN tags
       ELSE IF b.len < 14 + b.val.a + 14 \/ ~b.val.onEarth THEN named
       ELSE Tag(named, "coordinates", b.val.text)
AddClassification(tags, b) ==
    IF b.len <= 20 \/ ~b.val.utf8 THEN tags ELSE tags \cup {<<"classification", b.val.text>>}

(* ----: mean, name and data, in Apple's or ReplayGain's names.            *)
RevDnsNames == [gain |-> "double", peak |-> "double", track |-> "string"]
AddRevDns(h, tags, b) ==
    LET part(t) == Child(b, t)
        whole == b.len > 44 /\ part("mean").len > 12 /\ part("name").len > 12 /\ part("data").len > 16
        n == part("name").val
    IN IF ~whole \/ part("mean").val \notin {"iTunes", "replaygain"} \/ n \notin DOMAIN RevDnsNames
       THEN tags
       ELSE IF RevDnsNames[n] = "string" THEN AddStr(h, tags, n, b)
       ELSE IF part("data").val.text = "" THEN tags ELSE Tag(tags, n, part("data").val.text)

(* ID32 and XMP_: what is in them never replaces what the file says.       *)
KeptTag(tags, more) == tags \cup {t \in more : \A u \in tags : u[1] # t[1]}
AddId32(tags, b) == IF b.len < 14 THEN tags ELSE KeptTag(tags, b.val)
AddXmp(tags, b) == KeptTag(tags, {t \in b.val : t[1] \notin {"video codec", "audio codec"}})

(* add_funcs: the boxes that are known, in the order they are looked for.  *)
StrTags == [nam |-> "title", titl |-> "title", aART |-> "album artist", perf |-> "artist",
            albm |-> "album", cprt |-> "copyright", desc |-> "description", too |-> "encoder",
            gen |-> "genre", sonm |-> "title sort", tvsh |-> "show", keyw |-> "keywords"]
AddFuncs == <<"nam", "titl", "aART", "perf", "albm", "cprt", "desc", "day", "yrrc", "too", "trkn",
              "disk", "gen", "gnre", "tmpo", "covr", "sonm", "tvsh", "tvsn", "kywd", "keyw", "loci",
              "clsf", "----", "ID32">>
AddTag(h, tags, b) ==
    CASE b.type \in DOMAIN StrTags -> AddStr(h, tags, StrTags[b.type], b)
      [] b.type = "day" -> AddDate(tags, b) [] b.type = "yrrc" -> AddYear(tags, b)
      [] b.type = "trkn" -> AddNum(tags, "track", "tracks", b)
      [] b.type = "disk" -> AddNum(tags, "volume", "volumes", b)
      [] b.type = "gnre" -> AddGenre(h, tags, b) [] b.type = "tmpo" -> AddUint(tags, "bpm", b, 18)
      [] b.type = "tvsn" -> AddUint(tags, "season", b, 20) [] b.type = "covr" -> AddCover(tags, b)
      [] b.type = "kywd" -> AddKeywords(h, tags, b) [] b.type = "loci" -> AddLocation(tags, b)
      [] b.type = "clsf" -> AddClassification(tags, b) [] b.type = "----" -> AddRevDns(h, tags, b)
      [] OTHER -> AddId32(tags, b)

(* qtdemux_tag_add_blob: what nobody knows goes on as it is, with the      *)
(* style its writer is taken to have used.                                 *)
Style(h, b) == IF b.type = "----" \/ (b.len > 20 /\ Has(b, "data")) THEN "itunes"
               ELSE IF h.major = "qt" THEN "quicktime" ELSE "iso"

(* The list the tags are in, and what is left of it after a box is taken.  *)
TagList(b) == IF Has(b, "meta") THEN Children(Child(Child(b, "meta"), "ilst")) ELSE Children(b)
Listed(b) == Has(b, "meta") => Has(Child(b, "meta"), "ilst")
Without(list, i) == RemoveAt(list, i)
FirstOfType(list, type) == LET is == {i \in 1..Len(list) : list[i].type = type}
                       IN IF is = {} THEN 0 ELSE CHOOSE i \in is : \A j \in is : i <= j
----------------------------------------------------------------------------
(* The redirects: every reference with a place to go to, the ones that ask *)
(* for the newest version and the highest bitrate first.                   *)
Location(rdrf) ==
    CASE rdrf.len <= 20 -> ""
      [] rdrf.val.kind = "alis" -> IF rdrf.len > 70 THEN rdrf.val.url ELSE ""
      [] rdrf.val.kind = "url " -> rdrf.val.url
      [] OTHER -> ""
ReferenceLink(rmda) ==
    [url |-> IF Has(rmda, "rdrf") THEN Location(Child(rmda, "rdrf")) ELSE "",
     rate |-> IF Has(rmda, "rmdr") THEN Child(rmda, "rmdr").val ELSE 0,
     version |-> IF Has(rmda, "rmvc") THEN Child(rmda, "rmvc").val ELSE 0]
Before(a, b) == a.version > b.version \/ (a.version = b.version /\ a.rate > b.rate)
Redirects(moov) ==
    LET all == OfType(Child(moov, "rmra"), "rmda")
    IN SelectSeq([i \in 1..Len(all) |-> ReferenceLink(all[i])], LAMBDA r : r.url # "")
(* g_list_prepend, then a sort that keeps the order of equals.             *)
SortedLinks(refs) ==
    LET n == Len(refs)
        back == [i \in 1..n |-> refs[n + 1 - i]]
        place(i) == Cardinality({j \in 1..n : Before(back[j], back[i])
                                               \/ (~Before(back[i], back[j]) /\ j <= i)})
    IN [k \in 1..n |-> back[CHOOSE i \in 1..n : place(i) = k]]
----------------------------------------------------------------------------
(* mvhd, mvex and mehd: the duration, and whether this is fragmented.      *)
Mvhd(d, moov) ==
    LET v == Child(moov, "mvhd").val
        mvex == Child(moov, "mvex")
        long == IF Has(moov, "mvex") /\ Has(mvex, "mehd") THEN Child(mvex, "mehd").val ELSE v.duration
    IN [d EXCEPT !.duration = long, !.scale = v.scale, !.fragmented = @ \/ Has(moov, "mvex"),
                 !.stop = IF long > 0 /\ v.scale > 0 THEN long ELSE @]
(* The creation time is a tag unless it is in the future, or one is there. *)
Created(tags, moov, now) ==
    LET at == Child(moov, "mvhd").val.created
    IN IF at = 0 \/ at > now THEN tags ELSE KeptTag(tags, {<<"date time", at>>})
Duration(d) == IF d.duration > 0 /\ d.scale > 0 THEN d.duration ELSE -1
ContainerFormat(h, d) ==
    CASE h.major = "mjp2" -> "Motion JPEG 2000" [] h.major = "3g" -> "3GP" [] h.major = "qt" -> "Quicktime"
      [] OTHER -> IF d.fragmented THEN "ISO fMP4" ELSE "ISO MP4/M4A"
(* gst_qtdemux_guess_bitrate: what is left of the size for the one stream  *)
(* whose bitrate is not known; rates has 0 for those.                      *)
Guess(h, d) ==
    LET unknown == {i \in DOMAIN h.rates : h.rates[i] = 0}
        known == FoldLeft(LAMBDA a, b : a + b, 0, h.rates)
        whole == ((h.size - h.header) * 8) \div Duration(d)
    IN IF d.fragmented \/ h.size <= 0 \/ h.size < h.header \/ Duration(d) = -1
          \/ Cardinality(unknown) # 1 \/ whole < known
       THEN <<>> ELSE [i \in unknown |-> whole - known]
----------------------------------------------------------------------------
(* What the pads are asked.                                                *)
UpstreamKnows(h) == h.upstream \in {"time"}
DurationAnswer(h, d) == IF UpstreamKnows(h) THEN "upstream" ELSE Duration(d)
SeekingAnswer(h) == IF UpstreamKnows(h) THEN "upstream"
                    ELSE IF h.pull \/ h.upstream = "bytes" THEN "yes" ELSE "no"
Trickable(h) == h.pull \/ ~h.big
SegmentAnswer(d) == IF d.stop = -1 THEN Duration(d) ELSE d.stop
----------------------------------------------------------------------------
NoDemux == [duration |-> 0, scale |-> 0, fragmented |-> FALSE, stop |-> -1]
HeadInit ==
    tagged = [h |-> 0, reads |-> 0, phase |-> "none", moov |-> Absent, d |-> NoDemux, tags |-> {},
            blobs |-> <<>>, list |-> <<>>, at |-> 0, from |-> "none", posted |-> <<>>,
            guess |-> <<>>, answers |-> <<>>]
H == TagHeaders[tagged.h]

(* A header comes, after READY, or after EOS in a stream that goes on: the *)
(* brand and the tags of the one before are gone.                          *)
ReadHeader ==
    /\ tagged.phase \in {"none", "played", "redirected", "bad"} /\ tagged.reads < MaxTagReads
    /\ \E i \in DOMAIN TagHeaders :
         tagged' = [tagged EXCEPT !.h = i, !.reads = @ + 1, !.phase = "moov", !.d = NoDemux, !.tags = {},
                    !.blobs = <<>>, !.list = <<>>, !.at = 0, !.from = "none", !.posted = <<>>,
                    !.guess = <<>>, !.answers = <<>>,
                    !.moov = TagHeaders[i].moov]

ParseMoovTags ==
    /\ tagged.phase = "moov"
    /\ LET u == Unpacked(tagged.moov)
       IN tagged' = [tagged EXCEPT !.moov = u.moov, !.phase = IF u.ok THEN "tree" ELSE "bad"]

(* A file without mvhd has redirects, or nothing.                          *)
ParseTree ==
    /\ tagged.phase = "tree"
    /\ LET refs == Redirects(tagged.moov)
           d == Mvhd(tagged.d, tagged.moov)
       IN IF ~Has(tagged.moov, "mvhd")
          THEN tagged' = [tagged EXCEPT !.phase = "redirected", !.posted = SortedLinks(refs)]
          ELSE IF Child(tagged.moov, "mvhd").val.version > 1 THEN tagged' = [tagged EXCEPT !.phase = "bad"]
          ELSE tagged' = [tagged EXCEPT !.d = d, !.phase = "open", !.from = "udta",
                          !.tags = Created(@, tagged.moov, 2)]

(* udta is looked through first, then the meta box of the file: that one   *)
(* holds no meta, so its own boxes are the list.                           *)
OpenList ==
    /\ tagged.phase = "open"
    /\ LET b == Child(tagged.moov, tagged.from)
           next == IF tagged.from = "udta" THEN "meta" ELSE "none"
       IN IF tagged.from = "none" THEN tagged' = [tagged EXCEPT !.phase = "format"]
          ELSE IF ~Has(tagged.moov, tagged.from) \/ ~Listed(b) THEN tagged' = [tagged EXCEPT !.from = next]
          ELSE tagged' = [tagged EXCEPT !.phase = "tags", !.list = TagList(b), !.at = 1]

(* One round of the loop: the first box of the type whose turn it is, or   *)
(* the next type when there is none left.  The box is taken out.           *)
TakeTag ==
    /\ tagged.phase = "tags" /\ tagged.at <= Len(AddFuncs)
    /\ LET i == FirstOfType(tagged.list, AddFuncs[tagged.at])
       IN IF i = 0 THEN tagged' = [tagged EXCEPT !.at = @ + 1]
          ELSE tagged' = [tagged EXCEPT !.list = Without(@, i),
                          !.tags = IF tagged.list[i].len < 12 THEN @ ELSE AddTag(H, @, tagged.list[i])]
(* The rest of the list, then XMP_ of udta itself.                         *)
CloseList ==
    /\ tagged.phase = "tags" /\ tagged.at > Len(AddFuncs)
    /\ LET b == Child(tagged.moov, tagged.from)
           rest == [i \in 1..Len(tagged.list) |-> <<tagged.list[i].type, Style(H, tagged.list[i])>>]
       IN tagged' = [tagged EXCEPT !.phase = "open", !.from = IF @ = "udta" THEN "meta" ELSE "none",
                     !.blobs = @ \o rest, !.list = <<>>,
                     !.tags = IF Has(b, "XMP_") THEN AddXmp(@, Child(b, "XMP_")) ELSE @]

AddContainerFormat ==
    /\ tagged.phase = "format"
    /\ tagged' = [tagged EXCEPT !.phase = "played", !.guess = Guess(H, tagged.d),
                  !.tags = Tag(@, "container", ContainerFormat(H, tagged.d))]

(* The pads are asked.                                                     *)
Query == /\ tagged.phase = "played" /\ tagged.answers = <<>>
         /\ tagged' = [tagged EXCEPT !.answers = <<DurationAnswer(H, tagged.d), SeekingAnswer(H), Trickable(H),
                                               SegmentAnswer(tagged.d)>>]

HeadNext == ReadHeader \/ ParseMoovTags \/ ParseTree \/ OpenList \/ TakeTag \/ CloseList
            \/ AddContainerFormat \/ Query
HeadSpec == HeadInit /\ [][HeadNext]_taggedVars
----------------------------------------------------------------------------
HeadTypeOK == tagged.h \in 0..Len(TagHeaders) /\ tagged.at \in 0..Len(AddFuncs) + 1 /\ tagged.reads \in 0..MaxTagReads

(* What a writer put in the list is never lost: when a file is read, a box *)
(* that is known is no private tag, and each one that is not known is.     *)
Known(b) == b.type \in Range(AddFuncs)
TagShown(from) == LET b == Child(tagged.moov, from)
               IN IF Has(tagged.moov, from) /\ Listed(b) THEN TagList(b) ELSE <<>>
NoTagLost ==
    tagged.phase = "played" =>
        LET all == TagShown("udta") \o TagShown("meta")
            unknown == SelectSeq(all, LAMBDA b : ~Known(b))
        IN [i \in DOMAIN unknown |-> unknown[i].type] = [i \in DOMAIN tagged.blobs |-> tagged.blobs[i][1]]

(* One value for a tag, whatever boxes told it.                            *)
OneValue == \A t, u \in tagged.tags : t[1] = u[1] /\ t[1] # "classification" => t = u

(* The application goes to the reference that asks for most first.         *)
BestFirst == \A i, j \in DOMAIN tagged.posted : i < j => ~Before(tagged.posted[j], tagged.posted[i])
AllPosted == tagged.phase = "redirected" => Len(tagged.posted) = Len(Redirects(tagged.moov))

(* The bitrates of a file, the guessed one with them, are what its size is *)
(* over its duration.                                                      *)
GuessFits ==
    \A i \in DOMAIN tagged.guess :
        LET all == FoldLeft(LAMBDA a, b : a + b, 0, H.rates) + tagged.guess[i]
        IN /\ tagged.guess[i] >= 0 /\ all * Duration(tagged.d) <= (H.size - H.header) * 8
           /\ (H.size - H.header) * 8 < (all + 1) * Duration(tagged.d)

HeadTrue == NoTagLost /\ OneValue /\ BestFirst /\ AllPosted /\ GuessFits
============================================================================
