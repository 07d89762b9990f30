---------------------------- MODULE DashStream ----------------------------
(***************************************************************************)
(* How a DASH stream is downloaded and cut into the pieces that are pushed *)
(* downstream: the download task D and the download loop of                *)
(* gst/dvrdashdemux/gstadaptivedemux.c, and what                           *)
(* gst/dvrdashdemux/gstdashdemux.c does with the data in the streaming     *)
(* thread S of the source element.  The source may fail (thread U).        *)
(*                                                                         *)
(* D works out a request (UpdateInfo), lets the source fetch its parts     *)
(* (header, index, media), waits, and then goes on, retries or gives up.   *)
(* S puts what arrives into the adapter, finds the boxes in it, pushes     *)
(* them, and moves to the next entry of the sidx index or to the next      *)
(* segment.  A step of S is the code up to the next push, where it gives   *)
(* up manifest_lock.                                                       *)
(*                                                                         *)
(* Files are made of units.  With the on-demand profile a representation   *)
(* is one file, moov sidx (moof mdat)*, and an entry of the sidx is a moof *)
(* with its mdat; "inline" if the MPD does not tell where the sidx is,     *)
(* "indexed" if it does.  Otherwise ("list", "template") a segment is a    *)
(* file moof mdat and the moov is in a file of its own.                    *)
(*                                                                         *)
(* Only VOD at normal rate or backwards; key-unit trick mode with its      *)
(* chunks, timestamps of buffers and the statistics are left out, and so   *)
(* are seeks and stops from outside, which module AdaptiveDemux is about.  *)
(***************************************************************************)
EXTENDS MpdSegments, FiniteSets

CONSTANTS
  Cuts,         \* Cuts[r]: where the entries of representation r begin, the end
  Segments, TemplateDuration,   \* the layouts "list" and "template"
  PeriodStart, PeriodLength,
  MoovSize, SidxSize, MoofSize, MdatSize, MaxBuffer,   \* in units
  Starts,       \* [layout, forward, seek, target, reps]: the playbacks to model
  Faults,       \* kinds of failures of the source, see Fail
  RefetchOk,    \* numbers of representations with which a refetch works
  MaxErrors,    \* MAX_DOWNLOAD_ERROR_COUNT
  MaxFaults, MaxSwitches   \* bounds: failures, changes of representation

Reps == DOMAIN Cuts
FaultKinds == {"refused", "start", "server", "broken", "overtakes"}

ASSUME SizesAssumption ==
  /\ MoovSize \in Nat \ {0} /\ SidxSize \in Nat \ {0}
  /\ MoofSize \in Nat \ {0} /\ MdatSize \in Nat \ {0}
  /\ MaxBuffer \in Nat \ {0} /\ MaxErrors \in Nat
  /\ MaxFaults \in Nat /\ MaxSwitches \in Nat
  /\ PeriodStart \in Nat /\ PeriodLength \in Nat \ {0}
  /\ TemplateDuration \in Nat \ {0}

(* All representations cover the period; the lowest is 1.                   *)
ASSUME CutsAssumption ==
  /\ Cuts \in Seq(Seq(Nat)) /\ Cuts # <<>>
  /\ \A r \in Reps :
       /\ Len(Cuts[r]) >= 2
       /\ Cuts[r][1] = 0 /\ Cuts[r][Len(Cuts[r])] = PeriodLength
       /\ \A i \in 1 .. Len(Cuts[r]) - 1 : Cuts[r][i] < Cuts[r][i + 1]

ASSUME SegmentsAssumption ==
  /\ Segments \in Seq([start : Nat, duration : Nat \ {0}, repeat : Int])
  /\ Segments # <<>>
  /\ \A i \in 1 .. Len(Segments) - 1 :
       Segments[i].repeat >= 0 =>
         Segments[i + 1].start =
           Segments[i].start + (Segments[i].repeat + 1) * Segments[i].duration

ASSUME StartsAssumption ==
  /\ Starts \subseteq [layout : {"inline", "indexed", "list", "template"},
                       forward : BOOLEAN, seek : BOOLEAN, target : Nat,
                       reps : Reps]
  /\ \A s \in Starts : s.seek => s.target >= PeriodStart
  /\ Faults \subseteq FaultKinds

VARIABLES
  start,      \* the playback: layout, direction, seek target, representations
  d,          \* the fields of GstDashDemuxStream and of its base, see Streams
  todo,       \* the parts of the fragment that are still to be downloaded
  frag,       \* stream->fragment: what the media request asks for
  dpc,        \* where D is
  retried,    \* retried_once
  starting,   \* starting_fragment
  finished,   \* download_finished
  status,     \* is last_status_code a 5xx?
  src,        \* the source: what it fetches, and how far it has got
  spc,        \* where S is
  switches, faults,   \* bounded counters
  posted,     \* has a fatal error been posted by S?
  push,       \* what S pushed last
  moov,       \* the representation of the moov pushed last, 0 for none
  run,        \* what S has pushed of a file without a gap
  heard,      \* the span of media that has been pushed last
  at          \* up to where media has been pushed

requestVars == <<todo, frag, retried>>
sourceVars == <<src, finished, status>>
shownVars == <<push, moov, run, heard, at>>
countVars == <<switches, faults>>
vars == <<start, d, requestVars, dpc, starting, sourceVars, spc, countVars,
          posted, shownVars>>

-----------------------------------------------------------------------------
(* The MPD and the files.                                                   *)

OnDemand == start.layout \in {"inline", "indexed"}

(* What gst_mpd_client_setup_representation has made of the MPD.            *)
Mpd ==
  [segments |->
     CASE OnDemand -> <<[start |-> 0, duration |-> PeriodLength, repeat |-> 0]>>
       [] start.layout = "list" -> Segments
       [] start.layout = "template" -> <<>>,
   duration |-> TemplateDuration,
   start |-> PeriodStart, length |-> PeriodLength]

First == MoovSize + SidxSize
Block == MoofSize + MdatSize
Entries(r) == Len(Cuts[r]) - 1
Pts(r, e) == Cuts[r][e + 1]
EntryEnd(r, e) == Cuts[r][e + 2]

(* Where the media begins in the file that a part is taken from.            *)
MediaBase == IF OnDemand THEN First ELSE 0

(* The box that a unit belongs to, and whether it is the last of it.        *)
BoxOf(part, u) ==
  IF (OnDemand \/ part = "header") /\ u < MoovSize THEN "moov"
  ELSE IF OnDemand /\ u < First THEN "sidx"
  ELSE IF (u - MediaBase) % Block < MoofSize THEN "moof" ELSE "mdat"

LastOfBox(part, u) ==
  IF (OnDemand \/ part = "header") /\ u < MoovSize THEN u + 1 = MoovSize
  ELSE IF OnDemand /\ u < First THEN u + 1 = First
  ELSE (u + 1 - MediaBase) % Block \in {0, MoofSize}

(* The first unit after a part of the file.                                 *)
PartEnd(part, r) ==
  CASE part = "header" -> MoovSize
    [] part = "index" -> First
    [] part = "media" -> IF OnDemand THEN First + Entries(r) * Block ELSE Block

Parts == {"header", "index", "media"}
Rets == {"OK", "SWITCH", "EOS", "CUSTOM_ERROR", "ERROR"}

Streams ==
  [rep : Reps, at : [index : Int, repeat : Int],   \* active_stream
   index : {0} \cup Reps,   \* sidx_parser: whose sidx it has parsed
   entry : Int,             \* its entry_index
   sidxPos : Int,           \* sidx_position
   pending : Int,           \* pending_seek_ts
   allow : BOOLEAN,         \* allow_sidx
   mdat : BOOLEAN,          \* isobmff_parser.current_fourcc is MDAT
   off : Int,               \* current_offset
   section : 0 .. 3,        \* current_index_header_or_data
   base : Int,              \* sidx_base_offset
   queue : Seq(Int),        \* adapter: units of the file
   needHeader : BOOLEAN,    \* need_header
   lastRet : Rets,          \* last_ret
   errs : Nat]              \* download_error_count

-----------------------------------------------------------------------------
(* gstdashdemux.c: the index and the way forward.                           *)

(* gst_isoff_sidx_parser_clear.                                             *)
ClearSidx(x) == [x EXCEPT !.index = 0, !.entry = 0]

(* gst_dash_demux_stream_sidx_seek.  Of its flags only SNAP_BEFORE is used. *)
SidxSeek(x, snapBefore, ts) ==
  LET r == x.index
      e == IF ts >= PeriodLength THEN Entries(r) - 1
           ELSE CHOOSE i \in 0 .. Entries(r) - 1 : Pts(r, i) <= ts /\ ts < EntryEnd(r, i)
      k == IF ~start.forward /\ e > 0 /\ Pts(r, e) = ts THEN e - 1 ELSE e
      idx == IF snapBefore /\ ~start.forward /\ k + 1 < Entries(r) /\ Pts(r, k) < ts
             THEN k + 1 ELSE k
  IN [x EXCEPT !.entry = idx, !.sidxPos = Pts(r, idx)]

(* A sidx of representation r ends at offset o.                             *)
ReadSidx(x, r, o) ==
  LET y == [x EXCEPT !.index = r, !.entry = 0, !.base = o, !.allow = FALSE]
      e == IF start.forward THEN 0 ELSE Entries(r) - 1
  IN IF x.pending # Unknown
     THEN [SidxSeek(y, FALSE, x.pending) EXCEPT !.pending = Unknown]
     ELSE IF x.sidxPos = Unknown
     THEN [y EXCEPT !.entry = e, !.sidxPos = Pts(r, e)]
     ELSE SidxSeek(y, TRUE, x.sidxPos)

(* sidx_seek_needed.                                                        *)
MustJump_Backwards(x) == x.index # 0 /\ ~start.forward
MustJump(x) == x.index # 0 /\ (x.entry # 0 \/ ~start.forward)

HasNextSubfragment(x) ==
  /\ x.index # 0
  /\ IF start.forward THEN x.entry + 1 < Entries(x.index) ELSE x.entry >= 1

(* gst_dash_demux_stream_has_next_fragment.                                 *)
HasNextFragment(x) ==
  (OnDemand /\ HasNextSubfragment(x)) \/ HasNextSegment(Mpd, x.at, start.forward)

(* gst_dash_demux_stream_advance_subfragment: stay in this segment.         *)
ToEntry(x, e) == [x EXCEPT !.entry = e, !.sidxPos = Pts(x.index, e), !.mdat = FALSE]

NextEntry(x) == IF start.forward THEN x.entry + 1 ELSE x.entry - 1

(* The rest of gst_dash_demux_stream_advance_fragment: go to the next one.  *)
ToSegment(x) ==
  LET a == AdvanceSegment(Mpd, x.at, start.forward)
  IN [ClearSidx(x) EXCEPT !.mdat = FALSE, !.queue = <<>>, !.base = 0,
        !.sidxPos = Unknown, !.allow = TRUE, !.at = a.at, !.lastRet = a.ret]

AdvanceFragment(x) ==
  IF OnDemand /\ x.index # 0 /\ NextEntry(x) \in 0 .. Entries(x.index) - 1
  THEN ToEntry(x, NextEntry(x)) ELSE ToSegment(x)

(* gst_dash_demux_stream_select_bitrate has chosen representation r.        *)
SwitchTo(x, r) ==
  [ClearSidx(x) EXCEPT !.rep = r,
     !.sidxPos = IF OnDemand /\ x.index # 0 THEN Pts(x.index, x.entry) ELSE Unknown,
     !.base = 0, !.allow = TRUE, !.mdat = FALSE, !.off = Unknown,
     !.section = 0, !.queue = <<>>, !.needHeader = TRUE, !.lastRet = "SWITCH"]

(* gst_adaptive_demux_stream_advance_fragment; the result is in last_ret.   *)
Advance(x, r) ==
  IF x.lastRet # "OK" THEN x
  ELSE IF ~HasNextFragment(x) THEN [x EXCEPT !.errs = 0, !.lastRet = "EOS"]
  ELSE LET y == AdvanceFragment([x EXCEPT !.errs = 0])
       IN IF y.lastRet = "OK" /\ r # y.rep THEN SwitchTo(y, r) ELSE y

(* gst_dash_demux_stream_fragment_finished: it does not advance after the   *)
(* header or the index, nor where data_received has done so.                *)
StaysInPlace_Never(x, part) == part # "media"
StaysInPlace(x, part) ==
  \/ /\ OnDemand /\ x.index # 0
     /\ IF x.pending # Unknown \/ ~x.mdat THEN x.entry < Entries(x.index)
        ELSE HasNextSubfragment(x)
  \/ part # "media"

FragmentFinished(x, part, r) == IF StaysInPlace(x, part) THEN x ELSE Advance(x, r)

(* The representations that select_bitrate may choose.                      *)
Choices == IF switches < MaxSwitches THEN 1 .. start.reps ELSE {d.rep}
CountSwitch == switches' = IF d'.rep # d.rep THEN switches + 1 ELSE switches

-----------------------------------------------------------------------------
(* What is pushed.                                                          *)

Largest(S) == CHOOSE x \in S : \A y \in S : y <= x
Smallest(S) == CHOOSE x \in S : \A y \in S : x <= y

(* The span of the media of block k of the file of fragment p.              *)
Span(r, p, k) ==
  IF OnDemand THEN <<Pts(r, k), EntryEnd(r, k)>>
  ELSE <<Timestamp(Mpd, p), Timestamp(Mpd, p) + Duration(Mpd, p)>>

BlocksOf(r) == 0 .. (PartEnd("media", r) - MediaBase) \div Block - 1

(* S pushes the units q of the adapter of x, current_offset being x.off.    *)
Push(x, q) ==
  LET part == src.part
      more == q # <<>> /\ run.rep = src.rep /\ run.at = src.at /\ run.to = q[1]
      from == IF more THEN run.from ELSE q[1]
      to == q[Len(q)] + 1
      full(k) == /\ from <= MediaBase + k * Block
                 /\ q[1] < MediaBase + (k + 1) * Block
                 /\ MediaBase + (k + 1) * Block <= to
      spans == {Span(src.rep, src.at, k) : k \in {k \in BlocksOf(src.rep) : part = "media" /\ full(k)}}
  IN IF q = <<>> THEN UNCHANGED shownVars
     ELSE
     /\ push' = [part |-> part, rep |-> src.rep, at |-> src.at, units |-> q,
                 off |-> x.off, index |-> x.index, entry |-> x.entry]
     /\ moov' = IF \E i \in DOMAIN q : BoxOf(part, q[i]) = "moov" /\ LastOfBox(part, q[i])
                THEN src.rep ELSE moov
     /\ run' = [rep |-> src.rep, at |-> src.at, from |-> from, to |-> to]
     /\ heard' = IF spans = {} THEN heard ELSE CHOOSE sp \in spans : TRUE
     /\ at' = IF start.forward THEN Largest({at, heard'[2]})
              ELSE Smallest({at, heard'[1]})

-----------------------------------------------------------------------------
(* S: _src_chain, gst_dash_demux_data_received, handle_isobmff.             *)

(* The source has been told to stop, with EOS or an error.                  *)
StopSource == src' = [src EXCEPT !.on = FALSE]

SectionOf(part) == CASE part = "index" -> 1 [] part = "header" -> 2 [] part = "media" -> 3

(* start_fragment, and the beginning of data_received.                      *)
Begun_SameFile(x) ==
  LET s == SectionOf(src.part)
      z == IF x.section # s
           THEN [x EXCEPT !.section = s, !.queue = <<>>, !.off = Unknown] ELSE x
  IN IF z.off = Unknown THEN [z EXCEPT !.off = src.pos] ELSE z
Begun(x) ==
  LET y == IF starting THEN [x EXCEPT !.section = 0, !.off = Unknown] ELSE x
      s == SectionOf(src.part)
      z == IF y.section # s
           THEN [y EXCEPT !.section = s, !.queue = <<>>, !.off = Unknown] ELSE y
  IN IF z.off = Unknown THEN [z EXCEPT !.off = src.pos] ELSE z

(* A buffer of n units arrives.                                             *)
Receive(n) ==
  /\ src.on /\ spc = "idle" /\ src.pos + n <= src.end
  /\ LET x == Begun(d)
     IN d' = [x EXCEPT !.queue = @ \o [i \in 1 .. n |-> src.pos + i - 1]]
  /\ starting' = FALSE
  /\ src' = [src EXCEPT !.pos = @ + n]
  /\ spc' = IF d.mdat THEN "mdat" ELSE "parse"
  /\ UNCHANGED <<start, requestVars, dpc, finished, status, countVars, posted,
                 shownVars>>

(* The boxes at the front of the adapter that are there completely, and not *)
(* an mdat, end after one of these numbers of units.                        *)
WholeBoxes(q, part) ==
  {k \in 0 .. Len(q) :
     /\ k = 0 \/ LastOfBox(part, q[k])
     /\ \A i \in 1 .. k : BoxOf(part, q[i]) # "mdat"}

(* The numbers of units, up to k, after which a sidx is complete.           *)
SidxEnds(q, part, k) ==
  {i \in 1 .. k : BoxOf(part, q[i]) = "sidx" /\ LastOfBox(part, q[i])}

(* gst_dash_demux_parse_isobmff: [x, k], the stream and the units to push.  *)
Parsed(x, part) ==
  LET k == Largest(WholeBoxes(x.queue, part))
      sidx == IF OnDemand /\ x.allow THEN SidxEnds(x.queue, part, k) ELSE {}
      y == IF sidx = {} THEN x
           ELSE ReadSidx(x, src.rep, x.off + Smallest(sidx))
      jump == sidx # {} /\ MustJump(y)
      n == IF jump THEN Smallest(sidx) ELSE k
      moof == \E i \in 1 .. n : BoxOf(part, x.queue[i]) = "moof"
  IN [n |-> n, jump |-> jump,
      x |-> [y EXCEPT !.allow = @ /\ ~moof,
                      !.off = @ + n,
                      !.queue = SubSeq(x.queue, n + 1, Len(x.queue)),
                      !.mdat = /\ ~jump /\ n < Len(x.queue)
                               /\ BoxOf(part, x.queue[n + 1]) = "mdat"]]

(* S looks for boxes, pushes those it has found, and stops the source if it *)
(* has to jump to another entry of the index, or goes on with the mdat.     *)
Parse ==
  /\ spc = "parse"
  /\ \E p \in {Parsed(d, src.part)} :
       LET ends == p.jump /\ src.part # "index"
       IN /\ Push(d, SubSeq(d.queue, 1, p.n))
          /\ \E r \in Choices :
               d' = IF ends THEN FragmentFinished(p.x, src.part, r) ELSE p.x
          /\ spc' = IF ~ends /\ p.x.mdat /\ p.x.queue # <<>> THEN "mdat" ELSE "idle"
          /\ finished' = (finished \/ ends)
          /\ IF ends THEN StopSource ELSE UNCHANGED src
  /\ CountSwitch
  /\ UNCHANGED <<start, requestVars, dpc, starting, status, faults, posted>>

(* Where the entry of the index ends.                                       *)
EntryStop_Next(x) == x.base + (x.entry + 2) * Block
EntryStop_NoBase(x) == (x.entry + 1) * Block
EntryStop(x) == x.base + (x.entry + 1) * Block

(* In the mdat everything is taken up to the end of the entry, and behind   *)
(* the end of the last.                                                     *)
Taken(x) ==
  IF x.index = 0 \/ x.off + Len(x.queue) < EntryStop(x) \/ EntryStop(x) <= x.off
  THEN Len(x.queue) ELSE EntryStop(x) - x.off

(* The rest of the data is behind the end of the entry: "Invalid SIDX".     *)
InvalidSidx(x) ==
  /\ x.index # 0 /\ HasNextSubfragment(x)
  /\ x.off + Len(x.queue) >= EntryStop(x) /\ EntryStop(x) <= x.off

(* S reaches the end of the entry with these units, and there is a next.    *)
EntryDone(x) ==
  /\ x.index # 0 /\ HasNextSubfragment(x)
  /\ x.off + Len(x.queue) >= EntryStop(x) /\ EntryStop(x) > x.off

PushMdat ==
  /\ LET n == Taken(d)
         y == [d EXCEPT !.off = @ + n, !.queue = SubSeq(@, n + 1, Len(@))]
     IN /\ Push(d, SubSeq(d.queue, 1, n))
        /\ \E r \in Choices : d' = IF EntryDone(d) THEN Advance(y, r) ELSE y
  /\ LET ret == IF EntryDone(d) THEN d'.lastRet ELSE "OK"
     IN /\ spc' = IF EntryDone(d) /\ ret = "OK" /\ d'.queue # <<>> THEN "parse" ELSE "idle"
        /\ finished' = (finished \/ ret # "OK")
        /\ IF ret = "OK" THEN UNCHANGED src ELSE StopSource
        /\ posted' = (posted \/ ret \in {"CUSTOM_ERROR", "ERROR"})
  /\ CountSwitch

RefuseMdat ==
  /\ d' = [d EXCEPT !.queue = <<>>, !.lastRet = IF @ = "OK" THEN "ERROR" ELSE @]
  /\ spc' = "idle" /\ finished' = TRUE /\ posted' = TRUE
  /\ StopSource
  /\ UNCHANGED <<switches, shownVars>>

Mdat ==
  /\ spc = "mdat"
  /\ IF InvalidSidx(d) THEN RefuseMdat ELSE PushMdat
  /\ UNCHANGED <<start, requestVars, dpc, starting, status, faults>>

(* EOS of the source: gst_adaptive_demux_eos_handling.                      *)
SourceEos ==
  /\ src.on /\ spc = "idle" /\ src.pos = src.end
  /\ \E r \in Choices : d' = FragmentFinished(d, src.part, r)
  /\ finished' = TRUE
  /\ StopSource
  /\ CountSwitch
  /\ UNCHANGED <<start, requestVars, dpc, starting, status, spc, faults, posted,
                 shownVars>>

-----------------------------------------------------------------------------
(* U: the source fails: gst_adaptive_demux_handle_message.                  *)

(* The kinds of failures: before any data has come, with a status of 5xx    *)
(* ("server") or without ("refused"); where the data ends ("broken"); or    *)
(* while the queue of the source still holds data ("overtakes").  An error  *)
(* without a status leaves last_status_code as it was.                      *)
Fail(kind) ==
  /\ kind \in Faults \ {"start"} /\ faults < MaxFaults
  /\ dpc = "wait" /\ src.on /\ ~finished
  /\ kind \in {"server", "refused"} => src.pos = src.from
  /\ kind # "overtakes" => spc = "idle"
  /\ d' = [d EXCEPT !.lastRet = IF @ = "OK" THEN "CUSTOM_ERROR" ELSE @]
  /\ finished' = TRUE
  /\ status' \in CASE kind = "server" -> {TRUE}
                   [] kind = "refused" -> {status, FALSE}
                   [] kind \in {"broken", "overtakes"} -> {status}
  /\ src' = IF kind = "overtakes" THEN src ELSE [src EXCEPT !.end = src.pos]
  /\ faults' = faults + 1
  /\ UNCHANGED <<start, requestVars, dpc, starting, spc, switches, posted, shownVars>>

-----------------------------------------------------------------------------
(* D: the download loop of gstadaptivedemux.c.                              *)

NoSrc == [on |-> FALSE, rep |-> 1, at |-> Position(0, 0), part |-> "media",
          from |-> 0, pos |-> 0, end |-> 0]

(* gst_dash_demux_stream_update_fragment_info asks for the index alone if   *)
(* the place to go to in it is known, ...                                   *)
IndexOnly == d.needHeader /\ start.layout = "indexed" /\ d.sidxPos # Unknown

(* update_headers_info.                                                     *)
Headers ==
  CASE ~d.needHeader \/ start.layout = "inline" -> <<>>
    [] d.needHeader /\ start.layout = "indexed" -> <<"header", "index">>
    [] d.needHeader /\ ~OnDemand -> <<"header">>

(* ... and otherwise for media, from the entry of the index if there is one.*)
Request ==
  LET known == OnDemand /\ d.index # 0 /\ d.sidxPos # Unknown
      from == IF known THEN d.base + d.entry * Block ELSE d.base
  IN [rep |-> d.rep, at |-> d.at, from |-> from,
      to |-> IF known /\ ~start.forward THEN from + Block
             ELSE PartEnd("media", d.rep)]

UpdateInfo ==
  /\ dpc = "loop" /\ (IndexOnly \/ HasFragment(Mpd, d.at))
  /\ todo' = Headers \o (IF IndexOnly THEN <<>> ELSE <<"media">>)
  /\ frag' = Request
  /\ d' = [d EXCEPT !.lastRet = "OK", !.needHeader = Headers # <<>>]
  /\ starting' = TRUE /\ retried' = FALSE
  /\ dpc' = "open"
  /\ UNCHANGED <<start, sourceVars, spc, countVars, posted, shownVars>>

(* There is nothing left: EOS.                                              *)
NoFragment ==
  /\ dpc = "loop" /\ ~IndexOnly /\ ~HasFragment(Mpd, d.at)
  /\ d' = [d EXCEPT !.lastRet = "EOS"]
  /\ dpc' = "done"
  /\ UNCHANGED <<start, requestVars, starting, sourceVars, spc, countVars, posted,
                 shownVars>>

(* gst_adaptive_demux_stream_download_uri, up to where it waits.            *)
Open ==
  /\ dpc = "open"
  /\ LET part == Head(todo)
         from == CASE part = "header" -> 0 [] part = "index" -> MoovSize
                   [] part = "media" -> frag.from
     IN src' = [on |-> TRUE, rep |-> frag.rep, at |-> frag.at, part |-> part,
                from |-> from, pos |-> from,
                end |-> IF part = "media" THEN frag.to ELSE PartEnd(part, frag.rep)]
  /\ finished' = FALSE
  /\ dpc' = "wait"
  /\ UNCHANGED <<start, d, requestVars, starting, status, spc, countVars, posted,
                 shownVars>>

(* The source cannot be made or started (ERROR), or not be set to READY.    *)
OpenFails ==
  /\ dpc = "open" /\ "start" \in Faults /\ faults < MaxFaults
  /\ \E ret \in {"ERROR", "CUSTOM_ERROR"} : d' = [d EXCEPT !.lastRet = ret]
  /\ faults' = faults + 1
  /\ dpc' = "result"
  /\ UNCHANGED <<start, requestVars, starting, sourceVars, spc, switches, posted,
                 shownVars>>

(* D wakes up and stops the source when S is idle.                          *)
Woken ==
  /\ dpc = "wait" /\ finished /\ spc = "idle"
  /\ src' = [src EXCEPT !.on = FALSE]
  /\ dpc' = "result"
  /\ UNCHANGED <<start, d, requestVars, starting, finished, status, spc, countVars,
                 posted, shownVars>>

(* What download_uri has returned is in last_ret.  After a part comes the   *)
(* next, or the loop begins again; need_header is FALSE after the index.    *)
PartDone ==
  /\ dpc = "result" /\ d.lastRet = "OK"
  /\ todo' = Tail(todo)
  /\ d' = [d EXCEPT !.needHeader = @ /\ \E i \in DOMAIN todo' : todo'[i] # "media"]
  /\ dpc' = IF todo' = <<>> THEN "loop" ELSE "open"
  /\ UNCHANGED <<start, frag, retried, starting, sourceVars, spc, countVars, posted,
                 shownVars>>

Switched ==
  /\ dpc = "result" /\ d.lastRet = "SWITCH"
  /\ dpc' = "loop"
  /\ UNCHANGED <<start, d, requestVars, starting, sourceVars, spc, countVars, posted,
                 shownVars>>

Ended ==
  /\ dpc = "result" /\ d.lastRet = "EOS"
  /\ dpc' = "done"
  /\ UNCHANGED <<start, d, requestVars, starting, sourceVars, spc, countVars, posted,
                 shownVars>>

(* gst_adaptive_demux_stream_download_fragment: what becomes of an error.   *)
MediaError == Head(todo) = "media" /\ d.lastRet = "CUSTOM_ERROR"
ServerError == ~retried /\ status   \* 5xx, at the first try

(* The same request once more; nothing is reset.                            *)
Again ==
  /\ dpc = "result" /\ MediaError /\ ~ServerError
  /\ HasNextFragment(d) /\ ~retried
  /\ retried' = TRUE
  /\ d' = [d EXCEPT !.lastRet = "OK"]
  /\ dpc' = "open"
  /\ UNCHANGED <<start, todo, frag, starting, sourceVars, spc, countVars, posted,
                 shownVars>>

(* The error is taken for the end of the stream.                            *)
TakenForEnd ==
  MediaError /\ IF ServerError THEN d.errs >= MaxErrors ELSE ~HasNextFragment(d)

Cut ==
  /\ dpc = "result" /\ TakenForEnd
  /\ dpc' = "cut"
  /\ UNCHANGED <<start, d, requestVars, starting, sourceVars, spc, countVars, posted,
                 shownVars>>

(* gst_dash_demux_update_manifest_data: the position is looked up in the    *)
(* new MPD, which begins with the lowest representation.                    *)
Refetched(x) ==
  LET ts == IF HasFragment(Mpd, x.at) THEN Timestamp(Mpd, x.at) ELSE LastEnd(Mpd)
  IN [x EXCEPT !.rep = 1, !.at = Seek(Mpd, start.forward, ts + PeriodStart + 1).at]

ErrorStays ==
  /\ dpc = "result" /\ d.lastRet \in {"CUSTOM_ERROR", "ERROR"} /\ ~TakenForEnd
  /\ ~(MediaError /\ ~ServerError /\ ~retried)

(* The loop counts the error, fetches the MPD again and starts over.        *)
StartOver ==
  /\ ErrorStays /\ d.errs < MaxErrors
  /\ LET x == [d EXCEPT !.errs = @ + 1]
     IN d' \in IF start.reps \in RefetchOk THEN {x, Refetched(x)} ELSE {x}
  /\ dpc' = "loop"
  /\ UNCHANGED <<start, requestVars, starting, sourceVars, spc, countVars, posted,
                 shownVars>>

(* Too many errors: an error message is posted.                             *)
GiveUp ==
  /\ ErrorStays /\ d.errs >= MaxErrors
  /\ d' = [d EXCEPT !.errs = @ + 1]
  /\ dpc' = "failed"
  /\ UNCHANGED <<start, requestVars, starting, sourceVars, spc, countVars, posted,
                 shownVars>>

-----------------------------------------------------------------------------
(* A stream after setup_all_streams, and after the seek if there is one.    *)
NewStream ==
  [rep |-> 1,
   at |-> IF start.seek THEN Seek(Mpd, start.forward, start.target).at ELSE Position(0, 0),
   index |-> 0, entry |-> 0, sidxPos |-> Unknown,
   pending |-> IF OnDemand /\ start.seek /\ Seek(Mpd, start.forward, start.target).found
               THEN start.target - PeriodStart ELSE Unknown,
   allow |-> OnDemand, mdat |-> FALSE, off |-> Unknown, section |-> 0, base |-> 0,
   queue |-> <<>>, needHeader |-> TRUE, lastRet |-> "OK", errs |-> 0]

From == IF start.seek THEN start.target - PeriodStart ELSE 0

Init ==
  /\ start \in Starts
  /\ d = NewStream
  /\ todo = <<>> /\ retried = FALSE
  /\ frag = [rep |-> 1, at |-> Position(0, 0), from |-> 0, to |-> 0]
  /\ dpc = "loop" /\ spc = "idle"
  /\ starting = FALSE /\ finished = FALSE /\ status = FALSE
  /\ src = NoSrc
  /\ switches = 0 /\ faults = 0 /\ posted = FALSE
  /\ push = [part |-> "none", rep |-> 1, at |-> Position(0, 0), units |-> <<>>,
             off |-> 0, index |-> 0, entry |-> 0]
  /\ moov = 0
  /\ run = [rep |-> 0, at |-> Position(0, 0), from |-> 0, to |-> 0]
  /\ heard = <<From, From>> /\ at = From

D ==
  \/ UpdateInfo \/ NoFragment \/ Open \/ OpenFails \/ Woken \/ PartDone \/ Switched
  \/ Ended \/ Again \/ Cut \/ StartOver \/ GiveUp
S == (\E n \in 1 .. MaxBuffer : Receive(n)) \/ Parse \/ Mdat \/ SourceEos
U == \E kind \in FaultKinds : Fail(kind)

Over == dpc \in {"done", "cut", "failed"}
Finished == Over /\ UNCHANGED vars

Next == D \/ S \/ U \/ Finished

(* Both tasks keep running; the source and the network may fail or not.     *)
Spec == Init /\ [][Next]_vars /\ WF_vars(D) /\ WF_vars(S)

-----------------------------------------------------------------------------
(* Properties.                                                              *)

(* The values of the variables.                                             *)
TypeOK ==
  /\ start \in Starts
  /\ d \in Streams
  /\ todo \in Seq(Parts) /\ retried \in BOOLEAN
  /\ frag \in [rep : Reps, at : [index : Int, repeat : Int], from : Int, to : Int]
  /\ dpc \in {"loop", "open", "wait", "result", "done", "cut", "failed"}
  /\ spc \in {"idle", "parse", "mdat"}
  /\ starting \in BOOLEAN /\ finished \in BOOLEAN /\ status \in BOOLEAN
  /\ posted \in BOOLEAN
  /\ src \in [on : BOOLEAN, rep : Reps, at : [index : Int, repeat : Int],
              part : Parts, from : Int, pos : Int, end : Int]
  /\ switches \in 0 .. MaxSwitches /\ faults \in 0 .. MaxFaults
  /\ d.index # 0 => d.entry \in 0 .. Entries(d.index) - 1
  /\ moov \in {0} \cup Reps /\ heard \in Int \X Int /\ at \in Int

(* The units of moofs and mdats in the last push.                           *)
Media ==
  {push.units[i] : i \in {i \in DOMAIN push.units :
     push.part = "media" /\ BoxOf("media", push.units[i]) \in {"moof", "mdat"}}}

(* Media is pushed only behind the moov of its own representation: after a  *)
(* change of the representation the header is downloaded and pushed again.  *)
HeaderFirst == Media # {} => moov = push.rep

(* A buffer is pushed with the offset that its data has in the file: the    *)
(* demuxer downstream finds the samples by these offsets.                   *)
OffsetsTrue == \A i \in DOMAIN push.units : push.units[i] = push.off + i - 1

(* All that is pushed is in order, in types, headers and offsets.           *)
PushedTrue == TypeOK /\ HeaderFirst /\ OffsetsTrue

(* The entry of the index that the stream is at when data of an mdat is     *)
(* pushed is the one the data belongs to.                                   *)
RightEntry ==
  push.index # 0 =>
    \A u \in Media :
      BoxOf("media", u) = "mdat" => (u - First) \div Block = push.entry

(* After a seek nothing is pushed that ends before the target (begins after *)
(* it if playing backwards).                                                *)
SeekHonoured ==
  \A u \in Media :
    LET span == Span(push.rep, push.at, (u - MediaBase) \div Block)
    IN IF start.forward THEN span[2] > From ELSE span[1] < From

(* The streaming thread never posts an error by itself: an error of the     *)
(* source is retried, and it is the download task that gives up.            *)
Retried == ~posted

(* What the stream promises, see module Playback.                           *)
Spans ==
  IF OnDemand THEN UNION {{Span(r, d.at, k) : k \in BlocksOf(r)} : r \in 1 .. start.reps}
  ELSE LET where == IF Template(Mpd) THEN {Position(i, 0) : i \in 0 .. Count(Mpd) - 1}
                    ELSE UNION {{Position(i, j) : j \in 0 .. LastRepeat(Mpd, i)} :
                                  i \in 0 .. Count(Mpd) - 1}
       IN {Span(1, p, 0) : p \in where}

Show ==
  [fragments |-> Spans, forward |-> start.forward, from |-> From,
   to |-> IF start.forward THEN Largest({s[2] : s \in Spans})
          ELSE Smallest({s[1] : s \in Spans})]

Promise == INSTANCE Playback WITH
  show <- Show, heard <- heard, at <- at,
  over <- IF dpc = "done" THEN "complete"
          ELSE IF dpc \in {"cut", "failed"} THEN "given up" ELSE "no"

(* Whatever the order of buffers, failures, retries and changes of the      *)
(* representation, the media is pushed without a gap from where playback    *)
(* starts, and the end is announced only when all of it has been pushed or  *)
(* the source has been given up.                                            *)
Plays == Promise!Spec

(* The download of a stream comes to its end.                               *)
Ends == <>Over
=============================================================================
