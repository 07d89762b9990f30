------------------------------- MODULE TsPcr --------------------------------
(***************************************************************************)
(* What gst/dvrtsdemux/mpegtspacketizer.c learns from the program clock    *)
(* references (PCR) of a file in order to seek in it: groups of            *)
(* observations of the PCR at an offset of the file, and for each group    *)
(* how far its first PCR is from the beginning of the stream (pcr_offset), *)
(* across wraparounds, resets and gaps of the clock.                       *)
(*                                                                         *)
(* The element reads a file from its beginning, and seeks in it: then the  *)
(* packetizer is flushed, and a new group is begun, or an old one gone on  *)
(* with.  All times are in the same unit, a tenth of a Second.             *)
(***************************************************************************)
EXTENDS Integers, FiniteSets, SequencesExt

CONSTANTS
  PcrFiles,    \* sequences of [offset, pcr, time]: the PCRs of a file in the
               \* order of its offsets, with the true stream time
  PcrMax,      \* PCR_MAX_VALUE
  Second,      \* PCR_SECOND
  Needed,      \* PCR_BITRATE_NEEDED
  RefOffset,   \* refoffset: where the first PAT is
  Shifts,      \* the stream times the beginning may turn out to have
  MaxSeeks     \* bound

ASSUME PcrAssumption ==
  /\ Second \in Nat /\ Second >= 10 /\ Second % 10 = 0
  /\ PcrMax \in Nat /\ PcrMax > 20 * Second
  /\ Needed \in Nat /\ Needed > 1 /\ MaxSeeks \in Nat
  /\ \A f \in PcrFiles : f # <<>> /\ \A i \in DOMAIN f : f[i].pcr \in 0 .. PcrMax - 1

Msec100 == Second \div 10

VARIABLES
  pcFile,     \* the file
  pcGroups,   \* groups, see PcrTypeOK
  pcCur,      \* current; group is an index, 0 for none
  pcAt,       \* the next observation of the file
  pcSeeks

pcrVars == <<pcFile, pcGroups, pcCur, pcAt, pcSeeks>>

Zero == [pcr |-> 0, offset |-> 0]
NoCurrent ==
  [group |-> 0, pending |-> [k \in 0 .. Needed - 1 |-> Zero], first |-> 0, last |-> 0,
   write |-> 0, prev |-> Zero, lastValue |-> Zero]

LastValue(g) == Last(g.values)
LastPcr(g) == g.firstPcr + LastValue(g).pcr
LastOffset(g) == g.firstOffset + LastValue(g).offset
Pending == pcCur.pending[pcCur.last]

(* gst_util_uint64_scale: a division by zero is refused.                    *)
Huge == 1000000
Scale(x, num, denom) == IF denom = 0 THEN Huge ELSE (x * num) \div denom
AbsDiff(a, b) == IF a < b THEN b - a ELSE a - b

-----------------------------------------------------------------------------
(* _reevaluate_group_pcr_offset                                             *)

(* Where the previous group ends, and its bitrate.                          *)
EndOf(groups, i, cur) ==
  LET g == groups[i]
      v == IF cur.group = i /\ cur.pending[cur.last].offset # 0
           THEN cur.pending[cur.last] ELSE LastValue(g)
  IN  [pcr |-> g.firstPcr + v.pcr, offset |-> g.firstOffset + v.offset,
       rate |-> IF v.offset # 0 THEN Scale(Second, v.offset, v.pcr)
                ELSE Scale(Second, g.firstOffset, g.pcrOffset)]

Wraps(end, g) == end.pcr - g.firstPcr > (PcrMax * 9) \div 10

(* What the clock would have gone on by at most, if it has wrapped once.    *)
Guess(prev, g) == PcrMax - prev.firstPcr + g.firstPcr

(* Estimate group i from the group before.  If the clock is behind that of  *)
(* the other group it has wrapped, which is believed if the bitrate fits,   *)
(* or was reset.  100 * AbsDiff < 10 * rate: a difference of less than 10%. *)
Estimated(groups, i, cur) ==
  LET g == groups[i]
      prev == groups[i - 1]
      end == EndOf(groups, i - 1, cur)
      guess == Guess(prev, g)
      rate == Scale(Second, LastOffset(g) - end.offset,
                    guess + LastValue(g).pcr - (end.pcr - prev.firstPcr))
      reset == Scale(Second, g.firstOffset - prev.firstOffset, end.rate)
  IN  IF g.firstPcr >= prev.firstPcr
      THEN [groups EXCEPT
              ![i].pcrOffset = prev.pcrOffset + g.firstPcr - prev.firstPcr,
              ![i - 1].flags = @ \ {"reset", "wrapover"}]
      ELSE IF Wraps(end, g)
      THEN [groups EXCEPT
              ![i].pcrOffset =
                 IF 100 * AbsDiff(end.rate, rate) < 10 * end.rate THEN guess ELSE @,
              ![i].flags =
                 IF 100 * AbsDiff(end.rate, rate) < end.rate THEN @ \ {"estimated"} ELSE @,
              ![i - 1].flags = @ \cup {"wrapover"}]
      ELSE [groups EXCEPT
              ![i].pcrOffset = prev.pcrOffset + reset + Msec100,
              ![i - 1].flags = @ \cup {"reset"}]

Reevaluate(groups, cur) ==
  FoldLeftDomain(LAMBDA acc, i :
                   IF "estimated" \in acc[i].flags THEN Estimated(acc, i, cur) ELSE acc,
                 groups, groups)

-----------------------------------------------------------------------------
(* _new_group, _use_group, _append_group_values                             *)
NewGroup(o, pcrOffset, flags) ==
  [flags |-> flags, firstPcr |-> o.pcr, firstOffset |-> o.offset,
   values |-> <<Zero>>, pcrOffset |-> pcrOffset]

Use(groups, i) ==
  LET v == LastValue(groups[i])
  IN  [NoCurrent EXCEPT !.group = i, !.pending[0] = v, !.lastValue = v,
                        !.prev = v, !.write = 1]

AppendValue(g, v) ==
  IF LastValue(g) = v THEN g ELSE [g EXCEPT !.values = Append(@, v)]

(* _close_current_group                                                     *)
Closed(groups, cur) ==
  IF cur.group = 0 THEN groups
  ELSE [groups EXCEPT ![cur.group] = AppendValue(@, cur.pending[cur.last])]

Ahead_NoWrap(prev, o) ==
  LET last == LastPcr(prev)
  IN  IF last > o.pcr THEN LastValue(prev).pcr + Msec100 ELSE o.pcr - prev.firstPcr

(* How far the stream has got since the previous group, if that has just    *)
(* ended.                                                                   *)
Ahead(prev, o) ==
  LET last == LastPcr(prev)
  IN  IF last > o.pcr
      THEN IF last - o.pcr > (PcrMax * 99) \div 100
           THEN PcrMax - prev.firstPcr + o.pcr
           ELSE LastValue(prev).pcr + Msec100
      ELSE IF last < o.pcr - 5 * Msec100
      THEN LastValue(prev).pcr + 5 * Msec100
      ELSE o.pcr - prev.firstPcr

(* _set_current_group: a new group after group i, 0 for before all others.  *)
SetCurrentGroup(groups, i, o, contiguous) ==
  LET g == NewGroup(o, IF contiguous THEN groups[i].pcrOffset + Ahead(groups[i], o) ELSE 0,
                    IF ~contiguous /\ i > 0 THEN {"estimated"} ELSE {})
      closed == IF contiguous
                THEN [groups EXCEPT ![i].flags = @ \cup {"closed"}] ELSE groups
      all == InsertAt(closed, i + 1, g)
  IN  /\ pcGroups' = IF contiguous THEN all ELSE Reevaluate(all, Use(all, i + 1))
      /\ pcCur' = Use(all, i + 1)

-----------------------------------------------------------------------------
(* record_pcr                                                               *)

(* No current group: the place for the observation among the groups.        *)
Passed(o) == {i \in DOMAIN pcGroups : pcGroups[i].firstOffset <= o.offset}
Inside(o) == {i \in DOMAIN pcGroups :
                pcGroups[i].firstOffset <= o.offset /\ o.offset <= LastOffset(pcGroups[i])}
JustAfter(o) == {i \in DOMAIN pcGroups :
                   /\ LastOffset(pcGroups[i]) < o.offset
                   /\ "closed" \notin pcGroups[i].flags
                   /\ o.pcr - LastPcr(pcGroups[i]) \in 0 .. Msec100}

(* The groups are looked at in their order up to the first that is behind.  *)
FindGroup(o) ==
  LET behind == DOMAIN pcGroups \ Passed(o)
      end == IF behind = {} THEN Len(pcGroups) ELSE Min(behind) - 1
      stop == (Inside(o) \cup JustAfter(o)) \cap 1 .. end
  IN  IF stop = {} THEN SetCurrentGroup(pcGroups, end, o, FALSE)
      ELSE IF Min(stop) \in Inside(o) THEN UNCHANGED <<pcGroups, pcCur>>
      ELSE pcCur' = Use(pcGroups, Min(stop)) /\ UNCHANGED pcGroups

(* The window of observations is full: has the bitrate changed by more than *)
(* a tenth since the last value of the group?                               *)
BitrateChanged(cur) ==
  LET a == cur.pending[cur.first]
      b == cur.pending[cur.last]
      now == Scale(Second, b.offset - a.offset, b.pcr - a.pcr)
      before == Scale(Second, a.offset - cur.prev.offset, a.pcr - cur.prev.pcr)
  IN  a.pcr - cur.prev.pcr > Second /\ AbsDiff(now, before) * 10 > before

NextSlot(k) == (k + 1) % Needed

Follow(v) ==
  LET cur == [pcCur EXCEPT !.pending[pcCur.write] = v, !.lastValue = v,
                           !.last = NextSlot(@), !.write = NextSlot(@)]
  IN  IF cur.write # cur.first THEN pcCur' = cur /\ UNCHANGED pcGroups
      ELSE IF BitrateChanged(cur)
      THEN /\ pcGroups' = [pcGroups EXCEPT ![cur.group] = AppendValue(@, cur.pending[cur.first])]
           /\ pcCur' = [cur EXCEPT !.prev = cur.pending[cur.first],
                                   !.first = cur.last, !.write = NextSlot(cur.last)]
      ELSE pcCur' = [cur EXCEPT !.first = NextSlot(@)] /\ UNCHANGED pcGroups

RecordPcr(o) ==
  LET g == pcGroups[pcCur.group]
      v == [pcr |-> o.pcr - g.firstPcr, offset |-> o.offset - g.firstOffset]
  IN  IF pcCur.group = 0 THEN FindGroup(o)
      ELSE IF \/ v.pcr >= 0 /\ Pending.pcr - v.pcr \in 1 .. 5 * Msec100 - 1
              \/ v.pcr = pcCur.lastValue.pcr
      THEN UNCHANGED <<pcGroups, pcCur>>
      ELSE IF v.pcr < Pending.pcr \/ v.pcr - Pending.pcr > 2 * Second
      THEN SetCurrentGroup(Closed(pcGroups, pcCur), pcCur.group, o, TRUE)
      ELSE Follow(v)

-----------------------------------------------------------------------------
PcrInit ==
  /\ pcFile \in PcrFiles
  /\ pcGroups = <<>> /\ pcCur = NoCurrent /\ pcAt = 1 /\ pcSeeks = 0

Observe ==
  /\ pcAt <= Len(pcFile)
  /\ RecordPcr(pcFile[pcAt])
  /\ pcAt' = pcAt + 1
  /\ UNCHANGED <<pcFile, pcSeeks>>

(* mpegts_packetizer_flush, for a seek in pull mode: the groups are kept.   *)
SeekPcr(to) ==
  /\ pcSeeks < MaxSeeks /\ pcGroups # <<>> /\ pcSeeks' = pcSeeks + 1
  /\ pcGroups' = Closed(pcGroups, pcCur)
  /\ pcCur' = NoCurrent
  /\ pcAt' = to
  /\ UNCHANGED pcFile

(* mpegts_packetizer_offset_to_ts re-evaluates the groups before it uses    *)
(* the last one.                                                            *)
AskDuration ==
  /\ pcGroups # <<>> /\ "estimated" \in Last(pcGroups).flags
  /\ Len(pcGroups) > 1 \/ pcCur.group = 0
  /\ pcGroups' = Reevaluate(pcGroups, pcCur)
  /\ UNCHANGED <<pcFile, pcCur, pcAt, pcSeeks>>

(* mpegts_packetizer_set_current_pcr_offset: the demuxer finds out that the *)
(* stream begins at another time, and all groups are moved.                 *)
ShiftGroups(to) ==
  /\ pcCur.group # 0
  /\ pcGroups[1].pcrOffset # to
  /\ LET delta == to - pcGroups[1].pcrOffset
     IN  pcGroups' = [i \in DOMAIN pcGroups |-> [pcGroups[i] EXCEPT !.pcrOffset = @ + delta]]
  /\ UNCHANGED <<pcFile, pcCur, pcAt, pcSeeks>>

PcrNext ==
  \/ Observe
  \/ (\E to \in DOMAIN pcFile : SeekPcr(to))
  \/ AskDuration
  \/ (\E to \in Shifts : ShiftGroups(to))
PcrSpec == PcrInit /\ [][PcrNext]_pcrVars

-----------------------------------------------------------------------------
(* Conversions.                                                             *)

NoTime == -1

(* mpegts_packetizer_pts_to_ts in pull mode, where calculate_offset is set; *)
(* at: packetizer->offset.                                                  *)
GroupAt(at) ==
  LET behind == {i \in DOMAIN pcGroups : pcGroups[i].firstOffset > at}
      end == IF behind = {} THEN Len(pcGroups) ELSE Min(behind) - 1
      around == {i \in 1 .. end : LastOffset(pcGroups[i]) > at}
  IN  IF around = {} THEN end ELSE Min(around)

PtsToTs(pts, at) ==
  LET i == IF pcCur.group # 0 THEN pcCur.group ELSE GroupAt(at)
      g == pcGroups[i]
      wrapped == IF pcCur.group # 0
                 THEN /\ g.firstPcr - pts > Second
                      /\ g.firstPcr + Pending.pcr > (PcrMax * 90) \div 100
                 ELSE g.firstPcr - pts > Second
  IN  IF i = 0 THEN NoTime
      ELSE IF pcCur.group = 0 /\ "reset" \in g.flags THEN NoTime
      ELSE IF pts >= g.firstPcr THEN pts - g.firstPcr + g.pcrOffset
      ELSE IF wrapped THEN pts + PcrMax - g.firstPcr + g.pcrOffset
      ELSE NoTime

(* mpegts_packetizer_offset_to_ts, the groups having been re-evaluated: by  *)
(* the average rate up to the end of the last group.                        *)
OffsetToTs(offset) ==
  LET n == Len(pcGroups)
      end == IF n = 1 /\ pcCur.group # 0
             THEN [pcr |-> pcGroups[1].pcrOffset + Pending.pcr,
                   offset |-> pcGroups[1].firstOffset + Pending.offset]
             ELSE [pcr |-> Last(pcGroups).pcrOffset + LastValue(Last(pcGroups)).pcr,
                   offset |-> LastOffset(Last(pcGroups)) - RefOffset]
  IN  IF offset < RefOffset \/ n = 0 THEN NoTime
      ELSE Scale(offset - RefOffset, end.pcr, end.offset)

(* mpegts_packetizer_ts_to_offset: the groups around the time, and a        *)
(* straight line between two points.                                        *)
Line(a, b, ts) ==
  IF a.pcr = b.pcr THEN a.offset
  ELSE a.offset + ((ts - a.pcr) * (b.offset - a.offset)) \div (b.pcr - a.pcr)

StartPoint(g) == [pcr |-> g.pcrOffset, offset |-> g.firstOffset]
EndPoint(i) ==
  LET g == pcGroups[i]
      v == IF pcCur.group = i THEN Pending ELSE LastValue(g)
  IN  [pcr |-> g.pcrOffset + v.pcr, offset |-> g.firstOffset + v.offset]
StoredEnd(g) == [pcr |-> g.pcrOffset + LastValue(g).pcr, offset |-> LastOffset(g)]

(* The loop stops at the first group that is ahead of the time, holds it,   *)
(* or is the last of several.                                               *)
TsToOffset(ts) ==
  LET n == Len(pcGroups)
      current == pcCur.group # 0 /\ ts - pcGroups[pcCur.group].pcrOffset \in 0 .. Pending.pcr
      ahead == {i \in 1 .. n : pcGroups[i].pcrOffset > ts}
      last == IF n > 1 THEN {n} ELSE {}
      holds == {i \in 1 .. n : StoredEnd(pcGroups[i]).pcr >= ts}
      stop == Min(ahead \cup last \cup holds \cup {n})
      between == stop > 1 /\ stop \in ahead \cup last
  IN  IF current THEN Line(StartPoint(pcGroups[pcCur.group]), EndPoint(pcCur.group), ts)
      ELSE IF between
      THEN Line(StoredEnd(pcGroups[stop - 1]), StartPoint(pcGroups[stop]), ts)
      ELSE Line(StartPoint(pcGroups[stop]), EndPoint(stop), ts)

-----------------------------------------------------------------------------
PcrTypeOK ==
  /\ \A i \in DOMAIN pcGroups :
       /\ pcGroups[i].flags \subseteq {"closed", "estimated", "reset", "wrapover"}
       /\ pcGroups[i].firstPcr \in 0 .. PcrMax - 1
       /\ pcGroups[i].values[1] = Zero
  /\ pcCur.group \in 0 .. Len(pcGroups)
  /\ {pcCur.first, pcCur.last, pcCur.write} \subseteq 0 .. Needed - 1
  /\ pcAt \in 1 .. Len(pcFile) + 1 /\ pcSeeks \in 0 .. MaxSeeks

(* The clock of the file runs true, though it may wrap; and it does not.    *)
Honest ==
  /\ \A i \in DOMAIN pcFile : pcFile[i].pcr = (pcFile[1].pcr + pcFile[i].time - pcFile[1].time) % PcrMax
  /\ \A i \in 2 .. Len(pcFile) : pcFile[i].time - pcFile[i - 1].time <= 2 * Second
Unwrapped == Honest /\ \A i \in 2 .. Len(pcFile) : pcFile[i].pcr > pcFile[i - 1].pcr
Steady == \A i \in DOMAIN pcFile : pcFile[i].offset = pcFile[1].offset + pcFile[i].time

(* The stream time of an observation, if the first is at that of the first  *)
(* group.                                                                   *)
Time(o) == pcGroups[1].pcrOffset + o.time - pcFile[1].time
FirstOf(g) == pcFile[CHOOSE j \in DOMAIN pcFile : pcFile[j].offset = g.firstOffset]

(* Every group knows how far it is from the beginning of the stream, as     *)
(* long as the clock has not wrapped between groups that are not contiguous *)
(* (the current branch of mpegts_packetizer_offset_to_ts does not even then *)
(* take the reference offset away).                                         *)
OffsetsTrue ==
  Unwrapped \/ (Honest /\ pcSeeks = 0) =>
    \A g \in Range(pcGroups) : g.pcrOffset = Time(FirstOf(g))

(* Whatever the clock does, stream time goes forward with the file.         *)
GoesForward ==
  pcSeeks = 0 => \A i \in 2 .. Len(pcGroups) : pcGroups[i].pcrOffset > EndPoint(i - 1).pcr - Msec100

(* A presentation time up to a second ahead of the packet it comes in is    *)
(* converted to its stream time, or not at all.                             *)
PtsTrue ==
  (Unwrapped \/ (Honest /\ pcSeeks = 0)) /\ pcAt > 1 /\ pcGroups # <<>> =>
    \A d \in 0 .. Second :
      LET here == pcFile[pcAt - 1]
      IN  PtsToTs((here.pcr + d) % PcrMax, here.offset) \in {NoTime, Time(here) + d}

(* With a constant bitrate, seeking to the time of a PCR that is within     *)
(* what has been observed lands on it or before it.                         *)
LandsBefore ==
  Unwrapped /\ Steady =>
    \A o \in Range(pcFile) :
      (\E g \in DOMAIN pcGroups : EndPoint(g).offset >= o.offset)
        => TsToOffset(Time(o)) <= o.offset

(* And the stream time at the end of the last group is that of its last PCR. *)
DurationTrue ==
  /\ Unwrapped /\ Len(pcGroups) > 1 /\ LastOffset(Last(pcGroups)) > RefOffset
  => \A o \in Range(pcFile) :
       o.offset = LastOffset(Last(pcGroups)) => OffsetToTs(o.offset) = Time(o)

(* What is known of the PCRs of a file agrees with the file.                *)
PcrTrue == OffsetsTrue /\ GoesForward /\ PtsTrue /\ LandsBefore /\ DurationTrue
=============================================================================
