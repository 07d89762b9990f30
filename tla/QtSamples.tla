------------------------------ MODULE QtSamples ------------------------------
(***************************************************************************)
(* How the ISO MP4 demuxer comes to know the samples of a track: from the  *)
(* tables of the movie header, read piece by piece as samples are asked    *)
(* for, with a saved place in each table; and from the runs of the movie   *)
(* fragments, whose bytes and times are worked out one after the other.    *)
(* A table is                                                              *)
(*   count, sizes, chunks : the samples, the size of each, chunk positions,*)
(*   stsc : runs of chunks, [first, per] with per samples in each chunk,   *)
(*   stts, ctts : runs of samples, [n, by] with the duration or offset,    *)
(*   stss : the key frames; NoKeys when there is no table: all are.        *)
(***************************************************************************)
EXTENDS Integers, Sequences, FiniteSets, SequencesExt

CONSTANTS Tables,      \* the sample tables
          Streams,     \* the fragmented tracks, see below
          Gap,         \* a time two fragments may be apart without notice
          MaxReads     \* calls that ask for samples (bound)

VARIABLES table,   \* the sample table of the track
          place,   \* the saved places and what was read
          stream,  \* the fragmented track
          run      \* [next, samples, moof, pending, lost, last]

samplesVars == <<table, place, stream, run>>

NoKeys == {0}
NoTime == -1
NoOffset == -1
Unread == [off |-> 0, ts |-> 0, dur |-> 0, key |-> FALSE, cts |-> 0]
Total(runs) == FoldSeq(LAMBDA r, sum : r.n + sum, 0, runs)

(* qtdemux_stbl_init: the tables that must be there, with what they claim  *)
(* to hold.  A file of fragments may have no samples here.                 *)
Accepted(t) ==
    /\ t.stts # <<>> /\ t.stsc # <<>> /\ t.chunks # <<>>
    /\ Len(t.sizes) = t.count
    /\ t.stss = NoKeys \/ t.stss \subseteq 1..t.count

(* The shift that makes every composition offset positive.                 *)
Shift(t) == Max({0} \cup {-t.ctts[n].by : n \in DOMAIN t.ctts})

SamplesInit ==
    /\ table \in {t \in Tables : Accepted(t)}
    /\ place = [done |-> 0, chunk |-> 0, in |-> 0, at |-> 0,
                time |-> [block |-> 1, in |-> 0, now |-> 0],
                comp |-> [block |-> 1, read |-> 0, in |-> 0, wild |-> FALSE],
                syncs |-> {}, list |-> [i \in 1..table.count |-> Unread],
                bad |-> FALSE, reads |-> 0]
    /\ stream \in Streams
    /\ run = [next |-> 1, samples |-> <<>>, moof |-> 0, pending |-> NoTime, lost |-> FALSE,
              last |-> 0]

----------------------------------------------------------------------------
(* The chunks: a run of chunks begins at its first one and goes on to that *)
(* of the next run.                                                        *)
PerChunk(t, c) ==
    LET begun == {e \in DOMAIN t.stsc : t.stsc[e].first <= c}
    IN IF begun = {} THEN 0 ELSE t.stsc[Max(begun)].per

NextChunk(t, c) == Min({d \in c + 1..c + Len(t.chunks) + Len(t.stsc) + 1 : PerChunk(t, d) > 0})

(* The next sample is in the chunk at hand, or begins the next one.        *)
Placed(t, p, i) ==
    LET full == p.in >= PerChunk(t, p.chunk)
        c == IF full THEN NextChunk(t, p.chunk) ELSE p.chunk
        at == IF full THEN t.chunks[c] ELSE p.at
    IN IF p.bad \/ c > Len(t.chunks) THEN [p EXCEPT !.bad = TRUE]
       ELSE [p EXCEPT !.chunk = c, !.in = IF full THEN 1 ELSE @ + 1,
                      !.list[i].off = at, !.at = at + t.sizes[i]]

(* The times: a block is left when its last sample is read.  Samples the   *)
(* table says nothing of get the last time, but for the last one read.     *)
Timed(t, last, p, i) ==
    LET room == {b \in p.time.block..Len(t.stts) :
                   t.stts[b].n > IF b = p.time.block THEN p.time.in ELSE 0}
        b == Min(room)
        in == IF b = p.time.block THEN p.time.in + 1 ELSE 1
        over == in >= t.stts[b].n
    IN IF room # {}
       THEN [p EXCEPT !.list[i].ts = p.time.now, !.list[i].dur = t.stts[b].by,
                      !.time = [block |-> IF over THEN b + 1 ELSE b,
                                in    |-> IF over THEN 0 ELSE in,
                                now   |-> p.time.now + t.stts[b].by]]
       ELSE IF i < last
       THEN [p EXCEPT !.list[i].ts = p.time.now, !.list[i].dur = NoTime,
                      !.time.block = Len(t.stts) + 1]
       ELSE [p EXCEPT !.time.block = Len(t.stts) + 1]

(* The key frames: the table is read up to the first entry that is not     *)
(* before the sample asked for.                                            *)
KeysRead(t, p, n) ==
    LET left == t.stss \ p.syncs
        taken == {s \in left : \A r \in left : r < s => r < n}
    IN IF t.stss \in {NoKeys, {}}
       THEN [p EXCEPT !.list = [i \in DOMAIN @ |-> [@[i] EXCEPT !.key = TRUE]]]
       ELSE [p EXCEPT !.syncs = @ \cup taken,
                      !.list = [i \in DOMAIN @ |-> [@[i] EXCEPT !.key = @ \/ i \in taken]]]

(* The composition offsets.  A block is counted only when a call goes on   *)
(* behind it; a call that begins where a block ended reads the next block  *)
(* without counting, so that the count may stay below what was read, and a *)
(* table that is too short is read behind its end.                         *)
Composed(t, first, p, i) ==
    LET over == p.comp.in > 0 /\ p.comp.in >= t.ctts[p.comp.read].n
        block == IF over /\ i # first THEN p.comp.block + 1 ELSE p.comp.block
        fresh == over \/ p.comp.in = 0
        read == IF fresh THEN p.comp.read + 1 ELSE p.comp.read
    IN IF p.comp.wild THEN p
       ELSE IF block > Len(t.ctts) THEN [p EXCEPT !.comp.block = block, !.comp.in = 0]
       ELSE IF read > Len(t.ctts) THEN [p EXCEPT !.comp.wild = TRUE]
       ELSE [p EXCEPT !.list[i].cts = t.ctts[read].by,
                      !.comp = [block |-> block, read |-> read, wild |-> FALSE,
                                in |-> IF fresh THEN 1 ELSE p.comp.in + 1]]

Range1(a, b) == [i \in 1..b - a + 1 |-> a + i - 1]

(* qtdemux_parse_samples up to sample n.  The tables are dropped when the  *)
(* last sample is known.                                                   *)
ParseSamples ==
    /\ place.reads < MaxReads /\ ~place.bad
    /\ \E n \in place.done + 1..table.count :
         LET new == Range1(place.done + 1, n)
             chunked == FoldLeft(LAMBDA p, i : Placed(table, p, i), place, new)
             timed == FoldLeft(LAMBDA p, i : Timed(table, n, p, i), chunked, new)
             keyed == KeysRead(table, timed, n)
             comp == IF table.ctts = <<>> THEN keyed
                     ELSE FoldLeft(LAMBDA p, i : Composed(table, place.done + 1, p, i), keyed, new)
         IN place' = IF chunked.bad THEN [place EXCEPT !.bad = TRUE]
                     ELSE [comp EXCEPT !.done = n, !.reads = @ + 1]
    /\ UNCHANGED <<table, stream, run>>

----------------------------------------------------------------------------
(* Fragments: stream is a sequence of [at, length, found, trafs], `found'  *)
(* being where the search for the fragment began.  A track fragment is     *)
(* [mine, base, given, dts, runs] with base "moof", "given" or "none", and *)
(* a run [offset, data, samples] says, or not, where its data are; data is *)
(* where the writer put them.                                              *)

(* qtdemux_parse_tfhd: the base of the offsets.  It is the position where  *)
(* the search for this fragment began that stands for the fragment's own.  *)
Base(f, traf, base) ==
    CASE traf.base = "given" -> traf.given
      [] traf.base = "moof" -> f.found
      [] OTHER -> base

(* Where the data of a run begin: qtdemux_parse_trun.                      *)
RunStart(f, r, c) ==
    LET base == IF c.base # NoOffset THEN c.base
                ELSE IF r.offset # NoOffset THEN f.at ELSE f.at + f.length + 8
    IN [c EXCEPT !.base = base,
                 !.running = IF r.offset # NoOffset THEN base + r.offset
                             ELSE IF @ = NoOffset THEN base ELSE @]

Apart(a, b) == IF a > b THEN a - b ELSE b - a

(* The time of the first sample of a run: the one the fragment tells when  *)
(* nothing came before, or that of the seek; then where the samples before *)
(* end, unless the fragment tells a time far from it.                      *)
FirstTime_TrustsSum(traf, c) ==
    LET end == c.samples[Len(c.samples)].ts + c.samples[Len(c.samples)].dur
    IN IF c.samples = <<>> THEN Max({traf.dts, c.pending, 0}) ELSE end
FirstTime(traf, c) ==
    LET end == c.samples[Len(c.samples)].ts + c.samples[Len(c.samples)].dur
    IN IF c.samples = <<>>
       THEN IF traf.dts > 0 THEN traf.dts ELSE Max({c.pending, 0})
       ELSE IF traf.dts # NoTime /\ Apart(traf.dts, end) > Max({c.lastMoof \div 2, Gap})
            THEN traf.dts ELSE end

WithRun(f, traf, c, r) ==
    LET begun == RunStart(f, r, c)
        add(d, s) == [d EXCEPT !.samples = Append(@, [off |-> d.running, ts |-> d.now,
                                                      dur |-> s.dur, size |-> s.size]),
                               !.running = @ + s.size, !.now = @ + s.dur, !.moof = @ + s.dur]
        end == FoldLeft(add, [begun EXCEPT !.now = FirstTime(traf, begun)], r.samples)
    IN [end EXCEPT !.pending = IF r.samples = <<>> THEN @ ELSE NoTime]

(* One track fragment.  That of a track nobody knows loses the position of *)
(* what follows, unless that says where it is.                             *)
WithTraf(f, c, traf) ==
    LET base == Base(f, traf, c.base)
        begun == [c EXCEPT !.base = base, !.lastMoof = c.moof, !.moof = 0]
        end == FoldLeft(LAMBDA d, r : WithRun(f, traf, d, r), begun, traf.runs)
    IN IF c.lost THEN c
       ELSE IF ~traf.mine THEN [c EXCEPT !.base = -2]
       ELSE IF base < NoOffset THEN [c EXCEPT !.lost = TRUE]
       ELSE [end EXCEPT !.base = end.running, !.running = NoOffset]

(* qtdemux_parse_moof, as far as the samples go.                           *)
ParseMoof ==
    /\ run.next <= Len(stream) /\ ~run.lost
    /\ LET f == stream[run.next]
           c == FoldLeft(LAMBDA d, traf : WithTraf(f, d, traf),
                         [base |-> NoOffset, running |-> NoOffset, now |-> 0,
                                       samples |-> run.samples, moof |-> run.moof, lastMoof |-> 0,
                                       pending |-> run.pending, lost |-> FALSE], f.trafs)
       IN run' = [run EXCEPT !.next = @ + 1, !.samples = c.samples, !.moof = c.moof,
                             !.pending = c.pending, !.lost = c.lost]
    /\ UNCHANGED <<table, place, stream>>

(* A fragmented seek drops the samples and goes on at another fragment,    *)
(* from the time of its table.                                             *)
DropToFragment ==
    /\ run.last = 0
    /\ \E n \in DOMAIN stream :
         run' = [run EXCEPT !.next = n, !.samples = <<>>, !.last = n,
                            !.pending = Max({stream[n].trafs[1].dts, 0})]
    /\ UNCHANGED <<table, place, stream>>

SamplesNext == ParseSamples \/ ParseMoof \/ DropToFragment
SamplesSpec == SamplesInit /\ [][SamplesNext]_samplesVars

----------------------------------------------------------------------------
(* What the tables say of sample i, whatever was asked for in which steps. *)
ChunkOf(t, i) == Min({c \in 1..Len(t.chunks) :
                        i <= FoldLeft(LAMBDA sum, d : sum + PerChunk(t, d), 0, Range1(1, c))})
FirstIn(t, c) == 1 + FoldLeft(LAMBDA sum, d : sum + PerChunk(t, d), 0, Range1(1, c - 1))
OffsetOf(t, i) == FoldLeft(LAMBDA sum, j : sum + t.sizes[j], t.chunks[ChunkOf(t, i)],
                           Range1(FirstIn(t, ChunkOf(t, i)), i - 1))
BlockOf(runs, i) == Min({b \in DOMAIN runs : i <= Total(SubSeq(runs, 1, b))})
TimeOf(t, i) == FoldLeft(LAMBDA sum, j : sum + t.stts[BlockOf(t.stts, j)].by, 0, Range1(1, i - 1))

SamplesTypeOK ==
    /\ place.done \in 0..table.count /\ place.in \in Nat /\ place.time.block \in Nat
    /\ run.next \in 1..Len(stream) + 1 /\ run.lost \in BOOLEAN

(* However the tables are read, in many small steps or at once, a sample   *)
(* that was read is where and when and what the tables say.                *)
TablesTrue ==
    ~place.bad =>
      \A i \in 1..place.done :
        LET s == place.list[i]
        IN /\ s.off = OffsetOf(table, i)
           /\ i <= Total(table.stts) => s.ts = TimeOf(table, i)
           /\ s.key <=> i \in table.stss \/ table.stss \in {NoKeys, {}}
           /\ (table.ctts # <<>> /\ Total(table.ctts) >= table.count)
                => s.cts = table.ctts[BlockOf(table.ctts, i)].by
           /\ s.cts + Shift(table) >= 0

(* The saved place in the composition table is never behind its end while  *)
(* there is one offset for every sample.                                   *)
PlacesTrue ==
    /\ place.time.block <= Len(table.stts) + 1
    /\ Total(table.ctts) >= table.count => ~place.comp.wild

(* The bytes of every sample of the fragments are where the writer put     *)
(* them, and its time is the one the fragment tells, or near to it.        *)
FragmentsTrue ==
    \A n \in DOMAIN run.samples :
      \E f \in DOMAIN stream : \E j \in DOMAIN stream[f].trafs :
        /\ stream[f].trafs[j].mine
        /\ \E r \in DOMAIN stream[f].trafs[j].runs :
             LET piece == stream[f].trafs[j].runs[r]
                 before(m) == FoldLeft(LAMBDA sum, q : sum + piece.samples[q].size, piece.data,
                                       Range1(1, m - 1))
             IN \E m \in DOMAIN piece.samples : run.samples[n].off = before(m)

(* Times never run backwards by more than what goes unnoticed.             *)
TimesForward ==
    \A n \in 2..Len(run.samples) :
      run.samples[n].ts + Gap >= run.samples[n - 1].ts + run.samples[n - 1].dur

(* A run starts within half a fragment, or the gap, of the time it tells.  *)
TimesTold ==
    (run.samples # <<>> /\ run.next > 1) =>
      LET f == stream[run.next - 1]
          told == {j \in DOMAIN f.trafs : f.trafs[j].mine /\ f.trafs[j].dts > 0}
          length == FoldLeft(LAMBDA sum, s : sum + s.dur, 0, run.samples)
      IN \A j \in told : \E n \in DOMAIN run.samples :
           Apart(run.samples[n].ts, f.trafs[j].dts) <= Max({length \div 2, Gap})

SamplesTrue == TablesTrue /\ PlacesTrue /\ FragmentsTrue /\ TimesForward /\ TimesTold
=============================================================================
