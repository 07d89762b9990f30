-------------------------- MODULE DashStream_proofs --------------------------
(***************************************************************************)
(* Theorems about DashStream for any files, any sizes of boxes and buffers *)
(* and any number of failures and changes of the representation.           *)
(***************************************************************************)
EXTENDS DashStream, MpdSegments_proofs

-----------------------------------------------------------------------------
(* The constants and the MPD.                                               *)

LEMMA Sizes ==
  /\ MoovSize \in Nat \ {0} /\ SidxSize \in Nat \ {0}
  /\ MoofSize \in Nat \ {0} /\ MdatSize \in Nat \ {0}
  /\ First \in Nat \ {0} /\ MoovSize < First
  /\ Block \in Nat \ {0} /\ MoofSize < Block
BY SizesAssumption DEF First, Block

LEMMA StartType ==
  ASSUME start \in Starts
  PROVE  /\ start.layout \in {"inline", "indexed", "list", "template"}
         /\ start.forward \in BOOLEAN /\ start.seek \in BOOLEAN
         /\ start.target \in Nat /\ start.reps \in Reps
         /\ start.seek => start.target >= PeriodStart
BY StartsAssumption

LEMMA MpdFits == ASSUME start \in Starts PROVE IsMpd(Mpd)
<1>1. Segments \in Seq([start : Nat, duration : Nat \ {0}, repeat : Int])
  BY SegmentsAssumption
<1>2. <<[start |-> 0, duration |-> PeriodLength, repeat |-> 0]>>
        \in Seq([start : Nat, duration : Nat \ {0}, repeat : Int])
  BY SizesAssumption
<1>3. Mpd.segments \in Seq([start : Nat, duration : Nat \ {0}, repeat : Int])
  <2>1. Mpd.segments =
          CASE OnDemand -> <<[start |-> 0, duration |-> PeriodLength, repeat |-> 0]>>
            [] start.layout = "list" -> Segments
            [] start.layout = "template" -> <<>>
    BY DEF Mpd
  <2>2. CASE OnDemand
    BY <1>2, <2>1, <2>2 DEF OnDemand
  <2>3. CASE start.layout = "list"
    BY <1>1, <2>1, <2>3 DEF OnDemand
  <2>4. CASE start.layout = "template"
    BY <2>1, <2>4 DEF OnDemand
  <2> QED
    BY <2>2, <2>3, <2>4, StartType DEF OnDemand
<1> QED
  BY <1>3, SizesAssumption DEF IsMpd, Mpd

LEMMA SeekType ==
  ASSUME NEW m, IsMpd(m), NEW forward \in BOOLEAN, NEW ts \in Int
  PROVE  Seek(m, forward, ts) \in [found : BOOLEAN, at : Positions]
<1>1. CASE Template(m)
  <2>1. m.start \in Nat /\ m.duration \in Nat \ {0} /\ Count(m) \in Nat
    BY CountType DEF IsMpd
  <2>2. \A t \in Nat : t \div m.duration \in Int
    BY <2>1
  <2> QED
    BY <1>1, <2>1, <2>2 DEF Seek, SeekTemplate, Position, Positions
<1>2. CASE ~Template(m)
  <2> DEFINE in == Holding(m, forward, ts)
             index == CHOOSE i \in in : \A j \in in : i <= j
  <2>1. CASE in = {}
    <3>1. Len(m.segments) \in Int
      BY DEF IsMpd
    <3> QED
      BY <1>2, <2>1, <3>1 DEF Seek, SeekList, Position, Positions
  <2>2. CASE in # {}
    <3>1. in \in SUBSET Nat /\ in \subseteq 0 .. Len(m.segments) - 1
      BY DEF Holding, IsMpd
    <3>2. index \in in
      BY <2>2, <3>1, LeastExists
    <3> HIDE DEF index
    <3>3. index \in Nat /\ index \in 0 .. Len(m.segments) - 1
      BY <3>1, <3>2
    <3>4. Segment(m, index).start \in Nat /\ Segment(m, index).duration \in Nat \ {0}
      BY <3>3, SegmentType
    <3> DEFINE repeat == (ts - Segment(m, index).start) \div Segment(m, index).duration
    <3>5. repeat \in Int /\ repeat - 1 \in Int
      BY <3>4
    <3> HIDE DEF repeat
    <3>6. SeekList(m, forward, ts) =
            [found |-> TRUE,
             at |-> Position(index,
               IF ~forward /\ repeat > 0 /\ (ts - Segment(m, index).start) % Segment(m, index).duration = 0
               THEN repeat - 1 ELSE repeat)]
      BY <2>2 DEF SeekList, repeat, index
    <3>7. Seek(m, forward, ts) = SeekList(m, forward, ts)
      BY <1>2 DEF Seek
    <3> QED
      BY <3>3, <3>5, <3>6, <3>7 DEF Position, Positions
  <2> QED
    BY <2>1, <2>2
<1> QED
  BY <1>1, <1>2

-----------------------------------------------------------------------------
(* The entries of an index.                                                 *)

LEMMA EntryFacts ==
  ASSUME NEW r \in Reps
  PROVE  /\ Entries(r) \in Nat \ {0}
         /\ \A e \in 0 .. Entries(r) : Pts(r, e) \in Nat
         /\ \A e \in 0 .. Entries(r) - 1 :
              Pts(r, e) < EntryEnd(r, e) /\ EntryEnd(r, e) = Pts(r, e + 1)
         /\ Pts(r, 0) = 0 /\ Pts(r, Entries(r)) = PeriodLength
<1>1. Cuts[r] \in Seq(Nat) /\ Len(Cuts[r]) \in Nat
  BY CutsAssumption DEF Reps
<1>2. /\ Len(Cuts[r]) >= 2
      /\ Cuts[r][1] = 0 /\ Cuts[r][Len(Cuts[r])] = PeriodLength
      /\ \A i \in 1 .. Len(Cuts[r]) - 1 : Cuts[r][i] < Cuts[r][i + 1]
  BY CutsAssumption
<1>3. \A e \in 0 .. Entries(r) : e + 1 \in 1 .. Len(Cuts[r])
  BY <1>1 DEF Entries
<1>4. \A e \in 0 .. Entries(r) : Pts(r, e) \in Nat
  BY <1>1, <1>3 DEF Pts
<1>5. \A e \in 0 .. Entries(r) - 1 : Pts(r, e) < EntryEnd(r, e) /\ EntryEnd(r, e) = Pts(r, e + 1)
  <2> SUFFICES ASSUME NEW e \in 0 .. Entries(r) - 1
               PROVE  Pts(r, e) < EntryEnd(r, e) /\ EntryEnd(r, e) = Pts(r, e + 1)
    OBVIOUS
  <2>1. e + 1 \in 1 .. Len(Cuts[r]) - 1 /\ (e + 1) + 1 = e + 2
    BY <1>1 DEF Entries
  <2> QED
    BY <1>2, <2>1 DEF Pts, EntryEnd
<1>6. Entries(r) \in Nat \ {0} /\ Entries(r) + 1 = Len(Cuts[r])
  BY <1>1, <1>2 DEF Entries
<1>7. Pts(r, 0) = 0 /\ Pts(r, Entries(r)) = PeriodLength
  BY <1>2, <1>6 DEF Pts
<1> QED
  BY <1>4, <1>5, <1>6, <1>7

(* The times of the entries grow: an entry that comes first with a greater  *)
(* time than one behind it would have a least successor of this kind.       *)
LEMMA EntriesGrow ==
  ASSUME NEW r \in Reps, NEW e \in 0 .. Entries(r), NEW f \in 0 .. Entries(r), e <= f
  PROVE  Pts(r, e) <= Pts(r, f)
<1> DEFINE Bad == {g \in e .. Entries(r) : Pts(r, g) < Pts(r, e)}
<1>0. /\ Entries(r) \in Nat \ {0}
      /\ \A g \in 0 .. Entries(r) : Pts(r, g) \in Nat
      /\ \A g \in 0 .. Entries(r) - 1 : Pts(r, g) < Pts(r, g + 1)
  BY EntryFacts
<1>1. SUFFICES ASSUME Bad # {} PROVE FALSE
  BY <1>0
<1>2. PICK g \in Bad : \A h \in Bad : g <= h
  <2>1. Bad \in SUBSET Nat
    BY <1>0
  <2> QED
    BY <1>1, <2>1, LeastExists
<1>3. g # e /\ g - 1 \in e .. Entries(r) /\ g - 1 \notin Bad
  BY <1>0, <1>2
<1>4. Pts(r, g - 1) < Pts(r, g)
  <2>1. g - 1 \in 0 .. Entries(r) - 1 /\ (g - 1) + 1 = g
    BY <1>0, <1>2, <1>3
  <2> QED
    BY <1>0, <2>1
<1> QED
  BY <1>0, <1>2, <1>3, <1>4

(* Every time of the period is in an entry.                                 *)
LEMMA EntryHolds ==
  ASSUME NEW r \in Reps, NEW ts \in 0 .. PeriodLength - 1
  PROVE  \E i \in 0 .. Entries(r) - 1 : Pts(r, i) <= ts /\ ts < EntryEnd(r, i)
<1> DEFINE Later == {g \in 0 .. Entries(r) : ts < Pts(r, g)}
<1>0. /\ Entries(r) \in Nat \ {0} /\ Pts(r, 0) = 0 /\ Pts(r, Entries(r)) = PeriodLength
      /\ \A g \in 0 .. Entries(r) : Pts(r, g) \in Nat
      /\ \A g \in 0 .. Entries(r) - 1 : EntryEnd(r, g) = Pts(r, g + 1)
  BY EntryFacts
<1>1. Later \in SUBSET Nat /\ Entries(r) \in Later
  BY <1>0, SizesAssumption
<1>2. PICK g \in Later : \A h \in Later : g <= h
  BY <1>1, LeastExists
<1>3. g # 0 /\ g - 1 \in 0 .. Entries(r) - 1 /\ g - 1 \notin Later /\ (g - 1) + 1 = g
  BY <1>0, <1>2, SizesAssumption
<1>4. Pts(r, g - 1) <= ts /\ ts < EntryEnd(r, g - 1)
  BY <1>0, <1>2, <1>3, SizesAssumption
<1> QED
  BY <1>3, <1>4

-----------------------------------------------------------------------------
(* The operators on a stream.                                               *)

(* A stream remains one when a field gets a value of its type.              *)
LEMMA SetRep ==
  \A x \in Streams : \A v \in Reps : [x EXCEPT !.rep = v] \in Streams
BY DEF Streams, Positions

LEMMA SetAt ==
  \A x \in Streams : \A v \in Positions : [x EXCEPT !.at = v] \in Streams
BY DEF Streams, Positions

LEMMA SetIndex ==
  \A x \in Streams : \A v \in {0} \cup Reps : [x EXCEPT !.index = v] \in Streams
BY DEF Streams, Positions

LEMMA SetEntry ==
  \A x \in Streams : \A v \in Int : [x EXCEPT !.entry = v] \in Streams
BY DEF Streams, Positions

LEMMA SetSidxPos ==
  \A x \in Streams : \A v \in Int : [x EXCEPT !.sidxPos = v] \in Streams
BY DEF Streams, Positions

LEMMA SetPending ==
  \A x \in Streams : \A v \in Int : [x EXCEPT !.pending = v] \in Streams
BY DEF Streams, Positions

LEMMA SetAllow ==
  \A x \in Streams : \A v \in BOOLEAN : [x EXCEPT !.allow = v] \in Streams
BY DEF Streams, Positions

LEMMA SetMdat ==
  \A x \in Streams : \A v \in BOOLEAN : [x EXCEPT !.mdat = v] \in Streams
BY DEF Streams, Positions

LEMMA SetOff ==
  \A x \in Streams : \A v \in Int : [x EXCEPT !.off = v] \in Streams
BY DEF Streams, Positions

LEMMA SetSection ==
  \A x \in Streams : \A v \in 0 .. 3 : [x EXCEPT !.section = v] \in Streams
BY DEF Streams, Positions

LEMMA SetBase ==
  \A x \in Streams : \A v \in Int : [x EXCEPT !.base = v] \in Streams
BY DEF Streams, Positions

LEMMA SetQueue ==
  \A x \in Streams : \A v \in Seq(Int) : [x EXCEPT !.queue = v] \in Streams
BY DEF Streams, Positions

LEMMA SetNeedHeader ==
  \A x \in Streams : \A v \in BOOLEAN : [x EXCEPT !.needHeader = v] \in Streams
BY DEF Streams, Positions

LEMMA SetLastRet ==
  \A x \in Streams : \A v \in Rets : [x EXCEPT !.lastRet = v] \in Streams
BY DEF Streams, Positions

LEMMA SetErrs ==
  \A x \in Streams : \A v \in Nat : [x EXCEPT !.errs = v] \in Streams
BY DEF Streams, Positions

(* sidx_seek goes to an entry of the index.                                 *)
LEMMA SidxSeekFacts ==
  ASSUME start \in Starts, NEW x \in Streams, x.index \in Reps,
         NEW snap \in BOOLEAN, NEW ts \in Nat
  PROVE  \E i \in 0 .. Entries(x.index) - 1 :
           /\ SidxSeek(x, snap, ts) = [x EXCEPT !.entry = i, !.sidxPos = Pts(x.index, i)]
           /\ start.forward /\ ts < PeriodLength
                => Pts(x.index, i) <= ts /\ ts < EntryEnd(x.index, i)
           /\ ~start.forward /\ ~snap => Pts(x.index, i) < ts \/ i = 0
<1> DEFINE r == x.index
           Holds(i) == Pts(r, i) <= ts /\ ts < EntryEnd(r, i)
           e == IF ts >= PeriodLength THEN Entries(r) - 1
                ELSE CHOOSE i \in 0 .. Entries(r) - 1 : Holds(i)
           k == IF ~start.forward /\ e > 0 /\ Pts(r, e) = ts THEN e - 1 ELSE e
           idx == IF snap /\ ~start.forward /\ k + 1 < Entries(r) /\ Pts(r, k) < ts
                  THEN k + 1 ELSE k
<1>0. /\ Entries(r) \in Nat \ {0} /\ PeriodLength \in Nat \ {0}
      /\ \A g \in 0 .. Entries(r) : Pts(r, g) \in Nat
      /\ Pts(r, Entries(r)) = PeriodLength
      /\ \A g \in 0 .. Entries(r) - 1 : Pts(r, g) < EntryEnd(r, g) /\ EntryEnd(r, g) = Pts(r, g + 1)
  BY EntryFacts, SizesAssumption
<1>1. e \in 0 .. Entries(r) - 1 /\ (ts < PeriodLength => Holds(e))
  <2>1. CASE ts >= PeriodLength
    BY <1>0, <2>1
  <2>2. CASE ts < PeriodLength
    <3>1. \E i \in 0 .. Entries(r) - 1 : Holds(i)
      BY <1>0, <2>2, EntryHolds
    <3>2. e = CHOOSE i \in 0 .. Entries(r) - 1 : Holds(i)
      BY <1>0, <2>2
    <3> HIDE DEF Holds
    <3> QED
      BY <3>1, <3>2
  <2> QED
    BY <1>0, <2>1, <2>2
<1>2. SidxSeek(x, snap, ts) = [x EXCEPT !.entry = idx, !.sidxPos = Pts(x.index, idx)]
  BY DEF SidxSeek
<1>3. ts >= PeriodLength => Pts(r, e) < ts
  BY <1>0
<1> HIDE DEF e
<1>4. idx \in 0 .. Entries(r) - 1
  BY <1>0, <1>1, StartType
<1>5. start.forward => idx = e
  OBVIOUS
<1>6. ~start.forward /\ ~snap => Pts(r, idx) < ts \/ idx = 0
  <2> SUFFICES ASSUME ~start.forward, ~snap PROVE Pts(r, k) < ts \/ k = 0
    OBVIOUS
  <2>1. CASE e > 0 /\ Pts(r, e) = ts
    <3>1. e - 1 \in 0 .. Entries(r) - 1 /\ (e - 1) + 1 = e
      BY <1>0, <1>1, <2>1
    <3>2. Pts(r, e - 1) < ts
      BY <1>0, <2>1, <3>1
    <3> QED
      BY <2>1, <3>2
  <2>2. CASE ~(e > 0 /\ Pts(r, e) = ts)
    BY <1>0, <1>1, <1>3, <2>2
  <2> QED
    BY <2>1, <2>2
<1> QED
  BY <1>1, <1>2, <1>4, <1>5, <1>6

(* A place in the index that is remembered is a time of the period.         *)
Remembered(x) ==
  /\ x.sidxPos # Unknown => x.sidxPos \in 0 .. PeriodLength - 1
  /\ x.pending # Unknown => x.pending \in Nat

(* The fields that the reading of an index leaves alone.                    *)
SameButIndex(y, x) ==
  /\ y.rep = x.rep /\ y.at = x.at /\ y.section = x.section
  /\ y.needHeader = x.needHeader /\ y.lastRet = x.lastRet /\ y.errs = x.errs

LEMMA ReadSidxFacts ==
  ASSUME start \in Starts, NEW x \in Streams, Remembered(x), NEW r \in Reps, NEW o \in Int
  PROVE  LET y == ReadSidx(x, r, o)
         IN /\ y \in Streams
            /\ y.index = r /\ y.entry \in 0 .. Entries(r) - 1 /\ y.base = o
            /\ y.allow = FALSE /\ y.pending = Unknown /\ y.sidxPos = Pts(r, y.entry)
            /\ SameButIndex(y, x) /\ y.mdat = x.mdat /\ y.off = x.off /\ y.queue = x.queue
<1> DEFINE z == [x EXCEPT !.index = r, !.entry = 0, !.base = o, !.allow = FALSE]
           e == IF start.forward THEN 0 ELSE Entries(r) - 1
           y == ReadSidx(x, r, o)
<1>0. /\ Entries(r) \in Nat \ {0} /\ \A g \in 0 .. Entries(r) : Pts(r, g) \in Nat
      /\ start.forward \in BOOLEAN
  BY EntryFacts, StartType
<1>1. /\ z \in Streams /\ z.index = r /\ z.base = o /\ z.allow = FALSE
      /\ z.sidxPos = x.sidxPos /\ z.pending = x.pending
      /\ SameButIndex(z, x) /\ z.mdat = x.mdat /\ z.off = x.off /\ z.queue = x.queue
  <2>0. r \in {0} \cup Reps /\ 0 \in Int /\ FALSE \in BOOLEAN
    OBVIOUS
  <2>1. z \in Streams
    BY <2>0, SetIndex, SetEntry, SetBase, SetAllow
  <2>2. z.index = r /\ z.base = o /\ z.allow = FALSE /\ z.sidxPos = x.sidxPos
    BY DEF Streams
  <2>3. z.pending = x.pending /\ z.mdat = x.mdat /\ z.off = x.off /\ z.queue = x.queue
    BY DEF Streams
  <2>4. SameButIndex(z, x)
    BY DEF Streams, SameButIndex
  <2> QED
    BY <2>1, <2>2, <2>3, <2>4
<1>2. /\ Pts(r, e) \in Int /\ e \in 0 .. Entries(r) - 1
  BY <1>0
<1>3. y = IF x.pending # Unknown
          THEN [SidxSeek(z, FALSE, x.pending) EXCEPT !.pending = Unknown]
          ELSE IF x.sidxPos = Unknown
          THEN [z EXCEPT !.entry = e, !.sidxPos = Pts(r, e)]
          ELSE SidxSeek(z, TRUE, x.sidxPos)
  BY DEF ReadSidx
<1> HIDE DEF z, e, y
<1>4. CASE x.pending # Unknown
  <2>1. PICK i \in 0 .. Entries(r) - 1 :
          SidxSeek(z, FALSE, x.pending) = [z EXCEPT !.entry = i, !.sidxPos = Pts(r, i)]
    BY <1>1, <1>4, SidxSeekFacts DEF Remembered
  <2>2. y = [z EXCEPT !.entry = i, !.sidxPos = Pts(r, i), !.pending = Unknown]
    BY <1>1, <1>3, <1>4, <2>1 DEF Streams
  <2>3. Pts(r, i) \in Int /\ i \in Int
    BY <1>0
  <2>4. Unknown \in Int
    BY DEF Unknown
  <2>5. y \in Streams
    BY <1>1, <2>2, <2>3, <2>4, SetEntry, SetSidxPos, SetPending
  <2>6. /\ y.index = z.index /\ y.entry = i /\ y.base = z.base
        /\ y.allow = z.allow /\ y.pending = Unknown /\ y.sidxPos = Pts(r, i)
        /\ SameButIndex(y, z) /\ y.mdat = z.mdat /\ y.off = z.off /\ y.queue = z.queue
    BY <1>1, <2>2, <2>3 DEF Streams, SameButIndex
  <2> QED
    BY <1>1, <2>5, <2>6 DEF y, SameButIndex
<1>5. CASE x.pending = Unknown
  <2>1. \E i \in 0 .. Entries(r) - 1 : y = [z EXCEPT !.entry = i, !.sidxPos = Pts(r, i)]
    <3>1. CASE x.sidxPos = Unknown
      BY <1>2, <1>3, <1>5, <3>1
    <3>2. CASE x.sidxPos # Unknown
      <4>1. x.sidxPos \in Nat
        BY <3>2, SizesAssumption DEF Remembered
      <4>2. \E i \in 0 .. Entries(r) - 1 :
              SidxSeek(z, TRUE, x.sidxPos) = [z EXCEPT !.entry = i, !.sidxPos = Pts(r, i)]
        <5> DEFINE t == x.sidxPos
        <5> HIDE DEF t
        <5>1. t \in Nat /\ TRUE \in BOOLEAN /\ z.index \in Reps
          BY <1>1, <4>1 DEF t
        <5>2. \E i \in 0 .. Entries(z.index) - 1 :
                SidxSeek(z, TRUE, t) = [z EXCEPT !.entry = i, !.sidxPos = Pts(z.index, i)]
          BY <1>1, <5>1, SidxSeekFacts
        <5> QED
          BY <1>1, <5>2 DEF t
      <4> QED
        BY <1>3, <1>5, <3>2, <4>2
    <3> QED
      BY <3>1, <3>2
  <2>2. PICK i \in 0 .. Entries(r) - 1 : y = [z EXCEPT !.entry = i, !.sidxPos = Pts(r, i)]
    BY <2>1
  <2>3. Pts(r, i) \in Int /\ i \in Int
    BY <1>0
  <2>4. y \in Streams
    BY <1>1, <2>2, <2>3, SetEntry, SetSidxPos
  <2>5. /\ y.index = z.index /\ y.entry = i /\ y.base = z.base
        /\ y.allow = z.allow /\ y.pending = Unknown /\ y.sidxPos = Pts(r, i)
        /\ SameButIndex(y, z) /\ y.mdat = z.mdat /\ y.off = z.off /\ y.queue = z.queue
    BY <1>1, <1>5, <2>2, <2>3 DEF Streams, SameButIndex
  <2> QED
    BY <1>1, <2>4, <2>5 DEF y, SameButIndex
<1> QED
  BY <1>4, <1>5

LEMMA LargestOf ==
  ASSUME NEW A \in SUBSET Int, NEW n \in Int, A # {}, \A a \in A : a <= n
  PROVE  Largest(A) \in A /\ \A a \in A : a <= Largest(A)
<1>1. \E a \in A : \A b \in A : b <= a
  BY LargestExists
<1> QED
  BY <1>1 DEF Largest

LEMMA SmallestOf ==
  ASSUME NEW A \in SUBSET Nat, A # {}
  PROVE  Smallest(A) \in A /\ \A a \in A : Smallest(A) <= a
<1>1. \E a \in A : \A b \in A : a <= b
  BY LeastExists
<1> QED
  BY <1>1 DEF Smallest

(* Where a stream is in the index.                                          *)
SameIndex(y, x) ==
  /\ y.index = x.index /\ y.entry = x.entry /\ y.base = x.base
  /\ y.sidxPos = x.sidxPos /\ y.pending = x.pending

(* A sidx that ends behind i units of the adapter has been read.            *)
Reads(p, x, part, i) ==
  /\ OnDemand /\ x.allow
  /\ i \in 1 .. p.n /\ BoxOf(part, x.queue[i]) = "sidx" /\ LastOfBox(part, x.queue[i])
  /\ SameIndex(p.x, ReadSidx(x, src.rep, x.off + i))
  /\ p.jump = (p.x.entry # 0 \/ ~start.forward)
  /\ p.jump => p.n = i
  /\ ~p.x.allow

ReadsNone(p, x, part) ==
  /\ ~p.jump /\ SameIndex(p.x, x)
  /\ OnDemand /\ x.allow =>
       \A i \in 1 .. p.n : ~(BoxOf(part, x.queue[i]) = "sidx" /\ LastOfBox(part, x.queue[i]))
  /\ p.x.allow = (x.allow /\ ~\E i \in 1 .. p.n : BoxOf(part, x.queue[i]) = "moof")

LEMMA ParsedFacts ==
  ASSUME start \in Starts, NEW x \in Streams, Remembered(x), src.rep \in Reps,
         NEW part, NEW p, p = Parsed(x, part)
  PROVE  /\ p.n \in 0 .. Len(x.queue) /\ p.jump \in BOOLEAN
         /\ p.n # 0 => LastOfBox(part, x.queue[p.n])
         /\ \A i \in 1 .. p.n : BoxOf(part, x.queue[i]) # "mdat"
         /\ ~p.jump => \A j \in WholeBoxes(x.queue, part) : j <= p.n
         /\ p.x \in Streams /\ SameButIndex(p.x, x)
         /\ p.x.off = x.off + p.n
         /\ p.x.queue = SubSeq(x.queue, p.n + 1, Len(x.queue))
         /\ p.x.mdat = (/\ ~p.jump /\ p.n < Len(x.queue)
                        /\ BoxOf(part, x.queue[p.n + 1]) = "mdat")
         /\ ReadsNone(p, x, part) \/ \E i \in 1 .. p.n : Reads(p, x, part, i)
<1> DEFINE k == Largest(WholeBoxes(x.queue, part))
           sidx == IF OnDemand /\ x.allow THEN SidxEnds(x.queue, part, k) ELSE {}
           s == Smallest(sidx)
           y == IF sidx = {} THEN x ELSE ReadSidx(x, src.rep, x.off + s)
           jump == sidx # {} /\ MustJump(y)
           n == IF jump THEN s ELSE k
           moof == \E i \in 1 .. n : BoxOf(part, x.queue[i]) = "moof"
           mdat == /\ ~jump /\ n < Len(x.queue)
                   /\ BoxOf(part, x.queue[n + 1]) = "mdat"
           rest == SubSeq(x.queue, n + 1, Len(x.queue))
<1>1. p = [n |-> n, jump |-> jump,
           x |-> [y EXCEPT !.allow = @ /\ ~moof, !.off = @ + n, !.queue = rest, !.mdat = mdat]]
  BY DEF Parsed
<1>2. x.queue \in Seq(Int) /\ x.off \in Int /\ x.allow \in BOOLEAN
  BY DEF Streams
<1>3. Len(x.queue) \in Nat
  BY <1>2
<1>4. /\ WholeBoxes(x.queue, part) \in SUBSET Int /\ 0 \in WholeBoxes(x.queue, part)
      /\ \A j \in WholeBoxes(x.queue, part) : j <= Len(x.queue)
  BY <1>3 DEF WholeBoxes
<1>5. k \in WholeBoxes(x.queue, part) /\ \A j \in WholeBoxes(x.queue, part) : j <= k
  <2> DEFINE W == WholeBoxes(x.queue, part)
  <2>1. k = Largest(W)
    OBVIOUS
  <2>2. W \in SUBSET Int /\ W # {} /\ Len(x.queue) \in Int /\ \A j \in W : j <= Len(x.queue)
    BY <1>3, <1>4
  <2> HIDE DEF W, k
  <2>3. k \in W /\ \A j \in W : j <= k
    BY <2>1, <2>2, LargestOf
  <2> QED
    BY <2>3 DEF W
<1>6. /\ k \in 0 .. Len(x.queue) /\ (k # 0 => LastOfBox(part, x.queue[k]))
      /\ \A i \in 1 .. k : BoxOf(part, x.queue[i]) # "mdat"
  BY <1>5 DEF WholeBoxes
<1> HIDE DEF k
<1>7. sidx # {} =>
        /\ s \in 1 .. k /\ BoxOf(part, x.queue[s]) = "sidx" /\ LastOfBox(part, x.queue[s])
        /\ OnDemand /\ x.allow
  <2> SUFFICES ASSUME sidx # {}
               PROVE  /\ s \in 1 .. k /\ BoxOf(part, x.queue[s]) = "sidx"
                      /\ LastOfBox(part, x.queue[s]) /\ OnDemand /\ x.allow
    OBVIOUS
  <2>1. OnDemand /\ x.allow /\ sidx = SidxEnds(x.queue, part, k)
    OBVIOUS
  <2>2. sidx \in SUBSET Nat
    BY <1>6, <2>1 DEF SidxEnds
  <2>3. s \in sidx
    BY <2>2, SmallestOf, Zenon
  <2> HIDE DEF s, sidx
  <2> QED
    BY <2>1, <2>3 DEF SidxEnds
<1>8. sidx = {} => (OnDemand /\ x.allow =>
        \A i \in 1 .. k : ~(BoxOf(part, x.queue[i]) = "sidx" /\ LastOfBox(part, x.queue[i])))
  BY <1>6 DEF SidxEnds
<1> HIDE DEF s, sidx
<1>9. sidx # {} =>
        /\ y \in Streams /\ y.index = src.rep /\ y.allow = FALSE
        /\ SameButIndex(y, x) /\ y.off = x.off /\ y.queue = x.queue
  <2> SUFFICES ASSUME sidx # {}
               PROVE  /\ y \in Streams /\ y.index = src.rep /\ y.allow = FALSE
                      /\ SameButIndex(y, x) /\ y.off = x.off /\ y.queue = x.queue
    OBVIOUS
  <2> DEFINE o == x.off + s
  <2>1. y = ReadSidx(x, src.rep, o)
    OBVIOUS
  <2>2. o \in Int
    BY <1>2, <1>6, <1>7
  <2> HIDE DEF o, y
  <2> QED
    BY <2>1, <2>2, ReadSidxFacts
<1>10. /\ y \in Streams /\ SameButIndex(y, x) /\ y.off = x.off /\ y.queue = x.queue
       /\ y.allow \in BOOLEAN
  <2>1. CASE sidx = {}
    BY <1>2, <2>1 DEF SameButIndex
  <2>2. CASE sidx # {}
    BY <1>9, <2>2
  <2> QED
    BY <2>1, <2>2
<1>11. jump = (sidx # {} /\ (y.entry # 0 \/ ~start.forward))
  <2>1. src.rep # 0
    BY CutsAssumption DEF Reps
  <2> QED
    BY <1>9, <2>1 DEF MustJump
<1>12. sidx = {} => y = x
  OBVIOUS
<1>13. sidx # {} => y = ReadSidx(x, src.rep, x.off + s)
  OBVIOUS
<1>14. jump \in BOOLEAN /\ moof \in BOOLEAN /\ mdat \in BOOLEAN
  OBVIOUS
<1>15. n \in 0 .. Len(x.queue) /\ n <= k /\ (jump => n = s) /\ (~jump => n = k)
       /\ (jump => sidx # {})
  BY <1>6, <1>7
<1>16. (n # 0 => LastOfBox(part, x.queue[n])) /\ \A i \in 1 .. n : BoxOf(part, x.queue[i]) # "mdat"
  BY <1>6, <1>7, <1>15
<1>17. rest \in Seq(Int)
  BY <1>2, <1>3, <1>15
<1> DEFINE z == [y EXCEPT !.allow = @ /\ ~moof, !.off = @ + n, !.queue = rest, !.mdat = mdat]
<1> HIDE DEF y, jump, n, moof, mdat, rest
<1>18. z = [y EXCEPT !.allow = y.allow /\ ~moof, !.off = y.off + n, !.queue = rest, !.mdat = mdat]
  BY <1>10 DEF Streams
<1>19. z \in Streams
  <2>1. (y.allow /\ ~moof) \in BOOLEAN /\ y.off + n \in Int
    BY <1>2, <1>3, <1>10, <1>15
  <2> QED
    BY <1>10, <1>14, <1>17, <1>18, <2>1, SetAllow,
    SetOff, SetQueue, SetMdat
<1>20. /\ SameIndex(z, y) /\ SameButIndex(z, y) /\ z.off = x.off + n /\ z.queue = rest
       /\ z.mdat = mdat /\ z.allow = (y.allow /\ ~moof)
  BY <1>10 DEF Streams, SameIndex, SameButIndex
<1> HIDE DEF z
<1>21. p.n = n /\ p.jump = jump /\ p.x = z
  BY <1>1 DEF z
<1>22. SameButIndex(z, x)
  BY <1>10, <1>20 DEF SameButIndex
<1>23. CASE sidx = {}
  <2>1. ~jump
    BY <1>15, <1>23
  <2>2. ReadsNone(p, x, part)
    BY <1>8, <1>12, <1>15, <1>20, <1>21, <1>23, <2>1 DEF ReadsNone, SameIndex, moof
  <2> QED
    BY <1>5, <1>14, <1>15, <1>16, <1>19, <1>20, <1>21, <1>22, <2>2 DEF mdat, rest
<1>24. CASE sidx # {}
  <2>1. Reads(p, x, part, s)
    <3>1. s \in 1 .. p.n /\ (p.jump => p.n = s)
      BY <1>7, <1>15, <1>21, <1>24
    <3>2. SameIndex(p.x, ReadSidx(x, src.rep, x.off + s))
      BY <1>13, <1>20, <1>21, <1>24
    <3>3. p.jump = (p.x.entry # 0 \/ ~start.forward)
      BY <1>11, <1>20, <1>21, <1>24 DEF SameIndex
    <3>4. ~p.x.allow
      BY <1>9, <1>20, <1>21, <1>24
    <3> QED
      BY <1>7, <1>24, <3>1, <3>2, <3>3, <3>4 DEF Reads
  <2>2. s \in 1 .. p.n
    BY <2>1 DEF Reads
  <2> QED
    BY <1>5, <1>14, <1>15, <1>16, <1>19, <1>20, <1>21, <1>22, <2>1, <2>2 DEF mdat, rest
<1> QED
  BY <1>23, <1>24

(* The ways of gst_adaptive_demux_stream_advance_fragment.                  *)
AtEnd(y, x) ==
  /\ ~HasNextFragment(x)
  /\ y = [x EXCEPT !.errs = 0, !.lastRet = "EOS"]

CanMove(x) == OnDemand /\ x.index # 0 /\ NextEntry(x) \in 0 .. Entries(x.index) - 1

EntryMoved(y, x) ==
  /\ CanMove(x)
  /\ y.entry = NextEntry(x) /\ y.sidxPos = Pts(x.index, y.entry) /\ ~y.mdat
  /\ y.rep = x.rep /\ y.at = x.at /\ y.index = x.index /\ y.pending = x.pending
  /\ y.allow = x.allow /\ y.off = x.off /\ y.section = x.section /\ y.base = x.base
  /\ y.queue = x.queue /\ y.needHeader = x.needHeader /\ y.lastRet = "OK"

SegmentMoved(y, x) ==
  /\ ~CanMove(x)
  /\ LET a == AdvanceSegment(Mpd, x.at, start.forward)
     IN y.at = a.at /\ y.lastRet = a.ret
  /\ y.index = 0 /\ y.base = 0 /\ y.sidxPos = Unknown /\ y.allow /\ ~y.mdat
  /\ y.queue = <<>>
  /\ y.rep = x.rep /\ y.pending = x.pending /\ y.off = x.off
  /\ y.section = x.section /\ y.needHeader = x.needHeader

Moved(y, x) == HasNextFragment(x) /\ (EntryMoved(y, x) \/ SegmentMoved(y, x))

SwitchedTo(y, x, r) ==
  /\ y.rep = r /\ y.index = 0 /\ y.base = 0 /\ y.allow /\ ~y.mdat
  /\ y.sidxPos = IF OnDemand /\ x.index # 0 THEN Pts(x.index, x.entry) ELSE Unknown
  /\ y.off = Unknown /\ y.section = 0 /\ y.queue = <<>> /\ y.needHeader
  /\ y.lastRet = "SWITCH" /\ y.at = x.at /\ y.pending = x.pending

InIndex(x) == x.index # 0 => x.entry \in 0 .. Entries(x.index) - 1

LEMMA RetTypes ==
  /\ "OK" \in Rets /\ "SWITCH" \in Rets /\ "EOS" \in Rets
  /\ "CUSTOM_ERROR" \in Rets /\ "ERROR" \in Rets
BY DEF Rets

LEMMA ValueTypes ==
  /\ 0 \in Int /\ 0 \in Nat /\ 0 \in {0} \cup Reps /\ 0 \in 0 .. 3
  /\ Unknown \in Int /\ TRUE \in BOOLEAN /\ FALSE \in BOOLEAN /\ <<>> \in Seq(Int)
BY DEF Unknown

LEMMA AdvanceFacts ==
  ASSUME start \in Starts, NEW x \in Streams, InIndex(x), NEW r \in Reps,
         NEW y, y = Advance(x, r)
  PROVE  /\ y \in Streams
         /\ x.lastRet # "OK" => y = x
         /\ x.lastRet = "OK" =>
              \/ AtEnd(y, x)
              \/ Moved(y, x) /\ (y.lastRet = "OK" => y.rep = r)
              \/ \E z \in Streams : Moved(z, x) /\ z.lastRet = "OK" /\ r # z.rep
                                    /\ SwitchedTo(y, z, r) /\ InIndex(z)
<1> DEFINE w == [x EXCEPT !.errs = 0]
           z == AdvanceFragment(w)
<1>1. CASE x.lastRet # "OK"
  BY <1>1 DEF Advance
<1>2. CASE x.lastRet = "OK" /\ ~HasNextFragment(x)
  <2>1. y = [x EXCEPT !.errs = 0, !.lastRet = "EOS"]
    BY <1>2 DEF Advance
  <2>2. y \in Streams
    <3>1. w \in Streams
      BY ValueTypes, SetErrs
    <3>2. [w EXCEPT !.lastRet = "EOS"] \in Streams
      <4> HIDE DEF w
      <4> QED
        BY <3>1, RetTypes, SetLastRet
    <3> QED
      BY <2>1, <3>2
  <2> QED
    BY <1>2, <2>1, <2>2 DEF AtEnd
<1>3. CASE x.lastRet = "OK" /\ HasNextFragment(x)
  <2>1. w \in Streams
    BY ValueTypes, SetErrs
  <2>2. /\ w.rep = x.rep /\ w.at = x.at /\ w.index = x.index /\ w.entry = x.entry
        /\ w.pending = x.pending /\ w.allow = x.allow /\ w.off = x.off
        /\ w.section = x.section /\ w.base = x.base /\ w.queue = x.queue
        /\ w.needHeader = x.needHeader /\ w.lastRet = "OK"
    BY <1>3 DEF Streams
  <2>3. y = IF z.lastRet = "OK" /\ r # z.rep THEN SwitchTo(z, r) ELSE z
    BY <1>3 DEF Advance
  <2> HIDE DEF w
  <2>4. z \in Streams /\ (EntryMoved(z, x) \/ SegmentMoved(z, x)) /\ InIndex(z)
    <3>1. CASE CanMove(x)
      <4> DEFINE e == NextEntry(w)
      <4>1. e = NextEntry(x) /\ e \in Int
        BY <2>2, <3>1 DEF NextEntry, CanMove
      <4>2. z = [w EXCEPT !.entry = e, !.sidxPos = Pts(w.index, e), !.mdat = FALSE]
        BY <2>2, <3>1, <4>1 DEF AdvanceFragment, ToEntry, CanMove
      <4>3. Pts(w.index, e) \in Int /\ e \in 0 .. Entries(w.index) - 1
        <5>1. x.index \in Reps
          BY <3>1 DEF CanMove, Streams
        <5> QED
          BY <2>2, <3>1, <4>1, <5>1, EntryFacts DEF CanMove
      <4> HIDE DEF e
      <4>4. z \in Streams
        BY <2>1, <4>1, <4>2, <4>3, ValueTypes, SetEntry, SetSidxPos, SetMdat
      <4>5. /\ z.entry = e /\ z.sidxPos = Pts(w.index, e) /\ z.mdat = FALSE
            /\ z.rep = w.rep /\ z.at = w.at /\ z.index = w.index /\ z.pending = w.pending
            /\ z.allow = w.allow /\ z.off = w.off /\ z.section = w.section
            /\ z.base = w.base /\ z.queue = w.queue
            /\ z.needHeader = w.needHeader /\ z.lastRet = w.lastRet
        BY <2>1, <4>2 DEF Streams
      <4> HIDE DEF z
      <4>6. EntryMoved(z, x)
        BY <2>2, <3>1, <4>1, <4>5 DEF EntryMoved
      <4> QED
        BY <4>3, <4>4, <4>5, <4>6 DEF InIndex
    <3>2. CASE ~CanMove(x)
      <4> DEFINE a == AdvanceSegment(Mpd, w.at, start.forward)
      <4>1. z = [w EXCEPT !.index = 0, !.entry = 0, !.mdat = FALSE, !.queue = <<>>,
                   !.base = 0, !.sidxPos = Unknown, !.allow = TRUE, !.at = a.at,
                   !.lastRet = a.ret]
        <5>1. z = ToSegment(w)
          BY <2>2, <3>2 DEF AdvanceFragment, CanMove, NextEntry
        <5> QED
          BY <5>1 DEF ToSegment, ClearSidx
      <4>2. a.at \in Positions /\ a.ret \in Rets
        <5>1. w.at \in Positions
          BY <2>1 DEF Streams, Positions
        <5>2. a \in [ret : {"OK", "EOS"}, at : Positions]
          BY <5>1, MpdFits, StartType, AdvanceType
        <5> QED
          BY <5>2 DEF Rets
      <4> HIDE DEF a
      <4>3. z \in Streams
        <5> DEFINE x1 == [w EXCEPT !.index = 0, !.entry = 0]
                   x2 == [x1 EXCEPT !.mdat = FALSE, !.queue = <<>>]
                   x3 == [x2 EXCEPT !.base = 0, !.sidxPos = Unknown]
                   x4 == [x3 EXCEPT !.allow = TRUE, !.at = a.at]
                   x5 == [x4 EXCEPT !.lastRet = a.ret]
        <5>1. x1 \in Streams
          BY <2>1, ValueTypes, SetIndex, SetEntry
        <5> HIDE DEF x1
        <5>2. x2 \in Streams
          BY <5>1, <4>2, ValueTypes, SetMdat, SetQueue
        <5> HIDE DEF x2
        <5>3. x3 \in Streams
          BY <5>2, <4>2, ValueTypes, SetBase, SetSidxPos
        <5> HIDE DEF x3
        <5>4. x4 \in Streams
          BY <5>3, <4>2, ValueTypes, SetAllow, SetAt
        <5> HIDE DEF x4
        <5>5. x5 \in Streams
          BY <5>4, <4>2, ValueTypes, SetLastRet
        <5>6. z = x5
          BY <4>1 DEF x1, x2, x3, x4, x5
        <5> QED
          BY <5>5, <5>6
      <4>4. /\ z.at = a.at /\ z.lastRet = a.ret /\ z.index = 0 /\ z.base = 0
            /\ z.sidxPos = Unknown /\ z.allow = TRUE /\ z.mdat = FALSE /\ z.queue = <<>>
            /\ z.rep = w.rep /\ z.pending = w.pending /\ z.off = w.off
            /\ z.section = w.section /\ z.needHeader = w.needHeader
        BY <2>1, <4>1 DEF Streams
      <4> HIDE DEF z
      <4>5. SegmentMoved(z, x)
        BY <2>2, <3>2, <4>4 DEF SegmentMoved, a
      <4> QED
        BY <4>3, <4>4, <4>5 DEF InIndex
    <3> QED
      BY <3>1, <3>2
  <2> HIDE DEF z
  <2>5. Moved(z, x)
    BY <1>3, <2>4 DEF Moved
  <2>6. CASE ~(z.lastRet = "OK" /\ r # z.rep)
    BY <1>3, <2>3, <2>4, <2>5, <2>6
  <2>7. CASE z.lastRet = "OK" /\ r # z.rep
    <3> DEFINE p == IF OnDemand /\ z.index # 0 THEN Pts(z.index, z.entry) ELSE Unknown
    <3>1. p \in Int
      <4>1. z.index # 0 => z.index \in Reps
        BY <2>4 DEF Streams
      <4> QED
        BY <2>4, <4>1, EntryFacts, ValueTypes DEF InIndex
    <3>2. y = [z EXCEPT !.index = 0, !.entry = 0, !.rep = r, !.sidxPos = p, !.base = 0,
                 !.allow = TRUE, !.mdat = FALSE, !.off = Unknown, !.section = 0,
                 !.queue = <<>>, !.needHeader = TRUE, !.lastRet = "SWITCH"]
      BY <2>3, <2>7 DEF SwitchTo, ClearSidx
    <3> HIDE DEF p
    <3>3. y \in Streams
      <4> DEFINE x1 == [z EXCEPT !.index = 0, !.entry = 0]
                 x2 == [x1 EXCEPT !.rep = r, !.sidxPos = p]
                 x3 == [x2 EXCEPT !.base = 0, !.allow = TRUE]
                 x4 == [x3 EXCEPT !.mdat = FALSE, !.off = Unknown]
                 x5 == [x4 EXCEPT !.section = 0, !.queue = <<>>]
                 x6 == [x5 EXCEPT !.needHeader = TRUE, !.lastRet = "SWITCH"]
      <4>1. x1 \in Streams
        BY <2>4, ValueTypes, SetIndex, SetEntry
      <4> HIDE DEF x1
      <4>2. x2 \in Streams
        BY <4>1, <3>1, RetTypes, ValueTypes, SetRep, SetSidxPos
      <4> HIDE DEF x2
      <4>3. x3 \in Streams
        BY <4>2, <3>1, RetTypes, ValueTypes, SetBase, SetAllow
      <4> HIDE DEF x3
      <4>4. x4 \in Streams
        BY <4>3, <3>1, RetTypes, ValueTypes, SetMdat, SetOff
      <4> HIDE DEF x4
      <4>5. x5 \in Streams
        BY <4>4, <3>1, RetTypes, ValueTypes, SetSection, SetQueue
      <4> HIDE DEF x5
      <4>6. x6 \in Streams
        BY <4>5, <3>1, RetTypes, ValueTypes, SetNeedHeader, SetLastRet
      <4>7. y = x6
        BY <3>2 DEF x1, x2, x3, x4, x5, x6
      <4> QED
        BY <4>6, <4>7
    <3>4. /\ y.rep = r /\ y.index = 0 /\ y.base = 0 /\ y.allow = TRUE /\ y.mdat = FALSE
          /\ y.sidxPos = p /\ y.off = Unknown /\ y.section = 0 /\ y.queue = <<>>
          /\ y.needHeader = TRUE /\ y.lastRet = "SWITCH" /\ y.at = z.at
          /\ y.pending = z.pending
      BY <2>4, <3>2 DEF Streams
    <3>5. SwitchedTo(y, z, r)
      BY <3>4 DEF SwitchedTo, p
    <3> QED
      BY <1>3, <2>4, <2>5, <2>7, <3>3, <3>5
  <2> QED
    BY <2>6, <2>7
<1> QED
  BY <1>1, <1>2, <1>3

-----------------------------------------------------------------------------
(* The order of the downloads, and what has been read and pushed of them.   *)

(* The source fails only before it has delivered anything of a part, so     *)
(* that no part of a file is asked for twice; and a refetch of the MPD that *)
(* moves the stream leaves it in its only representation.                   *)
Bare == Faults \subseteq {"refused", "start", "server"}
OneRefetch == RefetchOk \subseteq {1}

(* D has a request, and the stream is still in the representation of it.    *)
Loading == dpc \in {"open", "wait", "result"}
Sound == d.lastRet \in {"OK", "CUSTOM_ERROR", "ERROR"}
Part == Head(todo)

(* No data of this part has arrived since D began with the fragment.        *)
Fresh == starting \/ d.section # SectionOf(Part)

(* This part has not been touched, or the source has failed before it       *)
(* delivered any of it.                                                     *)
Waiting == src.on /\ src.pos = src.from
Untouched ==
  dpc = "open" \/ Waiting \/ (dpc \in {"wait", "result"} /\ d.lastRet = "CUSTOM_ERROR")
Receiving == src.on /\ src.pos # src.from

Plans ==
  CASE start.layout = "inline" -> {<<"media">>}
    [] start.layout = "indexed" ->
         {<<"header", "index", "media">>, <<"header", "index">>, <<"index", "media">>,
          <<"index">>, <<"media">>}
    [] start.layout \in {"list", "template"} -> {<<"header", "media">>, <<"media">>}

(* D's request, the stream and the transfer of the source belong together.  *)
Asked ==
  /\ d.rep \in 1 .. start.reps
  /\ src.on => dpc = "wait" /\ src.rep = frag.rep /\ src.at = frag.at /\ src.part = Part
  /\ dpc = "open" => d.lastRet = "OK"
  /\ Loading =>
       /\ todo \in Plans /\ 0 <= frag.from /\ frag.from <= frag.to
       /\ OnDemand \/ HasFragment(Mpd, frag.at)
       /\ Part # "media" => Sound
       /\ Sound => frag.rep = d.rep /\ (d.needHeader <=> Part # "media")

(* What the source still has to deliver, and what is in the adapter.        *)
Transfer ==
  /\ src.on => src.from <= src.pos /\ src.pos <= src.end
  /\ src.on /\ d.lastRet # "OK" =>
       d.lastRet = "CUSTOM_ERROR" /\ finished /\ src.pos = src.end /\ src.pos = src.from
  /\ src.on /\ src.part = "header" =>
       src.from = 0 /\ src.end <= MoovSize /\ (d.lastRet = "OK" => src.end = MoovSize)
  /\ src.on /\ src.part = "index" => src.from = MoovSize /\ src.end <= First
  /\ src.on /\ src.part = "media" => src.from = frag.from

Adapter ==
  /\ Untouched => Fresh /\ spc = "idle"
  /\ Loading => \A i \in 2 .. Len(todo) : starting \/ d.section # SectionOf(todo[i])
  /\ Receiving => /\ ~starting /\ d.section = SectionOf(Part)
                  /\ src.pos = d.off + Len(d.queue) /\ d.off >= src.from
  /\ spc # "idle" => Receiving
  /\ spc = "mdat" => d.mdat
  /\ \A i \in DOMAIN d.queue : d.queue[i] = d.off + i - 1

(* The index that has been read.                                            *)
Indexed ==
  /\ Remembered(d)
  /\ d.index = 0 => d.base = 0
  /\ d.index # 0 => /\ OnDemand /\ d.index = d.rep /\ d.base = First
                    /\ d.sidxPos # Unknown /\ d.pending = Unknown
  /\ d.lastRet = "SWITCH" \/ (dpc = "loop" /\ d.needHeader) =>
       d.needHeader /\ d.index = 0 /\ ~d.mdat
  /\ Loading /\ Part # "media" => ~d.mdat
  /\ Loading /\ Part = "header" => d.index = 0
  /\ Loading /\ Part = "index" /\ (dpc = "open" \/ Waiting \/ d.lastRet # "OK") => d.index = 0

(* The header of the representation has been pushed.                        *)
Headed ==
  /\ start.layout # "inline" /\ ~d.needHeader => moov = d.rep
  /\ start.layout = "inline" /\ d.index # 0 => moov = d.rep
  /\ Loading /\ Part = "index" => moov = d.rep
  /\ Loading /\ Part = "header" /\ d.lastRet = "OK" /\ (dpc = "wait" => finished) /\ dpc # "open"
       => moov = d.rep
  /\ Loading /\ Sound /\ start.layout = "inline" /\ moov # d.rep => frag.from = 0
  /\ Receiving =>
       /\ moov = src.rep \/ ((OnDemand \/ src.part = "header") /\ d.off < MoovSize)
       /\ src.part = "header" /\ spc = "idle" /\ src.pos = MoovSize => d.off = MoovSize

(* What has been pushed.                                                    *)
Shown ==
  /\ push.units \in Seq(Int) /\ push.off \in Int
  /\ push.part \in Parts \cup {"none"} /\ push.rep \in Reps
  /\ run.rep \in {0} \cup Reps /\ run.from \in Int /\ run.to \in Int

DashInv ==
  /\ TypeOK /\ Shown /\ Asked /\ Transfer /\ Adapter /\ Indexed /\ Headed
  /\ HeaderFirst /\ OffsetsTrue

LEMMA PlanFacts ==
  ASSUME start.layout \in {"inline", "indexed", "list", "template"},
         NEW t, t \in Plans
  PROVE  /\ t \in Seq(Parts) /\ t # <<>> /\ Head(t) \in Parts /\ Head(t) = t[1]
         /\ Tail(t) \in Seq(Parts)
         /\ Tail(t) # <<>> =>
              /\ Tail(t) \in Plans /\ Head(Tail(t)) = t[2] /\ 2 \in 2 .. Len(t)
              /\ Head(Tail(t)) # "header" /\ Head(t) # "media"
              /\ Head(Tail(t)) = "index" => Head(t) = "header"
              /\ start.layout # "inline"
         /\ Tail(t) = <<>> => Head(t) # "header"
         /\ (\E i \in DOMAIN Tail(t) : Tail(t)[i] # "media")
              <=> Tail(t) # <<>> /\ Head(Tail(t)) # "media"
         /\ \A i \in 2 .. Len(Tail(t)) : i + 1 \in 2 .. Len(t) /\ Tail(t)[i] = t[i + 1]
         /\ \A i \in 2 .. Len(t) : t[i] \in Parts /\ t[i] # Head(t)
         /\ Head(t) = "media" => Tail(t) = <<>> /\ Len(t) = 1
         /\ Head(t) = "index" => start.layout = "indexed"
         /\ Head(t) = "header" => start.layout # "inline"
<1>1. CASE start.layout = "inline"
  <2>1. t = <<"media">>
    BY <1>1 DEF Plans
  <2> QED
    BY <1>1, <2>1 DEF Parts
<1>2. CASE start.layout \in {"list", "template"}
  <2>1. Plans = {<<"header", "media">>, <<"media">>}
    BY <1>2 DEF Plans
  <2>2. CASE t = <<"header", "media">>
    <3>1. Tail(t) = <<"media">>
      BY <2>2
    <3> QED
      BY <1>2, <2>1, <2>2, <3>1 DEF Parts
  <2>3. CASE t = <<"media">>
    BY <1>2, <2>3 DEF Parts
  <2> QED
    BY <2>1, <2>2, <2>3
<1>3. CASE start.layout = "indexed"
  <2>1. Plans = {<<"header", "index", "media">>, <<"header", "index">>, <<"index", "media">>,
                 <<"index">>, <<"media">>}
    BY <1>3 DEF Plans
  <2>2. CASE t = <<"header", "index", "media">>
    <3>1. Tail(t) = <<"index", "media">>
      BY <2>2
    <3> QED
      BY <1>3, <2>1, <2>2, <3>1 DEF Parts
  <2>3. CASE t = <<"header", "index">>
    <3>1. Tail(t) = <<"index">>
      BY <2>3
    <3> QED
      BY <1>3, <2>1, <2>3, <3>1 DEF Parts
  <2>4. CASE t = <<"index", "media">>
    <3>1. Tail(t) = <<"media">>
      BY <2>4
    <3> QED
      BY <1>3, <2>1, <2>4, <3>1 DEF Parts
  <2>5. CASE t = <<"index">>
    BY <1>3, <2>5 DEF Parts
  <2>6. CASE t = <<"media">>
    BY <1>3, <2>6 DEF Parts
  <2> QED
    BY <2>1, <2>2, <2>3, <2>4, <2>5, <2>6
<1> QED
  BY <1>1, <1>2, <1>3

LEMMA SectionFacts ==
  /\ \A p \in Parts : SectionOf(p) \in 1 .. 3
  /\ \A p, q \in Parts : SectionOf(p) = SectionOf(q) => p = q
<1>1. SectionOf("index") = 1 /\ SectionOf("header") = 2 /\ SectionOf("media") = 3
  BY DEF SectionOf
<1> QED
  BY <1>1 DEF Parts

LEMMA PartEndFacts ==
  ASSUME NEW r \in Reps
  PROVE  /\ PartEnd("header", r) = MoovSize /\ PartEnd("index", r) = First
         /\ PartEnd("media", r) = IF OnDemand THEN First + Entries(r) * Block ELSE Block
         /\ \A p \in Parts : PartEnd(p, r) \in Nat
<1>1. PartEnd("header", r) = MoovSize /\ PartEnd("index", r) = First
  BY DEF PartEnd
<1>2. PartEnd("media", r) = IF OnDemand THEN First + Entries(r) * Block ELSE Block
  BY DEF PartEnd
<1>3. First + Entries(r) * Block \in Nat
  BY Sizes, EntryFacts
<1> QED
  BY <1>1, <1>2, <1>3, Sizes DEF Parts

(* The number of blocks of a file.                                          *)
LEMMA BlockCount ==
  ASSUME NEW r \in Reps
  PROVE  BlocksOf(r) = 0 .. (IF OnDemand THEN Entries(r) ELSE 1) - 1
<1>1. \A n \in Nat : (n * Block) \div Block = n
  BY Sizes
<1>2. (PartEnd("media", r) - MediaBase) = (IF OnDemand THEN Entries(r) ELSE 1) * Block
  BY PartEndFacts, Sizes, EntryFacts DEF MediaBase
<1>3. (IF OnDemand THEN Entries(r) ELSE 1) \in Nat
  BY EntryFacts
<1> QED
  BY <1>1, <1>2, <1>3 DEF BlocksOf

LEMMA SpanType ==
  ASSUME start \in Starts, NEW r \in Reps, NEW p \in Positions, NEW k \in BlocksOf(r),
         OnDemand \/ HasFragment(Mpd, p)
  PROVE  Span(r, p, k) \in Int \X Int
<1>1. CASE OnDemand
  <2>1. Pts(r, k) \in Int /\ EntryEnd(r, k) \in Int
    <3>1. k \in 0 .. Entries(r) - 1
      BY <1>1, BlockCount
    <3> QED
      BY <3>1, EntryFacts
  <2> QED
    BY <1>1, <2>1 DEF Span
<1>2. CASE ~OnDemand
  <2>1. Timestamp(Mpd, p) \in Int /\ Duration(Mpd, p) \in Nat \ {0}
    BY <1>2, MpdFits, TimestampType
  <2> QED
    BY <1>2, <2>1 DEF Span
<1> QED
  BY <1>1, <1>2

(* The units that S pushes are in order.                                    *)
LEMMA RestOf ==
  ASSUME NEW u \in Seq(Int), NEW n \in 0 .. Len(u), NEW i \in 1 .. Len(u) - n
  PROVE  SubSeq(u, n + 1, Len(u))[i] = u[n + i]
<1>1. /\ Len(u) \in Nat /\ n + 1 \in 1 .. Len(u) + 1 /\ Len(u) \in n .. Len(u)
      /\ i \in 1 .. (Len(u) - (n + 1) + 1) /\ (n + 1) + i - 1 = n + i
  OBVIOUS
<1>2. SubSeq(u, n + 1, Len(u))[i] = u[(n + 1) + i - 1]
  BY <1>1
<1> QED
  BY <1>1, <1>2

LEMMA PushedUnits ==
  ASSUME NEW u \in Seq(Int), NEW o \in Int, \A i \in 1 .. Len(u) : u[i] = o + i - 1,
         NEW n \in 0 .. Len(u)
  PROVE  LET q == SubSeq(u, 1, n)
             w == SubSeq(u, n + 1, Len(u))
         IN /\ q \in Seq(Int) /\ Len(q) = n /\ (q = <<>> <=> n = 0)
            /\ \A i \in 1 .. n : q[i] = o + i - 1
            /\ w \in Seq(Int) /\ Len(w) = Len(u) - n
            /\ \A i \in 1 .. Len(u) - n : w[i] = (o + n) + i - 1
<1>1. Len(u) \in Nat
  OBVIOUS
<1> DEFINE q == SubSeq(u, 1, n)
           w == SubSeq(u, n + 1, Len(u))
<1>2. q \in Seq(Int) /\ Len(q) = n /\ (q = <<>> <=> n = 0)
  BY <1>1
<1>3. \A i \in 1 .. n : q[i] = u[i]
  BY <1>1
<1>4. w \in Seq(Int) /\ Len(w) = Len(u) - n
  BY <1>1
<1>5. \A i \in 1 .. Len(u) - n : w[i] = u[n + i]
  BY RestOf
<1> HIDE DEF q, w
<1>6. \A i \in 1 .. n : q[i] = o + i - 1
  BY <1>1, <1>3
<1>7. \A i \in 1 .. Len(u) - n : w[i] = (o + n) + i - 1
  BY <1>1, <1>5
<1> QED
  BY <1>2, <1>4, <1>6, <1>7 DEF q, w

(* Before media comes, the end of the moov has been pushed.                 *)
Reached == moov = src.rep \/ ((OnDemand \/ src.part = "header") /\ d.off < MoovSize)

LEMMA PushFacts ==
  ASSUME start \in Starts, d \in Streams, src.rep \in Reps, src.part \in Parts,
         src.at \in Positions, OnDemand \/ HasFragment(Mpd, src.at),
         \A i \in DOMAIN d.queue : d.queue[i] = d.off + i - 1, d.off >= 0,
         moov \in {0} \cup Reps, heard \in Int \X Int, at \in Int,
         Shown, HeaderFirst, OffsetsTrue, Reached,
         NEW n \in 0 .. Len(d.queue), Push(d, SubSeq(d.queue, 1, n)), start' = start
  PROVE  /\ Shown' /\ HeaderFirst' /\ OffsetsTrue'
         /\ moov' \in {0} \cup Reps /\ (heard \in Int \X Int)' /\ at' \in Int
         /\ moov' \in {moov, src.rep}
         /\ (OnDemand \/ src.part = "header") /\ d.off < MoovSize /\ d.off + n >= MoovSize
              => moov' = src.rep
<1> DEFINE q == SubSeq(d.queue, 1, n)
<1>1. q \in Seq(Int) /\ Len(q) = n /\ (q = <<>> <=> n = 0) /\ \A i \in 1 .. n : q[i] = d.off + i - 1
  <2>1. d.queue \in Seq(Int) /\ d.off \in Int
    BY DEF Streams
  <2>2. \A i \in 1 .. Len(d.queue) : d.queue[i] = d.off + i - 1
    BY <2>1
  <2> QED
    BY <2>1, <2>2, PushedUnits
<1>2. Push(d, q)
  OBVIOUS
<1>3. d.off \in Int
  BY DEF Streams
<1> HIDE DEF q
<1>4. CASE q = <<>>
  <2>1. UNCHANGED shownVars
    BY <1>2, <1>4 DEF Push
  <2>2. push' = push /\ moov' = moov /\ run' = run /\ heard' = heard /\ at' = at
    BY <2>1 DEF shownVars
  <2>3. Shown'
    BY <2>2 DEF Shown
  <2>4. HeaderFirst' /\ OffsetsTrue'
    BY <2>2 DEF HeaderFirst, OffsetsTrue, Media, BoxOf, OnDemand, First, Block, MediaBase
  <2> QED
    <3>1. n = 0
      BY <1>1, <1>4
    <3> QED
      BY <1>3, <2>2, <2>3, <2>4, <3>1, Sizes
<1>5. CASE q # <<>>
  <2> DEFINE part == src.part
             more == q # <<>> /\ run.rep = src.rep /\ run.at = src.at /\ run.to = q[1]
             from == IF more THEN run.from ELSE q[1]
             to == q[Len(q)] + 1
             full(k) == /\ from <= MediaBase + k * Block
                        /\ q[1] < MediaBase + (k + 1) * Block
                        /\ MediaBase + (k + 1) * Block <= to
             spans == {Span(src.rep, src.at, k) :
                         k \in {k \in BlocksOf(src.rep) : part = "media" /\ full(k)}}
  <2>1. /\ push' = [part |-> part, rep |-> src.rep, at |-> src.at, units |-> q,
                    off |-> d.off, index |-> d.index, entry |-> d.entry]
        /\ moov' = IF \E i \in DOMAIN q : BoxOf(part, q[i]) = "moov" /\ LastOfBox(part, q[i])
                   THEN src.rep ELSE moov
        /\ run' = [rep |-> src.rep, at |-> src.at, from |-> from, to |-> to]
        /\ heard' = IF spans = {} THEN heard ELSE CHOOSE sp \in spans : TRUE
        /\ at' = IF start.forward THEN Largest({at, heard'[2]})
                 ELSE Smallest({at, heard'[1]})
    BY <1>2, <1>5 DEF Push
  <2>2. spans \subseteq Int \X Int
    BY SpanType
  <2>3. from \in Int /\ to \in Int
    <3>1. n \in 1 .. n /\ 1 \in 1 .. n
      BY <1>1, <1>5
    <3>2. q[1] \in Int /\ q[n] \in Int /\ run.from \in Int
      BY <1>1, <1>3, <3>1 DEF Shown
    <3> QED
      BY <1>1, <3>2
  <2> HIDE DEF spans, from, to, more
  <2>4. heard' \in Int \X Int
    <3>1. CASE spans = {}
      BY <2>1, <3>1
    <3>2. CASE spans # {}
      <4>1. heard' \in spans
        BY <2>1, <3>2
      <4> QED
        BY <2>2, <4>1
    <3> QED
      BY <3>1, <3>2
  <2>5. at' \in Int
    <3>1. heard'[1] \in Int /\ heard'[2] \in Int
      BY <2>4
    <3>2. ASSUME NEW a \in Int, NEW b \in Int
          PROVE  Largest({a, b}) \in Int /\ Smallest({a, b}) \in Int
      BY DEF Largest, Smallest
    <3> QED
      BY <2>1, <3>1, <3>2
  <2>6. /\ push'.part = part /\ push'.rep = src.rep /\ push'.units = q /\ push'.off = d.off
    BY <2>1
  <2>7. Shown'
    BY <1>1, <1>3, <2>1, <2>3, <2>6 DEF Shown
  <2>8. OffsetsTrue'
    BY <1>1, <2>6 DEF OffsetsTrue
  <2>9. moov' \in {0} \cup Reps /\ moov' \in {moov, src.rep}
    BY <2>1
  <2>10. ASSUME OnDemand \/ src.part = "header", d.off < MoovSize, d.off + n >= MoovSize
         PROVE  moov' = src.rep
    <3>1. MoovSize - d.off \in DOMAIN q /\ q[MoovSize - d.off] = MoovSize - 1
      BY <1>1, <1>3, <2>10, Sizes
    <3>2. BoxOf(part, MoovSize - 1) = "moov" /\ LastOfBox(part, MoovSize - 1)
      BY <2>10, Sizes DEF BoxOf, LastOfBox
    <3> QED
      BY <2>1, <3>1, <3>2
  <2>11. HeaderFirst'
    <3> SUFFICES ASSUME Media' # {} PROVE moov' = src.rep
      BY <2>6 DEF HeaderFirst
    <3>1. PICK i \in 1 .. n : part = "media" /\ BoxOf("media", q[i]) \in {"moof", "mdat"}
      BY <1>1, <2>6 DEF Media, BoxOf, OnDemand, First, Block, MediaBase
    <3>2. CASE moov = src.rep
      BY <2>9, <3>2
    <3>3. CASE OnDemand /\ d.off < MoovSize
      <4>1. q[i] >= MoovSize
        BY <1>1, <1>3, <3>1, <3>3, Sizes DEF BoxOf
      <4> QED
        BY <1>1, <1>3, <2>10, <3>1, <3>3, <4>1, Sizes
    <3> QED
      BY <3>1, <3>2, <3>3 DEF Reached
  <2> QED
    BY <2>4, <2>5, <2>7, <2>8, <2>9, <2>10, <2>11
<1> QED
  BY <1>4, <1>5

LEMMA FieldTypes ==
  ASSUME NEW x \in Streams
  PROVE  /\ x.rep \in Reps /\ x.at \in Positions /\ x.index \in {0} \cup Reps
         /\ x.entry \in Int /\ x.sidxPos \in Int /\ x.pending \in Int
         /\ x.allow \in BOOLEAN /\ x.mdat \in BOOLEAN /\ x.off \in Int
         /\ x.section \in 0 .. 3 /\ x.base \in Int /\ x.queue \in Seq(Int)
         /\ x.needHeader \in BOOLEAN /\ x.lastRet \in Rets /\ x.errs \in Nat
BY DEF Streams, Positions

LEMMA StartFixed ==
  ASSUME start' = start
  PROVE  Plans' = Plans /\ OnDemand' = OnDemand /\ Mpd' = Mpd
BY DEF Plans, OnDemand, Mpd

LEMMA NothingShown ==
  ASSUME Shown, HeaderFirst, OffsetsTrue, start' = start, UNCHANGED shownVars
  PROVE  Shown' /\ HeaderFirst' /\ OffsetsTrue'
<1>1. push' = push /\ moov' = moov /\ run' = run
  BY DEF shownVars
<1>2. Shown'
  BY <1>1 DEF Shown
<1>3. HeaderFirst' /\ OffsetsTrue'
  BY <1>1 DEF HeaderFirst, OffsetsTrue, Media, BoxOf, OnDemand, First, Block, MediaBase
<1> QED
  BY <1>2, <1>3

LEMMA RepsFacts ==
  ASSUME start \in Starts
  PROVE  /\ 1 \in Reps /\ 0 \notin Reps /\ 1 .. start.reps \subseteq Reps
         /\ start.reps \in Nat \ {0} /\ Reps \subseteq Nat
BY StartType, CutsAssumption DEF Reps

(* D's steps.                                                               *)
LEMMA InvInit == Init => DashInv
<1> SUFFICES ASSUME Init PROVE DashInv
  OBVIOUS
<1>0. start \in Starts
  BY DEF Init
<1>1. /\ d.rep = 1 /\ d.index = 0 /\ d.entry = 0 /\ d.sidxPos = Unknown /\ ~d.mdat
      /\ d.base = 0 /\ d.queue = <<>> /\ d.needHeader /\ d.lastRet = "OK"
      /\ d.pending = IF OnDemand /\ start.seek /\ Seek(Mpd, start.forward, start.target).found
                     THEN start.target - PeriodStart ELSE Unknown
  BY DEF Init, NewStream
<1>2. start.target - PeriodStart \in Int /\ (start.seek => start.target - PeriodStart \in Nat)
  BY <1>0, StartType, SizesAssumption
<1>3. d \in Streams
  <2>1. Seek(Mpd, start.forward, start.target).at \in Positions
    <3>1. start.target \in Int /\ start.forward \in BOOLEAN
      BY <1>0, StartType
    <3> QED
      BY <1>0, <3>1, MpdFits, SeekType
  <2> DEFINE a == IF start.seek THEN Seek(Mpd, start.forward, start.target).at ELSE Position(0, 0)
             w == IF OnDemand /\ start.seek /\ Seek(Mpd, start.forward, start.target).found
                   THEN start.target - PeriodStart ELSE Unknown
             o == OnDemand
  <2>2. a \in Positions
    BY <2>1 DEF Position, Positions
  <2>3. w \in Int /\ o \in BOOLEAN
    BY <1>2 DEF Unknown, OnDemand
  <2>4. d = [rep |-> 1, at |-> a, index |-> 0, entry |-> 0, sidxPos |-> Unknown,
             pending |-> w, allow |-> o, mdat |-> FALSE, off |-> Unknown, section |-> 0,
             base |-> 0, queue |-> <<>>, needHeader |-> TRUE, lastRet |-> "OK", errs |-> 0]
    BY DEF Init, NewStream
  <2> HIDE DEF a, w, o
  <2> QED
    BY <1>0, <2>2, <2>3, <2>4, RepsFacts, RetTypes, ValueTypes DEF Streams, Positions
<1>4. From \in Int
  BY <1>2 DEF From
<1>5. TypeOK
  <2>1. /\ todo = <<>> /\ retried = FALSE /\ dpc = "loop" /\ spc = "idle" /\ starting = FALSE
        /\ finished = FALSE /\ status = FALSE /\ posted = FALSE /\ switches = 0 /\ faults = 0
        /\ moov = 0 /\ heard = <<From, From>> /\ at = From
        /\ src = NoSrc /\ frag = [rep |-> 1, at |-> Position(0, 0), from |-> 0, to |-> 0]
    BY DEF Init
  <2>2. /\ src \in [on : BOOLEAN, rep : Reps, at : [index : Int, repeat : Int],
                    part : Parts, from : Int, pos : Int, end : Int]
        /\ frag \in [rep : Reps, at : [index : Int, repeat : Int], from : Int, to : Int]
    BY <1>0, <2>1, RepsFacts DEF NoSrc, Position, Parts
  <2>3. todo \in Seq(Parts) /\ heard \in Int \X Int /\ at \in Int
    BY <1>4, <2>1
  <2>4. switches \in 0 .. MaxSwitches /\ faults \in 0 .. MaxFaults
    BY <2>1, SizesAssumption
  <2> QED
    BY <1>0, <1>1, <1>3, <2>1, <2>2, <2>3, <2>4 DEF TypeOK
<1>6. Shown /\ HeaderFirst /\ OffsetsTrue
  BY <1>0, RepsFacts DEF Init, Shown, HeaderFirst, OffsetsTrue, Media, Position
<1>7. Asked /\ Transfer
  BY <1>0, <1>1, RepsFacts DEF Init, NoSrc, Asked, Transfer, Loading
<1>8. Adapter
  BY <1>1 DEF Init, NoSrc, Adapter, Loading, Untouched, Waiting, Receiving
<1>9. Indexed /\ Headed
  BY <1>1, <1>2 DEF Init, NoSrc, Indexed, Headed, Loading, Receiving, Remembered
<1> QED
  BY <1>5, <1>6, <1>7, <1>8, <1>9 DEF DashInv

LEMMA Joined ==
  /\ <<"header">> \o <<"media">> = <<"header", "media">>
  /\ <<"header", "index">> \o <<>> = <<"header", "index">>
  /\ <<"header", "index">> \o <<"media">> = <<"header", "index", "media">>
<1> DEFINE h == <<"header">>
           m == <<"media">>
           i == <<"header", "index">>
           a == <<"header", "media">>
           b == <<"header", "index", "media">>
<1>1. /\ h \in Seq(Parts) /\ m \in Seq(Parts) /\ i \in Seq(Parts)
      /\ a \in Seq(Parts) /\ b \in Seq(Parts)
  BY DEF Parts
<1>2. /\ Len(h) = 1 /\ Len(m) = 1 /\ Len(i) = 2 /\ Len(a) = 2 /\ Len(b) = 3
      /\ h[1] = "header" /\ m[1] = "media" /\ i[1] = "header" /\ i[2] = "index"
      /\ a[1] = "header" /\ a[2] = "media"
      /\ b[1] = "header" /\ b[2] = "index" /\ b[3] = "media"
  OBVIOUS
<1> HIDE DEF h, m, i, a, b
<1>3. h \o m = a
  <2>1. /\ h \o m \in Seq(Parts) /\ Len(h \o m) = 2
        /\ \A k \in 1 .. 2 : (h \o m)[k] = IF k <= 1 THEN h[k] ELSE m[k - 1]
    BY <1>1, <1>2, ConcatProperties
  <2> QED
    BY <1>1, <1>2, <2>1, SeqEqual
<1>4. i \o m = b
  <2>1. /\ i \o m \in Seq(Parts) /\ Len(i \o m) = 3
        /\ \A k \in 1 .. 3 : (i \o m)[k] = IF k <= 2 THEN i[k] ELSE m[k - 2]
    BY <1>1, <1>2, ConcatProperties
  <2> QED
    BY <1>1, <1>2, <2>1, SeqEqual
<1>5. i \o <<>> = i
  BY <1>1, ConcatEmptySeq
<1> QED
  BY <1>3, <1>4, <1>5 DEF h, m, i, a, b

LEMMA InvUpdateInfo == ASSUME DashInv, UpdateInfo PROVE DashInv'
<1>0. /\ start \in Starts /\ d \in Streams /\ start' = start
      /\ start.layout \in {"inline", "indexed", "list", "template"} /\ start.forward \in BOOLEAN
  BY StartType DEF DashInv, TypeOK, UpdateInfo
<1>1. /\ dpc = "loop" /\ dpc' = "open" /\ frag' = Request /\ starting' /\ retried' = FALSE
      /\ IndexOnly \/ HasFragment(Mpd, d.at)
      /\ todo' = Headers \o (IF IndexOnly THEN <<>> ELSE <<"media">>)
      /\ UNCHANGED <<src, finished, status, spc, switches, faults, posted>>
      /\ UNCHANGED shownVars
  BY DEF UpdateInfo, sourceVars, countVars
<1>2. /\ push' = push /\ moov' = moov /\ heard' = heard /\ at' = at
  BY <1>1 DEF shownVars
<1>3. src.on = FALSE /\ spc = "idle"
  BY <1>1 DEF DashInv, TypeOK, Asked, Adapter, Receiving
<1> DEFINE h == Headers # <<>>
<1>4. d' = [d EXCEPT !.lastRet = "OK", !.needHeader = h]
  BY DEF UpdateInfo
<1>5. h \in BOOLEAN
  OBVIOUS
<1> HIDE DEF h
<1>6. /\ d' \in Streams /\ d'.lastRet = "OK" /\ d'.needHeader = h
      /\ d'.rep = d.rep /\ d'.at = d.at /\ d'.index = d.index /\ d'.entry = d.entry
      /\ d'.sidxPos = d.sidxPos /\ d'.pending = d.pending /\ d'.mdat = d.mdat
      /\ d'.off = d.off /\ d'.base = d.base /\ d'.queue = d.queue
  <2>1. d' \in Streams
    BY <1>0, <1>4, <1>5, RetTypes, SetLastRet, SetNeedHeader
  <2> QED
    BY <1>0, <1>4, <2>1 DEF Streams
<1>7. /\ todo' \in Plans
      /\ h <=> Head(todo') # "media"
      /\ Head(todo') # "index"
      /\ h => d.needHeader
      /\ start.layout # "inline" => (d.needHeader <=> h)
  <2>1. CASE ~d.needHeader \/ start.layout = "inline"
    <3>1. Headers = <<>>
      <4>1. Headers =
              CASE ~d.needHeader \/ start.layout = "inline" -> <<>>
                [] d.needHeader /\ start.layout = "indexed" -> <<"header", "index">>
                [] d.needHeader /\ ~OnDemand -> <<"header">>
        BY DEF Headers
      <4>2. ~(d.needHeader /\ start.layout = "indexed") /\ ~(d.needHeader /\ ~OnDemand)
        BY <2>1 DEF OnDemand
      <4> QED
        BY <2>1, <4>1, <4>2
    <3>2. ~IndexOnly
      BY <2>1 DEF IndexOnly
    <3>3. todo' = <<"media">>
      BY <1>1, <3>1, <3>2
    <3>4. <<"media">> \in Plans
      BY <1>0 DEF Plans
    <3> QED
      BY <2>1, <3>1, <3>3, <3>4 DEF h
  <2>2. CASE d.needHeader /\ start.layout = "indexed"
    <3>1. Headers = <<"header", "index">>
      BY <2>2 DEF Headers, OnDemand
    <3>2. todo' \in {<<"header", "index">>, <<"header", "index", "media">>}
      <4>1. /\ <<"header", "index">> \o <<>> = <<"header", "index">>
            /\ <<"header", "index">> \o <<"media">> = <<"header", "index", "media">>
        BY Joined
      <4> QED
        BY <1>1, <3>1, <4>1, Zenon
    <3>3. todo' \in Plans
      BY <2>2, <3>2 DEF Plans
    <3> QED
      BY <2>2, <3>1, <3>2, <3>3 DEF h
  <2>3. CASE d.needHeader /\ start.layout \in {"list", "template"}
    <3>1. Headers = <<"header">>
      BY <2>3 DEF Headers, OnDemand
    <3>2. ~IndexOnly
      BY <2>3 DEF IndexOnly
    <3>3. todo' = <<"header", "media">>
      <4>1. <<"header">> \o <<"media">> = <<"header", "media">>
        BY Joined
      <4> QED
        BY <1>1, <3>1, <3>2, <4>1, Zenon
    <3>4. <<"header", "media">> \in Plans
      BY <2>3 DEF Plans
    <3> QED
      BY <2>3, <3>1, <3>3, <3>4 DEF h
  <2> QED
    BY <1>0, <2>1, <2>2, <2>3
<1>8. /\ frag'.rep = d.rep /\ frag'.at = d.at
      /\ 0 <= frag'.from /\ frag'.from <= frag'.to /\ frag'.to \in Int /\ frag'.from \in Int
      /\ frag' \in [rep : Reps, at : [index : Int, repeat : Int], from : Int, to : Int]
      /\ d.index = 0 => frag'.from = 0
  <2> DEFINE known == OnDemand /\ d.index # 0 /\ d.sidxPos # Unknown
             from == IF known THEN d.base + d.entry * Block ELSE d.base
             to == IF known /\ ~start.forward THEN from + Block ELSE PartEnd("media", d.rep)
  <2>1. frag' = [rep |-> d.rep, at |-> d.at, from |-> from, to |-> to]
    BY <1>1 DEF Request
  <2>2. d.rep \in Reps /\ d.at \in [index : Int, repeat : Int]
    BY <1>0, FieldTypes DEF Positions
  <2>3. CASE known
    <3>1. d.base = First /\ d.index = d.rep /\ d.entry \in 0 .. Entries(d.rep) - 1
      BY <2>3 DEF DashInv, Indexed, TypeOK
    <3>2. from = First + d.entry * Block
      BY <2>3, <3>1
    <3>3. PartEnd("media", d.rep) = First + Entries(d.rep) * Block
      BY <2>2, <2>3, PartEndFacts
    <3>4. /\ First \in Nat /\ Block \in Nat /\ d.entry \in Nat /\ Entries(d.rep) \in Nat
          /\ d.entry <= Entries(d.rep)
      BY <2>2, <3>1, Sizes, EntryFacts
    <3>5. d.entry * Block \in Nat /\ d.entry * Block <= Entries(d.rep) * Block
      BY <3>4
    <3>6. from \in Nat /\ from <= to /\ to \in Int
      BY <2>3, <3>2, <3>3, <3>4, <3>5
    <3> HIDE DEF from, to
    <3> QED
      BY <2>1, <2>2, <2>3, <3>6
  <2>4. CASE ~known
    <3>1. d.base = 0
      BY <2>4 DEF DashInv, Indexed
    <3>2. from = 0 /\ to = PartEnd("media", d.rep)
      BY <2>4, <3>1
    <3>3. to \in Nat
      BY <2>2, <3>2, PartEndFacts DEF Parts
    <3> HIDE DEF from, to
    <3> QED
      BY <2>1, <2>2, <3>2, <3>3
  <2> QED
    BY <2>3, <2>4
<1>9. todo' \in Seq(Parts) /\ Head(todo') \in Parts
  BY <1>0, <1>7, PlanFacts
<1>10. TypeOK'
  BY <1>0, <1>1, <1>2, <1>6, <1>8, <1>9 DEF DashInv, TypeOK
<1>11. Asked'
  <2>1. OnDemand \/ HasFragment(Mpd, frag'.at)
    BY <1>1, <1>8 DEF IndexOnly, OnDemand
  <2>2. OnDemand' \/ HasFragment(Mpd, frag.at)'
    BY <1>0, <2>1, StartFixed
  <2>3. todo' \in Plans'
    BY <1>0, <1>7, StartFixed
  <2> QED
    BY <1>0, <1>1, <1>3, <1>6, <1>7, <1>8, <2>2, <2>3 DEF DashInv, Asked, Loading, Sound, Part
<1>12. Transfer'
  BY <1>1, <1>3 DEF Transfer
<1>13. Adapter'
  BY <1>1, <1>3, <1>6 DEF DashInv, Adapter, Loading, Untouched, Waiting, Receiving, Fresh
<1>14. Indexed'
  <2>1. OnDemand' = OnDemand
    BY <1>0, StartFixed
  <2>2. Remembered(d)'
    BY <1>6 DEF DashInv, Indexed, Remembered
  <2>3. h => d.index = 0 /\ ~d.mdat
    BY <1>1, <1>7 DEF DashInv, Indexed
  <2> QED
    BY <1>1, <1>6, <1>7, <2>1, <2>2, <2>3 DEF DashInv, Indexed, Loading, Part, Waiting
<1>15. Headed'
  <2>1. start.layout = "inline" /\ moov # d.rep => frag'.from = 0
    BY <1>8 DEF DashInv, Headed
  <2> QED
    BY <1>0, <1>1, <1>2, <1>3, <1>6, <1>7, <2>1
    DEF DashInv, Headed, Loading, Part, Receiving, Sound
<1>16. Shown' /\ HeaderFirst' /\ OffsetsTrue'
  BY <1>0, <1>1, NothingShown DEF DashInv
<1> QED
  BY <1>10, <1>11, <1>12, <1>13, <1>14, <1>15, <1>16 DEF DashInv

(* The fields of a stream that the invariant speaks of, without last_ret.   *)
SameFields(y, x) ==
  /\ y.rep = x.rep /\ y.index = x.index /\ y.entry = x.entry /\ y.sidxPos = x.sidxPos
  /\ y.pending = x.pending /\ y.mdat = x.mdat /\ y.off = x.off /\ y.section = x.section
  /\ y.base = x.base /\ y.queue = x.queue

LEMMA SameRemembered ==
  ASSUME NEW x, NEW y, SameFields(y, x), Remembered(x)
  PROVE  Remembered(y)
BY DEF SameFields, Remembered

(* D leaves the loop.                                                       *)
LEMMA InvOver ==
  ASSUME DashInv, dpc # "wait", Over', start' = start, UNCHANGED shownVars,
         UNCHANGED <<todo, frag, retried, starting, finished, status, src, spc,
                     switches, faults, posted>>,
         d' \in Streams, SameFields(d', d), d'.needHeader = d.needHeader,
         d'.lastRet = "SWITCH" => d.lastRet = "SWITCH"
  PROVE  DashInv'
<1>1. /\ push' = push /\ moov' = moov /\ heard' = heard /\ at' = at
  BY DEF shownVars
<1>2. src.on = FALSE /\ dpc' \in {"done", "cut", "failed"} /\ spc = "idle"
  BY DEF DashInv, TypeOK, Asked, Adapter, Receiving, Over
<1>3. TypeOK'
  BY <1>1, <1>2 DEF DashInv, TypeOK, SameFields
<1>4. Asked'
  BY <1>2 DEF DashInv, Asked, Loading, SameFields
<1>5. Transfer'
  BY <1>2 DEF Transfer
<1>6. Adapter'
  BY <1>2 DEF DashInv, Adapter, Untouched, Waiting, Loading, Receiving, SameFields
<1>7. Indexed'
  <2>1. Remembered(d)'
    BY SameRemembered DEF DashInv, Indexed
  <2> QED
    BY <1>2, <2>1, StartFixed DEF DashInv, Indexed, Loading, SameFields
<1>8. Headed'
  BY <1>1, <1>2 DEF DashInv, Headed, Loading, Receiving, SameFields
<1>9. Shown' /\ HeaderFirst' /\ OffsetsTrue'
  BY NothingShown DEF DashInv
<1> QED
  BY <1>3, <1>4, <1>5, <1>6, <1>7, <1>8, <1>9 DEF DashInv

LEMMA InvEnds ==
  ASSUME DashInv, NoFragment \/ Ended \/ Cut \/ GiveUp
  PROVE  DashInv'
<1>0. d \in Streams
  BY DEF DashInv, TypeOK
<1>1. CASE NoFragment
  <2>1. d' = [d EXCEPT !.lastRet = "EOS"]
    BY <1>1 DEF NoFragment
  <2>2. d' \in Streams
    BY <1>0, <2>1, RetTypes, SetLastRet
  <2>3. SameFields(d', d) /\ d'.needHeader = d.needHeader /\ d'.lastRet = "EOS"
    BY <1>0, <2>1 DEF Streams, SameFields
  <2> QED
    BY <1>1, <2>2, <2>3, InvOver
    DEF NoFragment, Over, requestVars, sourceVars, countVars
<1>2. CASE GiveUp
  <2>0. d.errs + 1 \in Nat
    BY <1>0, FieldTypes
  <2>1. d' = [d EXCEPT !.errs = d.errs + 1]
    BY <1>2 DEF GiveUp
  <2>2. d' \in Streams
    BY <1>0, <2>0, <2>1, SetErrs
  <2>3. SameFields(d', d) /\ d'.needHeader = d.needHeader /\ d'.lastRet = d.lastRet
    BY <1>0, <2>1 DEF Streams, SameFields
  <2> QED
    BY <1>2, <2>2, <2>3, InvOver
    DEF GiveUp, ErrorStays, Over, requestVars, sourceVars, countVars
<1>3. CASE Ended \/ Cut
  <2>1. d' = d
    BY <1>3 DEF Ended, Cut
  <2>2. SameFields(d', d)
    BY <2>1 DEF SameFields
  <2> QED
    BY <1>0, <1>3, <2>1, <2>2, InvOver
    DEF Ended, Cut, Over, requestVars, sourceVars, countVars
<1> QED
  BY <1>1, <1>2, <1>3

LEMMA InvOpen == ASSUME DashInv, Open PROVE DashInv'
<1>0. /\ start \in Starts /\ d \in Streams /\ start' = start
      /\ start.layout \in {"inline", "indexed", "list", "template"}
  BY StartType DEF DashInv, TypeOK, Open
<1>1. /\ dpc = "open" /\ dpc' = "wait" /\ finished' = FALSE
      /\ UNCHANGED <<d, todo, frag, retried, starting, status, spc, switches, faults, posted>>
      /\ UNCHANGED shownVars
  BY DEF Open, requestVars, countVars
<1>2. /\ push' = push /\ moov' = moov /\ heard' = heard /\ at' = at
  BY <1>1 DEF shownVars
<1>3. /\ d.lastRet = "OK" /\ todo \in Plans /\ 0 <= frag.from /\ frag.from <= frag.to
      /\ frag.rep \in Reps /\ frag.at \in [index : Int, repeat : Int]
      /\ frag.from \in Int /\ frag.to \in Int
  BY <1>1 DEF DashInv, TypeOK, Asked, Loading
<1>4. Part \in Parts
  BY <1>0, <1>3, PlanFacts DEF Part
<1> DEFINE from == CASE Part = "header" -> 0 [] Part = "index" -> MoovSize
                     [] Part = "media" -> frag.from
           end == IF Part = "media" THEN frag.to ELSE PartEnd(Part, frag.rep)
<1>5. src' = [on |-> TRUE, rep |-> frag.rep, at |-> frag.at, part |-> Part,
              from |-> from, pos |-> from, end |-> end]
  BY DEF Open, Part
<1>6. /\ Part = "header" => from = 0 /\ end = MoovSize
      /\ Part = "index" => from = MoovSize /\ end = First
      /\ Part = "media" => from = frag.from /\ end = frag.to
  BY <1>3, PartEndFacts
<1> HIDE DEF from, end
<1>7. from \in Int /\ end \in Int /\ from <= end
  BY <1>3, <1>4, <1>6, Sizes DEF Parts
<1>8. /\ src'.on /\ src'.rep = frag.rep /\ src'.at = frag.at /\ src'.part = Part
      /\ src'.from = from /\ src'.pos = from /\ src'.end = end
  BY <1>5
<1>9. src' \in [on : BOOLEAN, rep : Reps, at : [index : Int, repeat : Int],
                part : Parts, from : Int, pos : Int, end : Int]
  BY <1>3, <1>4, <1>5, <1>7
<1>10. Part' = Part /\ Sound /\ Loading
  BY <1>1, <1>3 DEF Part, Sound, Loading
<1>11. TypeOK'
  BY <1>0, <1>1, <1>2, <1>9 DEF DashInv, TypeOK
<1>12. Asked'
  <2>1. HasFragment(Mpd, frag.at)' = HasFragment(Mpd, frag.at)
    BY <1>0, <1>1, StartFixed
  <2> QED
    BY <1>0, <1>1, <1>3, <1>8, <1>10, <2>1, StartFixed
    DEF DashInv, Asked, Loading, Sound, Part
<1>13. Transfer'
  BY <1>1, <1>3, <1>6, <1>7, <1>8, Sizes DEF Transfer
<1>14. Untouched /\ Untouched' /\ ~Receiving' /\ (Fresh => Fresh')
  BY <1>1, <1>8 DEF Untouched, Waiting, Receiving, Fresh, Part
<1>15. Adapter'
  BY <1>1, <1>10, <1>14 DEF DashInv, Adapter, Loading
<1>16. Indexed'
  BY <1>0, <1>1, <1>8, <1>10, StartFixed DEF DashInv, Indexed, Remembered, Loading, Part
<1>17. Headed'
  <2>1. ~finished' /\ dpc' = "wait"
    BY <1>1
  <2> QED
    BY <1>0, <1>1, <1>2, <1>10, <1>14, <2>1 DEF DashInv, Headed, Loading, Part, Sound
<1>18. Shown' /\ HeaderFirst' /\ OffsetsTrue'
  BY <1>0, <1>1, NothingShown DEF DashInv
<1> QED
  BY <1>11, <1>12, <1>13, <1>15, <1>16, <1>17, <1>18 DEF DashInv

LEMMA InvOpenFails == ASSUME DashInv, OpenFails PROVE DashInv'
<1>0. /\ start \in Starts /\ d \in Streams /\ start' = start
  BY DEF DashInv, TypeOK, OpenFails
<1>1. /\ dpc = "open" /\ dpc' = "result" /\ faults < MaxFaults /\ faults' = faults + 1
      /\ UNCHANGED <<todo, frag, retried, starting, finished, status, src, spc, switches, posted>>
      /\ UNCHANGED shownVars
  BY DEF OpenFails, requestVars, sourceVars
<1>2. /\ push' = push /\ moov' = moov /\ heard' = heard /\ at' = at
  BY <1>1 DEF shownVars
<1>3. /\ SameFields(d', d) /\ d'.needHeader = d.needHeader
      /\ d' \in Streams /\ d'.lastRet \in {"ERROR", "CUSTOM_ERROR"}
  <2>1. PICK ret \in {"ERROR", "CUSTOM_ERROR"} : d' = [d EXCEPT !.lastRet = ret]
    BY DEF OpenFails
  <2>2. d' \in Streams
    BY <1>0, <2>1, RetTypes, SetLastRet
  <2> QED
    BY <1>0, <2>1, <2>2 DEF Streams, SameFields
<1>4. d.lastRet = "OK" /\ src.on = FALSE /\ spc = "idle"
  BY <1>1 DEF DashInv, TypeOK, Asked, Adapter, Untouched
<1>5. Sound /\ Sound' /\ Loading /\ Part' = Part /\ Untouched
  BY <1>1, <1>3, <1>4 DEF Part, Sound, Loading, Untouched
<1>6. TypeOK'
  <2>1. faults' \in 0 .. MaxFaults
    BY <1>1, SizesAssumption DEF DashInv, TypeOK
  <2> QED
    BY <1>0, <1>1, <1>2, <1>3, <2>1 DEF DashInv, TypeOK, SameFields
<1>7. Asked'
  <2>1. HasFragment(Mpd, frag.at)' = HasFragment(Mpd, frag.at)
    BY <1>0, <1>1, StartFixed
  <2> QED
    BY <1>0, <1>1, <1>3, <1>4, <1>5, <2>1, StartFixed DEF DashInv, Asked, Loading, SameFields
<1>8. Transfer'
  BY <1>1, <1>4 DEF Transfer
<1>9. Adapter'
  BY <1>1, <1>3, <1>4, <1>5 DEF DashInv, Adapter, Loading, Receiving, Fresh, SameFields, Part
<1>10. Indexed'
  <2>1. Remembered(d)'
    BY <1>3, SameRemembered DEF DashInv, Indexed
  <2> QED
    BY <1>0, <1>1, <1>3, <1>5, <2>1, StartFixed DEF DashInv, Indexed, Loading, SameFields
<1>11. Headed'
  BY <1>0, <1>1, <1>2, <1>3, <1>4, <1>5 DEF DashInv, Headed, Loading, Receiving, SameFields
<1>12. Shown' /\ HeaderFirst' /\ OffsetsTrue'
  BY <1>0, <1>1, NothingShown DEF DashInv
<1> QED
  BY <1>6, <1>7, <1>8, <1>9, <1>10, <1>11, <1>12 DEF DashInv

LEMMA InvWoken == ASSUME DashInv, Woken PROVE DashInv'
<1>0. /\ start \in Starts /\ start' = start
  BY DEF DashInv, TypeOK, Woken
<1>1. /\ dpc = "wait" /\ dpc' = "result" /\ finished /\ spc = "idle"
      /\ UNCHANGED <<d, todo, frag, retried, starting, finished, status, spc, switches,
                     faults, posted>>
      /\ UNCHANGED shownVars
  BY DEF Woken, requestVars, countVars
<1>2. /\ push' = push /\ moov' = moov /\ heard' = heard /\ at' = at
  BY <1>1 DEF shownVars
<1>3. src' \in [on : BOOLEAN, rep : Reps, at : [index : Int, repeat : Int],
                part : Parts, from : Int, pos : Int, end : Int] /\ src'.on = FALSE
  BY DEF DashInv, TypeOK, Woken
<1>4. Part' = Part /\ Sound' = Sound /\ Loading /\ ~Receiving'
  BY <1>1, <1>3 DEF Part, Sound, Loading, Receiving
<1>5. TypeOK'
  BY <1>0, <1>1, <1>2, <1>3 DEF DashInv, TypeOK
<1>6. Asked'
  <2>1. HasFragment(Mpd, frag.at)' = HasFragment(Mpd, frag.at)
    BY <1>0, <1>1, StartFixed
  <2> QED
    BY <1>0, <1>1, <1>3, <1>4, <2>1, StartFixed DEF DashInv, Asked, Loading
<1>7. Transfer'
  BY <1>3 DEF Transfer
<1>8. Adapter'
  <2>1. Untouched' => Untouched
    BY <1>1, <1>3 DEF Untouched, Waiting
  <2>2. Fresh' = Fresh
    BY <1>1, <1>4 DEF Fresh
  <2> QED
    BY <1>1, <1>4, <2>1, <2>2 DEF DashInv, Adapter, Loading
<1>9. Indexed'
  BY <1>0, <1>1, <1>3, <1>4, StartFixed DEF DashInv, Indexed, Loading, Remembered, Waiting
<1>10. Headed'
  BY <1>0, <1>1, <1>2, <1>4 DEF DashInv, Headed, Loading
<1>11. Shown' /\ HeaderFirst' /\ OffsetsTrue'
  BY <1>0, <1>1, NothingShown DEF DashInv
<1> QED
  BY <1>5, <1>6, <1>7, <1>8, <1>9, <1>10, <1>11 DEF DashInv

LEMMA InvPartDone == ASSUME DashInv, PartDone PROVE DashInv'
<1>0. /\ start \in Starts /\ d \in Streams /\ start' = start
      /\ start.layout \in {"inline", "indexed", "list", "template"}
  BY StartType DEF DashInv, TypeOK, PartDone
<1>1. /\ dpc = "result" /\ d.lastRet = "OK" /\ todo' = Tail(todo)
      /\ dpc' = IF todo' = <<>> THEN "loop" ELSE "open"
      /\ UNCHANGED <<frag, retried, starting, finished, status, src, spc, switches,
                     faults, posted>>
      /\ UNCHANGED shownVars
  BY DEF PartDone, sourceVars, countVars
<1>2. /\ push' = push /\ moov' = moov /\ heard' = heard /\ at' = at
  BY <1>1 DEF shownVars
<1>3. src.on = FALSE /\ spc = "idle" /\ Sound /\ Loading
  BY <1>1 DEF DashInv, TypeOK, Asked, Adapter, Receiving, Sound, Loading
<1>4. /\ todo \in Plans /\ frag.rep = d.rep /\ (d.needHeader <=> Part # "media")
      /\ 0 <= frag.from /\ frag.from <= frag.to
      /\ OnDemand \/ HasFragment(Mpd, frag.at)
  BY <1>3 DEF DashInv, Asked
<1>5. /\ todo' \in Seq(Parts)
      /\ todo' # <<>> =>
           /\ todo' \in Plans /\ Head(todo') = todo[2] /\ 2 \in 2 .. Len(todo)
           /\ Head(todo') # "header" /\ Part # "media"
           /\ Head(todo') = "index" => Part = "header"
           /\ start.layout # "inline"
      /\ todo' = <<>> => Part # "header"
      /\ (\E i \in DOMAIN todo' : todo'[i] # "media") <=> todo' # <<>> /\ Head(todo') # "media"
      /\ \A i \in 2 .. Len(todo') : i + 1 \in 2 .. Len(todo) /\ todo'[i] = todo[i + 1]
      /\ Part \in Parts
  BY <1>0, <1>1, <1>4, PlanFacts DEF Part
<1>6. /\ SameFields(d', d) /\ d' \in Streams /\ d'.lastRet = "OK"
      /\ d'.needHeader <=> d.needHeader /\ todo' # <<>> /\ Head(todo') # "media"
  <2> DEFINE h == d.needHeader /\ \E i \in DOMAIN todo' : todo'[i] # "media"
  <2>1. d' = [d EXCEPT !.needHeader = h]
    BY <1>0 DEF PartDone, Streams
  <2>2. h \in BOOLEAN /\ (h <=> d.needHeader /\ todo' # <<>> /\ Head(todo') # "media")
    BY <1>0, <1>5, FieldTypes
  <2> HIDE DEF h
  <2>3. d' \in Streams
    BY <1>0, <2>1, <2>2, SetNeedHeader
  <2>4. SameFields(d', d) /\ d'.lastRet = d.lastRet /\ d'.needHeader = h
    BY <1>0, <2>1 DEF Streams, SameFields
  <2> QED
    BY <1>1, <2>2, <2>3, <2>4
<1>7. TypeOK'
  BY <1>0, <1>1, <1>2, <1>5, <1>6 DEF DashInv, TypeOK, SameFields
<1>8. Asked'
  <2>1. HasFragment(Mpd, frag.at)' = HasFragment(Mpd, frag.at)
    BY <1>0, <1>1, StartFixed
  <2>2. Loading' => todo' # <<>>
    BY <1>1 DEF Loading
  <2>3. Loading' => (d'.needHeader <=> Part' # "media")
    BY <1>4, <1>5, <1>6, <2>2 DEF Part
  <2>4. Sound' /\ d'.rep = d.rep
    BY <1>6 DEF Sound, SameFields
  <2> QED
    BY <1>0, <1>1, <1>3, <1>4, <1>5, <1>6, <2>1, <2>2, <2>3, <2>4, StartFixed
    DEF DashInv, Asked
<1>9. Transfer'
  BY <1>1, <1>3 DEF Transfer
<1>10. ~Receiving'
  BY <1>1, <1>3 DEF Receiving
<1>11. \A i \in 2 .. Len(todo) : starting \/ d.section # SectionOf(todo[i])
  BY <1>3 DEF DashInv, Adapter
<1>12. Adapter'
  <2>1. Untouched' => todo' # <<>>
    BY <1>1, <1>3, <1>6 DEF Untouched, Waiting
  <2>2. todo' # <<>> => Fresh'
    BY <1>1, <1>5, <1>6, <1>11 DEF Fresh, Part, SameFields
  <2>3. \A i \in 2 .. Len(todo') : starting' \/ d'.section # SectionOf(todo'[i])
    BY <1>1, <1>5, <1>6, <1>11 DEF SameFields
  <2> QED
    BY <1>1, <1>3, <1>6, <1>10, <2>1, <2>2, <2>3 DEF DashInv, Adapter, SameFields
<1>13. Indexed'
  <2>1. Remembered(d)'
    BY <1>6, SameRemembered DEF DashInv, Indexed
  <2>2. Loading' => Part' # "header" /\ ~d'.mdat /\ (Part' = "index" => d'.index = 0)
    BY <1>1, <1>3, <1>5, <1>6 DEF DashInv, Indexed, Loading, Part, SameFields
  <2> QED
    BY <1>0, <1>1, <1>3, <1>6, <2>1, <2>2, StartFixed DEF DashInv, Indexed, SameFields
<1>14. Headed'
  <2>1. Part \in {"header", "index"} => moov = d.rep
    BY <1>1, <1>3 DEF DashInv, Headed
  <2>2. start.layout # "inline" => moov = d.rep
    BY <1>4, <1>5, <2>1 DEF DashInv, Headed, Parts
  <2>3. start.layout = "inline" => todo' = <<>> /\ ~Loading'
    BY <1>1, <1>5 DEF Loading
  <2>4. Loading' => Part' # "header" /\ start.layout # "inline"
    BY <1>1, <1>5, <2>3 DEF Loading, Part
  <2> QED
    BY <1>0, <1>2, <1>6, <1>10, <2>2, <2>4 DEF DashInv, Headed, SameFields
<1>15. Shown' /\ HeaderFirst' /\ OffsetsTrue'
  BY <1>0, <1>1, NothingShown DEF DashInv
<1> QED
  BY <1>7, <1>8, <1>9, <1>12, <1>13, <1>14, <1>15 DEF DashInv

LEMMA InvSwitched == ASSUME DashInv, Switched PROVE DashInv'
<1>0. /\ start \in Starts /\ start' = start
  BY DEF DashInv, TypeOK, Switched
<1>1. /\ dpc = "result" /\ d.lastRet = "SWITCH" /\ dpc' = "loop"
      /\ UNCHANGED <<d, todo, frag, retried, starting, finished, status, src, spc,
                     switches, faults, posted>>
      /\ UNCHANGED shownVars
  BY DEF Switched, requestVars, sourceVars, countVars
<1>2. /\ push' = push /\ moov' = moov /\ heard' = heard /\ at' = at
  BY <1>1 DEF shownVars
<1>3. src.on = FALSE /\ ~Loading' /\ spc = "idle"
  BY <1>1 DEF DashInv, TypeOK, Asked, Loading, Adapter, Receiving
<1>4. TypeOK'
  BY <1>0, <1>1, <1>2 DEF DashInv, TypeOK
<1>5. Asked' /\ Transfer'
  BY <1>0, <1>1, <1>3 DEF DashInv, Asked, Transfer
<1>6. Adapter'
  BY <1>1, <1>3 DEF DashInv, Adapter, Untouched, Waiting, Receiving
<1>7. Indexed'
  BY <1>0, <1>1, <1>3, StartFixed DEF DashInv, Indexed, Remembered
<1>8. Headed'
  BY <1>0, <1>1, <1>2, <1>3 DEF DashInv, Headed, Receiving
<1>9. Shown' /\ HeaderFirst' /\ OffsetsTrue'
  BY <1>0, <1>1, NothingShown DEF DashInv
<1> QED
  BY <1>4, <1>5, <1>6, <1>7, <1>8, <1>9 DEF DashInv

LEMMA InvAgain == ASSUME DashInv, Again PROVE DashInv'
<1>0. /\ start \in Starts /\ d \in Streams /\ start' = start
      /\ start.layout \in {"inline", "indexed", "list", "template"}
  BY StartType DEF DashInv, TypeOK, Again
<1>1. /\ dpc = "result" /\ d.lastRet = "CUSTOM_ERROR" /\ Part = "media" /\ dpc' = "open"
      /\ retried' \in BOOLEAN
      /\ UNCHANGED <<todo, frag, starting, finished, status, src, spc, switches, faults, posted>>
      /\ UNCHANGED shownVars
  BY DEF Again, MediaError, Part, sourceVars, countVars
<1>2. /\ push' = push /\ moov' = moov /\ heard' = heard /\ at' = at
  BY <1>1 DEF shownVars
<1>3. src.on = FALSE /\ spc = "idle" /\ Sound /\ Loading /\ Untouched
  BY <1>1 DEF DashInv, TypeOK, Asked, Adapter, Receiving, Sound, Loading, Untouched
<1>4. /\ SameFields(d', d) /\ d' \in Streams /\ d'.lastRet = "OK"
      /\ d'.needHeader = d.needHeader
  <2>1. d' = [d EXCEPT !.lastRet = "OK"]
    BY DEF Again
  <2>2. d' \in Streams
    BY <1>0, <2>1, RetTypes, SetLastRet
  <2> QED
    BY <1>0, <2>1, <2>2 DEF Streams, SameFields
<1>5. Part' = Part /\ Sound' /\ Loading' /\ ~Receiving'
  BY <1>1, <1>3, <1>4 DEF Part, Sound, Loading, Receiving
<1>6. TypeOK'
  BY <1>0, <1>1, <1>2, <1>4 DEF DashInv, TypeOK, SameFields
<1>7. Asked'
  <2>1. HasFragment(Mpd, frag.at)' = HasFragment(Mpd, frag.at)
    BY <1>0, <1>1, StartFixed
  <2> QED
    BY <1>0, <1>1, <1>3, <1>4, <1>5, <2>1, StartFixed DEF DashInv, Asked, SameFields
<1>8. Transfer'
  BY <1>1, <1>3 DEF Transfer
<1>9. Adapter'
  BY <1>1, <1>3, <1>4, <1>5 DEF DashInv, Adapter, Fresh, SameFields
<1>10. Indexed'
  <2>1. Remembered(d)'
    BY <1>4, SameRemembered DEF DashInv, Indexed
  <2> QED
    BY <1>0, <1>1, <1>4, <1>5, <2>1, StartFixed DEF DashInv, Indexed, SameFields
<1>11. Headed'
  BY <1>0, <1>1, <1>2, <1>3, <1>4, <1>5 DEF DashInv, Headed, SameFields
<1>12. Shown' /\ HeaderFirst' /\ OffsetsTrue'
  BY <1>0, <1>1, NothingShown DEF DashInv
<1> QED
  BY <1>6, <1>7, <1>8, <1>9, <1>10, <1>11, <1>12 DEF DashInv

LEMMA RefetchedFacts ==
  ASSUME start \in Starts, NEW x \in Streams
  PROVE  LET y == Refetched(x)
         IN /\ y \in Streams /\ y.rep = 1 /\ y.index = x.index /\ y.entry = x.entry
            /\ y.sidxPos = x.sidxPos /\ y.pending = x.pending /\ y.mdat = x.mdat
            /\ y.off = x.off /\ y.section = x.section /\ y.base = x.base
            /\ y.queue = x.queue /\ y.needHeader = x.needHeader /\ y.lastRet = x.lastRet
<1> DEFINE ts == IF HasFragment(Mpd, x.at) THEN Timestamp(Mpd, x.at) ELSE LastEnd(Mpd)
           p == Seek(Mpd, start.forward, ts + PeriodStart + 1).at
<1>1. ts + PeriodStart + 1 \in Int
  <2>1. x.at \in Positions /\ IsMpd(Mpd) /\ PeriodStart \in Int
    BY FieldTypes, MpdFits, SizesAssumption
  <2>2. HasFragment(Mpd, x.at) => Timestamp(Mpd, x.at) \in Int
    BY <2>1, TimestampType
  <2>3. LastEnd(Mpd) \in Int
    BY <2>1, LastEndType
  <2> QED
    BY <2>1, <2>2, <2>3
<1> HIDE DEF ts
<1>2. p \in Positions
  BY <1>1, StartType, MpdFits, SeekType
<1>3. Refetched(x) = [x EXCEPT !.rep = 1, !.at = p]
  BY DEF Refetched, ts
<1> HIDE DEF p
<1>4. [x EXCEPT !.rep = 1, !.at = p] \in Streams
  BY <1>2, RepsFacts, SetRep, SetAt
<1>5. LET y == [x EXCEPT !.rep = 1, !.at = p]
      IN /\ y.rep = 1 /\ y.index = x.index /\ y.entry = x.entry
         /\ y.sidxPos = x.sidxPos /\ y.pending = x.pending /\ y.mdat = x.mdat
         /\ y.off = x.off /\ y.section = x.section /\ y.base = x.base
         /\ y.queue = x.queue /\ y.needHeader = x.needHeader /\ y.lastRet = x.lastRet
  BY DEF Streams
<1> QED
  BY <1>3, <1>4, <1>5

LEMMA InvStartOver == ASSUME OneRefetch, DashInv, StartOver PROVE DashInv'
<1>0. /\ start \in Starts /\ d \in Streams /\ start' = start
      /\ start.layout \in {"inline", "indexed", "list", "template"}
  BY StartType DEF DashInv, TypeOK, StartOver
<1>1. /\ dpc = "result" /\ d.lastRet \in {"CUSTOM_ERROR", "ERROR"} /\ dpc' = "loop"
      /\ UNCHANGED <<todo, frag, retried, starting, finished, status, src, spc, switches,
                     faults, posted>>
      /\ UNCHANGED shownVars
  BY DEF StartOver, ErrorStays, requestVars, sourceVars, countVars
<1>2. /\ push' = push /\ moov' = moov /\ heard' = heard /\ at' = at
  BY <1>1 DEF shownVars
<1>3. src.on = FALSE /\ spc = "idle" /\ Sound /\ Loading
  BY <1>1 DEF DashInv, TypeOK, Asked, Adapter, Receiving, Sound, Loading
<1>4. /\ SameFields(d', d) /\ d' \in Streams /\ d'.lastRet = d.lastRet
      /\ d'.needHeader = d.needHeader
  <2> DEFINE x == [d EXCEPT !.errs = @ + 1]
  <2>0. x = [d EXCEPT !.errs = d.errs + 1]
    BY <1>0 DEF Streams
  <2>1. x \in Streams
    <3>1. d.errs + 1 \in Nat
      BY <1>0, FieldTypes
    <3> QED
      BY <1>0, <2>0, <3>1, SetErrs, Zenon
  <2>2. SameFields(x, d) /\ x.lastRet = d.lastRet /\ x.needHeader = d.needHeader
    BY <1>0, <2>0 DEF Streams, SameFields
  <2>3. d' \in IF start.reps \in RefetchOk THEN {x, Refetched(x)} ELSE {x}
    BY DEF StartOver
  <2> HIDE DEF x
  <2>4. CASE d' = x
    BY <2>1, <2>2, <2>4
  <2>5. CASE d' = Refetched(x) /\ start.reps \in RefetchOk
    <3>1. d.rep = 1
      <4>1. start.reps = 1
        BY <2>5 DEF OneRefetch
      <4>2. d.rep \in 1 .. start.reps
        BY DEF DashInv, Asked
      <4> QED
        BY <4>1, <4>2
    <3> QED
      BY <1>0, <2>1, <2>2, <2>5, <3>1, RefetchedFacts DEF SameFields
  <2> QED
    BY <2>3, <2>4, <2>5
<1>5. ~Loading' /\ ~Receiving' /\ ~Untouched'
  BY <1>1, <1>3 DEF Loading, Receiving, Untouched, Waiting
<1>6. TypeOK'
  BY <1>0, <1>1, <1>2, <1>4 DEF DashInv, TypeOK, SameFields
<1>7. Asked'
  BY <1>0, <1>1, <1>3, <1>4, <1>5 DEF DashInv, Asked, SameFields
<1>8. Transfer'
  BY <1>1, <1>3 DEF Transfer
<1>9. Adapter'
  BY <1>1, <1>3, <1>4, <1>5 DEF DashInv, Adapter, SameFields
<1>10. Indexed'
  <2>1. Remembered(d)'
    BY <1>4, SameRemembered DEF DashInv, Indexed
  <2>2. d.needHeader => d.index = 0 /\ ~d.mdat
    <3>1. todo \in Plans /\ (d.needHeader <=> Part # "media")
      BY <1>3 DEF DashInv, Asked
    <3>2. Part \in {"header", "index", "media"}
      BY <1>0, <3>1, PlanFacts DEF Part, Parts
    <3> QED
      BY <1>1, <1>3, <3>1, <3>2 DEF DashInv, Indexed
  <2> QED
    BY <1>0, <1>1, <1>4, <1>5, <2>1, <2>2, StartFixed DEF DashInv, Indexed, SameFields
<1>11. Headed'
  BY <1>0, <1>1, <1>2, <1>3, <1>4, <1>5 DEF DashInv, Headed, SameFields
<1>12. Shown' /\ HeaderFirst' /\ OffsetsTrue'
  BY <1>0, <1>1, NothingShown DEF DashInv
<1> QED
  BY <1>6, <1>7, <1>8, <1>9, <1>10, <1>11, <1>12 DEF DashInv

(* The source fails.                                                        *)
LEMMA InvFail == ASSUME Bare, DashInv, NEW kind \in FaultKinds, Fail(kind) PROVE DashInv'
<1>0. /\ start \in Starts /\ d \in Streams /\ start' = start
  BY DEF DashInv, TypeOK, Fail
<1>1. /\ dpc = "wait" /\ src.on /\ ~finished /\ src.pos = src.from /\ spc = "idle"
      /\ kind \in {"refused", "server"}
      /\ faults < MaxFaults /\ faults' = faults + 1 /\ finished' = TRUE
      /\ UNCHANGED <<todo, frag, retried, dpc, starting, spc, switches, posted>>
      /\ UNCHANGED shownVars
  BY DEF Fail, Bare, requestVars
<1>2. /\ push' = push /\ moov' = moov /\ heard' = heard /\ at' = at
  BY <1>1 DEF shownVars
<1>3. d.lastRet = "OK" /\ Sound /\ Loading /\ Waiting /\ Untouched
  <2>1. d.lastRet = "OK"
    BY <1>1 DEF DashInv, Transfer
  <2> QED
    BY <1>1, <2>1 DEF Sound, Loading, Waiting, Untouched
<1>4. /\ SameFields(d', d) /\ d' \in Streams /\ d'.lastRet = "CUSTOM_ERROR"
      /\ d'.needHeader = d.needHeader
  <2>1. d' = [d EXCEPT !.lastRet = "CUSTOM_ERROR"]
    BY <1>0, <1>3 DEF Fail, Streams
  <2>2. d' \in Streams
    BY <1>0, <2>1, RetTypes, SetLastRet
  <2> QED
    BY <1>0, <2>1, <2>2 DEF Streams, SameFields
<1>5. /\ src' \in [on : BOOLEAN, rep : Reps, at : [index : Int, repeat : Int],
                   part : Parts, from : Int, pos : Int, end : Int]
      /\ src'.on /\ src'.rep = src.rep /\ src'.at = src.at /\ src'.part = src.part
      /\ src'.from = src.from /\ src'.pos = src.pos /\ src'.end = src.pos
  <2>1. src' = [src EXCEPT !.end = src.pos]
    BY <1>1 DEF Fail
  <2> QED
    BY <1>1, <2>1 DEF DashInv, TypeOK
<1>6. Part' = Part /\ Sound' /\ Loading' /\ ~Receiving'
  BY <1>1, <1>4, <1>5 DEF Part, Sound, Loading, Receiving
<1>7. TypeOK'
  <2>1. faults' \in 0 .. MaxFaults
    BY <1>1, SizesAssumption DEF DashInv, TypeOK
  <2>2. status' \in BOOLEAN
    BY <1>1 DEF Fail, DashInv, TypeOK
  <2> QED
    BY <1>0, <1>1, <1>2, <1>4, <1>5, <2>1, <2>2 DEF DashInv, TypeOK, SameFields
<1>8. Asked'
  <2>1. HasFragment(Mpd, frag.at)' = HasFragment(Mpd, frag.at)
    BY <1>0, <1>1, StartFixed
  <2> QED
    BY <1>0, <1>1, <1>3, <1>4, <1>5, <1>6, <2>1, StartFixed DEF DashInv, Asked, SameFields
<1>9. Transfer'
  <2>1. src.pos \in Int /\ src.from \in Int /\ src.end \in Int
    BY DEF DashInv, TypeOK
  <2> QED
    BY <1>1, <1>4, <1>5, <2>1, Sizes DEF DashInv, Transfer
<1>10. Adapter'
  BY <1>1, <1>3, <1>4, <1>6 DEF DashInv, Adapter, Fresh, SameFields
<1>11. Indexed'
  <2>1. Remembered(d)'
    BY <1>4, SameRemembered DEF DashInv, Indexed
  <2>2. Part = "index" => d.index = 0
    BY <1>3 DEF DashInv, Indexed
  <2> QED
    BY <1>0, <1>1, <1>3, <1>4, <1>6, <2>1, <2>2, StartFixed DEF DashInv, Indexed, SameFields
<1>12. Headed'
  BY <1>0, <1>1, <1>2, <1>3, <1>4, <1>6 DEF DashInv, Headed, SameFields
<1>13. Shown' /\ HeaderFirst' /\ OffsetsTrue'
  BY <1>0, <1>1, NothingShown DEF DashInv
<1> QED
  BY <1>7, <1>8, <1>9, <1>10, <1>11, <1>12, <1>13 DEF DashInv

(* S's steps.                                                               *)
LEMMA InTransfer ==
  ASSUME DashInv, src.on, d.lastRet = "OK"
  PROVE  /\ dpc = "wait" /\ Sound /\ Loading /\ todo \in Plans
         /\ src.rep = d.rep /\ src.rep = frag.rep /\ src.rep \in Reps /\ src.at = frag.at
         /\ src.part = Part /\ Part \in Parts /\ src.at \in Positions
         /\ OnDemand \/ HasFragment(Mpd, src.at)
         /\ d.needHeader <=> Part # "media"
         /\ src.from \in Nat /\ src.pos \in Int /\ src.end \in Int
         /\ src.from <= src.pos /\ src.pos <= src.end
         /\ Part = "index" => start.layout = "indexed"
         /\ Part = "header" => start.layout # "inline"
<1>1. /\ dpc = "wait" /\ Sound /\ Loading
  BY DEF DashInv, Asked, Sound, Loading
<1>2. /\ todo \in Plans /\ src.rep = frag.rep /\ frag.rep = d.rep /\ src.at = frag.at
      /\ src.part = Part /\ (OnDemand \/ HasFragment(Mpd, frag.at))
      /\ (d.needHeader <=> Part # "media") /\ 0 <= frag.from
  BY <1>1 DEF DashInv, Asked
<1>3. /\ src.rep \in Reps /\ src.at \in Positions /\ src.from \in Int
      /\ src.pos \in Int /\ src.end \in Int
  BY DEF DashInv, TypeOK, Positions
<1>4. /\ Part \in Parts
      /\ Part = "index" => start.layout = "indexed"
      /\ Part = "header" => start.layout # "inline"
  <2>1. start.layout \in {"inline", "indexed", "list", "template"}
    BY StartType DEF DashInv, TypeOK
  <2> QED
    BY <1>2, <2>1, PlanFacts DEF Part
<1>5. src.from >= 0 /\ src.from <= src.pos /\ src.pos <= src.end
  BY <1>2, <1>4, Sizes DEF DashInv, Transfer, Parts
<1> QED
  BY <1>1, <1>2, <1>3, <1>4, <1>5

(* The beginning of a part empties the adapter.                             *)
LEMMA BegunFacts ==
  ASSUME d \in Streams, src.part \in Parts, src.pos \in Nat, starting \in BOOLEAN
  PROVE  LET x == Begun(d)
         IN /\ starting \/ d.section # SectionOf(src.part) =>
                 /\ x \in Streams /\ x.queue = <<>> /\ x.off = src.pos
                 /\ x.section = SectionOf(src.part)
                 /\ x.rep = d.rep /\ x.at = d.at /\ x.index = d.index /\ x.entry = d.entry
                 /\ x.sidxPos = d.sidxPos /\ x.pending = d.pending /\ x.mdat = d.mdat
                 /\ x.base = d.base /\ x.needHeader = d.needHeader
                 /\ x.lastRet = d.lastRet /\ x.allow = d.allow
            /\ ~starting /\ d.section = SectionOf(src.part) /\ d.off # Unknown => x = d
<1> DEFINE s == SectionOf(src.part)
           x == Begun(d)
           y == IF starting THEN [d EXCEPT !.section = 0, !.off = Unknown] ELSE d
           z == IF y.section # s THEN [y EXCEPT !.section = s, !.queue = <<>>, !.off = Unknown]
                ELSE y
<1>1. s \in 1 .. 3 /\ s \in 0 .. 3
  BY SectionFacts
<1>2. x = IF z.off = Unknown THEN [z EXCEPT !.off = src.pos] ELSE z
  BY DEF Begun
<1>3. /\ y \in Streams /\ y.section = (IF starting THEN 0 ELSE d.section)
      /\ y.off = (IF starting THEN Unknown ELSE d.off) /\ y.queue = d.queue
      /\ y.rep = d.rep /\ y.at = d.at /\ y.index = d.index /\ y.entry = d.entry
      /\ y.sidxPos = d.sidxPos /\ y.pending = d.pending /\ y.mdat = d.mdat
      /\ y.base = d.base /\ y.needHeader = d.needHeader
      /\ y.lastRet = d.lastRet /\ y.allow = d.allow /\ (~starting => y = d)
  <2>1. CASE starting
    <3>1. y = [d EXCEPT !.section = 0, !.off = Unknown]
      BY <2>1
    <3>2. y \in Streams
      BY <3>1, ValueTypes, SetSection, SetOff
    <3> QED
      BY <2>1, <3>1, <3>2 DEF Streams
  <2>2. CASE ~starting
    BY <2>2
  <2> QED
    BY <2>1, <2>2
<1> HIDE DEF x, y, s
<1>4. ASSUME y.section # s
      PROVE  /\ x \in Streams /\ x.queue = <<>> /\ x.off = src.pos /\ x.section = s
             /\ x.rep = y.rep /\ x.at = y.at /\ x.index = y.index /\ x.entry = y.entry
             /\ x.sidxPos = y.sidxPos /\ x.pending = y.pending /\ x.mdat = y.mdat
             /\ x.base = y.base /\ x.needHeader = y.needHeader
             /\ x.lastRet = y.lastRet /\ x.allow = y.allow
  <2>1. z = [y EXCEPT !.section = s, !.queue = <<>>, !.off = Unknown]
    BY <1>4
  <2> HIDE DEF z
  <2>2. z \in Streams
    BY <1>1, <1>3, <2>1, ValueTypes, SetSection, SetQueue, SetOff
  <2>3. /\ z.queue = <<>> /\ z.off = Unknown /\ z.section = s
        /\ z.rep = y.rep /\ z.at = y.at /\ z.index = y.index /\ z.entry = y.entry
        /\ z.sidxPos = y.sidxPos /\ z.pending = y.pending /\ z.mdat = y.mdat
        /\ z.base = y.base /\ z.needHeader = y.needHeader
        /\ z.lastRet = y.lastRet /\ z.allow = y.allow
    BY <1>3, <2>1 DEF Streams
  <2>4. x = [z EXCEPT !.off = src.pos]
    BY <1>2, <2>3
  <2>5. x \in Streams
    BY <2>2, <2>4, SetOff
  <2>6. /\ x.queue = z.queue /\ x.off = src.pos /\ x.section = z.section
        /\ x.rep = z.rep /\ x.at = z.at /\ x.index = z.index /\ x.entry = z.entry
        /\ x.sidxPos = z.sidxPos /\ x.pending = z.pending /\ x.mdat = z.mdat
        /\ x.base = z.base /\ x.needHeader = z.needHeader
        /\ x.lastRet = z.lastRet /\ x.allow = z.allow
    BY <2>2, <2>4 DEF Streams
  <2> QED
    BY <2>3, <2>5, <2>6
<1>5. ASSUME ~starting, d.section = s, d.off # Unknown PROVE x = d
  BY <1>2, <1>3, <1>5
<1>6. starting \/ d.section # s => y.section # s
  BY <1>1, <1>3
<1> QED
  BY <1>3, <1>4, <1>5, <1>6 DEF x, s

(* The stream after a buffer has been put into the adapter.                 *)
LEMMA ReceiveFacts ==
  ASSUME DashInv, NEW n \in 1 .. MaxBuffer, Receive(n)
  PROVE  /\ src.on /\ d.lastRet = "OK" /\ n \in Nat /\ n >= 1
         /\ d' \in Streams /\ Len(d'.queue) \in Nat /\ Len(d'.queue) >= n
         /\ src.pos + n = d'.off + Len(d'.queue) /\ d'.off >= src.from
         /\ \A i \in DOMAIN d'.queue : d'.queue[i] = d'.off + i - 1
         /\ d'.section = SectionOf(Part)
         /\ d'.rep = d.rep /\ d'.index = d.index /\ d'.entry = d.entry
         /\ d'.sidxPos = d.sidxPos /\ d'.pending = d.pending /\ d'.mdat = d.mdat
         /\ d'.base = d.base /\ d'.needHeader = d.needHeader /\ d'.lastRet = d.lastRet
         /\ d'.allow = d.allow
         /\ (Waiting /\ d'.off = src.from) \/ (Receiving /\ d'.off = d.off)
<1>0. /\ start \in Starts /\ d \in Streams /\ start' = start /\ n \in Nat /\ n >= 1
  <2>1. start \in Starts /\ d \in Streams /\ start' = start
    BY DEF DashInv, TypeOK, Receive
  <2>2. n \in Nat /\ n >= 1
    BY SizesAssumption
  <2> QED
    BY <2>1, <2>2
<1>1. /\ src.on /\ spc = "idle" /\ src.pos + n <= src.end
  BY DEF Receive
<1>3. d.lastRet = "OK"
  <2>1. src.pos \in Int /\ src.end \in Int
    BY DEF DashInv, TypeOK
  <2> QED
    BY <1>0, <1>1, <2>1 DEF DashInv, Transfer
<1>4. /\ dpc = "wait" /\ Sound /\ Loading /\ todo \in Plans
      /\ src.rep = d.rep /\ src.rep = frag.rep /\ src.part = Part /\ Part \in Parts
      /\ d.needHeader <=> Part # "media"
      /\ src.from \in Nat /\ src.pos \in Int /\ src.end \in Int
      /\ src.from <= src.pos /\ src.pos <= src.end
      /\ Part = "index" => start.layout = "indexed"
      /\ Part = "header" => start.layout # "inline"
  BY <1>1, <1>3, InTransfer
<1> DEFINE x == Begun(d)
           new == [i \in 1 .. n |-> src.pos + i - 1]
<1>6. /\ x \in Streams /\ x.section = SectionOf(Part)
      /\ src.pos = x.off + Len(x.queue) /\ x.off >= src.from
      /\ \A i \in 1 .. Len(x.queue) : x.queue[i] = x.off + i - 1
      /\ x.rep = d.rep /\ x.at = d.at /\ x.index = d.index /\ x.entry = d.entry
      /\ x.sidxPos = d.sidxPos /\ x.pending = d.pending /\ x.mdat = d.mdat
      /\ x.base = d.base /\ x.needHeader = d.needHeader
      /\ x.lastRet = d.lastRet /\ x.allow = d.allow
      /\ (Waiting /\ x.off = src.from) \/ (Receiving /\ x.off = d.off)
  <2>0. starting \in BOOLEAN /\ src.pos \in Nat
    BY <1>4 DEF DashInv, TypeOK
  <2>1. CASE Waiting
    <3>1. Untouched
      BY <2>1 DEF Untouched
    <3>2. starting \/ d.section # SectionOf(src.part)
      BY <1>4, <3>1 DEF DashInv, Adapter, Fresh
    <3>3. src.pos = src.from
      BY <2>1 DEF Waiting
    <3>4. /\ x \in Streams /\ x.queue = <<>> /\ x.off = src.pos
          /\ x.section = SectionOf(src.part)
          /\ x.rep = d.rep /\ x.at = d.at /\ x.index = d.index /\ x.entry = d.entry
          /\ x.sidxPos = d.sidxPos /\ x.pending = d.pending /\ x.mdat = d.mdat
          /\ x.base = d.base /\ x.needHeader = d.needHeader
          /\ x.lastRet = d.lastRet /\ x.allow = d.allow
      BY <1>0, <1>4, <2>0, <3>2, BegunFacts
    <3> HIDE DEF x
    <3>5. Len(x.queue) = 0
      BY <3>4
    <3>6. /\ src.pos = x.off + Len(x.queue) /\ x.off >= src.from
          /\ \A i \in 1 .. Len(x.queue) : x.queue[i] = x.off + i - 1
      BY <1>4, <3>3, <3>4, <3>5
    <3> QED
      BY <1>4, <2>1, <3>3, <3>4, <3>6
  <2>2. CASE ~Waiting
    <3>1. Receiving
      BY <1>1, <2>2 DEF Waiting, Receiving
    <3>2. /\ ~starting /\ d.section = SectionOf(Part)
          /\ src.pos = d.off + Len(d.queue) /\ d.off >= src.from
          /\ \A i \in DOMAIN d.queue : d.queue[i] = d.off + i - 1
      BY <3>1 DEF DashInv, Adapter
    <3>3. d.off # Unknown
      BY <1>0, <1>4, <3>2, FieldTypes DEF Unknown
    <3>4. x = d
      BY <1>0, <1>4, <2>0, <3>2, <3>3, BegunFacts
    <3>5. DOMAIN d.queue = 1 .. Len(d.queue)
      BY <1>0, FieldTypes
    <3> HIDE DEF x
    <3> QED
      BY <1>0, <3>1, <3>2, <3>4, <3>5
  <2> QED
    BY <2>1, <2>2
<1>7. d' = [x EXCEPT !.queue = x.queue \o new]
  <2>1. d' = [x EXCEPT !.queue = @ \o new]
    BY DEF Receive
  <2> HIDE DEF x, new
  <2> QED
    BY <1>6, <2>1 DEF Streams
<1>8. /\ new \in Seq(Int) /\ Len(new) = n /\ \A i \in 1 .. n : new[i] = src.pos + i - 1
  <2>1. \A i \in 1 .. n : src.pos + i - 1 \in Int
    BY <1>0, <1>4
  <2> QED
    BY <1>0, <2>1
<1> HIDE DEF x, new
<1>9. /\ x.queue \in Seq(Int) /\ x.off \in Int /\ Len(x.queue) \in Nat
  BY <1>6, FieldTypes
<1> DEFINE q == x.queue \o new
<1>10. /\ q \in Seq(Int) /\ Len(q) = Len(x.queue) + n
       /\ \A i \in 1 .. Len(x.queue) + n :
            q[i] = IF i <= Len(x.queue) THEN x.queue[i] ELSE new[i - Len(x.queue)]
  BY <1>8, <1>9, ConcatProperties
<1> HIDE DEF q
<1>11. \A i \in 1 .. Len(q) : q[i] = x.off + i - 1
  <2> SUFFICES ASSUME NEW i \in 1 .. Len(q) PROVE q[i] = x.off + i - 1
    OBVIOUS
  <2>1. i \in 1 .. Len(x.queue) + n /\ i \in Int
    BY <1>0, <1>9, <1>10
  <2>2. CASE i <= Len(x.queue)
    BY <1>6, <1>9, <1>10, <2>1, <2>2
  <2>3. CASE i > Len(x.queue)
    <3>1. i - Len(x.queue) \in 1 .. n /\ q[i] = new[i - Len(x.queue)]
      BY <1>0, <1>9, <1>10, <2>1, <2>3
    <3>2. q[i] = src.pos + (i - Len(x.queue)) - 1
      BY <1>8, <3>1
    <3> QED
      BY <1>4, <1>6, <1>9, <2>1, <3>2
  <2> QED
    BY <1>9, <2>1, <2>2, <2>3
<1>12. d' \in Streams
  BY <1>6, <1>7, <1>10, SetQueue DEF q
<1>13. /\ d'.queue = q /\ d'.off = x.off /\ d'.section = SectionOf(Part)
       /\ d'.rep = d.rep /\ d'.index = d.index /\ d'.entry = d.entry
       /\ d'.sidxPos = d.sidxPos /\ d'.pending = d.pending /\ d'.mdat = d.mdat
       /\ d'.base = d.base /\ d'.needHeader = d.needHeader /\ d'.lastRet = d.lastRet
       /\ d'.allow = d.allow
  BY <1>6, <1>7 DEF q, Streams
<1>14. /\ Len(d'.queue) = Len(x.queue) + n /\ Len(d'.queue) \in Nat /\ Len(d'.queue) >= n
       /\ DOMAIN d'.queue = 1 .. Len(d'.queue)
  BY <1>0, <1>9, <1>10, <1>13
<1>15. src.pos + n = d'.off + Len(d'.queue) /\ d'.off >= src.from
  BY <1>0, <1>4, <1>6, <1>9, <1>13, <1>14
<1>16. \A i \in DOMAIN d'.queue : d'.queue[i] = d'.off + i - 1
  BY <1>11, <1>13, <1>14
<1> QED
  BY <1>0, <1>1, <1>3, <1>6, <1>12, <1>13, <1>14, <1>15, <1>16

LEMMA InvReceive == ASSUME DashInv, NEW n \in 1 .. MaxBuffer, Receive(n) PROVE DashInv'
<1>0. /\ start \in Starts /\ d \in Streams /\ start' = start /\ n \in Nat /\ n >= 1
  <2>1. start \in Starts /\ d \in Streams /\ start' = start
    BY DEF DashInv, TypeOK, Receive
  <2>2. n \in Nat /\ n >= 1
    BY SizesAssumption
  <2> QED
    BY <2>1, <2>2
<1>1. /\ src.on /\ spc = "idle" /\ src.pos + n <= src.end /\ starting' = FALSE
      /\ spc' = IF d.mdat THEN "mdat" ELSE "parse"
      /\ UNCHANGED <<todo, frag, retried, dpc, finished, status, switches, faults, posted>>
      /\ UNCHANGED shownVars
  BY DEF Receive, requestVars, countVars
<1>2. /\ push' = push /\ moov' = moov /\ heard' = heard /\ at' = at
  BY <1>1 DEF shownVars
<1>3. d.lastRet = "OK"
  <2>1. src.pos \in Int /\ src.end \in Int
    BY DEF DashInv, TypeOK
  <2> QED
    BY <1>0, <1>1, <2>1 DEF DashInv, Transfer
<1>4. /\ dpc = "wait" /\ Sound /\ Loading /\ todo \in Plans
      /\ src.rep = d.rep /\ src.rep = frag.rep /\ src.part = Part /\ Part \in Parts
      /\ d.needHeader <=> Part # "media"
      /\ src.from \in Nat /\ src.pos \in Int /\ src.end \in Int
      /\ src.from <= src.pos /\ src.pos <= src.end
      /\ Part = "index" => start.layout = "indexed"
      /\ Part = "header" => start.layout # "inline"
  BY <1>1, <1>3, InTransfer
<1>5. /\ src' \in [on : BOOLEAN, rep : Reps, at : [index : Int, repeat : Int],
                   part : Parts, from : Int, pos : Int, end : Int]
      /\ src'.on /\ src'.rep = src.rep /\ src'.at = src.at /\ src'.part = src.part
      /\ src'.from = src.from /\ src'.pos = src.pos + n /\ src'.end = src.end
  <2>1. src' = [src EXCEPT !.pos = src.pos + n]
    BY DEF Receive, DashInv, TypeOK
  <2>2. src \in [on : BOOLEAN, rep : Reps, at : [index : Int, repeat : Int],
                part : Parts, from : Int, pos : Int, end : Int]
    BY DEF DashInv, TypeOK
  <2>3. src.pos + n \in Int
    BY <1>0, <1>4
  <2> QED
    BY <1>1, <2>1, <2>2, <2>3
<1>6. /\ d' \in Streams /\ d'.section = SectionOf(Part)
      /\ src.pos + n = d'.off + Len(d'.queue) /\ d'.off >= src.from
      /\ \A i \in DOMAIN d'.queue : d'.queue[i] = d'.off + i - 1
      /\ d'.rep = d.rep /\ d'.index = d.index /\ d'.entry = d.entry
      /\ d'.sidxPos = d.sidxPos /\ d'.pending = d.pending /\ d'.mdat = d.mdat
      /\ d'.base = d.base /\ d'.needHeader = d.needHeader /\ d'.lastRet = d.lastRet
      /\ (Waiting /\ d'.off = src.from) \/ (Receiving /\ d'.off = d.off)
  BY ReceiveFacts
<1>7. /\ Part' = Part /\ Sound' /\ Loading' /\ Receiving' /\ ~Waiting' /\ ~Untouched'
  BY <1>0, <1>1, <1>3, <1>4, <1>5, <1>6
  DEF Part, Sound, Loading, Receiving, Waiting, Untouched
<1>8. TypeOK'
  BY <1>0, <1>1, <1>2, <1>5, <1>6 DEF DashInv, TypeOK
<1>9. Asked'
  <2>1. HasFragment(Mpd, frag.at)' = HasFragment(Mpd, frag.at)
    BY <1>0, <1>1, StartFixed
  <2> QED
    BY <1>0, <1>1, <1>3, <1>4, <1>5, <1>6, <1>7, <2>1, StartFixed DEF DashInv, Asked
<1>10. Transfer'
  BY <1>0, <1>1, <1>3, <1>4, <1>5, <1>6 DEF DashInv, Transfer
<1>11. Adapter'
  <2>1. \A i \in 2 .. Len(todo) : todo[i] \in Parts /\ todo[i] # Part
    BY <1>0, <1>4, StartType, PlanFacts DEF Part
  <2>2. \A i \in 2 .. Len(todo') : d'.section # SectionOf(todo'[i])
    BY <1>1, <1>4, <1>6, <2>1, SectionFacts
  <2>3. src'.pos = d'.off + Len(d'.queue) /\ d'.off >= src'.from
    BY <1>5, <1>6
  <2>4. spc' = "mdat" => d'.mdat
    BY <1>1, <1>6
  <2> QED
    BY <1>1, <1>6, <1>7, <2>2, <2>3, <2>4 DEF Adapter
<1>12. Indexed'
  <2>1. Remembered(d)'
    BY <1>6 DEF DashInv, Indexed, Remembered
  <2>2. Part # "media" => ~d.mdat
    BY <1>4 DEF DashInv, Indexed
  <2>3. Part = "header" => d.index = 0
    BY <1>4 DEF DashInv, Indexed
  <2> QED
    BY <1>0, <1>1, <1>3, <1>4, <1>6, <1>7, <2>1, <2>2, <2>3, StartFixed
    DEF DashInv, Indexed
<1>13. Headed'
  <2>1. spc' # "idle"
    BY <1>1
  <2>2. moov = src.rep \/ ((OnDemand \/ src.part = "header") /\ d'.off < MoovSize)
    <3>1. CASE Receiving /\ d'.off = d.off
      BY <1>6, <3>1 DEF DashInv, Headed
    <3>2. CASE Waiting /\ d'.off = src.from
      <4>1. CASE Part = "header"
        BY <1>1, <1>4, <1>6, <3>2, <4>1, Sizes DEF DashInv, Transfer
      <4>2. CASE Part = "index"
        BY <1>4, <4>2 DEF DashInv, Headed
      <4>3. CASE Part = "media" /\ start.layout # "inline"
        BY <1>4, <4>3 DEF DashInv, Headed
      <4>4. CASE Part = "media" /\ start.layout = "inline"
        <5>1. moov = d.rep \/ src.from = 0
          BY <1>1, <1>4, <4>4 DEF DashInv, Headed, Transfer
        <5> QED
          BY <1>4, <1>6, <3>2, <4>4, <5>1, Sizes DEF OnDemand
      <4> QED
        BY <1>4, <4>1, <4>2, <4>3, <4>4 DEF Parts
    <3> QED
      BY <1>6, <3>1, <3>2
  <2>3. OnDemand' = OnDemand
    BY <1>0, StartFixed
  <2> QED
    BY <1>0, <1>1, <1>2, <1>3, <1>4, <1>5, <1>6, <1>7, <2>1, <2>2, <2>3 DEF DashInv, Headed
<1>14. Shown' /\ HeaderFirst' /\ OffsetsTrue'
  BY <1>0, <1>1, NothingShown DEF DashInv
<1> QED
  BY <1>8, <1>9, <1>10, <1>11, <1>12, <1>13, <1>14 DEF DashInv

(* What S has at hand while it handles data.                                *)
LEMMA AtHand ==
  ASSUME DashInv, spc # "idle"
  PROVE  /\ Receiving /\ src.on /\ d.lastRet = "OK" /\ Reached
         /\ src.pos = d.off + Len(d.queue) /\ d.off >= src.from /\ d.off \in Nat
         /\ Len(d.queue) \in Nat /\ ~starting /\ d.section = SectionOf(Part)
         /\ \A i \in 1 .. Len(d.queue) : d.queue[i] = d.off + i - 1
         /\ Part = "header" => \A i \in 1 .. Len(d.queue) : d.queue[i] < MoovSize
         /\ Part = "index" => \A i \in 1 .. Len(d.queue) : d.queue[i] < First
<1>1. /\ Receiving /\ src.on /\ src.pos # src.from
      /\ src.pos = d.off + Len(d.queue) /\ d.off >= src.from
      /\ ~starting /\ d.section = SectionOf(Part)
  BY DEF DashInv, Adapter, Receiving
<1>2. Reached
  BY <1>1 DEF DashInv, Headed, Reached
<1>3. d.lastRet = "OK"
  BY <1>1 DEF DashInv, Transfer
<1>4. /\ src.from \in Nat /\ src.pos <= src.end /\ src.end \in Int /\ src.part = Part
  BY <1>1, <1>3, InTransfer
<1>5. d \in Streams
  BY DEF DashInv, TypeOK
<1>6. d.queue \in Seq(Int) /\ d.off \in Nat /\ Len(d.queue) \in Nat
  BY <1>1, <1>4, <1>5, FieldTypes
<1>7. \A i \in 1 .. Len(d.queue) : d.queue[i] = d.off + i - 1
  BY <1>6 DEF DashInv, Adapter
<1>8. ASSUME NEW i \in 1 .. Len(d.queue) PROVE d.queue[i] < src.end
  BY <1>1, <1>4, <1>6, <1>7
<1>9. Part = "header" => src.end <= MoovSize
  BY <1>1, <1>4 DEF DashInv, Transfer
<1>10. Part = "index" => src.end <= First
  BY <1>1, <1>4 DEF DashInv, Transfer
<1>11. \A i \in 1 .. Len(d.queue) : d.queue[i] \in Int
  BY <1>6
<1> QED
  BY <1>1, <1>2, <1>3, <1>4, <1>6, <1>7, <1>8, <1>9, <1>10, <1>11, Sizes

(* A time in the period for each entry.                                     *)
LEMMA EntryInPeriod ==
  ASSUME NEW r \in Reps, NEW e \in 0 .. Entries(r) - 1
  PROVE  Pts(r, e) \in 0 .. PeriodLength - 1 /\ Pts(r, e) # Unknown
<1>1. /\ Entries(r) \in Nat \ {0} /\ Pts(r, e) \in Nat /\ Pts(r, e) < Pts(r, e + 1)
      /\ Pts(r, Entries(r)) = PeriodLength /\ Pts(r, e + 1) \in Nat
  BY EntryFacts
<1>2. Pts(r, e + 1) <= Pts(r, Entries(r))
  <2>1. e + 1 \in 0 .. Entries(r) /\ Entries(r) \in 0 .. Entries(r) /\ e + 1 <= Entries(r)
    BY <1>1
  <2> QED
    BY <2>1, EntriesGrow
<1> QED
  BY <1>1, <1>2, SizesAssumption DEF Unknown

(* The sidx ends where the media begins.                                    *)
LEMMA ReadFacts ==
  ASSUME DashInv, spc # "idle", NEW p, p = Parsed(d, src.part), NEW i \in 1 .. p.n,
         p.n \in 0 .. Len(d.queue), Reads(p, d, src.part, i)
  PROVE  /\ Part # "header" /\ OnDemand /\ d.off + i = First
         /\ p.x.index = d.rep /\ p.x.entry \in 0 .. Entries(d.rep) - 1
         /\ p.x.base = First /\ p.x.pending = Unknown
         /\ p.x.sidxPos = Pts(d.rep, p.x.entry)
         /\ p.x.sidxPos \in 0 .. PeriodLength - 1 /\ p.x.sidxPos # Unknown
<1>1. /\ src.on /\ d.lastRet = "OK" /\ d.off \in Nat /\ Len(d.queue) \in Nat
      /\ \A j \in 1 .. Len(d.queue) : d.queue[j] = d.off + j - 1
      /\ Part = "header" => \A j \in 1 .. Len(d.queue) : d.queue[j] < MoovSize
  BY AtHand
<1>2. src.rep = d.rep /\ src.part = Part /\ src.rep \in Reps /\ start \in Starts /\ d \in Streams
  BY <1>1, InTransfer DEF DashInv, TypeOK
<1>3. i \in 1 .. Len(d.queue) /\ d.queue[i] = d.off + i - 1
  BY <1>1
<1>4. /\ OnDemand /\ BoxOf(Part, d.queue[i]) = "sidx" /\ LastOfBox(Part, d.queue[i])
      /\ SameIndex(p.x, ReadSidx(d, d.rep, d.off + i))
  BY <1>2 DEF Reads
<1>5. ~(d.queue[i] < MoovSize) /\ d.queue[i] < First
  <2>1. ~(d.queue[i] < MoovSize)
    BY <1>4 DEF BoxOf
  <2>2. d.queue[i] < First
    <3>1. CASE ~(OnDemand /\ d.queue[i] < First)
      <4>1. BoxOf(Part, d.queue[i]) \in {"moof", "mdat"}
        BY <1>4, <2>1, <3>1 DEF BoxOf
      <4> QED
        BY <1>4, <4>1
    <3> QED
      BY <3>1
  <2> QED
    BY <2>1, <2>2
<1>6. d.off + i = First
  <2>1. d.queue[i] + 1 = First
    BY <1>4, <1>5 DEF LastOfBox
  <2> QED
    BY <1>1, <1>3, <2>1
<1>7. /\ p.x.index = d.rep /\ p.x.entry \in 0 .. Entries(d.rep) - 1
      /\ p.x.base = d.off + i /\ p.x.pending = Unknown /\ p.x.sidxPos = Pts(d.rep, p.x.entry)
  <2> DEFINE o == d.off + i
             y == ReadSidx(d, d.rep, o)
  <2>1. o \in Int
    BY <1>1, <1>3
  <2>2. Remembered(d)
    BY DEF DashInv, Indexed
  <2> HIDE DEF o
  <2>3. /\ y.index = d.rep /\ y.entry \in 0 .. Entries(d.rep) - 1 /\ y.base = o
        /\ y.pending = Unknown /\ y.sidxPos = Pts(d.rep, y.entry)
    <3>1. d.rep \in Reps
      BY <1>2
    <3>2. LET z == ReadSidx(d, d.rep, o)
          IN /\ z.index = d.rep /\ z.entry \in 0 .. Entries(d.rep) - 1 /\ z.base = o
             /\ z.pending = Unknown /\ z.sidxPos = Pts(d.rep, z.entry)
      BY <1>2, <2>1, <2>2, <3>1, ReadSidxFacts, Zenon
    <3> QED
      BY <3>2
  <2> HIDE DEF y
  <2>4. SameIndex(p.x, y)
    BY <1>4 DEF y, o
  <2> QED
    BY <2>3, <2>4 DEF SameIndex, o
<1>8. p.x.sidxPos \in 0 .. PeriodLength - 1 /\ p.x.sidxPos # Unknown
  BY <1>2, <1>7, EntryInPeriod
<1>9. Part # "header"
  BY <1>1, <1>3, <1>5
<1> QED
  BY <1>4, <1>6, <1>7, <1>8, <1>9

(* The stream after S has looked for boxes.                                 *)
LEMMA ParseFacts ==
  ASSUME DashInv, Parse
  PROVE  \E p \in {Parsed(d, src.part)} :
           LET ends == p.jump /\ src.part # "index"
           IN /\ d' = p.x /\ Push(d, SubSeq(d.queue, 1, p.n))
              /\ spc' = IF ~ends /\ p.x.mdat /\ p.x.queue # <<>> THEN "mdat" ELSE "idle"
              /\ finished' = (finished \/ ends)
              /\ src' = IF ends THEN [src EXCEPT !.on = FALSE] ELSE src
              /\ ends => src.part = "media"
<1>1. spc # "idle" /\ spc = "parse"
  BY DEF Parse
<1>2. PICK p \in {Parsed(d, src.part)} :
        LET ends == p.jump /\ src.part # "index"
        IN /\ Push(d, SubSeq(d.queue, 1, p.n))
           /\ \E r \in Choices :
                d' = IF ends THEN FragmentFinished(p.x, src.part, r) ELSE p.x
           /\ spc' = IF ~ends /\ p.x.mdat /\ p.x.queue # <<>> THEN "mdat" ELSE "idle"
           /\ finished' = (finished \/ ends)
           /\ IF ends THEN StopSource ELSE UNCHANGED src
  BY DEF Parse
<1>3. p = Parsed(d, src.part)
  OBVIOUS
<1>4. /\ src.on /\ d.lastRet = "OK"
  BY <1>1, AtHand
<1>5. src.rep \in Reps /\ src.part = Part /\ Part \in Parts /\ start \in Starts /\ d \in Streams
      /\ Remembered(d)
  BY <1>4, InTransfer DEF DashInv, TypeOK, Indexed
<1>6. /\ p.n \in 0 .. Len(d.queue) /\ p.jump \in BOOLEAN
      /\ p.x.mdat = (/\ ~p.jump /\ p.n < Len(d.queue)
                     /\ BoxOf(src.part, d.queue[p.n + 1]) = "mdat")
      /\ ReadsNone(p, d, src.part) \/ \E i \in 1 .. p.n : Reads(p, d, src.part, i)
  BY <1>3, <1>5, ParsedFacts
<1> DEFINE ends == p.jump /\ src.part # "index"
<1>7. ASSUME ends, NEW r PROVE FragmentFinished(p.x, src.part, r) = p.x /\ src.part = "media"
  <2>1. PICK i \in 1 .. p.n : Reads(p, d, src.part, i)
    BY <1>6, <1>7 DEF ReadsNone
  <2>2. /\ Part # "header" /\ OnDemand /\ p.x.index = d.rep /\ p.x.entry < Entries(d.rep)
    <3>1. /\ Part # "header" /\ OnDemand /\ p.x.index = d.rep
          /\ p.x.entry \in 0 .. Entries(d.rep) - 1
      BY <1>1, <1>3, <1>6, <2>1, ReadFacts
    <3>2. Entries(d.rep) \in Int
      BY <1>5, FieldTypes, EntryFacts
    <3> QED
      BY <3>1, <3>2
  <2>3. ~p.x.mdat /\ p.x.index # 0
    BY <1>5, <1>6, <1>7, <2>2, FieldTypes, RepsFacts
  <2>4. StaysInPlace(p.x, src.part)
    BY <2>2, <2>3 DEF StaysInPlace
  <2> QED
    BY <1>5, <1>7, <2>2, <2>4 DEF FragmentFinished, Parts
<1>8. d' = p.x
  BY <1>2, <1>7
<1> QED
  BY <1>2, <1>7, <1>8 DEF StopSource

LEMMA InvParse == ASSUME DashInv, Parse PROVE DashInv'
<1>0. /\ start \in Starts /\ d \in Streams /\ start' = start /\ spc = "parse" /\ spc # "idle"
      /\ UNCHANGED <<todo, frag, retried, dpc, starting, status, faults, posted>>
      /\ CountSwitch
  BY DEF DashInv, TypeOK, Parse, requestVars
<1>1. /\ Receiving /\ src.on /\ d.lastRet = "OK" /\ Reached
      /\ src.pos = d.off + Len(d.queue) /\ d.off >= src.from /\ d.off \in Nat
      /\ Len(d.queue) \in Nat /\ ~starting /\ d.section = SectionOf(Part)
      /\ \A i \in 1 .. Len(d.queue) : d.queue[i] = d.off + i - 1
      /\ Part = "header" => \A i \in 1 .. Len(d.queue) : d.queue[i] < MoovSize
      /\ Part = "index" => \A i \in 1 .. Len(d.queue) : d.queue[i] < First
  BY <1>0, AtHand
<1>2. /\ dpc = "wait" /\ Sound /\ Loading /\ todo \in Plans
      /\ src.rep = d.rep /\ src.rep = frag.rep /\ src.rep \in Reps /\ src.at = frag.at
      /\ src.part = Part /\ Part \in Parts /\ src.at \in Positions
      /\ OnDemand \/ HasFragment(Mpd, src.at)
      /\ d.needHeader <=> Part # "media"
      /\ src.from \in Nat /\ src.pos \in Int /\ src.end \in Int
      /\ src.from <= src.pos /\ src.pos <= src.end
      /\ Part = "index" => start.layout = "indexed"
      /\ Part = "header" => start.layout # "inline"
  BY <1>1, InTransfer
<1>3. PICK p \in {Parsed(d, src.part)} :
        LET ends == p.jump /\ src.part # "index"
        IN /\ d' = p.x /\ Push(d, SubSeq(d.queue, 1, p.n))
           /\ spc' = IF ~ends /\ p.x.mdat /\ p.x.queue # <<>> THEN "mdat" ELSE "idle"
           /\ finished' = (finished \/ ends)
           /\ src' = IF ends THEN [src EXCEPT !.on = FALSE] ELSE src
           /\ ends => src.part = "media"
  BY ParseFacts
<1> DEFINE n == p.n
           ends == p.jump /\ src.part # "index"
<1>4. p = Parsed(d, src.part) /\ Remembered(d)
  BY <1>3 DEF DashInv, Indexed
<1>5. /\ n \in 0 .. Len(d.queue) /\ p.jump \in BOOLEAN
      /\ ~p.jump => \A j \in WholeBoxes(d.queue, src.part) : j <= n
      /\ p.x \in Streams /\ SameButIndex(p.x, d)
      /\ p.x.off = d.off + n
      /\ p.x.queue = SubSeq(d.queue, n + 1, Len(d.queue))
      /\ p.x.mdat = (/\ ~p.jump /\ n < Len(d.queue)
                     /\ BoxOf(src.part, d.queue[n + 1]) = "mdat")
      /\ ReadsNone(p, d, src.part) \/ \E i \in 1 .. n : Reads(p, d, src.part, i)
  BY <1>0, <1>2, <1>4, ParsedFacts
<1>6. \/ /\ d'.index = d.index /\ d'.entry = d.entry /\ d'.base = d.base
         /\ d'.sidxPos = d.sidxPos /\ d'.pending = d.pending /\ ~p.jump
      \/ /\ Part # "header" /\ OnDemand /\ d.off < First /\ d.off + n >= First
         /\ d'.index = d.rep /\ d'.entry \in 0 .. Entries(d.rep) - 1
         /\ d'.base = First /\ d'.pending = Unknown
         /\ d'.sidxPos \in 0 .. PeriodLength - 1 /\ d'.sidxPos # Unknown
  <2>1. CASE ReadsNone(p, d, src.part)
    BY <1>3, <2>1 DEF ReadsNone, SameIndex
  <2>2. ASSUME NEW i \in 1 .. n, Reads(p, d, src.part, i)
        PROVE  /\ Part # "header" /\ OnDemand /\ d.off < First /\ d.off + n >= First
               /\ d'.index = d.rep /\ d'.entry \in 0 .. Entries(d.rep) - 1
               /\ d'.base = First /\ d'.pending = Unknown
               /\ d'.sidxPos \in 0 .. PeriodLength - 1 /\ d'.sidxPos # Unknown
    <3>1. /\ Part # "header" /\ OnDemand /\ d.off + i = First
          /\ p.x.index = d.rep /\ p.x.entry \in 0 .. Entries(d.rep) - 1
          /\ p.x.base = First /\ p.x.pending = Unknown
          /\ p.x.sidxPos \in 0 .. PeriodLength - 1 /\ p.x.sidxPos # Unknown
      BY <1>0, <1>4, <1>5, <2>2, ReadFacts
    <3>2. d.off < First /\ d.off + n >= First
      BY <1>1, <1>5, <3>1
    <3> QED
      BY <1>3, <3>1, <3>2
  <2> QED
    BY <1>5, <2>1, <2>2
<1>7. /\ d' \in Streams /\ d'.rep = d.rep /\ d'.at = d.at /\ d'.section = d.section
      /\ d'.needHeader = d.needHeader /\ d'.lastRet = "OK" /\ d'.off = d.off + n
      /\ d'.queue = SubSeq(d.queue, n + 1, Len(d.queue))
  BY <1>1, <1>3, <1>5 DEF SameButIndex
<1>8. /\ d'.mdat = (/\ ~p.jump /\ n < Len(d.queue)
                    /\ BoxOf(src.part, d.queue[n + 1]) = "mdat")
      /\ d'.mdat \in BOOLEAN
  BY <1>3, <1>5, <1>7, FieldTypes
<1>9. /\ Push(d, SubSeq(d.queue, 1, n))
      /\ spc' = IF ~ends /\ d'.mdat /\ d'.queue # <<>> THEN "mdat" ELSE "idle"
      /\ finished' = (finished \/ ends)
      /\ src' = IF ends THEN [src EXCEPT !.on = FALSE] ELSE src
      /\ ends => src.part = "media"
  BY <1>3
<1>10. ends \in BOOLEAN
  BY <1>5
<1>11. n \in Int /\ n >= 0 /\ n <= Len(d.queue)
  BY <1>1, <1>5
<1> HIDE DEF n, ends
<1>12. /\ d'.queue \in Seq(Int) /\ Len(d'.queue) = Len(d.queue) - n
       /\ \A i \in 1 .. Len(d'.queue) : d'.queue[i] = d'.off + i - 1
  <2>1. d.queue \in Seq(Int) /\ d.off \in Int
    BY <1>0, FieldTypes
  <2> DEFINE w == SubSeq(d.queue, n + 1, Len(d.queue))
  <2>2. /\ w \in Seq(Int) /\ Len(w) = Len(d.queue) - n
        /\ \A i \in 1 .. Len(d.queue) - n : w[i] = (d.off + n) + i - 1
    BY <1>1, <1>5, <2>1, PushedUnits
  <2>3. d'.queue = w
    BY <1>7
  <2> HIDE DEF w
  <2> QED
    BY <1>7, <2>2, <2>3
<1>13. /\ Shown' /\ HeaderFirst' /\ OffsetsTrue'
       /\ moov' \in {0} \cup Reps /\ (heard \in Int \X Int)' /\ at' \in Int
       /\ moov' \in {moov, src.rep}
       /\ (OnDemand \/ src.part = "header") /\ d.off < MoovSize /\ d.off + n >= MoovSize
            => moov' = src.rep
  <2>1. /\ moov \in {0} \cup Reps /\ heard \in Int \X Int /\ at \in Int /\ Shown
        /\ HeaderFirst /\ OffsetsTrue
        /\ \A i \in DOMAIN d.queue : d.queue[i] = d.off + i - 1
    BY DEF DashInv, TypeOK, Adapter
  <2>2. d.off >= 0
    BY <1>1
  <2> QED
    BY <1>0, <1>1, <1>2, <1>5, <1>9, <2>1, <2>2, PushFacts
<1>14. /\ src' \in [on : BOOLEAN, rep : Reps, at : [index : Int, repeat : Int],
                    part : Parts, from : Int, pos : Int, end : Int]
       /\ src'.rep = src.rep /\ src'.at = src.at /\ src'.part = src.part
       /\ src'.from = src.from /\ src'.pos = src.pos /\ src'.end = src.end
       /\ src'.on = (~ends)
  <2>1. src \in [on : BOOLEAN, rep : Reps, at : [index : Int, repeat : Int],
                 part : Parts, from : Int, pos : Int, end : Int]
    BY DEF DashInv, TypeOK
  <2>2. CASE ends
    BY <1>9, <2>1, <2>2
  <2>3. CASE ~ends
    BY <1>1, <1>9, <2>1, <2>3
  <2> QED
    BY <1>10, <2>2, <2>3
<1>15. /\ Part' = Part /\ Sound' /\ Loading' /\ OnDemand' = OnDemand
       /\ (Receiving' <=> ~ends) /\ ~Waiting' /\ ~Untouched'
  BY <1>0, <1>1, <1>2, <1>7, <1>14, StartFixed
  DEF Part, Sound, Loading, Receiving, Waiting, Untouched
<1>16. TypeOK'
  <2>1. switches' = switches
    BY <1>0, <1>7 DEF CountSwitch
  <2>2. d'.index # 0 => d'.entry \in 0 .. Entries(d'.index) - 1
    BY <1>6 DEF DashInv, TypeOK
  <2>3. spc' \in {"idle", "parse", "mdat"} /\ finished' \in BOOLEAN
    BY <1>9, <1>10 DEF DashInv, TypeOK
  <2> QED
    BY <1>0, <1>7, <1>13, <1>14, <2>1, <2>2, <2>3 DEF DashInv, TypeOK
<1>17. Asked'
  <2>1. HasFragment(Mpd, frag.at)' = HasFragment(Mpd, frag.at)
    BY <1>0, StartFixed
  <2> QED
    BY <1>0, <1>2, <1>7, <1>14, <1>15, <2>1, StartFixed DEF DashInv, Asked
<1>18. Transfer'
  BY <1>0, <1>1, <1>7, <1>14 DEF DashInv, Transfer
<1>19. Adapter'
  <2>1. d'.off >= src'.from /\ src'.pos = d'.off + Len(d'.queue)
    BY <1>1, <1>2, <1>7, <1>11, <1>12, <1>14
  <2>2. \A i \in DOMAIN d'.queue : d'.queue[i] = d'.off + i - 1
    <3>1. DOMAIN d'.queue = 1 .. Len(d'.queue)
      BY <1>12
    <3> QED
      BY <1>12, <3>1, Zenon
  <2>3. \A i \in 2 .. Len(todo') : starting' \/ d'.section # SectionOf(todo'[i])
    BY <1>0, <1>2, <1>7 DEF DashInv, Adapter
  <2>4. spc' = "mdat" => d'.mdat
    BY <1>9
  <2>5. spc' # "idle" => Receiving'
    BY <1>9, <1>10, <1>15
  <2>6. ~starting' /\ d'.section = SectionOf(Part')
    BY <1>0, <1>1, <1>7, <1>15
  <2> QED
    BY <1>15, <2>1, <2>2, <2>3, <2>4, <2>5, <2>6 DEF Adapter
<1>20. Indexed'
  <2>1. Remembered(d)'
    BY <1>6 DEF DashInv, Indexed, Remembered
  <2>2. Part # "media" => ~d'.mdat
    <3>1. CASE n < Len(d.queue) /\ Part # "media"
      <4>1. n + 1 \in 1 .. Len(d.queue)
        BY <1>1, <1>11, <3>1
      <4>2. CASE Part = "header"
        <5>1. d.queue[n + 1] < MoovSize
          BY <1>1, <4>1, <4>2
        <5> QED
          BY <1>2, <1>8, <4>2, <5>1 DEF BoxOf
      <4>3. CASE Part = "index"
        <5>1. d.queue[n + 1] < First /\ OnDemand
          BY <1>1, <1>2, <4>1, <4>3 DEF OnDemand
        <5>2. BoxOf(Part, d.queue[n + 1]) \in {"moov", "sidx"}
          BY <4>3, <5>1 DEF BoxOf
        <5> QED
          BY <1>2, <1>8, <5>2
      <4> QED
        BY <1>2, <3>1, <4>2, <4>3 DEF Parts
    <3>2. CASE ~(n < Len(d.queue))
      BY <1>8, <3>2
    <3> QED
      BY <3>1, <3>2
  <2>3. Part = "header" => d'.index = 0
    BY <1>2, <1>6 DEF DashInv, Indexed
  <2>4. /\ d'.index = 0 => d'.base = 0
        /\ d'.index # 0 => /\ OnDemand /\ d'.index = d'.rep /\ d'.base = First
                           /\ d'.sidxPos # Unknown /\ d'.pending = Unknown
    BY <1>0, <1>2, <1>6, <1>7, RepsFacts DEF DashInv, Indexed
  <2> QED
    BY <1>0, <1>2, <1>7, <1>15, <2>1, <2>2, <2>3, <2>4 DEF Indexed
<1>21. Headed'
  <2>1. moov = d.rep => moov' = d.rep
    BY <1>2, <1>13
  <2>2. OnDemand /\ d.off + n >= MoovSize => moov' = src.rep
    BY <1>1, <1>2, <1>13 DEF Reached
  <2>3. start.layout = "inline" /\ d'.index # 0 => moov' = d'.rep
    <3>1. CASE d'.index = d.index
      BY <1>7, <2>1, <3>1 DEF DashInv, Headed
    <3>2. CASE OnDemand /\ d.off + n >= First
      <4>1. d.off + n >= MoovSize
        BY <1>1, <1>11, <3>2, Sizes
      <4>2. moov' = src.rep
        BY <2>2, <3>2, <4>1
      <4> QED
        BY <1>2, <1>7, <4>2
    <3> QED
      BY <1>6, <3>1, <3>2
  <2>4. start.layout # "inline" /\ ~d'.needHeader => moov' = d'.rep
    BY <1>7, <2>1 DEF DashInv, Headed
  <2>5. Part = "index" => moov' = d'.rep
    BY <1>2, <1>7, <2>1 DEF DashInv, Headed
  <2>6. Part = "header" /\ finished' => moov' = d'.rep
    BY <1>1, <1>2, <1>7, <1>9, <2>1 DEF DashInv, Headed
  <2>7. start.layout = "inline" /\ moov' # d'.rep => frag.from = 0
    BY <1>2, <1>7, <2>1 DEF DashInv, Headed
  <2>8. moov' = src.rep \/ ((OnDemand \/ src.part = "header") /\ d'.off < MoovSize)
    BY <1>1, <1>2, <1>7, <1>11, <1>13, Sizes DEF Reached
  <2>9. ASSUME src.part = "header", src.pos = MoovSize PROVE d'.off = MoovSize
    <3>1. ~p.jump
      BY <1>2, <1>6, <2>9
    <3>2. Len(d.queue) \in WholeBoxes(d.queue, src.part)
      <4>1. \A i \in 1 .. Len(d.queue) : BoxOf(src.part, d.queue[i]) # "mdat"
        BY <1>1, <1>2, <2>9 DEF BoxOf
      <4>2. Len(d.queue) # 0 => LastOfBox(src.part, d.queue[Len(d.queue)])
        <5> SUFFICES ASSUME Len(d.queue) # 0 PROVE LastOfBox(src.part, d.queue[Len(d.queue)])
          OBVIOUS
        <5>1. /\ Len(d.queue) \in 1 .. Len(d.queue)
              /\ d.queue[Len(d.queue)] + 1 = MoovSize
          <6> DEFINE k == Len(d.queue)
          <6>1. k \in 1 .. k /\ k \in Nat
            BY <1>1
          <6>2. d.queue[k] = d.off + k - 1 /\ d.off + k = MoovSize
            BY <1>1, <2>9, <6>1
          <6> HIDE DEF k
          <6>3. k \in 1 .. k /\ d.queue[k] + 1 = MoovSize
            BY <1>1, <6>1, <6>2
          <6> QED
            BY <6>3 DEF k
        <5>2. d.queue[Len(d.queue)] < MoovSize
          BY <1>1, <1>2, <2>9, <5>1
        <5> QED
          BY <2>9, <5>1, <5>2 DEF LastOfBox
      <4> QED
        BY <1>1, <4>1, <4>2 DEF WholeBoxes
    <3>3. Len(d.queue) <= n
      BY <1>5, <3>1, <3>2 DEF n
    <3> QED
      BY <1>1, <1>7, <1>11, <2>9, <3>3
  <2> QED
    BY <1>0, <1>2, <1>14, <1>15, <2>3, <2>4, <2>5, <2>6, <2>7, <2>8, <2>9 DEF Headed
<1> QED
  BY <1>13, <1>16, <1>17, <1>18, <1>19, <1>20, <1>21 DEF DashInv

(* The results of an advance, for the fields of the invariant.              *)
LEMMA AdvanceOutcome ==
  ASSUME start \in Starts, OnDemand, NEW x \in Streams, x.index # 0, InIndex(x),
         x.lastRet = "OK", HasNextSubfragment(x), NEW r \in Reps, NEW y, y = Advance(x, r)
  PROVE  /\ y \in Streams /\ CanMove(x) /\ y.pending = x.pending /\ y.rep = r
         /\ \/ y.lastRet = "OK" /\ y.rep = x.rep /\ EntryMoved(y, x)
               /\ y.entry \in 0 .. Entries(x.index) - 1
            \/ \E z \in Streams : EntryMoved(z, x) /\ x.rep # r /\ SwitchedTo(y, z, r)
                                  /\ InIndex(z)
<1>1. x.index \in Reps /\ x.entry \in 0 .. Entries(x.index) - 1 /\ Entries(x.index) \in Nat
  BY FieldTypes, EntryFacts DEF InIndex
<1>2. CanMove(x)
  <2>1. start.forward \in BOOLEAN
    BY StartType
  <2> QED
    BY <1>1, <2>1 DEF CanMove, HasNextSubfragment, NextEntry
<1>3. HasNextFragment(x)
  BY DEF HasNextFragment
<1>4. /\ y \in Streams
      /\ \/ Moved(y, x) /\ (y.lastRet = "OK" => y.rep = r)
         \/ \E z \in Streams : Moved(z, x) /\ z.lastRet = "OK" /\ r # z.rep
                               /\ SwitchedTo(y, z, r) /\ InIndex(z)
  BY <1>3, AdvanceFacts DEF AtEnd
<1>5. \A z : Moved(z, x) => EntryMoved(z, x)
  BY <1>2 DEF Moved, SegmentMoved
<1>6. CASE Moved(y, x) /\ (y.lastRet = "OK" => y.rep = r)
  BY <1>1, <1>2, <1>4, <1>5, <1>6 DEF EntryMoved, CanMove
<1>7. ASSUME NEW z \in Streams, Moved(z, x), r # z.rep, SwitchedTo(y, z, r), InIndex(z)
      PROVE  /\ y.pending = x.pending /\ y.rep = r
             /\ EntryMoved(z, x) /\ x.rep # r
  BY <1>5, <1>7 DEF EntryMoved, SwitchedTo
<1> QED
  BY <1>2, <1>4, <1>6, <1>7

(* A stream that has been switched looks for its place in the new index.    *)
LEMMA SwitchedPlace ==
  ASSUME start \in Starts, NEW z \in Streams, NEW y, NEW r, SwitchedTo(y, z, r), InIndex(z),
         z.pending # Unknown => z.pending \in Nat
  PROVE  Remembered(y)
<1>1. CASE OnDemand /\ z.index # 0
  <2>1. z.index \in Reps /\ z.entry \in 0 .. Entries(z.index) - 1
    BY <1>1, FieldTypes DEF InIndex
  <2> QED
    BY <1>1, <2>1, EntryInPeriod DEF SwitchedTo, Remembered
<1>2. CASE ~(OnDemand /\ z.index # 0)
  BY <1>2 DEF SwitchedTo, Remembered
<1> QED
  BY <1>1, <1>2

LEMMA ChoicesFacts ==
  ASSUME start \in Starts, d.rep \in 1 .. start.reps, NEW r \in Choices
  PROVE  r \in Reps /\ r \in 1 .. start.reps /\ (~(switches < MaxSwitches) => r = d.rep)
<1>1. Choices \subseteq 1 .. start.reps
  BY DEF Choices
<1> QED
  BY <1>1, RepsFacts DEF Choices

(* S has found no room for the data in the index.                           *)
LEMMA InvRefuseMdat ==
  ASSUME DashInv, spc = "mdat", Part = "media", RefuseMdat,
         UNCHANGED <<start, todo, frag, retried, dpc, starting, status, faults>>
  PROVE  DashInv'
<1>0. /\ start \in Starts /\ d \in Streams /\ start' = start
  BY DEF DashInv, TypeOK
<1>1. /\ Receiving /\ src.on /\ d.lastRet = "OK"
  BY AtHand
<1>2. /\ dpc = "wait" /\ Sound /\ Loading /\ todo \in Plans
  BY <1>1, InTransfer
<1>3. /\ spc' = "idle" /\ finished' = TRUE /\ posted' = TRUE
      /\ src' = [src EXCEPT !.on = FALSE]
      /\ switches' = switches /\ UNCHANGED shownVars
  BY DEF RefuseMdat, StopSource
<1>4. /\ push' = push /\ moov' = moov /\ heard' = heard /\ at' = at
  BY <1>3 DEF shownVars
<1>5. /\ d' \in Streams /\ d'.queue = <<>> /\ d'.lastRet = "ERROR" /\ d'.rep = d.rep
      /\ d'.index = d.index /\ d'.entry = d.entry /\ d'.sidxPos = d.sidxPos
      /\ d'.pending = d.pending /\ d'.mdat = d.mdat /\ d'.off = d.off
      /\ d'.section = d.section /\ d'.base = d.base /\ d'.needHeader = d.needHeader
  <2>1. d' = [d EXCEPT !.queue = <<>>, !.lastRet = "ERROR"]
    BY <1>0, <1>1 DEF RefuseMdat, Streams
  <2>2. d' \in Streams
    BY <1>0, <2>1, RetTypes, ValueTypes, SetQueue, SetLastRet
  <2> QED
    BY <1>0, <2>1, <2>2 DEF Streams
<1>6. src' \in [on : BOOLEAN, rep : Reps, at : [index : Int, repeat : Int],
                part : Parts, from : Int, pos : Int, end : Int] /\ src'.on = FALSE
  BY <1>3 DEF DashInv, TypeOK
<1>7. Part' = Part /\ Sound' /\ Loading' /\ ~Receiving' /\ ~Untouched'
  BY <1>1, <1>2, <1>5, <1>6 DEF Part, Sound, Loading, Receiving, Untouched, Waiting
<1>8. TypeOK'
  BY <1>0, <1>3, <1>4, <1>5, <1>6 DEF DashInv, TypeOK
<1>9. Asked'
  <2>1. HasFragment(Mpd, frag.at)' = HasFragment(Mpd, frag.at)
    BY <1>0, StartFixed
  <2> QED
    BY <1>0, <1>2, <1>5, <1>6, <1>7, <2>1, StartFixed DEF DashInv, Asked
<1>10. Transfer'
  BY <1>6 DEF Transfer
<1>11. Adapter'
  <2>1. DOMAIN d'.queue = {}
    BY <1>5
  <2> QED
    BY <1>2, <1>3, <1>5, <1>7, <2>1 DEF DashInv, Adapter
<1>12. Indexed'
  BY <1>0, <1>2, <1>5, <1>7, StartFixed DEF DashInv, Indexed, Remembered
<1>13. Headed'
  BY <1>0, <1>2, <1>4, <1>5, <1>7 DEF DashInv, Headed
<1>14. Shown' /\ HeaderFirst' /\ OffsetsTrue'
  BY <1>0, <1>3, NothingShown DEF DashInv
<1> QED
  BY <1>8, <1>9, <1>10, <1>11, <1>12, <1>13, <1>14 DEF DashInv

(* What S takes of the mdat.                                                *)
LEMMA TakenFacts ==
  ASSUME DashInv, spc # "idle"
  PROVE  /\ Taken(d) \in 0 .. Len(d.queue) /\ EntryStop(d) \in Int
         /\ EntryDone(d) => Taken(d) = EntryStop(d) - d.off
         /\ ~EntryDone(d) /\ d.index # 0 /\ HasNextSubfragment(d) /\ ~InvalidSidx(d)
              => Taken(d) = Len(d.queue) /\ d.off + Len(d.queue) < EntryStop(d)
         /\ d.index = 0 => Taken(d) = Len(d.queue)
<1>1. d \in Streams /\ d.off \in Nat /\ Len(d.queue) \in Nat
  BY AtHand DEF DashInv, TypeOK
<1>2. d.base \in Int /\ d.entry \in Int /\ Block \in Nat
  BY <1>1, FieldTypes, Sizes
<1>3. (d.entry + 1) * Block \in Int
  BY <1>2
<1>4. EntryStop(d) \in Int
  BY <1>2, <1>3 DEF EntryStop
<1> QED
  BY <1>1, <1>4 DEF Taken, EntryDone, InvalidSidx

(* Before an advance, the stream of S has the units behind it.              *)
LEMMA PushMdatFacts ==
  ASSUME DashInv, spc = "mdat", PushMdat
  PROVE  \E n \in 0 .. Len(d.queue) : \E r \in Choices : \E y \in Streams :
           /\ n = Taken(d)
           /\ Push(d, SubSeq(d.queue, 1, n))
           /\ d' = IF EntryDone(d) THEN Advance(y, r) ELSE y
           /\ y.off = d.off + n /\ y.queue = SubSeq(d.queue, n + 1, Len(d.queue))
           /\ y.rep = d.rep /\ y.at = d.at /\ y.index = d.index /\ y.entry = d.entry
           /\ y.sidxPos = d.sidxPos /\ y.pending = d.pending /\ y.mdat = d.mdat
           /\ y.section = d.section /\ y.base = d.base /\ y.needHeader = d.needHeader
           /\ y.lastRet = "OK" /\ y.allow = d.allow
<1>1. /\ d \in Streams /\ d.lastRet = "OK" /\ d.off \in Int /\ d.queue \in Seq(Int)
      /\ Taken(d) \in 0 .. Len(d.queue)
  BY AtHand, TakenFacts, FieldTypes DEF DashInv, TypeOK
<1> DEFINE n == Taken(d)
           w == SubSeq(d.queue, n + 1, Len(d.queue))
           y == [d EXCEPT !.off = d.off + n, !.queue = w]
<1>2. /\ Push(d, SubSeq(d.queue, 1, n))
      /\ \E r \in Choices : d' = IF EntryDone(d) THEN Advance(y, r) ELSE y
  <2>1. [d EXCEPT !.off = @ + n, !.queue = SubSeq(@, n + 1, Len(@))] = y
    BY <1>1 DEF Streams
  <2> QED
    BY <2>1 DEF PushMdat
<1> HIDE DEF n, y
<1>3. n \in 0 .. Len(d.queue) /\ d.off + n \in Int /\ w \in Seq(Int)
  <2>1. n \in 0 .. Len(d.queue) /\ Len(d.queue) \in Nat
    BY <1>1 DEF n
  <2> QED
    BY <1>1, <2>1
<1>4. y \in Streams
  BY <1>1, <1>3, SetOff, SetQueue DEF y
<1>5. /\ y.off = d.off + n /\ y.queue = w
      /\ y.rep = d.rep /\ y.at = d.at /\ y.index = d.index /\ y.entry = d.entry
      /\ y.sidxPos = d.sidxPos /\ y.pending = d.pending /\ y.mdat = d.mdat
      /\ y.section = d.section /\ y.base = d.base /\ y.needHeader = d.needHeader
      /\ y.lastRet = "OK" /\ y.allow = d.allow
  BY <1>1, <1>3 DEF y, Streams
<1>6. n = Taken(d)
  BY DEF n
<1> QED
  BY <1>2, <1>3, <1>4, <1>5, <1>6

LEMMA InvPushMdat ==
  ASSUME DashInv, spc = "mdat", PushMdat,
         UNCHANGED <<start, todo, frag, retried, dpc, starting, status, faults>>
  PROVE  DashInv'
<1>0. /\ start \in Starts /\ d \in Streams /\ start' = start /\ spc # "idle" /\ d.mdat
      /\ CountSwitch
  BY DEF DashInv, TypeOK, Adapter, PushMdat
<1>1. /\ Receiving /\ src.on /\ d.lastRet = "OK" /\ Reached
      /\ src.pos = d.off + Len(d.queue) /\ d.off >= src.from /\ d.off \in Nat
      /\ Len(d.queue) \in Nat /\ ~starting /\ d.section = SectionOf(Part)
      /\ \A i \in 1 .. Len(d.queue) : d.queue[i] = d.off + i - 1
  BY <1>0, AtHand
<1>2. /\ dpc = "wait" /\ Sound /\ Loading /\ todo \in Plans
      /\ src.rep = d.rep /\ src.rep = frag.rep /\ src.rep \in Reps
      /\ src.part = Part /\ Part = "media" /\ src.part \in Parts /\ src.at \in Positions
      /\ OnDemand \/ HasFragment(Mpd, src.at)
      /\ ~d.needHeader
      /\ src.from \in Nat /\ src.pos \in Int
  <2>1. Part = "media"
    BY <1>0, <1>1, InTransfer DEF DashInv, Indexed
  <2> QED
    BY <1>1, <2>1, InTransfer
<1>3. PICK n \in 0 .. Len(d.queue), r \in Choices, y \in Streams :
        /\ n = Taken(d)
        /\ Push(d, SubSeq(d.queue, 1, n))
        /\ d' = IF EntryDone(d) THEN Advance(y, r) ELSE y
        /\ y.off = d.off + n /\ y.queue = SubSeq(d.queue, n + 1, Len(d.queue))
        /\ y.rep = d.rep /\ y.at = d.at /\ y.index = d.index /\ y.entry = d.entry
        /\ y.sidxPos = d.sidxPos /\ y.pending = d.pending /\ y.mdat = d.mdat
        /\ y.section = d.section /\ y.base = d.base /\ y.needHeader = d.needHeader
        /\ y.lastRet = "OK" /\ y.allow = d.allow
  BY PushMdatFacts
<1>4. n \in Int /\ n >= 0 /\ n <= Len(d.queue)
  BY <1>1
<1>5. /\ y.queue \in Seq(Int) /\ Len(y.queue) = Len(d.queue) - n
      /\ \A i \in 1 .. Len(y.queue) : y.queue[i] = y.off + i - 1
  <2>1. d.queue \in Seq(Int) /\ d.off \in Int
    BY <1>0, FieldTypes
  <2> DEFINE w == SubSeq(d.queue, n + 1, Len(d.queue))
  <2>2. /\ w \in Seq(Int) /\ Len(w) = Len(d.queue) - n
        /\ \A i \in 1 .. Len(d.queue) - n : w[i] = (d.off + n) + i - 1
    BY <1>1, <2>1, PushedUnits
  <2>3. y.queue = w
    BY <1>3
  <2> HIDE DEF w
  <2> QED
    BY <1>3, <2>2, <2>3
<1>6. /\ Shown' /\ HeaderFirst' /\ OffsetsTrue'
      /\ moov' \in {0} \cup Reps /\ (heard \in Int \X Int)' /\ at' \in Int
      /\ moov' \in {moov, src.rep}
      /\ (OnDemand \/ src.part = "header") /\ d.off < MoovSize /\ d.off + n >= MoovSize
           => moov' = src.rep
  <2>1. /\ moov \in {0} \cup Reps /\ heard \in Int \X Int /\ at \in Int /\ Shown
        /\ HeaderFirst /\ OffsetsTrue
        /\ \A i \in DOMAIN d.queue : d.queue[i] = d.off + i - 1
    BY DEF DashInv, TypeOK, Adapter
  <2>2. d.off >= 0
    BY <1>1
  <2>3. Push(d, SubSeq(d.queue, 1, n))
    BY <1>3
  <2> QED
    BY <1>0, <1>1, <1>2, <2>1, <2>2, <2>3, PushFacts
<1>7. r \in Reps /\ r \in 1 .. start.reps /\ (~(switches < MaxSwitches) => r = d.rep)
  BY <1>0, ChoicesFacts DEF DashInv, Asked
<1> DEFINE ret == IF EntryDone(d) THEN d'.lastRet ELSE "OK"
<1>8. /\ spc' = IF EntryDone(d) /\ ret = "OK" /\ d'.queue # <<>> THEN "parse" ELSE "idle"
      /\ finished' = (finished \/ ret # "OK")
      /\ src' = IF ret = "OK" THEN src ELSE [src EXCEPT !.on = FALSE]
      /\ posted' = (posted \/ ret \in {"CUSTOM_ERROR", "ERROR"})
  BY DEF PushMdat, StopSource
(* Either the stream remains in the file, ...                               *)
<1>9. DEFINE Stays ==
        /\ d' \in Streams /\ d'.lastRet = "OK" /\ ret = "OK" /\ d'.rep = d.rep
        /\ d'.off = d.off + n /\ d'.queue = y.queue /\ d'.index = d.index
        /\ d'.base = d.base /\ d'.pending = d.pending /\ d'.section = d.section
        /\ d'.needHeader = d.needHeader
        /\ Remembered(d') /\ (d'.index # 0 => d'.sidxPos # Unknown)
        /\ d'.index # 0 => d'.entry \in 0 .. Entries(d'.index) - 1
(* ... or it has been switched.                                             *)
<1>10. DEFINE Leaves ==
        /\ d' \in Streams /\ d'.lastRet = "SWITCH" /\ ret = "SWITCH" /\ d'.rep = r
        /\ d'.index = 0 /\ d'.base = 0 /\ ~d'.mdat /\ d'.queue = <<>> /\ d'.needHeader
        /\ r # d.rep /\ Remembered(d')
<1>11. Stays \/ Leaves
  <2>1. Remembered(d) /\ InIndex(d)
    BY DEF DashInv, Indexed, TypeOK, InIndex
  <2>2. CASE ~EntryDone(d)
    <3>1. d' = y /\ ret = "OK"
      BY <1>3, <2>2
    <3>2. Remembered(y) /\ (y.index # 0 => y.sidxPos # Unknown)
      BY <1>3, <2>1 DEF Remembered, DashInv, Indexed
    <3>3. y.index # 0 => y.entry \in 0 .. Entries(y.index) - 1
      BY <1>3, <2>1 DEF InIndex
    <3> HIDE DEF ret
    <3> QED
      BY <1>3, <3>1, <3>2, <3>3
  <2>3. CASE EntryDone(d)
    <3>1. d.index # 0 /\ HasNextSubfragment(d) /\ OnDemand /\ d.pending = Unknown
      BY <2>3 DEF EntryDone, DashInv, Indexed
    <3>2. y.index # 0 /\ HasNextSubfragment(y) /\ InIndex(y)
      BY <1>3, <2>1, <3>1 DEF HasNextSubfragment, InIndex
    <3>3. d' = Advance(y, r) /\ ret = d'.lastRet
      BY <1>3, <2>3
    <3>4. /\ d' \in Streams /\ CanMove(y) /\ d'.pending = y.pending /\ d'.rep = r
          /\ \/ d'.lastRet = "OK" /\ d'.rep = y.rep /\ EntryMoved(d', y)
                /\ d'.entry \in 0 .. Entries(y.index) - 1
             \/ \E z \in Streams : EntryMoved(z, y) /\ y.rep # r /\ SwitchedTo(d', z, r)
                                   /\ InIndex(z)
      BY <1>0, <1>3, <1>7, <3>1, <3>2, <3>3, AdvanceOutcome
    <3> HIDE DEF ret
    <3>5. CASE /\ d'.lastRet = "OK" /\ d'.rep = y.rep /\ EntryMoved(d', y)
               /\ d'.entry \in 0 .. Entries(y.index) - 1
      <4>1. y.index \in Reps
        BY <3>2, FieldTypes
      <4>2. /\ d'.sidxPos = Pts(y.index, d'.entry)
            /\ d'.off = y.off /\ d'.queue = y.queue /\ d'.index = y.index /\ d'.base = y.base
            /\ d'.section = y.section /\ d'.needHeader = y.needHeader
        BY <3>5 DEF EntryMoved
      <4>3. Remembered(d') /\ d'.sidxPos # Unknown
        BY <1>3, <3>1, <3>4, <3>5, <4>1, <4>2, EntryInPeriod DEF Remembered
      <4> QED
        BY <1>3, <3>3, <3>4, <3>5, <4>2, <4>3
    <3>6. ASSUME NEW z \in Streams, EntryMoved(z, y), y.rep # r, SwitchedTo(d', z, r), InIndex(z)
          PROVE  Leaves
      <4>1. z.pending = Unknown
        BY <1>3, <3>1, <3>6 DEF EntryMoved
      <4>2. Remembered(d')
        BY <1>0, <3>6, <4>1, SwitchedPlace
      <4> QED
        BY <1>3, <3>3, <3>4, <3>6, <4>2 DEF SwitchedTo
    <3> QED
      BY <3>4, <3>5, <3>6
  <2> QED
    BY <2>2, <2>3
<1>12. /\ src \in [on : BOOLEAN, rep : Reps, at : [index : Int, repeat : Int],
                   part : Parts, from : Int, pos : Int, end : Int]
       /\ src' \in [on : BOOLEAN, rep : Reps, at : [index : Int, repeat : Int],
                    part : Parts, from : Int, pos : Int, end : Int]
       /\ src'.rep = src.rep /\ src'.at = src.at /\ src'.part = src.part
       /\ src'.from = src.from /\ src'.pos = src.pos /\ src'.end = src.end
       /\ src'.on <=> ret = "OK"
  <2>1. src \in [on : BOOLEAN, rep : Reps, at : [index : Int, repeat : Int],
                 part : Parts, from : Int, pos : Int, end : Int]
    BY DEF DashInv, TypeOK
  <2>2. CASE ret = "OK"
    BY <1>1, <1>8, <2>1, <2>2
  <2>3. CASE ret # "OK"
    BY <1>8, <2>1, <2>3
  <2> QED
    BY <2>2, <2>3
<1>13. spc' \in {"idle", "parse"} /\ finished' \in BOOLEAN /\ posted' \in BOOLEAN
       /\ (spc' # "idle" => ret = "OK")
  BY <1>8 DEF DashInv, TypeOK
<1> HIDE DEF ret
<1>14. OnDemand' = OnDemand /\ Part' = Part /\ Loading'
  BY <1>2, StartFixed DEF Part, Loading
<1>15. HasFragment(Mpd, frag.at)' = HasFragment(Mpd, frag.at)
  BY <1>0, StartFixed
<1>16. CASE Stays
  <2>1. /\ Sound' /\ Receiving' /\ ~Waiting' /\ ~Untouched'
    BY <1>1, <1>2, <1>12, <1>16 DEF Sound, Receiving, Waiting, Untouched
  <2>2. TypeOK'
    <3>1. switches' = switches
      BY <1>0, <1>16 DEF CountSwitch
    <3> QED
      BY <1>0, <1>6, <1>12, <1>13, <1>16, <3>1 DEF DashInv, TypeOK
  <2>3. Asked'
    <3>1. /\ d'.rep = d.rep /\ d'.lastRet = "OK" /\ d'.needHeader = d.needHeader
          /\ todo' = todo /\ frag' = frag /\ dpc' = dpc /\ Plans' = Plans
      BY <1>0, <1>16, StartFixed
    <3>2. /\ d.rep \in 1 .. start.reps /\ src.at = frag.at
          /\ 0 <= frag.from /\ frag.from <= frag.to /\ frag.rep = d.rep
          /\ OnDemand \/ HasFragment(Mpd, frag.at)
      BY <1>1, <1>2 DEF DashInv, Asked
    <3> QED
      BY <1>0, <1>2, <1>12, <1>14, <1>15, <2>1, <3>1, <3>2 DEF Asked
  <2>4. Transfer'
    BY <1>0, <1>1, <1>2, <1>12, <1>16 DEF DashInv, Transfer
  <2>5. Adapter'
    <3>1. d'.off >= src'.from /\ src'.pos = d'.off + Len(d'.queue)
      <4>1. Len(d'.queue) = Len(d.queue) - n /\ d'.off = d.off + n
        BY <1>5, <1>16
      <4>2. src'.from = src.from /\ src'.pos = src.pos
        BY <1>12
      <4> QED
        BY <1>1, <1>2, <1>4, <4>1, <4>2
    <3>2. \A i \in DOMAIN d'.queue : d'.queue[i] = d'.off + i - 1
      <4>1. DOMAIN d'.queue = 1 .. Len(d'.queue)
        BY <1>5, <1>16
      <4>2. d'.queue = y.queue /\ d'.off = y.off
        BY <1>3, <1>16
      <4> QED
        BY <1>5, <4>1, <4>2
    <3>3. \A i \in 2 .. Len(todo') : starting' \/ d'.section # SectionOf(todo'[i])
      BY <1>0, <1>2, <1>16 DEF DashInv, Adapter
    <3>4. ~starting' /\ d'.section = SectionOf(Part')
      BY <1>1, <1>14, <1>16
    <3> QED
      BY <1>13, <2>1, <3>1, <3>2, <3>3, <3>4 DEF Adapter
  <2>6. Indexed'
    <3>1. /\ d'.index = 0 => d'.base = 0
          /\ d'.index # 0 => /\ OnDemand /\ d'.index = d'.rep /\ d'.base = First
                             /\ d'.sidxPos # Unknown /\ d'.pending = Unknown
      BY <1>16 DEF DashInv, Indexed
    <3> QED
      BY <1>2, <1>14, <1>16, <3>1 DEF Indexed, Loading
  <2>7. Headed'
    <3>1. moov = d.rep => moov' = d.rep
      BY <1>2, <1>6
    <3>2. moov' = src.rep \/ ((OnDemand \/ src.part = "header") /\ d'.off < MoovSize)
      BY <1>1, <1>2, <1>4, <1>6, <1>16, Sizes DEF Reached
    <3> QED
      BY <1>0, <1>2, <1>12, <1>14, <1>16, <2>1, <3>1, <3>2 DEF DashInv, Headed
  <2> QED
    BY <1>6, <2>2, <2>3, <2>4, <2>5, <2>6, <2>7 DEF DashInv
<1>17. CASE Leaves
  <2>1. /\ ~Sound' /\ ~Receiving' /\ ~Waiting' /\ ~Untouched' /\ src'.on = FALSE
    BY <1>1, <1>2, <1>12, <1>17 DEF Sound, Receiving, Waiting, Untouched
  <2>2. TypeOK'
    <3>1. switches' \in 0 .. MaxSwitches
      <4>1. switches < MaxSwitches /\ switches' = switches + 1
        BY <1>0, <1>7, <1>17 DEF CountSwitch
      <4> QED
        BY <4>1, SizesAssumption DEF DashInv, TypeOK
    <3> QED
      BY <1>0, <1>6, <1>12, <1>13, <1>17, <3>1 DEF DashInv, TypeOK
  <2>3. Asked'
    BY <1>0, <1>2, <1>7, <1>14, <1>15, <1>17, <2>1, StartFixed DEF DashInv, Asked
  <2>4. Transfer'
    BY <2>1 DEF Transfer
  <2>5. Adapter'
    <3>1. DOMAIN d'.queue = {} /\ Len(todo) = 1
      <4>1. Len(todo) = 1
        BY <1>0, <1>2, StartType, PlanFacts DEF Part
      <4> QED
        BY <1>17, <4>1
    <3>2. spc' = "idle"
      BY <1>13, <1>17
    <3>3. \A i \in 2 .. Len(todo') : starting' \/ d'.section # SectionOf(todo'[i])
      BY <3>1
    <3> QED
      BY <2>1, <3>1, <3>2, <3>3 DEF Adapter
  <2>6. Indexed'
    BY <1>2, <1>14, <1>17 DEF Indexed
  <2>7. Headed'
    BY <1>2, <1>14, <1>17, <2>1 DEF Headed
  <2> QED
    BY <1>6, <2>2, <2>3, <2>4, <2>5, <2>6, <2>7 DEF DashInv
<1> QED
  BY <1>11, <1>16, <1>17

LEMMA InvMdat == ASSUME DashInv, Mdat PROVE DashInv'
<1>1. spc = "mdat" /\ UNCHANGED <<start, todo, frag, retried, dpc, starting, status, faults>>
  BY DEF Mdat, requestVars
<1>2. CASE InvalidSidx(d)
  <2>1. RefuseMdat
    BY <1>2 DEF Mdat
  <2>2. Part = "media"
    <3>1. d.mdat /\ Loading
      <4>1. src.on /\ d.lastRet = "OK"
        BY <1>1, AtHand
      <4> QED
        BY <1>1, <4>1, InTransfer DEF DashInv, Adapter
    <3> QED
      BY <3>1 DEF DashInv, Indexed
  <2> QED
    BY <1>1, <2>1, <2>2, InvRefuseMdat
<1>3. CASE ~InvalidSidx(d)
  <2>1. PushMdat
    BY <1>3 DEF Mdat
  <2> QED
    BY <1>1, <2>1, InvPushMdat
<1> QED
  BY <1>2, <1>3

(* The source has delivered everything.                                     *)
LEMMA EosFacts ==
  ASSUME DashInv, SourceEos
  PROVE  \/ d' = d
         \/ /\ Part = "media" /\ d' \in Streams /\ Remembered(d')
            /\ \/ /\ d'.lastRet \in {"OK", "EOS"} /\ d'.rep = d.rep
                  /\ d'.needHeader = d.needHeader
                  /\ \/ /\ d'.index = d.index /\ d'.base = d.base /\ d'.pending = d.pending
                        /\ d'.queue = d.queue /\ d'.off = d.off
                        /\ d'.index # 0 => /\ d'.entry \in 0 .. Entries(d'.index) - 1
                                           /\ d'.sidxPos # Unknown
                     \/ d'.index = 0 /\ d'.base = 0 /\ d'.queue = <<>>
               \/ /\ d'.lastRet = "SWITCH" /\ d'.rep # d.rep /\ d'.rep \in 1 .. start.reps
                  /\ switches < MaxSwitches
                  /\ d'.index = 0 /\ d'.base = 0 /\ ~d'.mdat /\ d'.queue = <<>>
                  /\ d'.needHeader
<1>0. /\ start \in Starts /\ d \in Streams /\ Remembered(d) /\ InIndex(d) /\ src.part \in Parts
      /\ d.rep \in 1 .. start.reps /\ src.part = Part
  BY DEF DashInv, TypeOK, Indexed, InIndex, Asked, SourceEos
<1>1. PICK r \in Choices : d' = FragmentFinished(d, src.part, r)
  BY DEF SourceEos
<1>2. CASE StaysInPlace(d, src.part)
  BY <1>1, <1>2 DEF FragmentFinished
<1>3. CASE d.lastRet # "OK"
  BY <1>1, <1>3 DEF FragmentFinished, Advance
<1>4. CASE ~StaysInPlace(d, src.part) /\ d.lastRet = "OK"
  <2>1. Part = "media" /\ d' = Advance(d, r)
    BY <1>0, <1>1, <1>4 DEF FragmentFinished, StaysInPlace
  <2>2. r \in Reps /\ r \in 1 .. start.reps /\ (~(switches < MaxSwitches) => r = d.rep)
    BY <1>0, ChoicesFacts
  <2>3. /\ d' \in Streams
        /\ \/ AtEnd(d', d)
           \/ Moved(d', d) /\ (d'.lastRet = "OK" => d'.rep = r)
           \/ \E z \in Streams : Moved(z, d) /\ z.lastRet = "OK" /\ r # z.rep
                                 /\ SwitchedTo(d', z, r) /\ InIndex(z)
    BY <1>0, <1>4, <2>1, <2>2, AdvanceFacts
  <2>4. CASE AtEnd(d', d)
    <3>1. /\ d'.lastRet = "EOS" /\ d'.rep = d.rep /\ d'.needHeader = d.needHeader
          /\ d'.index = d.index /\ d'.base = d.base /\ d'.pending = d.pending
          /\ d'.queue = d.queue /\ d'.off = d.off /\ d'.entry = d.entry
          /\ d'.sidxPos = d.sidxPos
      BY <1>0, <2>4 DEF AtEnd, Streams
    <3>2. Remembered(d') /\ (d'.index # 0 => d'.sidxPos # Unknown)
      BY <1>0, <3>1 DEF Remembered, DashInv, Indexed
    <3>3. d'.index # 0 => d'.entry \in 0 .. Entries(d'.index) - 1
      BY <1>0, <3>1 DEF InIndex
    <3> QED
      BY <2>1, <2>3, <3>1, <3>2, <3>3
  <2>5. ASSUME NEW z \in Streams, Moved(z, d)
        PROVE  /\ z.lastRet \in {"OK", "EOS"} /\ z.rep = d.rep
               /\ z.needHeader = d.needHeader /\ z.pending = d.pending /\ Remembered(z)
               /\ \/ /\ z.index = d.index /\ z.base = d.base
                     /\ z.queue = d.queue /\ z.off = d.off
                     /\ z.index # 0 => /\ z.entry \in 0 .. Entries(z.index) - 1
                                       /\ z.sidxPos # Unknown
                  \/ z.index = 0 /\ z.base = 0 /\ z.queue = <<>>
    <3>1. CASE EntryMoved(z, d)
      <4>1. /\ d.index \in Reps /\ z.entry \in 0 .. Entries(d.index) - 1
            /\ z.sidxPos = Pts(d.index, z.entry)
        BY <1>0, <3>1, FieldTypes DEF EntryMoved, CanMove
      <4>2. z.sidxPos \in 0 .. PeriodLength - 1 /\ z.sidxPos # Unknown
        BY <4>1, EntryInPeriod
      <4> QED
        BY <1>0, <3>1, <4>1, <4>2 DEF EntryMoved, Remembered
    <3>2. CASE SegmentMoved(z, d)
      <4>1. AdvanceSegment(Mpd, d.at, start.forward) \in [ret : {"OK", "EOS"}, at : Positions]
        BY <1>0, FieldTypes, MpdFits, StartType, AdvanceType
      <4> QED
        BY <1>0, <3>2, <4>1 DEF SegmentMoved, Remembered
    <3> QED
      BY <2>5, <3>1, <3>2 DEF Moved
  <2>6. CASE Moved(d', d)
    BY <2>1, <2>3, <2>5, <2>6
  <2>7. ASSUME NEW z \in Streams, Moved(z, d), r # z.rep, SwitchedTo(d', z, r), InIndex(z)
        PROVE  /\ d'.lastRet = "SWITCH" /\ d'.rep # d.rep /\ d'.rep \in 1 .. start.reps
               /\ switches < MaxSwitches /\ Remembered(d')
               /\ d'.index = 0 /\ d'.base = 0 /\ ~d'.mdat /\ d'.queue = <<>>
               /\ d'.needHeader
    <3>1. z.rep = d.rep /\ z.pending = d.pending
      BY <2>5, <2>7
    <3>2. Remembered(d')
      BY <1>0, <2>7, <3>1, SwitchedPlace DEF Remembered
    <3> QED
      BY <2>2, <2>7, <3>1, <3>2 DEF SwitchedTo
  <2> QED
    BY <2>1, <2>3, <2>4, <2>6, <2>7
<1> QED
  BY <1>2, <1>3, <1>4

LEMMA InvSourceEos == ASSUME DashInv, SourceEos PROVE DashInv'
<1>0. /\ start \in Starts /\ d \in Streams /\ start' = start
      /\ src.on /\ spc = "idle" /\ spc' = spc /\ src.pos = src.end /\ finished' = TRUE
      /\ src' = [src EXCEPT !.on = FALSE] /\ CountSwitch
      /\ UNCHANGED <<todo, frag, retried, dpc, starting, status, faults, posted>>
      /\ UNCHANGED shownVars
  BY DEF DashInv, TypeOK, SourceEos, StopSource, requestVars
<1>1. /\ push' = push /\ moov' = moov /\ heard' = heard /\ at' = at
  BY <1>0 DEF shownVars
<1>2. src' \in [on : BOOLEAN, rep : Reps, at : [index : Int, repeat : Int],
                part : Parts, from : Int, pos : Int, end : Int] /\ src'.on = FALSE
  BY <1>0 DEF DashInv, TypeOK
<1>3. dpc = "wait" /\ Loading /\ todo \in Plans /\ Part \in Parts
  <2>1. dpc = "wait" /\ Loading /\ todo \in Plans
    BY <1>0 DEF DashInv, Asked, Loading
  <2> QED
    BY <1>0, <2>1, StartType, PlanFacts DEF Part
<1>4. Part' = Part /\ Loading' /\ ~Receiving' /\ ~Waiting'
  BY <1>0, <1>2, <1>3 DEF Part, Loading, Receiving, Waiting
<1>5. Shown' /\ HeaderFirst' /\ OffsetsTrue'
  BY <1>0, NothingShown DEF DashInv
<1>6. Transfer'
  BY <1>2 DEF Transfer
<1>7. HasFragment(Mpd, frag.at)' = HasFragment(Mpd, frag.at)
  BY <1>0, StartFixed
<1>8. /\ (Part = "media" => Len(todo) = 1)
      /\ (OnDemand \/ HasFragment(Mpd, frag.at))
  BY <1>0, <1>3, StartType, PlanFacts DEF Part, DashInv, Asked
<1>9. CASE d' = d
  <2>1. Sound' = Sound /\ (Untouched' => Untouched)
    BY <1>0, <1>3, <1>4, <1>9 DEF Sound, Untouched
  <2>2. TypeOK'
    BY <1>0, <1>1, <1>2, <1>9 DEF DashInv, TypeOK, CountSwitch
  <2>3. Asked'
    BY <1>0, <1>2, <1>3, <1>4, <1>7, <1>9, <2>1, StartFixed DEF DashInv, Asked
  <2>4. Adapter'
    BY <1>0, <1>3, <1>4, <1>9, <2>1 DEF DashInv, Adapter, Fresh
  <2>5. Indexed'
    BY <1>0, <1>3, <1>4, <1>9, StartFixed DEF DashInv, Indexed, Remembered
  <2>6. Headed'
    <3>1. Part = "header" /\ d.lastRet = "OK" => moov = d.rep
      <4> SUFFICES ASSUME Part = "header", d.lastRet = "OK" PROVE moov = d.rep
        OBVIOUS
      <4>1. src.part = "header" /\ src.rep = d.rep
        BY <1>0, InTransfer
      <4>2. src.from = 0 /\ src.pos = MoovSize /\ src.pos # src.from
        BY <1>0, <4>1, Sizes DEF DashInv, Transfer
      <4>3. Receiving
        BY <1>0, <4>2 DEF Receiving
      <4>4. d.off = MoovSize /\ Reached
        BY <1>0, <4>1, <4>2, <4>3 DEF DashInv, Headed, Reached
      <4> QED
        BY <4>1, <4>4, Sizes DEF Reached
    <3> QED
      BY <1>0, <1>1, <1>3, <1>4, <1>9, <2>1, <3>1 DEF DashInv, Headed
  <2> QED
    BY <1>5, <1>6, <2>2, <2>3, <2>4, <2>5, <2>6 DEF DashInv
<1>10. CASE /\ Part = "media" /\ d' \in Streams /\ Remembered(d')
            /\ d'.lastRet \in {"OK", "EOS"} /\ d'.rep = d.rep
            /\ d'.needHeader = d.needHeader
            /\ \/ /\ d'.index = d.index /\ d'.base = d.base /\ d'.pending = d.pending
                  /\ d'.queue = d.queue /\ d'.off = d.off
                  /\ d'.index # 0 => /\ d'.entry \in 0 .. Entries(d'.index) - 1
                                     /\ d'.sidxPos # Unknown
               \/ d'.index = 0 /\ d'.base = 0 /\ d'.queue = <<>>
  <2>1. (Sound' => d'.lastRet = "OK") /\ ~Untouched'
    BY <1>0, <1>3, <1>4, <1>10 DEF Sound, Untouched
  <2>2. Sound' => Sound
    <3>1. d.lastRet # "OK" => d' = d
      BY DEF SourceEos, FragmentFinished, Advance
    <3> QED
      BY <2>1, <3>1 DEF Sound
  <2>3. TypeOK'
    <3>1. switches' = switches
      BY <1>0, <1>10 DEF CountSwitch
    <3> QED
      BY <1>0, <1>1, <1>2, <1>10, <3>1 DEF DashInv, TypeOK
  <2>4. Asked'
    <3>1. todo' = todo /\ frag' = frag /\ dpc' = dpc /\ Plans' = Plans /\ OnDemand' = OnDemand
      BY <1>0, StartFixed
    <3>2. /\ d.rep \in 1 .. start.reps /\ 0 <= frag.from /\ frag.from <= frag.to
          /\ Sound => frag.rep = d.rep /\ (d.needHeader <=> Part # "media")
      BY <1>3 DEF DashInv, Asked
    <3> QED
      BY <1>0, <1>2, <1>3, <1>4, <1>7, <1>8, <1>10, <2>2, <3>1, <3>2 DEF Asked
  <2>5. Adapter'
    <3>1. \A i \in DOMAIN d'.queue : d'.queue[i] = d'.off + i - 1
      BY <1>10 DEF DashInv, Adapter
    <3>2. \A i \in 2 .. Len(todo') : starting' \/ d'.section # SectionOf(todo'[i])
      <4>1. Len(todo') = 1
        BY <1>0, <1>8, <1>10
      <4> QED
        BY <4>1
    <3> QED
      BY <1>0, <1>4, <2>1, <3>1, <3>2 DEF Adapter
  <2>6. Indexed'
    <3>1. /\ d'.index = 0 => d'.base = 0
          /\ d'.index # 0 => /\ OnDemand /\ d'.index = d'.rep /\ d'.base = First
                             /\ d'.sidxPos # Unknown /\ d'.pending = Unknown
      BY <1>10 DEF DashInv, Indexed
    <3> QED
      BY <1>0, <1>3, <1>4, <1>10, <3>1, StartFixed DEF Indexed
  <2>7. Headed'
    <3>1. d'.index # 0 => d.index # 0
      BY <1>10
    <3> QED
      BY <1>0, <1>1, <1>3, <1>4, <1>10, <2>2, <3>1 DEF DashInv, Headed
  <2> QED
    BY <1>5, <1>6, <2>3, <2>4, <2>5, <2>6, <2>7 DEF DashInv
<1>11. CASE /\ Part = "media" /\ d' \in Streams /\ Remembered(d')
            /\ d'.lastRet = "SWITCH" /\ d'.rep # d.rep /\ d'.rep \in 1 .. start.reps
            /\ switches < MaxSwitches
            /\ d'.index = 0 /\ d'.base = 0 /\ ~d'.mdat /\ d'.queue = <<>> /\ d'.needHeader
  <2>1. ~Sound' /\ ~Untouched'
    BY <1>0, <1>3, <1>4, <1>11 DEF Sound, Untouched
  <2>2. TypeOK'
    <3>1. switches' \in 0 .. MaxSwitches
      <4>1. switches' = switches + 1
        BY <1>0, <1>11 DEF CountSwitch
      <4> QED
        BY <1>11, <4>1, SizesAssumption DEF DashInv, TypeOK
    <3> QED
      BY <1>0, <1>1, <1>2, <1>11, <3>1 DEF DashInv, TypeOK
  <2>3. Asked'
    <3>1. todo' = todo /\ frag' = frag /\ dpc' = dpc /\ Plans' = Plans /\ OnDemand' = OnDemand
      BY <1>0, StartFixed
    <3>2. 0 <= frag.from /\ frag.from <= frag.to
      BY <1>3 DEF DashInv, Asked
    <3> QED
      BY <1>0, <1>2, <1>3, <1>4, <1>7, <1>8, <1>11, <2>1, <3>1, <3>2 DEF Asked
  <2>4. Adapter'
    <3>1. DOMAIN d'.queue = {}
      BY <1>11
    <3>2. \A i \in 2 .. Len(todo') : starting' \/ d'.section # SectionOf(todo'[i])
      <4>1. Len(todo') = 1
        BY <1>0, <1>8, <1>11
      <4> QED
        BY <4>1
    <3> QED
      BY <1>0, <1>4, <2>1, <3>1, <3>2 DEF Adapter
  <2>5. Indexed'
    BY <1>0, <1>3, <1>4, <1>11 DEF Indexed
  <2>6. Headed'
    BY <1>0, <1>3, <1>4, <1>11, <2>1 DEF Headed
  <2> QED
    BY <1>5, <1>6, <2>2, <2>3, <2>4, <2>5, <2>6 DEF DashInv
<1> QED
  BY <1>9, <1>10, <1>11, EosFacts

(* ------------------------------------------------------------------------ *)
LEMMA InvStutter == ASSUME DashInv, UNCHANGED vars PROVE DashInv'
<1>1. UNCHANGED <<start, d, todo, frag, retried, dpc, starting, src, finished, status, spc,
                  switches, faults, posted>> /\ UNCHANGED shownVars
  BY DEF vars, requestVars, sourceVars, countVars
<1>2. push' = push /\ moov' = moov /\ heard' = heard /\ at' = at
  BY <1>1 DEF shownVars
<1>3. Plans' = Plans /\ OnDemand' = OnDemand /\ HasFragment(Mpd, frag.at)' = HasFragment(Mpd, frag.at)
  BY <1>1, StartFixed
<1>4. Shown' /\ HeaderFirst' /\ OffsetsTrue'
  BY <1>1, NothingShown DEF DashInv
<1>5. TypeOK'
  BY <1>1, <1>2 DEF DashInv, TypeOK
<1>6. Asked' /\ Transfer'
  BY <1>1, <1>3 DEF DashInv, Asked, Transfer, Loading, Part, Sound
<1>7. Adapter'
  BY <1>1 DEF DashInv, Adapter, Untouched, Waiting, Fresh, Loading, Part, Receiving
<1>8. Indexed' /\ Headed'
  BY <1>1, <1>2, <1>3
  DEF DashInv, Indexed, Headed, Remembered, Waiting, Loading, Part, Receiving, Sound
<1> QED
  BY <1>4, <1>5, <1>6, <1>7, <1>8 DEF DashInv

LEMMA InvNext == ASSUME Bare, OneRefetch, DashInv, [Next]_vars PROVE DashInv'
<1>1. CASE D
  BY <1>1, InvUpdateInfo, InvEnds, InvOpen, InvOpenFails, InvWoken, InvPartDone, InvSwitched,
     InvAgain, InvStartOver DEF D
<1>2. CASE S
  BY <1>2, InvReceive, InvParse, InvMdat, InvSourceEos DEF S
<1>3. CASE U
  BY <1>3, InvFail DEF U
<1>4. CASE UNCHANGED vars
  BY <1>4, InvStutter
<1> QED
  BY <1>1, <1>2, <1>3, <1>4 DEF Next, Finished

LEMMA DashAlways == ASSUME Bare, OneRefetch PROVE Spec => []DashInv
<1>1. DashInv /\ [Next]_vars => DashInv'
  BY InvNext
<1> QED
  BY <1>1, InvInit, PTL DEF Spec

(* What is pushed is in order, whatever the sizes of the boxes and of the   *)
(* buffers, however often the representation changes and the source fails:  *)
(* headers come before the media they are for, and buffers have the offset  *)
(* of their data in the file.                                               *)
THEOREM DashPushedTrue == ASSUME Bare, OneRefetch PROVE Spec => []PushedTrue
<1>1. DashInv => PushedTrue
  BY DEF DashInv, PushedTrue
<1> QED
  BY <1>1, DashAlways, PTL

-----------------------------------------------------------------------------
(* The entry of the index.                                                  *)

(* The index of a file that the MPD locates is read from its beginning.     *)
ReadInOrder == \A s \in Starts : s.layout = "indexed" => s.forward /\ ~s.seek

(* Where the entry that the stream is at begins.                            *)
EntryStart == First + d.entry * Block
WholeFile == frag.from = 0 /\ frag.to = PartEnd("media", frag.rep)
MediaToCome == Loading /\ Part # "media" /\ \E i \in DOMAIN todo : todo[i] = "media"

(* A request that has not been answered yet asks for the entry the stream   *)
(* is at, or for the whole file if there is no index, or no other entry     *)
(* than the first.                                                          *)
Wanted ==
  OnDemand /\ (MediaToCome \/ (Loading /\ Part = "media" /\ Untouched)) =>
    \/ WholeFile /\ (d.index # 0 => start.layout = "indexed" /\ d.entry = 0)
    \/ /\ d.index # 0 /\ Part = "media" /\ frag.from = EntryStart
       /\ frag.to = IF start.forward THEN PartEnd("media", frag.rep) ELSE EntryStart + Block

Coming ==
  OnDemand /\ src.on /\ Part = "media" /\ d.lastRet = "OK" => src.end = frag.to /\ ~finished

(* The sidx is looked for until it has been read; and no mdat is open when  *)
(* D makes a request.                                                       *)
Looking ==
  /\ OnDemand => (d.allow <=> d.index = 0)
  /\ OnDemand /\ d.mdat => Receiving \/ (d.lastRet = "EOS" /\ dpc # "loop")
  /\ start.layout = "indexed" => d.pending = Unknown
  /\ start.layout = "indexed" /\ MediaToCome /\ d.index = 0 => d.sidxPos = Unknown

(* The media that arrives is that of the entry.                             *)
BeforeMdat ==
  \/ /\ d.off = EntryStart \/ d.off = EntryStart + MoofSize
     /\ ~start.forward => src.end = EntryStart + Block
  \/ start.forward /\ d.entry = 0 /\ (d.off = 0 \/ d.off = MoovSize)
  \/ ~start.forward /\ d.queue = <<>> /\ src.pos = src.end

InMdat ==
  /\ EntryStart + MoofSize <= d.off /\ d.off <= EntryStart + Block
  /\ d.off = EntryStart + Block => src.pos = src.end /\ ~HasNextSubfragment(d)
  /\ ~start.forward => src.end = EntryStart + Block
  /\ spc # "parse" /\ (spc = "idle" <=> d.queue = <<>>)

Arriving ==
  OnDemand /\ Receiving /\ Part = "media" =>
    IF d.index = 0 THEN ~d.mdat /\ WholeFile /\ (d.off = 0 \/ d.off = MoovSize)
    ELSE /\ start.forward => src.end = PartEnd("media", d.rep)
         /\ IF d.mdat THEN InMdat ELSE BeforeMdat

PlaceInv == Wanted /\ Coming /\ Looking /\ Arriving /\ RightEntry /\ Retried

LEMMA EntryShown ==
  ASSUME RightEntry, start' = start, UNCHANGED shownVars
  PROVE  RightEntry'
<1>1. push' = push
  BY DEF shownVars
<1> QED
  BY <1>1 DEF RightEntry, Media, BoxOf, OnDemand, First, Block, MediaBase

(* Steps that leave the stream where it is.                                 *)
LEMMA PlaceKept ==
  ASSUME DashInv, PlaceInv, start' = start, UNCHANGED shownVars, posted' = posted,
         todo' = todo, frag' = frag,
         d'.index = d.index, d'.entry = d.entry, d'.allow = d.allow,
         d'.pending = d.pending, d'.sidxPos = d.sidxPos, d'.mdat = d.mdat,
         OnDemand /\ d.mdat => d'.lastRet = "EOS" /\ dpc' # "loop",
         Loading' => Loading,
         Loading' /\ Part = "media" /\ Untouched' => Untouched,
         ~Receiving', Coming'
  PROVE  PlaceInv'
<1>1. OnDemand' = OnDemand /\ Part' = Part
  BY StartFixed DEF Part
<1>2. MediaToCome' => MediaToCome
  BY <1>1 DEF MediaToCome
<1>3. EntryStart' = EntryStart /\ PartEnd("media", frag.rep)' = PartEnd("media", frag.rep)
  BY <1>1 DEF EntryStart, First, Block, PartEnd
<1>4. WholeFile' = WholeFile
  BY <1>3 DEF WholeFile
<1>5. Wanted'
  BY <1>1, <1>2, <1>3, <1>4 DEF PlaceInv, Wanted, First, Block
<1>6. Looking'
  BY <1>1, <1>2 DEF PlaceInv, Looking
<1>7. Arriving'
  BY DEF Arriving
<1>8. RightEntry' /\ Retried'
  BY EntryShown DEF PlaceInv, Retried
<1> QED
  BY <1>5, <1>6, <1>7, <1>8 DEF PlaceInv

LEMMA PlaceInit == ASSUME ReadInOrder, Init PROVE PlaceInv
<1>1. ~Loading /\ src.on = FALSE /\ ~Receiving
  BY DEF Init, Loading, NoSrc, Receiving
<1>2. d.mdat = FALSE /\ d.allow = OnDemand /\ d.index = 0
  BY DEF Init, NewStream
<1>3. push.index = 0 /\ posted = FALSE
  BY DEF Init
<1>4. ASSUME start.layout = "indexed" PROVE d.pending = Unknown
  <2>1. ~start.seek
    BY <1>4 DEF Init, ReadInOrder
  <2>2. d.pending = IF OnDemand /\ start.seek /\ Seek(Mpd, start.forward, start.target).found
                    THEN start.target - PeriodStart ELSE Unknown
    BY DEF Init, NewStream
  <2> QED
    BY <2>1, <2>2
<1> QED
  BY <1>1, <1>2, <1>3, <1>4
  DEF PlaceInv, Wanted, Coming, Looking, Arriving, RightEntry, Retried, MediaToCome

(* D's steps.                                                               *)
LEMMA PlaceUpdateInfo == ASSUME DashInv, PlaceInv, UpdateInfo PROVE PlaceInv'
<1>0. /\ start \in Starts /\ d \in Streams /\ start' = start
      /\ start.layout \in {"inline", "indexed", "list", "template"}
  BY StartType DEF DashInv, TypeOK, UpdateInfo
<1>1. /\ dpc = "loop" /\ dpc' = "open" /\ UNCHANGED <<src, spc, posted>> /\ UNCHANGED shownVars
      /\ todo' = Headers \o (IF IndexOnly THEN <<>> ELSE <<"media">>)
      /\ frag' = Request
  BY DEF UpdateInfo, sourceVars
<1>2. /\ d'.index = d.index /\ d'.entry = d.entry /\ d'.allow = d.allow /\ d'.rep = d.rep
      /\ d'.pending = d.pending /\ d'.sidxPos = d.sidxPos /\ d'.mdat = d.mdat
  BY <1>0 DEF UpdateInfo, Streams
<1>3. src.on = FALSE /\ src'.on = FALSE /\ ~Receiving /\ ~Receiving'
  BY <1>1 DEF DashInv, TypeOK, Asked, Receiving
<1>4. OnDemand' = OnDemand /\ PartEnd("media", d.rep)' = PartEnd("media", d'.rep)
  BY <1>0, <1>2, StartFixed DEF PartEnd, First, Block
<1>5. /\ OnDemand => ~d.mdat
      /\ d.needHeader => d.index = 0
      /\ d.index = 0 => d.base = 0
      /\ d.index # 0 => OnDemand /\ d.base = First /\ d.sidxPos # Unknown
  BY <1>1, <1>3 DEF DashInv, Indexed, PlaceInv, Looking
<1>6. RightEntry' /\ Retried'
  BY <1>0, <1>1, EntryShown DEF PlaceInv, Retried
<1>7. Coming' /\ Arriving'
  BY <1>3 DEF Coming, Arriving
<1>8. CASE ~d.needHeader
  <2>1. todo' = <<"media">>
    <3>1. Headers = <<>> /\ ~IndexOnly
      BY <1>8 DEF Headers, IndexOnly
    <3> QED
      BY <1>1, <3>1
  <2>2. Part' = "media" /\ ~MediaToCome'
    BY <2>1 DEF Part, MediaToCome
  <2>3. Looking'
    BY <1>1, <1>2, <1>4, <1>5, <1>0, <2>2 DEF PlaceInv, Looking
  <2>4. Wanted'
    <3>1. CASE d.index = 0
      <4>1. WholeFile'
        <5>1. frag'.from = 0 /\ frag'.to = PartEnd("media", d.rep) /\ frag'.rep = d.rep
          BY <1>1, <1>5, <3>1 DEF Request
        <5> QED
          BY <1>4, <1>2, <5>1, <1>0, StartFixed DEF WholeFile, PartEnd, First, Block
      <4> QED
        BY <1>2, <3>1, <4>1 DEF Wanted
    <3>2. CASE d.index # 0
      <4>1. /\ frag'.from = EntryStart /\ frag'.rep = d.rep
            /\ frag'.to = IF start.forward THEN PartEnd("media", d.rep) ELSE EntryStart + Block
        BY <1>1, <1>5, <3>2 DEF Request, EntryStart
      <4>2. EntryStart' = EntryStart /\ PartEnd("media", frag'.rep) = PartEnd("media", frag.rep)'
        BY <1>2, <1>4 DEF EntryStart, PartEnd, First, Block
      <4> QED
        BY <1>0, <1>2, <2>2, <3>2, <4>1, <4>2 DEF Wanted, Block
    <3> QED
      BY <3>1, <3>2
  <2> QED
    BY <1>6, <1>7, <2>3, <2>4 DEF PlaceInv
<1>9. CASE d.needHeader
  <2>1. d.index = 0 /\ d'.index = 0
    BY <1>2, <1>5, <1>9
  <2>2. WholeFile'
    <3>1. frag'.from = 0 /\ frag'.to = PartEnd("media", d.rep) /\ frag'.rep = d.rep
      BY <1>1, <1>5, <2>1 DEF Request
    <3> QED
      BY <1>4, <1>2, <3>1, <1>0, StartFixed DEF WholeFile, PartEnd, First, Block
  <2>3. Wanted'
    BY <2>1, <2>2 DEF Wanted
  <2>4. start.layout = "indexed" /\ MediaToCome' => d.sidxPos = Unknown
    <3> SUFFICES ASSUME start.layout = "indexed", d.sidxPos # Unknown PROVE ~MediaToCome'
      OBVIOUS
    <3>1. IndexOnly /\ Headers = <<"header", "index">>
      BY <1>9 DEF IndexOnly, Headers, OnDemand
    <3>2. todo' = <<"header", "index">>
      BY <1>1, <3>1, Joined
    <3> QED
      BY <3>2 DEF MediaToCome
  <2>5. Looking'
    BY <1>0, <1>1, <1>2, <1>4, <1>5, <2>4 DEF PlaceInv, Looking
  <2> QED
    BY <1>6, <1>7, <2>3, <2>5 DEF PlaceInv
<1> QED
  BY <1>8, <1>9

LEMMA PlaceEnds ==
  ASSUME DashInv, PlaceInv, NoFragment \/ Switched \/ Ended \/ Cut \/ StartOver \/ GiveUp
  PROVE  PlaceInv'
<1>0. /\ d \in Streams /\ start' = start /\ posted' = posted /\ UNCHANGED shownVars
      /\ todo' = todo /\ frag' = frag /\ src' = src /\ dpc \in {"loop", "result"}
      /\ dpc' \in {"loop", "done", "cut", "failed"}
  BY DEF DashInv, TypeOK, NoFragment, Switched, Ended, Cut, StartOver, GiveUp, ErrorStays,
         requestVars, sourceVars
<1>1. src.on = FALSE /\ ~Receiving /\ ~Receiving' /\ Coming' /\ ~Loading'
  BY <1>0 DEF DashInv, TypeOK, Asked, Receiving, Coming, Loading
<1>2. /\ d'.index = d.index /\ d'.entry = d.entry /\ d'.allow = d.allow
      /\ d'.pending = d.pending /\ d'.sidxPos = d.sidxPos /\ d'.mdat = d.mdat
  <2>1. CASE NoFragment
    BY <1>0, <2>1 DEF NoFragment, Streams
  <2>2. CASE Switched \/ Ended \/ Cut
    BY <2>2 DEF Switched, Ended, Cut
  <2>3. CASE GiveUp
    BY <1>0, <2>3 DEF GiveUp, Streams
  <2>4. CASE StartOver
    BY <1>0, <2>4 DEF StartOver, Refetched, Streams
  <2> QED
    BY <1>0, <2>1, <2>2, <2>3, <2>4
<1>3. OnDemand /\ d.mdat => d'.lastRet = "EOS" /\ dpc' # "loop"
  <2> SUFFICES ASSUME OnDemand, d.mdat PROVE d'.lastRet = "EOS" /\ dpc' # "loop"
    OBVIOUS
  <2>1. d.lastRet = "EOS" /\ dpc = "result"
    BY <1>0, <1>1 DEF PlaceInv, Looking
  <2> QED
    BY <2>1 DEF NoFragment, Switched, Ended, Cut, StartOver, GiveUp, ErrorStays,
                TakenForEnd, MediaError
<1> QED
  BY <1>0, <1>1, <1>2, <1>3, PlaceKept

LEMMA PlaceOpen == ASSUME DashInv, PlaceInv, Open PROVE PlaceInv'
<1>0. /\ start' = start /\ posted' = posted /\ UNCHANGED shownVars
      /\ todo' = todo /\ frag' = frag /\ d' = d /\ dpc = "open" /\ dpc' = "wait"
      /\ finished' = FALSE
  BY DEF Open, requestVars
<1>1. src.on = FALSE /\ ~Receiving /\ d.lastRet = "OK"
  BY <1>0 DEF DashInv, TypeOK, Asked, Receiving
<1>2. /\ src'.pos = src'.from
      /\ Part = "media" => src'.end = frag.to
  <2> DEFINE from == CASE Part = "header" -> 0 [] Part = "index" -> MoovSize
                       [] Part = "media" -> frag.from
             end == IF Part = "media" THEN frag.to ELSE PartEnd(Part, frag.rep)
  <2>1. src' = [on |-> TRUE, rep |-> frag.rep, at |-> frag.at, part |-> Part,
                from |-> from, pos |-> from, end |-> end]
    BY DEF Open, Part
  <2>2. Part = "media" => end = frag.to
    OBVIOUS
  <2> HIDE DEF from, end
  <2> QED
    BY <2>1, <2>2
<1>3. ~Receiving' /\ Coming'
  BY <1>0, <1>2 DEF Receiving, Coming, Part
<1>4. Untouched /\ Loading
  BY <1>0 DEF Untouched, Loading
<1>5. OnDemand => ~d.mdat
  BY <1>0, <1>1 DEF PlaceInv, Looking
<1> QED
  BY <1>0, <1>3, <1>4, <1>5, PlaceKept

LEMMA PlaceOpenFails == ASSUME DashInv, PlaceInv, OpenFails PROVE PlaceInv'
<1>0. /\ start' = start /\ posted' = posted /\ UNCHANGED shownVars /\ d \in Streams
      /\ todo' = todo /\ frag' = frag /\ dpc = "open" /\ dpc' = "result" /\ src' = src
  BY DEF OpenFails, requestVars, sourceVars, DashInv, TypeOK
<1>1. src.on = FALSE /\ ~Receiving /\ ~Receiving' /\ Coming' /\ d.lastRet = "OK"
  BY <1>0 DEF DashInv, TypeOK, Asked, Receiving, Coming
<1>2. /\ d'.index = d.index /\ d'.entry = d.entry /\ d'.allow = d.allow
      /\ d'.pending = d.pending /\ d'.sidxPos = d.sidxPos /\ d'.mdat = d.mdat
  BY <1>0 DEF OpenFails, Streams
<1>3. Untouched /\ Loading
  BY <1>0 DEF Untouched, Loading
<1>4. OnDemand => ~d.mdat
  BY <1>0, <1>1 DEF PlaceInv, Looking
<1> QED
  BY <1>0, <1>1, <1>2, <1>3, <1>4, PlaceKept

LEMMA PlaceWoken == ASSUME DashInv, PlaceInv, Woken PROVE PlaceInv'
<1>0. /\ start' = start /\ posted' = posted /\ UNCHANGED shownVars /\ d' = d
      /\ todo' = todo /\ frag' = frag /\ dpc = "wait" /\ dpc' = "result" /\ finished
      /\ src' = [src EXCEPT !.on = FALSE]
  BY DEF Woken, requestVars
<1>1. src'.on = FALSE /\ ~Receiving' /\ Coming'
  BY <1>0 DEF DashInv, TypeOK, Receiving, Coming
<1>2. Loading /\ (Untouched' => Untouched)
  BY <1>0, <1>1 DEF Loading, Untouched, Waiting
<1>3. OnDemand /\ d.mdat => d.lastRet = "EOS"
  <2> SUFFICES ASSUME OnDemand, d.mdat, Receiving PROVE FALSE
    BY DEF PlaceInv, Looking
  <2>1. src.on /\ d.lastRet = "OK"
    BY DEF DashInv, Transfer, Receiving
  <2>2. Part = "media"
    BY <1>2 DEF DashInv, Indexed
  <2> QED
    BY <1>0, <2>1, <2>2 DEF PlaceInv, Coming
<1> QED
  BY <1>0, <1>1, <1>2, <1>3, PlaceKept

LEMMA PlacePartDone == ASSUME DashInv, PlaceInv, PartDone PROVE PlaceInv'
<1>0. /\ start \in Starts /\ d \in Streams /\ start' = start
      /\ start.layout \in {"inline", "indexed", "list", "template"}
  BY StartType DEF DashInv, TypeOK, PartDone
<1>1. /\ dpc = "result" /\ d.lastRet = "OK" /\ todo' = Tail(todo)
      /\ dpc' = IF todo' = <<>> THEN "loop" ELSE "open"
      /\ UNCHANGED <<frag, src, posted>> /\ UNCHANGED shownVars
  BY DEF PartDone, sourceVars
<1>2. /\ d'.index = d.index /\ d'.entry = d.entry /\ d'.allow = d.allow
      /\ d'.pending = d.pending /\ d'.sidxPos = d.sidxPos /\ d'.mdat = d.mdat
  BY <1>0 DEF PartDone, Streams
<1>3. src.on = FALSE /\ ~Receiving /\ ~Receiving' /\ Coming' /\ Arriving'
  BY <1>1 DEF DashInv, TypeOK, Asked, Receiving, Coming, Arriving
<1>4. RightEntry' /\ Retried'
  BY <1>0, <1>1, EntryShown DEF PlaceInv, Retried
<1>5. OnDemand => ~d.mdat
  BY <1>1, <1>3 DEF PlaceInv, Looking
<1>6. Loading /\ todo \in Plans
  BY <1>1 DEF Loading, DashInv, Asked
<1>7. /\ MediaToCome' => MediaToCome
      /\ Loading' /\ Part' = "media" => MediaToCome
  <2>1. CASE todo' = <<>>
    BY <1>1, <2>1 DEF Loading, MediaToCome
  <2>2. CASE todo' # <<>>
    <3>1. /\ todo \in Seq(Parts) /\ todo' \in Seq(Parts) /\ Head(todo') = todo[2] /\ Part # "media"
          /\ 2 \in 2 .. Len(todo)
          /\ \A i \in 2 .. Len(todo') : i + 1 \in 2 .. Len(todo) /\ todo'[i] = todo[i + 1]
      BY <1>0, <1>1, <1>6, <2>2, PlanFacts DEF Part
    <3>2. /\ DOMAIN todo = 1 .. Len(todo) /\ DOMAIN todo' = 1 .. Len(todo')
          /\ Len(todo) \in Nat /\ Len(todo') \in Nat
      BY <3>1
    <3>3. Part' = "media" => MediaToCome
      BY <1>6, <3>1, <3>2 DEF MediaToCome, Part
    <3>4. MediaToCome' => MediaToCome
      <4> SUFFICES ASSUME NEW i \in 1 .. Len(todo'), todo'[i] = "media" PROVE MediaToCome
        BY <3>2 DEF MediaToCome
      <4>1. CASE i = 1
        BY <2>2, <3>1, <3>3, <4>1 DEF Part
      <4>2. CASE i # 1
        <5>1. i \in 2 .. Len(todo')
          BY <3>2, <4>2
        <5>2. i + 1 \in 1 .. Len(todo) /\ todo[i + 1] = "media"
          BY <3>1, <3>2, <5>1
        <5> QED
          BY <1>6, <3>1, <3>2, <5>2 DEF MediaToCome
      <4> QED
        BY <4>1, <4>2
    <3> QED
      BY <3>3, <3>4
  <2> QED
    BY <2>1, <2>2
<1>8. EntryStart' = EntryStart /\ WholeFile' = WholeFile
  BY <1>0, <1>1, <1>2, StartFixed DEF EntryStart, WholeFile, PartEnd, First, Block
<1>9. Wanted'
  <2>1. OnDemand /\ MediaToCome => WholeFile /\ (d.index # 0 => start.layout = "indexed" /\ d.entry = 0)
    BY DEF PlaceInv, Wanted, MediaToCome
  <2> QED
    BY <1>0, <1>1, <1>2, <1>7, <1>8, <2>1, StartFixed DEF Wanted
<1>10. Looking'
  BY <1>0, <1>1, <1>2, <1>5, <1>7, StartFixed DEF PlaceInv, Looking
<1> QED
  BY <1>3, <1>4, <1>9, <1>10 DEF PlaceInv

LEMMA PlaceAgain == ASSUME DashInv, PlaceInv, Again PROVE PlaceInv'
<1>0. /\ start' = start /\ posted' = posted /\ UNCHANGED shownVars /\ d \in Streams
      /\ todo' = todo /\ frag' = frag /\ dpc = "result" /\ src' = src
      /\ d.lastRet = "CUSTOM_ERROR"
  BY DEF Again, MediaError, requestVars, sourceVars, DashInv, TypeOK
<1>1. src.on = FALSE /\ ~Receiving /\ ~Receiving' /\ Coming'
  BY <1>0 DEF DashInv, TypeOK, Asked, Receiving, Coming
<1>2. /\ d'.index = d.index /\ d'.entry = d.entry /\ d'.allow = d.allow
      /\ d'.pending = d.pending /\ d'.sidxPos = d.sidxPos /\ d'.mdat = d.mdat
  BY <1>0 DEF Again, Streams
<1>3. Untouched /\ Loading
  BY <1>0 DEF Untouched, Loading
<1>4. OnDemand => ~d.mdat
  BY <1>0, <1>1 DEF PlaceInv, Looking
<1> QED
  BY <1>0, <1>1, <1>2, <1>3, <1>4, PlaceKept

LEMMA PlaceFail ==
  ASSUME Bare, DashInv, PlaceInv, NEW kind \in FaultKinds, Fail(kind)
  PROVE  PlaceInv'
<1>0. /\ start' = start /\ posted' = posted /\ UNCHANGED shownVars /\ d \in Streams
      /\ todo' = todo /\ frag' = frag /\ dpc = "wait" /\ dpc' = "wait" /\ src.on
  BY DEF Fail, requestVars, DashInv, TypeOK
<1>1. kind \in {"server", "refused"}
  BY DEF Fail, Bare
<1>2. src.pos = src.from /\ src' = [src EXCEPT !.end = src.pos]
  BY <1>1 DEF Fail
<1>3. src'.pos = src.from /\ src'.from = src.from
  BY <1>2 DEF DashInv, TypeOK
<1>4. /\ d'.index = d.index /\ d'.entry = d.entry /\ d'.allow = d.allow
      /\ d'.pending = d.pending /\ d'.sidxPos = d.sidxPos /\ d'.mdat = d.mdat
      /\ d'.lastRet # "OK"
  BY <1>0 DEF Fail, Streams
<1>5. ~Receiving /\ ~Receiving' /\ Coming'
  BY <1>2, <1>3, <1>4 DEF Receiving, Coming
<1>6. Untouched /\ Loading
  BY <1>0, <1>2 DEF Untouched, Waiting, Loading
<1>7. OnDemand => ~d.mdat
  BY <1>0, <1>5 DEF PlaceInv, Looking, DashInv, Transfer
<1> QED
  BY <1>0, <1>4, <1>5, <1>6, <1>7, PlaceKept

(* S's steps.                                                               *)
LEMMA PlaceReceive ==
  ASSUME ReadInOrder, DashInv, PlaceInv, NEW n \in 1 .. MaxBuffer, Receive(n)
  PROVE  PlaceInv'
<1>0. /\ start \in Starts /\ d \in Streams /\ start' = start /\ n \in Nat /\ n >= 1
  <2>1. start \in Starts /\ d \in Streams /\ start' = start
    BY DEF DashInv, TypeOK, Receive
  <2>2. n \in Nat /\ n >= 1
    BY SizesAssumption
  <2> QED
    BY <2>1, <2>2
<1>1. /\ src.on /\ spc = "idle" /\ src.pos + n <= src.end /\ starting' = FALSE
      /\ spc' = IF d.mdat THEN "mdat" ELSE "parse"
      /\ UNCHANGED <<todo, frag, dpc, finished, posted>>
      /\ UNCHANGED shownVars
  BY DEF Receive, requestVars, countVars
<1>2. d.lastRet = "OK"
  <2>1. src.pos \in Int /\ src.end \in Int
    BY DEF DashInv, TypeOK
  <2> QED
    BY <1>0, <1>1, <2>1 DEF DashInv, Transfer
<1>3. /\ dpc = "wait" /\ Loading /\ src.rep = d.rep /\ src.part = Part /\ Part \in Parts
      /\ src.from \in Nat /\ src.pos \in Int /\ src.end \in Int /\ src.from <= src.pos
  BY <1>1, <1>2, InTransfer
<1>4. /\ src'.on /\ src'.part = src.part /\ src'.from = src.from
      /\ src'.pos = src.pos + n /\ src'.end = src.end
  BY DEF Receive, DashInv, TypeOK
<1>5. /\ d' \in Streams /\ Len(d'.queue) \in Nat /\ Len(d'.queue) >= n
      /\ src.pos + n = d'.off + Len(d'.queue)
      /\ d'.index = d.index /\ d'.entry = d.entry /\ d'.sidxPos = d.sidxPos
      /\ d'.pending = d.pending /\ d'.mdat = d.mdat /\ d'.lastRet = d.lastRet
      /\ d'.allow = d.allow /\ d'.rep = d.rep
      /\ (Waiting /\ d'.off = src.from) \/ (Receiving /\ d'.off = d.off)
  BY ReceiveFacts
<1>6. Receiving' /\ ~Untouched' /\ Part' = Part /\ Loading' /\ (MediaToCome' <=> MediaToCome)
  BY <1>0, <1>1, <1>2, <1>3, <1>4, <1>5
  DEF Receiving, Untouched, Waiting, Part, Loading, MediaToCome
<1>7. /\ OnDemand' = OnDemand /\ EntryStart' = EntryStart /\ WholeFile' = WholeFile
      /\ PartEnd("media", d.rep)' = PartEnd("media", d.rep)
      /\ PartEnd("media", frag.rep)' = PartEnd("media", frag.rep)
  BY <1>0, <1>1, <1>5, StartFixed DEF EntryStart, WholeFile, PartEnd, First, Block
<1>8. RightEntry' /\ Retried'
  BY <1>0, <1>1, EntryShown DEF PlaceInv, Retried
<1>9. Wanted'
  BY <1>0, <1>1, <1>5, <1>6, <1>7 DEF PlaceInv, Wanted, MediaToCome
<1>10. Coming'
  BY <1>1, <1>2, <1>4, <1>5, <1>6, <1>7 DEF PlaceInv, Coming
<1>11. Looking'
  BY <1>0, <1>1, <1>5, <1>6, <1>7 DEF PlaceInv, Looking
<1>12. d'.queue # <<>>
  BY <1>0, <1>5
<1>13. OnDemand /\ Part = "media" => src.end = frag.to
  BY <1>1, <1>2 DEF PlaceInv, Coming
<1>14. First \in Nat /\ Block \in Nat \ {0} /\ d.entry \in Int /\ EntryStart \in Int
  BY <1>0, Sizes, FieldTypes DEF EntryStart
<1>15. HasNextSubfragment(d)' = HasNextSubfragment(d)
  BY <1>0, <1>5 DEF HasNextSubfragment
<1>16. Arriving'
  <2> SUFFICES ASSUME OnDemand, Part = "media"
               PROVE  IF d.index = 0 THEN ~d.mdat /\ WholeFile /\ (d'.off = 0 \/ d'.off = MoovSize)
                      ELSE /\ start.forward => src.end = PartEnd("media", d.rep)
                           /\ IF d.mdat THEN InMdat' ELSE BeforeMdat'
    BY <1>0, <1>4, <1>5, <1>6, <1>7 DEF Arriving
  <2>1. CASE Waiting /\ d'.off = src.from
    <3>1. ~Receiving /\ Untouched /\ src.from = frag.from
      BY <1>1, <1>3, <2>1 DEF Waiting, Receiving, Untouched, DashInv, Transfer
    <3>2. ~d.mdat
      BY <1>2, <3>1 DEF PlaceInv, Looking
    <3>3. frag.rep = d.rep
      BY <1>1, <1>2, <1>3, InTransfer
    <3>4. \/ WholeFile /\ (d.index # 0 => start.layout = "indexed" /\ d.entry = 0)
          \/ /\ d.index # 0 /\ frag.from = EntryStart
             /\ frag.to = IF start.forward THEN PartEnd("media", frag.rep) ELSE EntryStart + Block
      BY <1>3, <3>1 DEF PlaceInv, Wanted
    <3>5. CASE d.index = 0
      BY <2>1, <3>1, <3>2, <3>4, <3>5 DEF WholeFile
    <3>6. CASE d.index # 0 /\ WholeFile
      <4>1. frag.from # EntryStart
        <5>1. d.entry >= 0
          BY <3>6 DEF DashInv, TypeOK
        <5>2. \A e \in Nat : First + e * Block # 0
          BY Sizes
        <5>3. d.entry \in Nat
          BY <1>14, <5>1
        <5>4. EntryStart # 0
          BY <5>2, <5>3 DEF EntryStart
        <5> QED
          BY <3>6, <5>4 DEF WholeFile
      <4>2. start.layout = "indexed" /\ d.entry = 0
        BY <3>4, <3>6, <4>1
      <4>3. start.forward
        BY <1>0, <4>2 DEF ReadInOrder
      <4>4. BeforeMdat'
        BY <1>0, <1>5, <2>1, <3>1, <3>6, <4>2, <4>3 DEF BeforeMdat, WholeFile
      <4> QED
        BY <1>13, <3>2, <3>3, <3>6, <4>4 DEF WholeFile
    <3>7. CASE d.index # 0 /\ ~WholeFile
      <4>1. BeforeMdat'
        BY <1>0, <1>4, <1>5, <1>7, <1>13, <2>1, <3>1, <3>4, <3>7 DEF BeforeMdat, First, Block
      <4> QED
        BY <1>13, <3>2, <3>3, <3>4, <3>7, <4>1
    <3> QED
      BY <3>5, <3>6, <3>7
  <2>2. CASE Receiving /\ d'.off = d.off
    <3>1. IF d.index = 0 THEN ~d.mdat /\ WholeFile /\ (d.off = 0 \/ d.off = MoovSize)
          ELSE /\ start.forward => src.end = PartEnd("media", d.rep)
               /\ IF d.mdat THEN InMdat ELSE BeforeMdat
      BY <2>2 DEF PlaceInv, Arriving
    <3>2. src.pos # src.end
      BY <1>0, <1>1, <1>3
    <3>3. BeforeMdat => BeforeMdat'
      BY <1>0, <1>4, <1>5, <1>7, <2>2, <3>2 DEF BeforeMdat, First, Block
    <3>4. InMdat /\ d.mdat => InMdat'
      BY <1>0, <1>1, <1>4, <1>5, <1>7, <1>12, <1>15, <2>2, <3>2 DEF InMdat, First, Block
    <3> QED
      BY <2>2, <3>1, <3>3, <3>4
  <2> QED
    BY <1>5, <2>1, <2>2
<1> QED
  BY <1>8, <1>9, <1>10, <1>11, <1>16 DEF PlaceInv

(* The boxes of an entry.                                                   *)
LEMMA BlockPlace ==
  ASSUME NEW e \in Nat, NEW k \in 0 .. Block - 1
  PROVE  (e * Block + k) % Block = k /\ (e * Block + k) \div Block = e
BY Sizes

LEMMA BoxAt ==
  ASSUME OnDemand, NEW e \in Nat, NEW k \in 0 .. Block - 1, NEW u, u = First + e * Block + k
  PROVE  /\ u \in Nat /\ u >= First
         /\ BoxOf("media", u) = IF k < MoofSize THEN "moof" ELSE "mdat"
         /\ (u - First) \div Block = e
         /\ LastOfBox("media", u) => k + 1 = MoofSize \/ k + 1 = Block
<1>1. /\ e * Block \in Nat /\ First \in Nat /\ k \in Nat /\ k < Block /\ Block \in Nat
      /\ MoofSize \in Nat /\ MoovSize < First /\ MoofSize < Block /\ MoovSize \in Nat
  BY Sizes
<1>2. u \in Nat /\ u >= First /\ u - First = e * Block + k /\ ~(u < First) /\ ~(u < MoovSize)
  BY <1>1
<1>3. (e * Block + k) % Block = k /\ (e * Block + k) \div Block = e
  BY BlockPlace
<1>4. BoxOf("media", u) = IF k < MoofSize THEN "moof" ELSE "mdat"
  BY <1>2, <1>3 DEF BoxOf, MediaBase
<1>5. ASSUME LastOfBox("media", u) PROVE k + 1 = MoofSize \/ k + 1 = Block
  <2>1. (u + 1 - First) % Block \in {0, MoofSize}
    BY <1>2, <1>5 DEF LastOfBox, MediaBase
  <2>2. u + 1 - First = e * Block + (k + 1)
    BY <1>1
  <2>3. CASE k + 1 < Block
    <3>1. k + 1 \in 0 .. Block - 1
      BY <1>1, <2>3
    <3>2. (e * Block + (k + 1)) % Block = k + 1
      BY <3>1, BlockPlace
    <3> QED
      BY <1>1, <2>1, <2>2, <3>2
  <2> QED
    BY <1>1, <2>3
<1> QED
  BY <1>2, <1>3, <1>4, <1>5

LEMMA BoxBefore ==
  ASSUME OnDemand, NEW u \in Nat, u < First
  PROVE  /\ BoxOf("media", u) = IF u < MoovSize THEN "moov" ELSE "sidx"
         /\ LastOfBox("media", u) <=> u + 1 = MoovSize \/ u + 1 = First
<1>1. MoovSize < First /\ MoovSize \in Nat /\ First \in Nat
  BY Sizes
<1> QED
  BY <1>1 DEF BoxOf, LastOfBox

LEMMA MdatAt ==
  ASSUME OnDemand, NEW e \in Nat
  PROVE  BoxOf("media", First + e * Block + MoofSize) = "mdat"
<1>1. MoofSize \in 0 .. Block - 1 /\ MoofSize \in Nat
  BY Sizes
<1> DEFINE u == First + e * Block + MoofSize
<1>2. BoxOf("media", u) = IF MoofSize < MoofSize THEN "moof" ELSE "mdat"
  BY <1>1, BoxAt
<1> QED
  BY <1>1, <1>2

(* Whole boxes that are not mdats end where the next mdat begins, or before.*)
LEMMA WholeBoxesEnd ==
  ASSUME OnDemand, NEW o \in Nat, NEW n \in Nat,
         \A j \in 0 .. n - 1 : BoxOf("media", o + j) # "mdat",
         n # 0 => LastOfBox("media", o + n - 1)
  PROVE  /\ \A e \in Nat : o = First + e * Block => n = 0 \/ n = MoofSize
         /\ \A e \in Nat : o = First + e * Block + MoofSize => n = 0
         /\ o = 0 \/ o = MoovSize =>
              o + n \in {0, MoovSize, First, First + MoofSize}
<1>1. /\ MoovSize \in Nat /\ First \in Nat /\ MoofSize \in Nat \ {0} /\ Block \in Nat
      /\ MoovSize < First /\ MoofSize < Block
  BY Sizes
<1>2. ASSUME NEW e \in Nat, o = First + e * Block PROVE n = 0 \/ n = MoofSize
  <2>0. e * Block \in Nat
    BY <1>1
  <2>1. n <= MoofSize
    <3> SUFFICES ASSUME n > MoofSize PROVE FALSE
      BY <1>1
    <3>1. MoofSize \in 0 .. n - 1 /\ MoofSize \in 0 .. Block - 1
      BY <1>1
    <3>2. BoxOf("media", First + e * Block + MoofSize) = "mdat"
      BY <1>2, MdatAt
    <3>3. o + MoofSize = First + e * Block + MoofSize
      BY <1>2
    <3> QED
      BY <3>1, <3>2, <3>3
  <2>2. CASE n # 0
    <3>1. n - 1 \in 0 .. Block - 1 /\ o + n - 1 = First + e * Block + (n - 1)
      BY <1>1, <1>2, <2>0, <2>1, <2>2
    <3>2. (n - 1) + 1 = MoofSize \/ (n - 1) + 1 = Block
      BY <2>2, <3>1, BoxAt
    <3> QED
      BY <1>1, <2>1, <3>2
  <2> QED
    BY <2>2
<1>3. ASSUME NEW e \in Nat, o = First + e * Block + MoofSize PROVE n = 0
  <2>2. BoxOf("media", First + e * Block + MoofSize) = "mdat"
    BY <1>3, MdatAt
  <2> SUFFICES ASSUME n # 0 PROVE FALSE
    OBVIOUS
  <2>3. 0 \in 0 .. n - 1 /\ o + 0 = o
    OBVIOUS
  <2> QED
    BY <1>3, <2>2, <2>3
<1>4. ASSUME o = 0 \/ o = MoovSize PROVE o + n \in {0, MoovSize, First, First + MoofSize}
  <2>1. CASE n = 0
    BY <1>1, <1>4, <2>1
  <2>2. CASE n # 0 /\ o + n <= First
    <3>1. o + n - 1 \in Nat /\ o + n - 1 < First
      BY <1>1, <2>2
    <3>2. (o + n - 1) + 1 = MoovSize \/ (o + n - 1) + 1 = First
      BY <2>2, <3>1, BoxBefore
    <3> QED
      BY <3>2
  <2>3. CASE o + n > First
    <3> DEFINE k == o + n - 1 - First
    <3>1. k \in Nat /\ o + n - 1 = First + k /\ o + n = First + (k + 1)
      BY <1>1, <2>3
    <3> HIDE DEF k
    <3>2. k < MoofSize
      <4> SUFFICES ASSUME k >= MoofSize PROVE FALSE
        BY <1>1, <3>1
      <4>1. First + MoofSize - o \in 0 .. n - 1 /\ o + (First + MoofSize - o) = First + 0 * Block + MoofSize
        BY <1>1, <1>4, <3>1
      <4>2. BoxOf("media", First + 0 * Block + MoofSize) = "mdat"
        BY MdatAt
      <4> QED
        BY <4>1, <4>2
    <3>3. k \in 0 .. Block - 1 /\ 0 \in Nat /\ o + n - 1 = First + 0 * Block + k
      BY <1>1, <3>1, <3>2
    <3>4. k + 1 = MoofSize \/ k + 1 = Block
      <4>1. n # 0
        BY <1>1, <1>4, <2>3
      <4>2. LastOfBox("media", First + 0 * Block + k)
        BY <3>3, <4>1
      <4> QED
        BY <3>3, <4>2, BoxAt
    <3> QED
      BY <1>1, <3>1, <3>2, <3>4
  <2> QED
    BY <1>1, <2>1, <2>2, <2>3
<1> QED
  BY <1>2, <1>3, <1>4

(* The mdat of an entry is behind its moof.                                 *)
LEMMA MdatBehind ==
  ASSUME OnDemand, NEW e \in Nat, NEW o \in Nat, BoxOf("media", o) = "mdat",
         \/ o = First + e * Block \/ o = First + e * Block + MoofSize \/ o < First
  PROVE  o = First + e * Block + MoofSize
<1>1. ~(o < First)
  BY BoxBefore
<1>2. o # First + e * Block
  <2>1. 0 \in 0 .. Block - 1 /\ 0 < MoofSize /\ First + e * Block + 0 = First + e * Block
    BY Sizes
  <2> DEFINE u == First + e * Block + 0
  <2>2. BoxOf("media", u) = IF 0 < MoofSize THEN "moof" ELSE "mdat"
    BY <2>1, BoxAt
  <2> QED
    BY <2>1, <2>2
<1> QED
  BY <1>1, <1>2

(* What has been pushed belongs to the entry if no mdat of another has been.*)
LEMMA EntryPush ==
  ASSUME DashInv, RightEntry, spc # "idle", start' = start,
         NEW n \in 0 .. Len(d.queue), Push(d, SubSeq(d.queue, 1, n)),
         d.index # 0 /\ Part = "media" =>
           \A i \in 1 .. n : BoxOf("media", d.queue[i]) = "mdat" =>
             (d.queue[i] - First) \div Block = d.entry
  PROVE  RightEntry'
<1> DEFINE q == SubSeq(d.queue, 1, n)
<1>1. /\ d.off \in Nat /\ d.queue \in Seq(Int) /\ src.part = Part
      /\ \A i \in 1 .. Len(d.queue) : d.queue[i] = d.off + i - 1
  BY AtHand, InTransfer, FieldTypes DEF DashInv, TypeOK
<1>2. /\ q \in Seq(Int) /\ Len(q) = n /\ (q = <<>> <=> n = 0)
      /\ \A i \in 1 .. n : q[i] = d.queue[i]
  <2>1. /\ q \in Seq(Int) /\ Len(q) = n /\ (q = <<>> <=> n = 0)
        /\ \A i \in 1 .. n : q[i] = d.off + i - 1
    <3>1. d.off \in Int
      BY <1>1
    <3> QED
      BY <1>1, <3>1, PushedUnits
  <2>2. \A i \in 1 .. n : i \in 1 .. Len(d.queue)
    BY <1>1
  <2> HIDE DEF q
  <2> QED
    BY <1>1, <2>1, <2>2
<1>3. CASE q = <<>>
  BY <1>3, EntryShown DEF Push
<1>4. CASE q # <<>>
  <2> HIDE DEF q
  <2>1. push' = [part |-> Part, rep |-> src.rep, at |-> src.at, units |-> q,
                 off |-> d.off, index |-> d.index, entry |-> d.entry]
    <3>1. Push(d, q)
      BY DEF q
    <3> QED
      BY <1>1, <1>4, <3>1 DEF Push
  <2>2. /\ push'.part = Part /\ push'.units = q /\ push'.index = d.index
        /\ push'.entry = d.entry
    BY <2>1
  <2>3. \A u : BoxOf("media", u)' = BoxOf("media", u)
    BY DEF BoxOf, OnDemand, First, Block, MediaBase
  <2>4. ASSUME NEW u \in Media', d.index # 0, BoxOf("media", u) = "mdat"
        PROVE  (u - First) \div Block = d.entry
    <3>1. PICK i \in DOMAIN q : u = q[i] /\ Part = "media"
      BY <2>2, <2>4 DEF Media
    <3>2. i \in 1 .. n
      BY <1>2, <3>1
    <3> QED
      BY <1>2, <2>4, <3>1, <3>2
  <2> QED
    BY <2>2, <2>3, <2>4 DEF RightEntry, First, Block
<1> QED
  BY <1>3, <1>4

LEMMA RestLength ==
  ASSUME NEW u \in Seq(Int), NEW n \in 0 .. Len(u)
  PROVE  LET w == SubSeq(u, n + 1, Len(u))
         IN w \in Seq(Int) /\ Len(w) = Len(u) - n
<1>1. Len(u) \in Nat
  OBVIOUS
<1> QED
  BY <1>1

(* Where nothing is remembered, reading begins with the first entry.        *)
LEMMA ReadFromFirst ==
  ASSUME start \in Starts, start.forward, NEW x \in Streams, x.pending = Unknown,
         x.sidxPos = Unknown, NEW r \in Reps, NEW o \in Int
  PROVE  ReadSidx(x, r, o).entry = 0
BY DEF ReadSidx, Streams

LEMMA PlaceParse ==
  ASSUME ReadInOrder, DashInv, DashInv', PlaceInv, Parse
  PROVE  PlaceInv'
<1>0. /\ start \in Starts /\ d \in Streams /\ start' = start /\ spc = "parse" /\ spc # "idle"
      /\ UNCHANGED <<todo, frag, dpc, posted>>
  BY DEF DashInv, TypeOK, Parse, requestVars
<1>1. /\ Receiving /\ src.on /\ d.lastRet = "OK" /\ d.off \in Nat
      /\ src.pos = d.off + Len(d.queue) /\ Len(d.queue) \in Nat
      /\ \A i \in 1 .. Len(d.queue) : d.queue[i] = d.off + i - 1
      /\ Part = "header" => \A i \in 1 .. Len(d.queue) : d.queue[i] < MoovSize
      /\ Part = "index" => \A i \in 1 .. Len(d.queue) : d.queue[i] < First
  BY <1>0, AtHand
<1>2. /\ dpc = "wait" /\ Loading /\ src.rep = d.rep /\ src.rep = frag.rep /\ src.rep \in Reps
      /\ src.part = Part /\ Part \in Parts
      /\ src.pos \in Int /\ src.end \in Int /\ src.pos <= src.end
      /\ Part = "index" => start.layout = "indexed"
  BY <1>1, InTransfer
<1>3. PICK p \in {Parsed(d, src.part)} :
        LET ends == p.jump /\ src.part # "index"
        IN /\ d' = p.x /\ Push(d, SubSeq(d.queue, 1, p.n))
           /\ spc' = IF ~ends /\ p.x.mdat /\ p.x.queue # <<>> THEN "mdat" ELSE "idle"
           /\ finished' = (finished \/ ends)
           /\ src' = IF ends THEN [src EXCEPT !.on = FALSE] ELSE src
           /\ ends => src.part = "media"
  BY ParseFacts
<1>4. p = Parsed(d, src.part) /\ Remembered(d)
  BY <1>3 DEF DashInv, Indexed
<1>5. /\ p.n \in 0 .. Len(d.queue) /\ p.jump \in BOOLEAN
      /\ p.n # 0 => LastOfBox(Part, d.queue[p.n])
      /\ \A i \in 1 .. p.n : BoxOf(Part, d.queue[i]) # "mdat"
      /\ d'.off = d.off + p.n
      /\ d'.queue = SubSeq(d.queue, p.n + 1, Len(d.queue))
      /\ d'.mdat = (/\ ~p.jump /\ p.n < Len(d.queue)
                    /\ BoxOf(Part, d.queue[p.n + 1]) = "mdat")
      /\ d' \in Streams /\ SameButIndex(d', d)
      /\ ReadsNone(p, d, Part) \/ \E i \in 1 .. p.n : Reads(p, d, Part, i)
  BY <1>0, <1>2, <1>3, <1>4, ParsedFacts
<1>6. RightEntry' /\ Retried'
  <2>1. \A i \in 1 .. p.n : i \in 1 .. Len(d.queue)
    BY <1>1, <1>5
  <2>2. RightEntry'
    BY <1>0, <1>3, <1>5, EntryPush DEF PlaceInv
  <2> QED
    BY <1>0, <2>2 DEF PlaceInv, Retried
<1>7. /\ OnDemand' = OnDemand /\ Part' = Part /\ Loading' /\ WholeFile' = WholeFile
      /\ d'.lastRet = "OK" /\ ~Untouched /\ (MediaToCome' <=> MediaToCome)
      /\ d'.rep = d.rep
  <2>1. OnDemand' = OnDemand /\ Part' = Part /\ Loading' /\ WholeFile' = WholeFile
    BY <1>0, <1>2, StartFixed DEF WholeFile, PartEnd, First, Block, Part, Loading
  <2>2. d'.lastRet = "OK" /\ d'.rep = d.rep
    BY <1>1, <1>5 DEF SameButIndex
  <2>3. ~Untouched
    BY <1>1, <1>2 DEF Untouched, Waiting, Receiving
  <2> QED
    BY <1>0, <1>2, <2>1, <2>2, <2>3 DEF MediaToCome
<1>8. ~Untouched'
  <2>1. ~Waiting'
    BY <1>1, <1>3, <1>2 DEF Waiting, Receiving, DashInv, TypeOK
  <2> QED
    BY <1>0, <1>2, <1>7, <2>1 DEF Untouched
<1>9. CASE ~OnDemand
  <2>1. start.layout # "indexed"
    BY <1>9 DEF OnDemand
  <2> QED
    BY <1>0, <1>6, <1>7, <1>9, <2>1 DEF PlaceInv, Wanted, Coming, Looking, Arriving
<1>10. CASE OnDemand /\ Part # "media"
  <2>1. ~d'.mdat /\ ~(p.jump /\ src.part # "index")
    BY <1>2, <1>3, <1>7, <1>10 DEF DashInv, Indexed
  <2>2. ASSUME NEW i \in 1 .. p.n PROVE BoxOf(Part, d.queue[i]) # "moof"
    <3>0. p.n \in Nat /\ p.n <= Len(d.queue)
      BY <1>1, <1>5
    <3>1. i \in 1 .. Len(d.queue) /\ d.queue[i] \in Nat
      <4>1. i \in 1 .. Len(d.queue)
        BY <1>1, <2>2, <3>0
      <4>2. d.queue[i] = d.off + i - 1 /\ i \in Nat /\ i >= 1
        BY <1>1, <4>1
      <4> QED
        BY <1>1, <4>1, <4>2
    <3>2. d.queue[i] < First
      BY <1>1, <1>2, <1>10, <3>1, Sizes DEF Parts
    <3> QED
      BY <1>10, <3>2 DEF BoxOf
  <2>3. CASE ReadsNone(p, d, Part)
    <3>1. /\ d'.index = d.index /\ d'.entry = d.entry /\ d'.allow = d.allow
          /\ d'.pending = d.pending /\ d'.sidxPos = d.sidxPos
      <4>1. p.x.allow = (d.allow /\ ~\E i \in 1 .. p.n : BoxOf(Part, d.queue[i]) = "moof")
        BY <2>3 DEF ReadsNone
      <4>2. d.allow \in BOOLEAN
        BY <1>0, FieldTypes
      <4>3. p.x.allow = d.allow
        BY <2>2, <4>1, <4>2
      <4> QED
        BY <1>3, <2>3, <4>3 DEF ReadsNone, SameIndex
    <3>2. EntryStart' = EntryStart
      BY <3>1 DEF EntryStart, First, Block
    <3> QED
      BY <1>0, <1>6, <1>7, <1>8, <1>10, <2>1, <3>1, <3>2
      DEF PlaceInv, Wanted, Coming, Looking, Arriving
  <2>4. CASE \E i \in 1 .. p.n : Reads(p, d, Part, i)
    <3>1. PICK i \in 1 .. p.n : Reads(p, d, Part, i)
      BY <2>4
    <3>2. /\ Part # "header" /\ d'.index = d.rep /\ d'.pending = Unknown /\ d.off + i = First
      BY <1>0, <1>2, <1>3, <1>4, <1>5, <3>1, ReadFacts
    <3>3. d'.index # 0 /\ ~d'.allow /\ d.index = 0
      <4>1. d.allow /\ ~d'.allow
        BY <1>3, <3>1 DEF Reads
      <4> QED
        BY <1>0, <1>10, <3>2, <4>1, FieldTypes, RepsFacts DEF PlaceInv, Looking
    <3>4. start.layout = "indexed"
      BY <1>2, <1>10, <3>2 DEF Parts
    <3>5. MediaToCome => d'.entry = 0
      <4> SUFFICES ASSUME MediaToCome PROVE d'.entry = 0
        OBVIOUS
      <4>1. d.pending = Unknown /\ d.sidxPos = Unknown /\ start.forward
        BY <1>0, <3>3, <3>4 DEF PlaceInv, Looking, ReadInOrder
      <4>2. d.off + i \in Int
        BY <3>2, Sizes
      <4>3. ReadSidx(d, src.rep, d.off + i).entry = 0
        BY <1>0, <1>2, <4>1, <4>2, ReadFromFirst
      <4> QED
        BY <1>3, <3>1, <4>3 DEF Reads, SameIndex
    <3>6. WholeFile \/ ~MediaToCome
      BY <1>10 DEF PlaceInv, Wanted
    <3> QED
      BY <1>0, <1>6, <1>7, <1>8, <1>10, <2>1, <3>2, <3>3, <3>4, <3>5, <3>6
      DEF PlaceInv, Wanted, Coming, Looking, Arriving
  <2> QED
    BY <1>5, <2>3, <2>4
<1>11. CASE OnDemand /\ Part = "media"
  <2> DEFINE n == p.n
  <2>1. /\ n \in Nat /\ n <= Len(d.queue)
        /\ \A j \in 0 .. n - 1 : BoxOf("media", d.off + j) # "mdat"
        /\ n # 0 => LastOfBox("media", d.off + n - 1)
    <3>1. n \in Nat /\ n <= Len(d.queue)
      BY <1>1, <1>5
    <3>2. ASSUME NEW j \in 0 .. n - 1 PROVE BoxOf("media", d.off + j) # "mdat"
      <4>1. j + 1 \in 1 .. n /\ j + 1 \in 1 .. Len(d.queue) /\ d.off + (j + 1) - 1 = d.off + j
        BY <1>1, <3>1, <3>2
      <4>2. d.queue[j + 1] = d.off + j
        BY <1>1, <4>1
      <4> QED
        BY <1>5, <1>11, <4>1, <4>2
    <3>3. n # 0 => LastOfBox("media", d.off + n - 1)
      <4> SUFFICES ASSUME n # 0 PROVE LastOfBox("media", d.off + n - 1)
        OBVIOUS
      <4>1. n \in 1 .. Len(d.queue)
        BY <3>1
      <4>2. d.queue[n] = d.off + n - 1
        BY <1>1, <4>1
      <4> QED
        BY <1>5, <1>11, <4>2
    <3> QED
      BY <3>1, <3>2, <3>3
  <2>2. /\ \A e \in Nat : d.off = First + e * Block => n = 0 \/ n = MoofSize
        /\ \A e \in Nat : d.off = First + e * Block + MoofSize => n = 0
        /\ d.off = 0 \/ d.off = MoovSize =>
             d.off + n \in {0, MoovSize, First, First + MoofSize}
    BY <1>1, <1>11, <2>1, WholeBoxesEnd
  <2>3. d'.mdat => ~p.jump /\ n < Len(d.queue) /\ BoxOf("media", d'.off) = "mdat"
    <3> SUFFICES ASSUME d'.mdat PROVE ~p.jump /\ n < Len(d.queue) /\ BoxOf("media", d'.off) = "mdat"
      OBVIOUS
    <3>1. ~p.jump /\ n < Len(d.queue) /\ BoxOf("media", d.queue[n + 1]) = "mdat"
      BY <1>5, <1>11
    <3>2. n + 1 \in 1 .. Len(d.queue) /\ d.off + (n + 1) - 1 = d.off + n
      BY <1>1, <2>1, <3>1
    <3>3. d.queue[n + 1] = d.off + n
      BY <1>1, <3>2
    <3> QED
      BY <1>5, <3>1, <3>3
  <2>4. IF d.index = 0 THEN ~d.mdat /\ WholeFile /\ (d.off = 0 \/ d.off = MoovSize)
        ELSE /\ start.forward => src.end = PartEnd("media", d.rep)
             /\ IF d.mdat THEN InMdat ELSE BeforeMdat
    BY <1>1, <1>11 DEF PlaceInv, Arriving
  <2>5. ~d.mdat
    BY <1>0, <2>4 DEF InMdat
  <2>6. src.end = frag.to /\ ~finished /\ (d.allow <=> d.index = 0)
    BY <1>1, <1>11 DEF PlaceInv, Coming, Looking
  <2>7. Len(d'.queue) = Len(d.queue) - n /\ (d'.queue = <<>> <=> n = Len(d.queue))
    <3>1. d.queue \in Seq(Int)
      BY <1>0, FieldTypes
    <3> DEFINE w == SubSeq(d.queue, n + 1, Len(d.queue))
    <3>2. w \in Seq(Int) /\ Len(w) = Len(d.queue) - n
      <4>1. n \in 0 .. Len(d.queue)
        BY <1>5
      <4> QED
        BY <3>1, <4>1, RestLength
    <3>3. d'.queue = w
      BY <1>5
    <3> HIDE DEF w, n
    <3> QED
      BY <1>1, <2>1, <3>2, <3>3
  <2> HIDE DEF n
  <2>8. CASE p.jump
    <3>1. PICK i \in 1 .. p.n : Reads(p, d, Part, i)
      BY <1>5, <2>8 DEF ReadsNone
    <3>2. d'.index = d.rep /\ d'.pending = Unknown /\ ~d'.allow /\ d'.index # 0
      <4>1. d'.index = d.rep /\ d'.pending = Unknown
        BY <1>0, <1>2, <1>3, <1>4, <1>5, <3>1, ReadFacts
      <4> QED
        BY <1>0, <1>3, <3>1, <4>1, FieldTypes, RepsFacts DEF Reads
    <3>3. src'.on = FALSE
      BY <1>2, <1>3, <1>11, <2>8 DEF DashInv, TypeOK
    <3> QED
      BY <1>0, <1>6, <1>7, <1>8, <1>11, <2>3, <2>8, <3>2, <3>3
      DEF PlaceInv, Wanted, Coming, Looking, Arriving, Receiving, MediaToCome
  <2>9. CASE ~p.jump
    <3>1. /\ src' = src /\ finished' = finished
          /\ spc' = IF d'.mdat /\ d'.queue # <<>> THEN "mdat" ELSE "idle"
      <4>1. (p.jump /\ src.part # "index") = FALSE /\ finished \in BOOLEAN
        BY <2>9 DEF DashInv, TypeOK
      <4> QED
        BY <1>3, <4>1
    <3>2. Receiving' /\ PartEnd("media", d.rep)' = PartEnd("media", d.rep)
      BY <1>0, <1>1, <1>7, <3>1, StartFixed DEF Receiving, PartEnd, First, Block
    <3>3. Coming' /\ Wanted'
      <4>1. Coming'
        BY <1>0, <1>7, <1>11, <2>6, <3>1 DEF Coming
      <4>2. Wanted'
        BY <1>7, <1>8, <1>11 DEF Wanted, MediaToCome
      <4> QED
        BY <4>1, <4>2
    <3>4. d'.mdat => spc' = "mdat" /\ d'.queue # <<>>
      BY <1>1, <2>1, <2>3, <2>7, <3>1
    <3>5. CASE ReadsNone(p, d, Part) /\ d.index # 0
      <4>1. /\ d'.index = d.index /\ d'.entry = d.entry /\ ~d'.allow
            /\ d'.pending = d.pending /\ d'.sidxPos = d.sidxPos
        BY <1>3, <2>6, <3>5 DEF ReadsNone, SameIndex
      <4>2. EntryStart' = EntryStart /\ d.entry \in Nat /\ d.index \in Reps
        <5>1. d.entry \in Int /\ d.entry >= 0 /\ d.index \in Reps
          <6>1. d.index \in Reps /\ d.entry \in Int
            BY <1>0, <3>5, FieldTypes
          <6>2. d.entry \in 0 .. Entries(d.index) - 1 /\ Entries(d.index) \in Nat
            BY <3>5, <6>1, EntryFacts DEF DashInv, TypeOK
          <6> QED
            BY <6>1, <6>2
        <5> QED
          BY <4>1, <5>1 DEF EntryStart, First, Block
      <4>3. Looking'
        BY <1>0, <1>7, <1>11, <2>3, <3>2, <3>5, <4>1 DEF PlaceInv, Looking, MediaToCome
      <4>4. EntryStart \in Nat /\ MoofSize \in Nat /\ Block \in Nat /\ MoofSize < Block
        BY <4>2, Sizes DEF EntryStart
      <4>5. IF d'.mdat THEN InMdat' ELSE BeforeMdat'
        <5>0. d'.mdat => d'.off \in Nat /\ BoxOf("media", d'.off) = "mdat"
          <6>1. d'.off \in Nat
            BY <1>1, <1>5, <2>1 DEF n
          <6> QED
            BY <2>3, <6>1
        <5>1. CASE /\ d.off = EntryStart \/ d.off = EntryStart + MoofSize
                   /\ ~start.forward => src.end = EntryStart + Block
          <6>1. d'.off = EntryStart \/ d'.off = EntryStart + MoofSize
            <7>1. /\ d.off = EntryStart => n = 0 \/ n = MoofSize
                  /\ d.off = EntryStart + MoofSize => n = 0
              BY <2>2, <4>2 DEF EntryStart
            <7>2. d'.off = d.off + n
              BY <1>5 DEF n
            <7> QED
              <8>1. CASE n = 0
                BY <1>1, <5>1, <7>2, <8>1
              <8>2. CASE n = MoofSize /\ d.off = EntryStart
                BY <7>2, <8>2
              <8> QED
                BY <5>1, <7>1, <8>1, <8>2
          <6>2. d'.mdat => d'.off = EntryStart + MoofSize
            BY <1>11, <4>2, <5>0, <6>1, MdatBehind DEF EntryStart
          <6>3. d'.mdat => InMdat'
            BY <1>0, <3>1, <3>4, <4>2, <4>4, <5>1, <6>2 DEF InMdat, First, Block
          <6>4. BeforeMdat'
            BY <1>0, <3>1, <4>2, <5>1, <6>1 DEF BeforeMdat, First, Block
          <6> QED
            BY <6>3, <6>4
        <5>2. CASE start.forward /\ d.entry = 0 /\ (d.off = 0 \/ d.off = MoovSize)
          <6>1. EntryStart = First /\ EntryStart = First + 0 * Block
            BY <5>2, Sizes DEF EntryStart
          <6>2. d'.off \in {0, MoovSize, First, First + MoofSize}
            BY <1>5, <2>2, <5>2 DEF n
          <6>3. d'.mdat => d'.off = EntryStart + MoofSize
            <7>1. d'.mdat => d'.off = First + 0 * Block + MoofSize
              BY <1>11, <5>0, <6>1, <6>2, Sizes, MdatBehind
            <7> QED
              BY <6>1, <7>1
          <6>4. d'.mdat => InMdat'
            BY <1>0, <3>1, <3>4, <4>2, <4>4, <5>2, <6>3 DEF InMdat, First, Block
          <6>5. BeforeMdat'
            BY <1>0, <3>1, <4>1, <4>2, <5>2, <6>1, <6>2 DEF BeforeMdat, First, Block
          <6> QED
            BY <6>4, <6>5
        <5>3. CASE ~start.forward /\ d.queue = <<>> /\ src.pos = src.end
          <6>1. Len(d.queue) = 0
            BY <5>3
          <6>2. n = 0 /\ ~d'.mdat /\ d'.queue = <<>>
            BY <2>1, <2>3, <2>7, <6>1
          <6> QED
            BY <1>0, <3>1, <5>3, <6>2 DEF BeforeMdat
        <5> QED
          BY <2>4, <2>5, <3>5, <5>1, <5>2, <5>3 DEF BeforeMdat
      <4>6. Arriving'
        BY <1>0, <1>7, <2>4, <3>1, <3>2, <3>5, <4>1, <4>5 DEF Arriving
      <4> QED
        BY <1>6, <3>3, <4>3, <4>6 DEF PlaceInv
    <3>6. CASE ReadsNone(p, d, Part) /\ d.index = 0
      <4>1. /\ d'.index = 0 /\ d'.pending = d.pending /\ d.allow
            /\ d'.allow = (d.allow /\ ~\E i \in 1 .. n : BoxOf(Part, d.queue[i]) = "moof")
            /\ \A i \in 1 .. n :
                 ~(BoxOf(Part, d.queue[i]) = "sidx" /\ LastOfBox(Part, d.queue[i]))
        BY <1>3, <1>11, <2>6, <3>6 DEF ReadsNone, SameIndex, n
      <4>2. d.off = 0 \/ d.off = MoovSize
        BY <2>4, <3>6
      <4>3. d.off + n < First
        <5> SUFFICES ASSUME d.off + n >= First PROVE FALSE
          BY <1>1, <2>1, Sizes
        <5> DEFINE i == First - d.off
        <5>1. i \in 1 .. n /\ i \in 1 .. Len(d.queue) /\ d.off + i - 1 = First - 1
          <6>1. d.off < First /\ First \in Nat /\ d.off \in Nat
            BY <1>1, <4>2, Sizes
          <6>2. First - d.off <= n /\ First - d.off >= 1 /\ First - d.off \in Int
            BY <2>1, <6>1
          <6> QED
            BY <1>1, <2>1, <6>1, <6>2
        <5> HIDE DEF i
        <5>2. d.queue[i] = First - 1
          BY <1>1, <5>1
        <5>3. First - 1 \in Nat /\ First - 1 < First /\ ~(First - 1 < MoovSize) /\ (First - 1) + 1 = First
          BY Sizes
        <5>4. BoxOf("media", First - 1) = "sidx" /\ LastOfBox("media", First - 1)
          BY <1>11, <5>3, BoxBefore
        <5> QED
          BY <1>11, <4>1, <5>1, <5>2, <5>4
      <4>4. d'.off = 0 \/ d'.off = MoovSize
        BY <1>5, <2>2, <4>2, <4>3, Sizes DEF n
      <4>5. ~d'.mdat
        <5>1. d'.off \in Nat /\ d'.off < First
          BY <4>4, Sizes
        <5> QED
          BY <1>11, <2>3, <5>1, BoxBefore
      <4>6. d'.allow
        <5>1. ASSUME NEW i \in 1 .. n PROVE BoxOf("media", d.queue[i]) # "moof"
          <6>1. i \in 1 .. Len(d.queue) /\ d.off + i - 1 \in Nat /\ d.off + i - 1 < First
            BY <1>1, <2>1, <4>3, <5>1, Sizes
          <6>2. d.queue[i] = d.off + i - 1
            BY <1>1, <6>1
          <6> QED
            BY <1>11, <6>1, <6>2, BoxBefore
        <5> QED
          BY <1>11, <4>1, <5>1
      <4>7. Looking'
        BY <1>0, <1>7, <1>11, <4>1, <4>5, <4>6 DEF PlaceInv, Looking, MediaToCome
      <4>8. Arriving'
        BY <1>7, <2>4, <3>6, <4>1, <4>4, <4>5 DEF Arriving
      <4> QED
        BY <1>6, <3>3, <4>7, <4>8 DEF PlaceInv
    <3>7. CASE \E i \in 1 .. p.n : Reads(p, d, Part, i)
      <4>1. PICK i \in 1 .. p.n : Reads(p, d, Part, i)
        BY <3>7
      <4>2. d'.index = d.rep /\ d'.pending = Unknown /\ d.off + i = First
        BY <1>0, <1>2, <1>3, <1>4, <1>5, <4>1, ReadFacts
      <4>3. /\ d'.index # 0 /\ ~d'.allow /\ d.index = 0
            /\ d'.entry = 0 /\ start.forward
        BY <1>0, <1>3, <2>6, <2>9, <4>1, <4>2, FieldTypes, RepsFacts, StartType DEF Reads
      <4>4. d.off = 0 \/ d.off = MoovSize
        BY <2>4, <4>3
      <4>5. i \in Nat /\ i <= n
        BY <2>1, <4>1 DEF n
      <4>6. d'.off = First \/ d'.off = First + MoofSize
        <5>1. d'.off >= First
          BY <1>1, <1>5, <2>1, <4>2, <4>5 DEF n
        <5> QED
          BY <1>5, <2>2, <4>4, <5>1, Sizes DEF n
      <4>7. EntryStart' = First /\ First = First + 0 * Block
        BY <4>3, Sizes DEF EntryStart, First, Block
      <4>8. d'.mdat => d'.off = First + MoofSize
        <5>1. d'.off \in Nat
          BY <4>6, Sizes
        <5>2. d'.mdat => d'.off = First + 0 * Block + MoofSize
          BY <1>11, <2>3, <4>6, <4>7, <5>1, MdatBehind
        <5> QED
          BY <4>7, <5>2
      <4>9. d'.mdat => InMdat'
        BY <1>0, <3>4, <4>3, <4>7, <4>8, Sizes DEF InMdat, First, Block
      <4>10. BeforeMdat'
        BY <1>0, <4>3, <4>6, <4>7 DEF BeforeMdat, First, Block
      <4>11. Looking'
        BY <1>0, <1>7, <1>11, <3>2, <4>2, <4>3 DEF Looking, MediaToCome
      <4>12. src'.end = PartEnd("media", d.rep)'
        BY <1>2, <1>7, <2>4, <2>6, <3>1, <3>2, <4>3 DEF WholeFile
      <4>13. Arriving'
        BY <4>3, <4>9, <4>10, <4>12 DEF Arriving
      <4> QED
        BY <1>6, <3>3, <4>11, <4>13 DEF PlaceInv
    <3> QED
      BY <1>5, <3>5, <3>6, <3>7
  <2> QED
    BY <2>8, <2>9, <1>5
<1> QED
  BY <1>9, <1>10, <1>11

(* In an mdat of an indexed file, S has not reached the end of the entry.   *)
LEMMA MdatPlace ==
  ASSUME DashInv, PlaceInv, spc = "mdat", d.index # 0
  PROVE  /\ OnDemand /\ Part = "media" /\ d.mdat /\ d.entry \in Nat
         /\ EntryStart \in Nat /\ EntryStop(d) = EntryStart + Block
         /\ EntryStart + MoofSize <= d.off /\ d.off < EntryStop(d) /\ ~InvalidSidx(d)
         /\ start.forward => src.end = PartEnd("media", d.rep)
         /\ ~start.forward => src.end = EntryStop(d)
         /\ ~HasNextSubfragment(d) => src.end = EntryStop(d)
<1>1. /\ Receiving /\ src.on /\ d.lastRet = "OK" /\ d.off \in Nat /\ Len(d.queue) \in Nat
      /\ src.pos = d.off + Len(d.queue) /\ start \in Starts /\ d \in Streams
  BY AtHand DEF DashInv, TypeOK
<1>2. /\ Loading /\ src.pos <= src.end /\ src.end \in Int /\ d.mdat /\ OnDemand
      /\ d.base = First /\ d.index = d.rep
  BY <1>1, InTransfer DEF DashInv, Adapter, Indexed
<1>3. Part = "media"
  BY <1>2 DEF DashInv, Indexed
<1>4. InMdat /\ (start.forward => src.end = PartEnd("media", d.rep))
  BY <1>1, <1>2, <1>3 DEF PlaceInv, Arriving
<1>5. /\ d.index \in Reps /\ Entries(d.index) \in Nat /\ d.entry \in 0 .. Entries(d.index) - 1
      /\ d.entry \in Nat /\ start.forward \in BOOLEAN /\ d.queue \in Seq(Int)
  <2>1. d.index \in Reps /\ start.forward \in BOOLEAN /\ d.queue \in Seq(Int)
    BY <1>1, FieldTypes, StartType
  <2>2. Entries(d.index) \in Nat /\ d.entry \in 0 .. Entries(d.index) - 1
    BY <2>1, EntryFacts DEF DashInv, TypeOK
  <2>3. d.entry \in Nat
    BY <2>2
  <2> QED
    BY <2>1, <2>2, <2>3
<1>6. /\ d.entry * Block \in Nat /\ (d.entry + 1) * Block = d.entry * Block + Block
      /\ First \in Nat /\ Block \in Nat \ {0} /\ MoofSize \in Nat
  BY <1>5, Sizes
<1>7. EntryStart = First + d.entry * Block /\ EntryStart \in Nat
  BY <1>6 DEF EntryStart
<1>8. EntryStop(d) = EntryStart + Block
  BY <1>2, <1>6, <1>7 DEF EntryStop
<1>9. ~HasNextSubfragment(d) => src.end = EntryStop(d)
  <2>1. CASE ~start.forward
    BY <1>4, <1>8, <2>1 DEF InMdat
  <2>2. CASE start.forward
    <3> SUFFICES ASSUME ~HasNextSubfragment(d) PROVE src.end = EntryStop(d)
      OBVIOUS
    <3>1. d.entry + 1 = Entries(d.index)
      BY <1>5, <2>2 DEF HasNextSubfragment
    <3>2. src.end = First + Entries(d.rep) * Block
      BY <1>2, <1>4, <1>5, <2>2, PartEndFacts
    <3> QED
      BY <1>2, <3>1, <3>2 DEF EntryStop
  <2> QED
    BY <1>5, <2>1, <2>2
<1>10. d.off < EntryStop(d)
  <2>1. Len(d.queue) > 0
    <3>1. d.queue # <<>>
      BY <1>4 DEF InMdat
    <3> QED
      BY <1>5, <3>1
  <2>2. d.off <= EntryStop(d) /\ (d.off = EntryStop(d) => ~HasNextSubfragment(d))
    BY <1>4, <1>8 DEF InMdat
  <2> QED
    BY <1>1, <1>2, <1>6, <1>7, <1>8, <1>9, <2>1, <2>2
<1>11. ~InvalidSidx(d)
  BY <1>1, <1>6, <1>7, <1>8, <1>10 DEF InvalidSidx
<1> QED
  BY <1>2, <1>3, <1>4, <1>5, <1>7, <1>8, <1>9, <1>10, <1>11 DEF InMdat

(* The units up to the end of the entry belong to it.                       *)
LEMMA EntryUnits ==
  ASSUME NEW e \in Nat, NEW u \in Nat, First + e * Block <= u, u < First + e * Block + Block
  PROVE  (u - First) \div Block = e
<1> DEFINE k == u - First - e * Block
<1>1. /\ e * Block \in Nat /\ First \in Nat /\ Block \in Nat
  BY Sizes
<1>2. k \in 0 .. Block - 1 /\ u - First = e * Block + k
  BY <1>1
<1> HIDE DEF k
<1> QED
  BY <1>2, BlockPlace

LEMMA PlacePushMdat ==
  ASSUME DashInv, DashInv', PlaceInv, spc = "mdat", PushMdat,
         UNCHANGED <<start, todo, frag, retried, dpc, starting, status, faults>>
  PROVE  PlaceInv'
<1>0. /\ start \in Starts /\ d \in Streams /\ start' = start /\ spc # "idle" /\ d.mdat
      /\ d' \in Streams
  BY DEF DashInv, TypeOK, Adapter
<1>1. /\ Receiving /\ src.on /\ d.lastRet = "OK"
      /\ src.pos = d.off + Len(d.queue) /\ d.off \in Nat /\ Len(d.queue) \in Nat
      /\ \A i \in 1 .. Len(d.queue) : d.queue[i] = d.off + i - 1
  BY <1>0, AtHand
<1>2. /\ dpc = "wait" /\ Loading /\ src.part = Part /\ src.rep = d.rep
      /\ src.pos \in Int /\ src.end \in Int /\ src.pos <= src.end
  BY <1>1, InTransfer
<1>3. Part = "media"
  BY <1>0, <1>2 DEF DashInv, Indexed
<1>4. PICK n \in 0 .. Len(d.queue), r \in Choices, y \in Streams :
        /\ n = Taken(d)
        /\ Push(d, SubSeq(d.queue, 1, n))
        /\ d' = IF EntryDone(d) THEN Advance(y, r) ELSE y
        /\ y.off = d.off + n /\ y.queue = SubSeq(d.queue, n + 1, Len(d.queue))
        /\ y.rep = d.rep /\ y.at = d.at /\ y.index = d.index /\ y.entry = d.entry
        /\ y.sidxPos = d.sidxPos /\ y.pending = d.pending /\ y.mdat = d.mdat
        /\ y.section = d.section /\ y.base = d.base /\ y.needHeader = d.needHeader
        /\ y.lastRet = "OK" /\ y.allow = d.allow
  BY PushMdatFacts
<1>5. n \in Nat /\ n <= Len(d.queue)
  BY <1>1
<1>6. r \in Reps
  BY <1>0, ChoicesFacts DEF DashInv, Asked
<1> DEFINE ret == IF EntryDone(d) THEN d'.lastRet ELSE "OK"
<1>7. /\ spc' = IF EntryDone(d) /\ ret = "OK" /\ d'.queue # <<>> THEN "parse" ELSE "idle"
      /\ finished' = (finished \/ ret # "OK")
      /\ src' = IF ret = "OK" THEN src ELSE [src EXCEPT !.on = FALSE]
      /\ posted' = (posted \/ ret \in {"CUSTOM_ERROR", "ERROR"})
  BY DEF PushMdat, StopSource
<1>8. /\ OnDemand' = OnDemand /\ Part' = Part /\ Loading' /\ MediaToCome' = MediaToCome
      /\ ~MediaToCome /\ PartEnd("media", d.rep)' = PartEnd("media", d'.rep)
      /\ (d'.rep = d.rep => PartEnd("media", d.rep)' = PartEnd("media", d.rep))
  BY <1>0, <1>2, <1>3, StartFixed DEF Part, Loading, MediaToCome, PartEnd, First, Block
<1>9. ~Untouched
  BY <1>1, <1>2 DEF Untouched, Waiting, Receiving
<1>10. posted = FALSE /\ RightEntry
  BY DEF PlaceInv, Retried, DashInv, TypeOK
<1>11. CASE d.index = 0
  <2>1. ~EntryDone(d) /\ d' = y /\ ret = "OK"
    BY <1>4, <1>11 DEF EntryDone
  <2>2. src' = src /\ spc' = "idle" /\ finished' = (finished \/ FALSE) /\ ~posted'
    BY <1>7, <1>10, <2>1
  <2>3. ~OnDemand
    BY <1>0, <1>1, <1>3, <1>11 DEF PlaceInv, Arriving
  <2>4. RightEntry'
    BY <1>0, <1>4, <1>10, <1>11, EntryPush
  <2>5. start.layout # "indexed"
    BY <2>3 DEF OnDemand
  <2> QED
    BY <1>0, <1>8, <2>2, <2>3, <2>4, <2>5
    DEF PlaceInv, Wanted, Coming, Looking, Arriving, Retried
<1>12. CASE d.index # 0
  <2>1. /\ OnDemand /\ d.entry \in Nat
        /\ EntryStart \in Nat /\ EntryStop(d) = EntryStart + Block
        /\ EntryStart + MoofSize <= d.off /\ d.off < EntryStop(d) /\ ~InvalidSidx(d)
        /\ start.forward => src.end = PartEnd("media", d.rep)
        /\ ~start.forward => src.end = EntryStop(d)
        /\ ~HasNextSubfragment(d) => src.end = EntryStop(d)
    BY <1>12, MdatPlace
  <2>2. /\ Block \in Nat \ {0} /\ First \in Nat /\ MoofSize \in Nat /\ EntryStop(d) \in Nat
        /\ EntryStart = First + d.entry * Block
    BY <2>1, Sizes DEF EntryStart
  <2>3. /\ n = IF d.off + Len(d.queue) < EntryStop(d) THEN Len(d.queue) ELSE EntryStop(d) - d.off
        /\ d.off + n <= EntryStop(d)
    <3>1. n = IF d.off + Len(d.queue) < EntryStop(d) THEN Len(d.queue) ELSE EntryStop(d) - d.off
      <4>1. ~(EntryStop(d) <= d.off)
        BY <1>1, <2>1, <2>2
      <4> QED
        BY <1>4, <1>12, <4>1 DEF Taken
    <3>2. CASE d.off + Len(d.queue) < EntryStop(d)
      <4>1. n = Len(d.queue)
        BY <3>1, <3>2
      <4> QED
        BY <1>1, <2>2, <3>1, <3>2, <4>1
    <3>3. CASE ~(d.off + Len(d.queue) < EntryStop(d))
      <4>1. n = EntryStop(d) - d.off
        BY <3>1, <3>3
      <4> QED
        BY <1>1, <2>2, <3>1, <4>1
    <3> QED
      BY <3>2, <3>3
  <2>4. RightEntry'
    <3>1. ASSUME NEW i \in 1 .. n PROVE (d.queue[i] - First) \div Block = d.entry
      <4>1. i \in 1 .. Len(d.queue) /\ d.off + i - 1 \in Nat
            /\ EntryStart <= d.off + i - 1 /\ d.off + i - 1 < EntryStart + Block
        <5>1. /\ i \in Nat /\ i >= 1 /\ i <= n /\ d.off + n <= EntryStart + Block
              /\ EntryStart <= d.off
          <6>1. d.off \in Nat /\ EntryStart + MoofSize <= d.off /\ EntryStart \in Nat
            BY <1>1, <2>1
          <6>2. i \in Nat /\ i >= 1 /\ i <= n /\ d.off + n <= EntryStart + Block
            BY <1>5, <2>1, <2>3
          <6> QED
            BY <2>2, <6>1, <6>2
        <5>2. d.off \in Nat /\ Len(d.queue) \in Nat /\ n \in Nat /\ n <= Len(d.queue)
              /\ EntryStart \in Nat /\ Block \in Nat
          BY <1>1, <1>5, <2>1, <2>2
        <5> QED
          BY <5>1, <5>2
      <4>2. d.queue[i] = d.off + i - 1
        BY <1>1, <4>1
      <4> QED
        BY <2>1, <2>2, <4>1, <4>2, EntryUnits
    <3> QED
      BY <1>0, <1>4, <1>10, <3>1, EntryPush
  <2>5. /\ y.queue \in Seq(Int) /\ Len(y.queue) = Len(d.queue) - n
        /\ (y.queue = <<>> <=> n = Len(d.queue))
    <3>1. d.queue \in Seq(Int)
      BY <1>0, FieldTypes
    <3> DEFINE w == SubSeq(d.queue, n + 1, Len(d.queue))
    <3>2. w \in Seq(Int) /\ Len(w) = Len(d.queue) - n
      BY <3>1, RestLength
    <3>3. y.queue = w
      BY <1>4
    <3> HIDE DEF w
    <3> QED
      BY <1>1, <1>5, <3>2, <3>3
  <2>6. ~d.allow /\ ~finished /\ src.end = frag.to
    BY <1>1, <1>2, <1>3, <1>12, <2>1 DEF PlaceInv, Looking, Coming
  <2>7. start.layout = "indexed" => d.pending = Unknown
    BY DEF PlaceInv, Looking
  <2>8. CASE ~EntryDone(d)
    <3>1. d' = y /\ ret = "OK"
      BY <1>4, <2>8
    <3>2. src' = src /\ spc' = "idle" /\ finished' = finished /\ ~posted'
      <4>1. finished \in BOOLEAN
        BY DEF DashInv, TypeOK
      <4> QED
        BY <1>7, <1>10, <2>8, <3>1, <4>1
    <3>3. /\ y.queue = <<>> /\ (y.off = EntryStop(d) => src.pos = src.end /\ ~HasNextSubfragment(d))
      <4>1. CASE d.off + Len(d.queue) < EntryStop(d)
        BY <1>1, <1>4, <2>2, <2>3, <2>5, <4>1
      <4>2. CASE d.off + Len(d.queue) >= EntryStop(d)
        <5>1. ~HasNextSubfragment(d)
          BY <1>12, <2>1, <2>8, <4>2 DEF EntryDone
        <5>2. src.pos = EntryStop(d) /\ n = Len(d.queue)
          <6>1. src.end = EntryStop(d)
            BY <2>1, <5>1
          <6>2. n = EntryStop(d) - d.off
            BY <1>1, <2>2, <2>3, <4>2
          <6>3. src.pos = EntryStop(d)
            BY <1>1, <1>2, <2>2, <4>2, <6>1
          <6> QED
            BY <1>1, <2>2, <6>2, <6>3
        <5> QED
          BY <1>1, <1>4, <2>1, <2>5, <5>1, <5>2
      <4> QED
        BY <1>1, <2>2, <4>1, <4>2
    <3>4. Receiving' /\ ~Untouched' /\ HasNextSubfragment(d)' = HasNextSubfragment(d)
          /\ EntryStart' = EntryStart
      BY <1>0, <1>1, <1>2, <1>4, <3>1, <3>2
      DEF Receiving, Untouched, Waiting, HasNextSubfragment, EntryStart, First, Block
    <3>5. InMdat'
      <4>1. /\ EntryStart + MoofSize <= d'.off /\ d'.off <= EntryStart + Block
            /\ d'.off = EntryStart + Block => src.pos = src.end /\ ~HasNextSubfragment(d)
            /\ ~start.forward => src.end = EntryStart + Block
        <5>1. d'.off = d.off + n /\ EntryStart + MoofSize <= d.off /\ EntryStop(d) = EntryStart + Block
          BY <1>4, <2>1, <3>1
        <5>2. EntryStart + MoofSize <= d'.off /\ d'.off <= EntryStart + Block
          <6>1. d.off \in Nat /\ n \in Nat /\ EntryStart \in Nat /\ MoofSize \in Nat
            BY <1>1, <1>5, <2>1, <2>2
          <6>2. d.off + n <= EntryStart + Block
            BY <2>3, <5>1
          <6> QED
            BY <5>1, <6>1, <6>2
        <5>3. d'.off = EntryStart + Block => src.pos = src.end /\ ~HasNextSubfragment(d)
          BY <3>1, <3>3, <5>1
        <5> QED
          BY <2>1, <5>2, <5>3
      <4> QED
        BY <1>0, <3>1, <3>2, <3>3, <3>4, <4>1 DEF InMdat, First, Block
    <3>6. Arriving'
      BY <1>0, <1>4, <1>8, <1>12, <2>1, <3>1, <3>2, <3>5 DEF Arriving
    <3>7. Wanted' /\ Coming' /\ Looking'
      BY <1>0, <1>4, <1>8, <1>12, <2>6, <2>7, <3>1, <3>2, <3>4
      DEF Wanted, Coming, Looking
    <3> QED
      BY <2>4, <3>2, <3>6, <3>7 DEF PlaceInv, Retried
  <2>9. CASE EntryDone(d)
    <3>1. /\ HasNextSubfragment(d) /\ n = EntryStop(d) - d.off /\ y.off = EntryStop(d)
          /\ d' = Advance(y, r) /\ ret = d'.lastRet
      BY <1>0, <1>1, <1>4, <2>2, <2>3, <2>9 DEF EntryDone
    <3>2. HasNextSubfragment(y) /\ InIndex(y) /\ y.index # 0
      BY <1>4, <1>12, <3>1 DEF HasNextSubfragment, InIndex, DashInv, TypeOK
    <3>3. /\ CanMove(y) /\ d'.pending = y.pending
          /\ \/ d'.lastRet = "OK" /\ d'.rep = y.rep /\ EntryMoved(d', y)
             \/ \E z \in Streams : EntryMoved(z, y) /\ y.rep # r /\ SwitchedTo(d', z, r)
      BY <1>0, <1>4, <1>6, <2>1, <3>1, <3>2, AdvanceOutcome
    <3> HIDE DEF ret
    <3>4. CASE d'.lastRet = "OK" /\ d'.rep = y.rep /\ EntryMoved(d', y)
      <4>1. /\ d'.entry = NextEntry(d) /\ ~d'.mdat /\ d'.index = d.index /\ d'.allow = d.allow
            /\ d'.off = EntryStop(d) /\ d'.queue = y.queue /\ d'.rep = d.rep
        BY <1>4, <3>1, <3>4 DEF EntryMoved, NextEntry
      <4>2. src' = src /\ finished' = finished /\ ~posted'
        <5>1. finished \in BOOLEAN
          BY DEF DashInv, TypeOK
        <5> QED
          BY <1>7, <1>10, <3>1, <3>4, <5>1
      <4>3. Receiving' /\ ~Untouched' /\ EntryStart' = First + d'.entry * Block
        BY <1>1, <1>2, <3>4, <4>2
        DEF Receiving, Untouched, Waiting, EntryStart, First, Block
      <4>4. BeforeMdat'
        <5>1. CASE start.forward
          <6>1. d'.off = EntryStart'
            <7>1. d'.entry = d.entry + 1
              BY <4>1, <5>1 DEF NextEntry
            <7>2. (d.entry + 1) * Block = d.entry * Block + Block
              BY <2>1, <2>2
            <7> QED
              BY <2>1, <2>2, <4>1, <4>3, <7>1, <7>2
          <6> QED
            BY <1>0, <5>1, <6>1 DEF BeforeMdat
        <5>2. CASE ~start.forward
          <6>1. src.pos = src.end /\ n = Len(d.queue)
            <7>1. src.end = EntryStop(d) /\ n = EntryStop(d) - d.off
              BY <2>1, <3>1, <5>2
            <7> QED
              BY <1>1, <1>2, <1>5, <2>2, <7>1
          <6>2. d'.queue = <<>>
            BY <2>5, <4>1, <6>1
          <6> QED
            BY <1>0, <4>2, <5>2, <6>1, <6>2 DEF BeforeMdat
        <5> QED
          BY <5>1, <5>2
      <4>5. Arriving'
        BY <1>0, <1>8, <1>12, <2>1, <4>1, <4>2, <4>4 DEF Arriving
      <4>6. Wanted' /\ Coming' /\ Looking'
        BY <1>0, <1>4, <1>8, <1>12, <2>6, <2>7, <3>3, <4>1, <4>2, <4>3
        DEF Wanted, Coming, Looking
      <4> QED
        BY <2>4, <4>2, <4>5, <4>6 DEF PlaceInv, Retried
    <3>5. ASSUME NEW z \in Streams, EntryMoved(z, y), SwitchedTo(d', z, r)
          PROVE  PlaceInv'
      <4>1. /\ d'.lastRet = "SWITCH" /\ d'.index = 0 /\ d'.allow /\ ~d'.mdat
        BY <3>5 DEF SwitchedTo
      <4>2. src'.on = FALSE /\ ~posted'
        BY <1>7, <1>10, <3>1, <4>1 DEF DashInv, TypeOK
      <4>3. ~Receiving' /\ ~Untouched'
        BY <1>2, <1>0, <4>1, <4>2 DEF Receiving, Untouched, Waiting
      <4> QED
        BY <1>0, <1>4, <1>8, <2>4, <2>7, <3>3, <4>1, <4>2, <4>3
        DEF PlaceInv, Wanted, Coming, Looking, Arriving, Retried
    <3> QED
      BY <3>3, <3>4, <3>5
  <2> QED
    BY <2>8, <2>9
<1> QED
  BY <1>11, <1>12

LEMMA PlaceMdat == ASSUME DashInv, DashInv', PlaceInv, Mdat PROVE PlaceInv'
<1>1. spc = "mdat" /\ UNCHANGED <<start, todo, frag, retried, dpc, starting, status, faults>>
  BY DEF Mdat, requestVars
<1>2. ~InvalidSidx(d)
  BY <1>1, MdatPlace DEF InvalidSidx
<1>3. PushMdat
  BY <1>2 DEF Mdat
<1> QED
  BY <1>1, <1>3, PlacePushMdat

(* The source ends in an mdat only with the last entry.                     *)
LEMMA MdatAtEnd ==
  ASSUME DashInv, PlaceInv, OnDemand, d.mdat, Receiving, spc = "idle", src.pos = src.end
  PROVE  Part = "media" /\ d.index # 0 /\ d.pending = Unknown /\ ~HasNextSubfragment(d)
<1>1. /\ start \in Starts /\ d \in Streams /\ src.on /\ d.lastRet = "OK" /\ Loading
      /\ src.pos = d.off + Len(d.queue) /\ src.pos \in Int /\ start.forward \in BOOLEAN
  <2>1. start \in Starts /\ d \in Streams /\ src.on /\ d.lastRet = "OK"
    BY DEF DashInv, TypeOK, Transfer, Receiving
  <2> QED
    BY <2>1, InTransfer, StartType DEF DashInv, Adapter
<1>2. Part = "media"
  BY <1>1 DEF DashInv, Indexed
<1>3. d.index # 0 /\ InMdat /\ (start.forward => src.end = PartEnd("media", d.rep))
  BY <1>2 DEF PlaceInv, Arriving
<1>4. d.pending = Unknown /\ d.index = d.rep
  BY <1>3 DEF DashInv, Indexed
<1>5. d.queue = <<>> /\ src.pos = d.off
  <2>1. d.queue = <<>>
    BY <1>3 DEF InMdat
  <2>2. Len(d.queue) = 0 /\ d.off \in Int
    BY <1>1, <2>1, FieldTypes
  <2> QED
    BY <1>1, <2>1, <2>2
<1>6. /\ d.index \in Reps /\ Entries(d.index) \in Nat /\ d.entry \in Nat
      /\ d.entry < Entries(d.index) /\ Block \in Nat \ {0} /\ First \in Nat
  <2>1. d.index \in Reps
    BY <1>1, <1>3, FieldTypes
  <2>2. Entries(d.index) \in Nat /\ d.entry \in 0 .. Entries(d.index) - 1
    BY <1>3, <2>1, EntryFacts DEF DashInv, TypeOK
  <2> QED
    BY <2>1, <2>2, Sizes
<1>7. /\ d.entry * Block \in Nat /\ EntryStart = First + d.entry * Block
      /\ d.off <= EntryStart + Block /\ (d.off = EntryStart + Block => ~HasNextSubfragment(d))
  BY <1>3, <1>6 DEF InMdat, EntryStart
<1>8. CASE ~start.forward
  <2>1. d.off = EntryStart + Block
    BY <1>3, <1>5, <1>8 DEF InMdat
  <2> QED
    BY <1>2, <1>3, <1>4, <1>7, <2>1
<1>9. CASE start.forward
  <2>1. d.off = First + Entries(d.index) * Block
    BY <1>3, <1>4, <1>5, <1>6, <1>9, PartEndFacts
  <2>2. SUFFICES ASSUME d.entry + 1 < Entries(d.index) PROVE FALSE
    BY <1>2, <1>3, <1>4, <1>9 DEF HasNextSubfragment
  <2> DEFINE rest == Entries(d.index) - d.entry - 1
  <2>3. /\ rest \in Nat \ {0} /\ Entries(d.index) = d.entry + 1 + rest
    BY <1>6, <2>2
  <2> HIDE DEF rest
  <2>4. Entries(d.index) * Block = d.entry * Block + Block + rest * Block
    BY <1>6, <2>3
  <2>5. rest * Block > 0 /\ rest * Block \in Nat
    BY <1>6, <2>3
  <2> QED
    BY <1>6, <1>7, <2>1, <2>4, <2>5
<1> QED
  BY <1>1, <1>8, <1>9

LEMMA PlaceSourceEos == ASSUME DashInv, PlaceInv, SourceEos PROVE PlaceInv'
<1>0. /\ start \in Starts /\ d \in Streams /\ start' = start
      /\ src.on /\ spc = "idle" /\ src.pos = src.end /\ dpc = "wait" /\ dpc' = "wait"
      /\ src' = [src EXCEPT !.on = FALSE] /\ posted' = posted
      /\ todo' = todo /\ frag' = frag /\ UNCHANGED shownVars
  BY DEF DashInv, TypeOK, Asked, SourceEos, StopSource, requestVars
<1>1. src'.on = FALSE
  BY <1>0 DEF DashInv, TypeOK
<1>2. Loading /\ src.part = Part /\ ~Receiving' /\ Coming' /\ Arriving'
  BY <1>0, <1>1 DEF DashInv, Asked, Loading, Receiving, Coming, Arriving
<1>3. PICK r \in Choices : d' = FragmentFinished(d, Part, r)
  BY <1>2 DEF SourceEos
<1>4. OnDemand /\ d.mdat => Receiving \/ d.lastRet = "EOS"
  BY DEF PlaceInv, Looking
<1>5. Receiving => d.lastRet = "OK"
  BY DEF DashInv, Transfer, Receiving
<1>6. CASE StaysInPlace(d, Part) \/ d.lastRet # "OK"
  <2>1. d' = d
    BY <1>3, <1>6 DEF FragmentFinished, Advance
  <2>2. OnDemand /\ d.mdat => d.lastRet = "EOS"
    <3> SUFFICES ASSUME OnDemand, d.mdat, Receiving PROVE FALSE
      BY <1>4
    <3>1. Part = "media" /\ d.index # 0 /\ d.pending = Unknown /\ ~HasNextSubfragment(d)
      BY <1>0, MdatAtEnd
    <3> QED
      BY <1>5, <1>6, <3>1 DEF StaysInPlace
  <2>3. Untouched' => Untouched
    BY <1>0, <1>1, <2>1 DEF Untouched, Waiting
  <2> QED
    BY <1>0, <1>2, <2>1, <2>2, <2>3, PlaceKept
<1>7. CASE ~StaysInPlace(d, Part) /\ d.lastRet = "OK"
  <2>1. Part = "media" /\ d' = Advance(d, r)
    BY <1>3, <1>7 DEF FragmentFinished, StaysInPlace
  <2>2. r \in Reps
    BY <1>0, ChoicesFacts DEF DashInv, Asked
  <2>3. InIndex(d)
    BY DEF InIndex, DashInv, TypeOK
  <2>4. \/ AtEnd(d', d) \/ Moved(d', d)
        \/ \E z \in Streams : Moved(z, d) /\ SwitchedTo(d', z, r)
    BY <1>0, <1>7, <2>1, <2>2, <2>3, AdvanceFacts
  <2>5. OnDemand => (d.allow <=> d.index = 0)
    BY DEF PlaceInv, Looking
  <2>6. ASSUME NEW z, Moved(z, d)
        PROVE  /\ z.lastRet \in {"OK", "EOS"} /\ ~z.mdat /\ z.pending = d.pending
               /\ OnDemand => (z.allow <=> z.index = 0)
    <3>1. AdvanceSegment(Mpd, d.at, start.forward) \in [ret : {"OK", "EOS"}, at : Positions]
      BY <1>0, FieldTypes, MpdFits, StartType, AdvanceType
    <3> QED
      BY <2>5, <2>6, <3>1 DEF Moved, EntryMoved, SegmentMoved
  <2>7. /\ d'.lastRet \in {"OK", "EOS", "SWITCH"} /\ d'.pending = d.pending
        /\ OnDemand => (d'.allow <=> d'.index = 0)
        /\ d'.mdat => d'.lastRet = "EOS"
    <3>1. CASE AtEnd(d', d)
      BY <1>0, <2>5, <3>1 DEF AtEnd, Streams
    <3>2. CASE Moved(d', d)
      BY <2>6, <3>2
    <3>3. ASSUME NEW z \in Streams, Moved(z, d), SwitchedTo(d', z, r)
          PROVE  /\ d'.lastRet = "SWITCH" /\ d'.pending = d.pending
                 /\ d'.allow /\ d'.index = 0 /\ ~d'.mdat
      BY <2>6, <3>3 DEF SwitchedTo
    <3> QED
      BY <2>4, <3>1, <3>2, <3>3
  <2>8. ~Untouched' /\ ~MediaToCome' /\ OnDemand' = OnDemand
    BY <1>0, <1>1, <2>1, <2>7, StartFixed DEF Untouched, Waiting, MediaToCome, Part
  <2>9. Wanted' /\ Looking'
    BY <1>0, <2>7, <2>8 DEF PlaceInv, Wanted, Looking
  <2>10. RightEntry' /\ Retried'
    BY <1>0, EntryShown DEF PlaceInv, Retried
  <2> QED
    BY <1>2, <2>9, <2>10 DEF PlaceInv
<1> QED
  BY <1>6, <1>7

(* ------------------------------------------------------------------------ *)
LEMMA PlaceStutter == ASSUME DashInv, PlaceInv, UNCHANGED vars PROVE PlaceInv'
<1>1. UNCHANGED <<start, d, todo, frag, dpc, src, finished, spc, posted>> /\ UNCHANGED shownVars
  BY DEF vars, requestVars, sourceVars
<1>2. /\ OnDemand' = OnDemand /\ Part' = Part /\ Loading' = Loading /\ Receiving' = Receiving
      /\ Untouched' = Untouched /\ MediaToCome' = MediaToCome
      /\ HasNextSubfragment(d)' = HasNextSubfragment(d)
  BY <1>1, StartFixed
  DEF Part, Loading, Receiving, Untouched, Waiting, MediaToCome, HasNextSubfragment
<1>3. /\ EntryStart' = EntryStart /\ PartEnd("media", frag.rep)' = PartEnd("media", frag.rep)
      /\ PartEnd("media", d.rep)' = PartEnd("media", d.rep)
  BY <1>1, <1>2 DEF EntryStart, First, Block, PartEnd
<1>4. WholeFile' = WholeFile
  BY <1>1, <1>3 DEF WholeFile
<1>5. Wanted' /\ Coming' /\ Looking'
  BY <1>1, <1>2, <1>3, <1>4 DEF PlaceInv, Wanted, Coming, Looking, First, Block
<1>6. Arriving'
  BY <1>1, <1>2, <1>3, <1>4 DEF PlaceInv, Arriving, InMdat, BeforeMdat, First, Block
<1>7. RightEntry' /\ Retried'
  BY <1>1, EntryShown DEF PlaceInv, Retried
<1> QED
  BY <1>5, <1>6, <1>7 DEF PlaceInv

LEMMA PlaceNext ==
  ASSUME Bare, ReadInOrder, DashInv, DashInv', PlaceInv, [Next]_vars
  PROVE  PlaceInv'
<1>1. CASE D
  BY <1>1, PlaceUpdateInfo, PlaceEnds, PlaceOpen, PlaceOpenFails, PlaceWoken, PlacePartDone,
     PlaceAgain DEF D
<1>2. CASE S
  BY <1>2, PlaceReceive, PlaceParse, PlaceMdat, PlaceSourceEos DEF S
<1>3. CASE U
  BY <1>3, PlaceFail DEF U
<1>4. CASE UNCHANGED vars
  BY <1>4, PlaceStutter
<1> QED
  BY <1>1, <1>2, <1>3, <1>4 DEF Next, Finished

LEMMA PlaceAlways ==
  ASSUME Bare, OneRefetch, ReadInOrder
  PROVE  Spec => []PlaceInv
<1>1. DashInv /\ DashInv' /\ PlaceInv /\ [Next]_vars => PlaceInv'
  BY PlaceNext
<1>2. Init => PlaceInv
  BY PlaceInit
<1> QED
  BY <1>1, <1>2, DashAlways, PTL DEF Spec

(* Where the data of an mdat is pushed, the index is at the entry that the  *)
(* data belongs to, however it comes in buffers, the representation changes *)
(* and requests fail: gst_dash_demux_handle_isobmff moves the index on      *)
(* exactly where the offset reaches the end of the entry.                   *)
THEOREM DashRightEntry ==
  ASSUME Bare, OneRefetch, ReadInOrder
  PROVE  Spec => []RightEntry
<1>1. PlaceInv => RightEntry
  BY DEF PlaceInv
<1> QED
  BY <1>1, PlaceAlways, PTL

(* The data is never behind the entry, so that the streaming thread never   *)
(* posts the error "Invalid SIDX" itself: no error ends the playback before *)
(* it has been retried.                                                     *)
THEOREM DashRetried ==
  ASSUME Bare, OneRefetch, ReadInOrder
  PROVE  Spec => []Retried
<1>1. PlaceInv => Retried
  BY DEF PlaceInv
<1> QED
  BY <1>1, PlaceAlways, PTL
=============================================================================
