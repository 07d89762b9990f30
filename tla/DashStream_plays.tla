-------------------------- MODULE DashStream_plays --------------------------
(***************************************************************************)
(* DashStream implements Playback: whatever the sizes of boxes and         *)
(* buffers, the failures and the changes of the representation, the media  *)
(* is pushed from where playback starts to where it ends, without a gap.   *)
(***************************************************************************)
EXTENDS DashStream_proofs

-----------------------------------------------------------------------------
(* Lists of segments: all fragments in order.                               *)

LEMMA FactorGrows == \A a, b \in Int, c \in Nat : a <= b => a * c <= b * c
  OBVIOUS

(* A segment begins where all before it have ended.                         *)
LEMMA StartsGrow ==
  ASSUME NEW m, IsMpd(m), Contiguous(m), ~Template(m),
         NEW i \in 0 .. Count(m) - 1, NEW j \in 0 .. Count(m) - 1, i < j
  PROVE  SegmentEnd(m, i) <= Segment(m, j).start
<1> DEFINE Bad == {k \in 0 .. j - 1 : SegmentEnd(m, k) > Segment(m, j).start}
<1>0. /\ Count(m) = Len(m.segments) /\ Count(m) \in Nat
      /\ \A k \in 0 .. Count(m) - 1 : SegmentEnd(m, k) \in Int
      /\ Segment(m, j).start \in Int
  BY CountType, SegmentEndType, ListFacts
<1>1. SUFFICES ASSUME Bad # {} PROVE FALSE
  <2>1. i \in 0 .. j - 1
    BY <1>0
  <2>2. i \notin Bad
    OBVIOUS
  <2>3. ~(SegmentEnd(m, i) > Segment(m, j).start)
    BY <2>1, <2>2
  <2> QED
    BY <1>0, <2>3
<1>2. PICK k \in Bad : \A l \in Bad : l <= k
  <2>1. Bad \in SUBSET Int /\ j \in Int /\ \A l \in Bad : l <= j
    BY <1>0
  <2> HIDE DEF Bad
  <2> QED
    BY <1>1, <2>1, LargestExists
<1>3. k \in 0 .. j - 1 /\ SegmentEnd(m, k) > Segment(m, j).start
  OBVIOUS
<1> DEFINE n == k + 1
<1>4. n \in 0 .. Count(m) - 1 /\ n > 0 /\ n - 1 = k /\ n <= j /\ n > k
  BY <1>0, <1>3
<1>5. n \notin Bad
  BY <1>2, <1>4
<1> HIDE DEF Bad
<1> HIDE DEF n
<1>6. Segment(m, n).start = SegmentEnd(m, k)
  BY <1>4, ListFacts
<1>7. n # j
  <2> SUFFICES ASSUME n = j PROVE FALSE
    OBVIOUS
  <2>1. SegmentEnd(m, k) = Segment(m, j).start
    BY <1>6
  <2> QED
    BY <1>0, <1>3, <2>1
<1>8. SegmentEnd(m, n) >= Segment(m, n).start
  <2>1. /\ Segment(m, n).start \in Nat /\ Segment(m, n).duration \in Nat
        /\ Segment(m, n).repeat \in Nat
        /\ SegmentEnd(m, n) = Segment(m, n).start
              + Segment(m, n).duration * Segment(m, n).repeat + Segment(m, n).duration
    BY <1>4, ListFacts
  <2>2. Segment(m, n).duration * Segment(m, n).repeat \in Nat
    BY <2>1
  <2> QED
    BY <2>1, <2>2
<1>9. n \in Bad
  <2>1. SegmentEnd(m, n) \in Int /\ SegmentEnd(m, k) \in Int /\ Segment(m, n).start \in Int
    BY <1>0, <1>3, <1>4, <1>6
  <2>2. SegmentEnd(m, n) > Segment(m, j).start
    BY <1>0, <1>3, <1>6, <1>8, <2>1
  <2>3. n \in 0 .. j - 1
    BY <1>0, <1>3, <1>4, <1>7
  <2> QED
    BY <2>2, <2>3 DEF Bad
<1> QED
  BY <1>5, <1>9

(* A fragment lies within its segment.                                      *)
LEMMA FragmentFacts ==
  ASSUME NEW m, IsMpd(m), Contiguous(m), NEW p, WellPlaced(m, p)
  PROVE  /\ p \in Positions /\ p.index \in Nat /\ p.repeat \in Int
         /\ Timestamp(m, p) \in Nat /\ Duration(m, p) \in Nat \ {0}
         /\ End(m, p) = Timestamp(m, p) + Duration(m, p) /\ End(m, p) \in Nat
         /\ ~Template(m) =>
              /\ p.index \in 0 .. Count(m) - 1
              /\ p.repeat \in 0 .. Segment(m, p.index).repeat
              /\ Segment(m, p.index).start <= Timestamp(m, p)
              /\ End(m, p) <= SegmentEnd(m, p.index)
              /\ p.repeat = 0 => Timestamp(m, p) = Segment(m, p.index).start
              /\ p.repeat = Segment(m, p.index).repeat => End(m, p) = SegmentEnd(m, p.index)
         /\ Template(m) => /\ Timestamp(m, p) = p.index * m.duration
                           /\ Duration(m, p) = m.duration
<1>1. p \in Positions /\ p.index \in Nat /\ p.repeat \in Int /\ HasFragment(m, p)
  BY DEF WellPlaced, Positions
<1>2. CASE Template(m)
  <2>1. m.duration \in Nat \ {0}
    BY DEF IsMpd
  <2>2. p.index * m.duration \in Nat
    BY <1>1, <2>1
  <2> QED
    BY <1>1, <1>2, <2>1, <2>2 DEF Timestamp, Duration, End
<1>3. CASE ~Template(m)
  <2> DEFINE s == Segment(m, p.index)
  <2>1. p.index \in 0 .. Count(m) - 1
    BY <1>1, <1>3 DEF HasFragment
  <2>2. p.repeat \in 0 .. s.repeat
    BY <1>3 DEF WellPlaced
  <2>3. /\ s.start \in Nat /\ s.duration \in Nat \ {0} /\ s.repeat \in Nat
        /\ SegmentEnd(m, p.index) = s.start + s.duration * s.repeat + s.duration
    BY <1>3, <2>1, ListFacts
  <2>4. Timestamp(m, p) = s.start + s.duration * p.repeat /\ Duration(m, p) = s.duration
    BY <1>3 DEF Timestamp, Duration
  <2> HIDE DEF s
  <2>5. /\ s.duration * p.repeat \in Nat /\ s.duration * s.repeat \in Nat
        /\ p.repeat = 0 => s.duration * p.repeat = 0
        /\ s.duration * p.repeat <= s.duration * s.repeat
    <3>1. p.repeat \in Nat /\ p.repeat <= s.repeat
      BY <2>2, <2>3
    <3>2. p.repeat * s.duration <= s.repeat * s.duration
      BY <2>3, <3>1, FactorGrows
    <3>3. p.repeat * s.duration = s.duration * p.repeat /\ s.repeat * s.duration = s.duration * s.repeat
      BY <2>3, <3>1
    <3> QED
      BY <2>3, <3>1, <3>2, <3>3
  <2>6. End(m, p) = Timestamp(m, p) + Duration(m, p)
    BY DEF End
  <2>7. /\ s.start <= Timestamp(m, p) /\ End(m, p) <= SegmentEnd(m, p.index)
        /\ Timestamp(m, p) \in Nat /\ End(m, p) \in Nat
        /\ p.repeat = 0 => Timestamp(m, p) = s.start
    BY <2>3, <2>4, <2>5, <2>6
  <2>8. p.repeat = s.repeat => End(m, p) = SegmentEnd(m, p.index)
    BY <2>3, <2>4, <2>5, <2>6
  <2> QED
    BY <1>1, <1>3, <2>1, <2>2, <2>3, <2>4, <2>6, <2>7, <2>8 DEF s
<1> QED
  BY <1>2, <1>3

(* The last fragment ends last and the first one begins first.              *)
LEMMA LastFragment ==
  ASSUME NEW m, IsMpd(m), Contiguous(m), Count(m) > 0,
         NEW p, WellPlaced(m, p), ~HasNextSegment(m, p, TRUE), NEW q, WellPlaced(m, q)
  PROVE  /\ End(m, q) <= End(m, p) /\ p.index = Count(m) - 1
         /\ ~Template(m) => p.repeat = Segment(m, p.index).repeat
<1>0. /\ Count(m) \in Nat /\ p.index \in Nat /\ q.index \in Nat
      /\ End(m, q) \in Nat /\ End(m, p) \in Nat
  BY CountType, FragmentFacts
<1>1. CASE Template(m)
  <2>1. m.duration \in Nat \ {0}
    BY DEF IsMpd
  <2>2. p.index = Count(m) - 1 /\ q.index <= p.index
    BY <1>0, <1>1 DEF HasNextSegment, WellPlaced, HasFragment
  <2>3. q.index * m.duration <= p.index * m.duration
    BY <1>0, <2>1, <2>2, FactorGrows
  <2>4. /\ End(m, q) = q.index * m.duration + m.duration
        /\ End(m, p) = p.index * m.duration + m.duration
    BY <1>1, FragmentFacts
  <2>5. q.index * m.duration \in Int /\ p.index * m.duration \in Int
    BY <1>0, <2>1
  <2> QED
    BY <1>1, <2>1, <2>2, <2>3, <2>4, <2>5
<1>2. CASE ~Template(m)
  <2>1. /\ p.index \in 0 .. Count(m) - 1 /\ q.index \in 0 .. Count(m) - 1
        /\ p.repeat \in 0 .. Segment(m, p.index).repeat
        /\ End(m, q) <= SegmentEnd(m, q.index)
        /\ p.repeat = Segment(m, p.index).repeat => End(m, p) = SegmentEnd(m, p.index)
    BY <1>2, FragmentFacts
  <2>2. Segment(m, p.index).repeat \in Nat
    BY <1>2, <2>1, ListFacts
  <2>3. p.index + 1 = Count(m) /\ p.repeat = Segment(m, p.index).repeat
    <3>1. CASE p.index + 1 = Count(m)
      BY <1>0, <1>2, <2>1, <2>2, <3>1 DEF HasNextSegment
    <3>2. CASE p.index + 1 # Count(m)
      BY <1>0, <1>2, <2>1, <3>2 DEF HasNextSegment
    <3> QED
      BY <3>1, <3>2
  <2>4. SegmentEnd(m, q.index) <= SegmentEnd(m, p.index)
    <3>1. CASE q.index = p.index
      <4>1. SegmentEnd(m, q.index) \in Int
        BY <1>0, <2>1, <1>2, CountType, SegmentEndType
      <4> QED
        BY <3>1, <4>1
    <3>2. CASE q.index # p.index
      <4>1. q.index < p.index
        BY <1>0, <2>1, <2>3, <3>2
      <4>2. SegmentEnd(m, q.index) <= Segment(m, p.index).start
        BY <1>2, <2>1, <4>1, StartsGrow
      <4>3. Segment(m, p.index).start <= Timestamp(m, p) /\ Timestamp(m, p) < End(m, p)
        BY <1>2, FragmentFacts
      <4>4. SegmentEnd(m, q.index) \in Int /\ Segment(m, p.index).start \in Int /\ Timestamp(m, p) \in Int
        <5>1. SegmentEnd(m, q.index) \in Int
          BY <1>2, <2>1, CountType, SegmentEndType
        <5>2. Segment(m, p.index).start \in Int
          BY <1>2, <2>1, ListFacts
        <5>3. Timestamp(m, p) \in Int
          BY FragmentFacts
        <5> QED
          BY <5>1, <5>2, <5>3
      <4> QED
        BY <1>0, <2>1, <2>3, <4>2, <4>3, <4>4
    <3> QED
      BY <3>1, <3>2
  <2>5. SegmentEnd(m, q.index) \in Int
    BY <1>2, <2>1, CountType, SegmentEndType
  <2> QED
    BY <1>0, <1>2, <2>1, <2>3, <2>4, <2>5
<1> QED
  BY <1>1, <1>2

LEMMA FirstFragment ==
  ASSUME NEW m, IsMpd(m), Contiguous(m), NEW p, WellPlaced(m, p), p.index = 0,
         Template(m) \/ p.repeat = 0, NEW q, WellPlaced(m, q)
  PROVE  Timestamp(m, p) <= Timestamp(m, q)
<1>0. /\ p.index \in Nat /\ q.index \in Nat
      /\ Timestamp(m, q) \in Nat /\ Timestamp(m, p) \in Nat
  BY FragmentFacts
<1>1. CASE Template(m)
  <2>1. m.duration \in Nat /\ 0 * m.duration = 0
    BY DEF IsMpd
  <2>2. Timestamp(m, p) = 0
    BY <1>1, <2>1, FragmentFacts
  <2> QED
    BY <1>0, <2>2
<1>2. CASE ~Template(m)
  <2>1. /\ q.index \in 0 .. Count(m) - 1 /\ p.index \in 0 .. Count(m) - 1
        /\ Segment(m, q.index).start <= Timestamp(m, q)
        /\ Timestamp(m, p) = Segment(m, p.index).start
        /\ End(m, p) <= SegmentEnd(m, p.index) /\ Timestamp(m, p) < End(m, p)
        /\ End(m, p) \in Nat
    BY <1>2, FragmentFacts
  <2>2. Segment(m, q.index).start \in Int /\ SegmentEnd(m, p.index) \in Int
    BY <1>2, <2>1, CountType, ListFacts, SegmentEndType
  <2>3. CASE q.index = 0
    BY <1>0, <2>1, <2>3
  <2>4. CASE q.index # 0
    <3>1. p.index < q.index
      BY <1>0, <2>4
    <3>2. SegmentEnd(m, p.index) <= Segment(m, q.index).start
      BY <1>2, <2>1, <3>1, StartsGrow
    <3> QED
      BY <1>0, <2>1, <2>2, <3>2
  <2> QED
    BY <2>3, <2>4
<1> QED
  BY <1>1, <1>2

(* Of two fragments one ends before the other begins, or they are one.      *)
LEMMA Before ==
  ASSUME NEW a \in Nat, NEW u \in Nat \ {0}, NEW i \in Nat, NEW j \in Nat, i < j
  PROVE  a + u * i + u <= a + u * j
<1>1. (i + 1) * u <= j * u
  BY FactorGrows
<1>2. (i + 1) * u = u * i + u /\ j * u = u * j /\ u * i \in Nat /\ u * j \in Nat
  BY NextProduct
<1> QED
  BY <1>1, <1>2

LEMMA InOrder ==
  ASSUME NEW m, IsMpd(m), Contiguous(m), NEW p, WellPlaced(m, p), NEW q, WellPlaced(m, q)
  PROVE  \/ End(m, p) <= Timestamp(m, q) \/ End(m, q) <= Timestamp(m, p)
         \/ Timestamp(m, q) = Timestamp(m, p) /\ Duration(m, q) = Duration(m, p)
<1>0. /\ p.index \in Nat /\ q.index \in Nat
      /\ Timestamp(m, q) \in Nat /\ Timestamp(m, p) \in Nat
      /\ End(m, q) \in Nat /\ End(m, p) \in Nat
      /\ Duration(m, q) \in Nat /\ Duration(m, p) \in Nat
      /\ End(m, p) = Timestamp(m, p) + Duration(m, p)
      /\ End(m, q) = Timestamp(m, q) + Duration(m, q)
  BY FragmentFacts
<1>1. CASE Template(m)
  <2> DEFINE u == m.duration
  <2>1. u \in Nat \ {0}
    BY DEF IsMpd
  <2>2. /\ Timestamp(m, p) = u * p.index /\ Timestamp(m, q) = u * q.index
        /\ Duration(m, p) = u /\ Duration(m, q) = u
    BY <1>0, <1>1, <2>1, FragmentFacts
  <2> HIDE DEF u
  <2>3. u * p.index \in Nat /\ u * q.index \in Nat
    BY <1>0, <2>1
  <2>4. CASE p.index < q.index
    <3>1. 0 + u * p.index + u <= 0 + u * q.index
      BY <1>0, <2>1, <2>4, Before
    <3> QED
      BY <1>0, <2>1, <2>2, <2>3, <3>1
  <2>5. CASE q.index < p.index
    <3>1. 0 + u * q.index + u <= 0 + u * p.index
      BY <1>0, <2>1, <2>5, Before
    <3> QED
      BY <1>0, <2>1, <2>2, <2>3, <3>1
  <2>6. CASE p.index = q.index
    BY <2>2, <2>6
  <2> QED
    BY <1>0, <2>4, <2>5, <2>6
<1>2. CASE ~Template(m)
  <2>1. /\ q.index \in 0 .. Count(m) - 1 /\ p.index \in 0 .. Count(m) - 1
        /\ Segment(m, q.index).start <= Timestamp(m, q)
        /\ Segment(m, p.index).start <= Timestamp(m, p)
        /\ End(m, p) <= SegmentEnd(m, p.index)
        /\ End(m, q) <= SegmentEnd(m, q.index)
        /\ p.repeat \in 0 .. Segment(m, p.index).repeat
        /\ q.repeat \in 0 .. Segment(m, q.index).repeat
    BY <1>2, FragmentFacts
  <2>2. /\ Segment(m, q.index).start \in Nat /\ SegmentEnd(m, p.index) \in Int
        /\ Segment(m, p.index).start \in Nat /\ SegmentEnd(m, q.index) \in Int
        /\ Segment(m, p.index).repeat \in Nat /\ Segment(m, q.index).repeat \in Nat
        /\ Segment(m, p.index).duration \in Nat \ {0}
    BY <1>2, <2>1, CountType, ListFacts, SegmentEndType
  <2>3. CASE p.index < q.index
    <3>1. SegmentEnd(m, p.index) <= Segment(m, q.index).start
      BY <1>2, <2>1, <2>3, StartsGrow
    <3> QED
      BY <1>0, <2>1, <2>2, <3>1
  <2>4. CASE q.index < p.index
    <3>1. SegmentEnd(m, q.index) <= Segment(m, p.index).start
      BY <1>2, <2>1, <2>4, StartsGrow
    <3> QED
      BY <1>0, <2>1, <2>2, <3>1
  <2>5. CASE p.index = q.index
    <3> DEFINE a == Segment(m, p.index).start
               u == Segment(m, p.index).duration
    <3>1. /\ Timestamp(m, p) = a + u * p.repeat /\ Timestamp(m, q) = a + u * q.repeat
          /\ Duration(m, p) = u /\ Duration(m, q) = u
      BY <1>2, <2>5 DEF Timestamp, Duration
    <3>2. a \in Nat /\ u \in Nat \ {0}
      BY <2>2
    <3>3. p.repeat \in Nat /\ q.repeat \in Nat
      BY <2>1, <2>2
    <3> HIDE DEF a, u
    <3>4. u * p.repeat \in Nat /\ u * q.repeat \in Nat
      BY <3>2, <3>3
    <3>5. CASE p.repeat < q.repeat
      <4>1. a + u * p.repeat + u <= a + u * q.repeat
        BY <3>2, <3>3, <3>5, Before
      <4> QED
        BY <1>0, <3>1, <3>2, <3>4, <4>1
    <3>6. CASE q.repeat < p.repeat
      <4>1. a + u * q.repeat + u <= a + u * p.repeat
        BY <3>2, <3>3, <3>6, Before
      <4> QED
        BY <1>0, <3>1, <3>2, <3>4, <4>1
    <3>7. CASE p.repeat = q.repeat
      BY <3>1, <3>7
    <3> QED
      BY <3>3, <3>5, <3>6, <3>7
  <2> QED
    BY <1>0, <2>3, <2>4, <2>5
<1> QED
  BY <1>1, <1>2

(* gst_dash_demux_update_manifest_data: a stream that is sought to the      *)
(* first instant of its fragment but one is at that fragment again.         *)
LEMMA SoughtAgain ==
  ASSUME NEW m, IsMpd(m), Contiguous(m), NEW forward \in BOOLEAN,
         NEW p, WellPlaced(m, p), Duration(m, p) >= 2, Template(m) \/ m.start = 0
  PROVE  LET q == Seek(m, forward, Timestamp(m, p) + m.start + 1).at
         IN WellPlaced(m, q) /\ Timestamp(m, q) = Timestamp(m, p)
            /\ Duration(m, q) = Duration(m, p)
<1> DEFINE ts == Timestamp(m, p) + m.start + 1
           t == Timestamp(m, p) + 1
           q == Seek(m, forward, ts).at
<1>0. /\ m.start \in Nat /\ Timestamp(m, p) \in Nat /\ Duration(m, p) \in Nat
      /\ End(m, p) = Timestamp(m, p) + Duration(m, p)
  BY FragmentFacts DEF IsMpd
<1>1. ts \in Nat /\ t \in Nat /\ ts = m.start + t /\ Timestamp(m, p) < t /\ t < End(m, p)
  BY <1>0
<1>2. WellPlaced(m, q) /\ Timestamp(m, q) <= t /\ t <= End(m, q)
  <2>1. CASE Template(m)
    <3>1. SeekTemplate(m, forward, ts).found
      <4> DEFINE u == m.duration
                 i == t \div u
                 index == IF ~forward /\ i > 0 /\ t % u = 0 THEN i - 1 ELSE i
      <4>1. u \in Nat \ {0} /\ p.index \in Nat /\ Timestamp(m, p) = p.index * u /\ u >= 2
        BY <2>1, FragmentFacts DEF IsMpd
      <4>2. i \in Nat /\ u * i <= t
        BY <1>1, <4>1, Division
      <4>3. ts > m.start /\ ts - m.start = t
        BY <1>0, <1>1
      <4>4. SeekTemplate(m, forward, ts) =
              IF Count(m) > 0 /\ index >= Count(m)
              THEN [found |-> FALSE, at |-> Position(Count(m), 0)]
              ELSE [found |-> TRUE, at |-> Position(index, 0)]
        BY <4>3 DEF SeekTemplate
      <4> HIDE DEF u, i
      <4>5. u * i < u * (p.index + 1)
        <5>1. u * (p.index + 1) = u * p.index + u /\ u * p.index = p.index * u
          BY <4>1, NextProduct
        <5>2. u * i \in Int /\ u * p.index \in Int
          BY <4>1, <4>2
        <5> QED
          BY <4>1, <4>2, <5>1, <5>2
      <4>6. i < p.index + 1
        <5>1. i \in Int /\ p.index + 1 \in Int
          BY <4>1, <4>2
        <5> QED
          BY <4>1, <4>5, <5>1, SmallerFactor
      <4>7. Count(m) = 0 \/ p.index < Count(m)
        BY <2>1, <4>1, CountType DEF WellPlaced, HasFragment
      <4>8. Count(m) \in Nat /\ index \in Int /\ index <= i
        BY <4>2, CountType
      <4> HIDE DEF index
      <4> QED
        BY <4>1, <4>2, <4>4, <4>6, <4>7, <4>8
    <3>2. IF forward THEN m.start <= ts ELSE m.start < ts
      BY <1>0, <1>1
    <3> DEFINE at2 == SeekTemplate(m, forward, ts).at
    <3>3. /\ WellPlaced(m, at2)
          /\ IF forward
             THEN m.start + Timestamp(m, at2) <= ts /\ ts < m.start + End(m, at2)
             ELSE m.start + Timestamp(m, at2) < ts /\ ts <= m.start + End(m, at2)
      BY <1>1, <2>1, <3>1, <3>2, TemplateSeekHolds
    <3>4. q = at2
      BY <2>1 DEF Seek
    <3>5. Timestamp(m, at2) \in Nat /\ End(m, at2) \in Nat
      BY <3>3, FragmentFacts
    <3> QED
      BY <1>0, <1>1, <3>3, <3>4, <3>5
  <2>2. CASE ~Template(m)
    <3>3. ts = t
      BY <1>0, <1>1, <2>2
    <3>0. /\ p.index \in 0 .. Count(m) - 1 /\ Count(m) = Len(m.segments)
          /\ End(m, p) <= SegmentEnd(m, p.index) /\ SegmentEnd(m, p.index) \in Int
          /\ Segment(m, p.index).start <= Timestamp(m, p) /\ End(m, p) \in Int
      BY <2>2, FragmentFacts, CountType, SegmentEndType
    <3>1. SeekList(m, forward, ts).found
      <4>1. t < SegmentEnd(m, p.index)
        BY <1>1, <3>0
      <4>2. p.index \in Holding(m, forward, ts)
        BY <1>1, <3>0, <3>3, <4>1 DEF Holding
      <4> QED
        BY <4>2 DEF SeekList
    <3>2. IF forward THEN Segment(m, 0).start <= ts ELSE Segment(m, 0).start < ts
      <4>1. 0 \in 0 .. Count(m) - 1 /\ Count(m) \in Nat
        BY <3>0, CountType
      <4>2. /\ Segment(m, 0).start \in Nat /\ Segment(m, 0).duration \in Nat
            /\ Segment(m, 0).repeat \in Nat
            /\ SegmentEnd(m, 0) = Segment(m, 0).start
                 + Segment(m, 0).duration * Segment(m, 0).repeat + Segment(m, 0).duration
        BY <2>2, <4>1, ListFacts
      <4>3. Segment(m, 0).duration * Segment(m, 0).repeat \in Nat
        BY <4>2
      <4>4. Segment(m, 0).start <= Segment(m, p.index).start /\ Segment(m, p.index).start \in Nat
        <5>1. CASE p.index = 0
          BY <4>2, <5>1
        <5>2. CASE p.index # 0
          <6>1. 0 < p.index
            BY <3>0, <5>2
          <6>2. SegmentEnd(m, 0) <= Segment(m, p.index).start
            BY <2>2, <3>0, <4>1, <6>1, StartsGrow
          <6>3. Segment(m, p.index).start \in Nat
            BY <2>2, <3>0, ListFacts
          <6> QED
            BY <4>2, <4>3, <6>2, <6>3
        <5> QED
          BY <5>1, <5>2
      <4>5. Segment(m, 0).start < t
        BY <1>0, <1>1, <3>0, <4>2, <4>4
      <4>6. Segment(m, 0).start \in Nat /\ t \in Nat
        BY <1>1, <4>2
      <4> HIDE DEF ts, t
      <4> QED
        BY <3>3, <4>5, <4>6
    <3> DEFINE at2 == SeekList(m, forward, ts).at
    <3>4. /\ WellPlaced(m, at2)
          /\ IF forward THEN Timestamp(m, at2) <= ts /\ ts < End(m, at2)
                        ELSE Timestamp(m, at2) < ts /\ ts <= End(m, at2)
      BY <1>1, <2>2, <3>1, <3>2, ListSeekHolds
    <3>5. q = at2
      BY <2>2 DEF Seek
    <3>6. Timestamp(m, at2) \in Nat /\ End(m, at2) \in Nat
      BY <3>4, FragmentFacts
    <3> QED
      BY <1>0, <1>1, <3>3, <3>4, <3>5, <3>6
  <2> QED
    BY <2>1, <2>2
<1> HIDE DEF q, ts
<1>3. Timestamp(m, q) \in Nat /\ End(m, q) \in Nat
  BY <1>2, FragmentFacts
<1>4. Timestamp(m, q) = Timestamp(m, p) /\ Duration(m, q) = Duration(m, p)
  <2>1. \/ End(m, p) <= Timestamp(m, q) \/ End(m, q) <= Timestamp(m, p)
        \/ Timestamp(m, q) = Timestamp(m, p) /\ Duration(m, q) = Duration(m, p)
    BY <1>2, InOrder
  <2> QED
    BY <1>0, <1>1, <1>2, <1>3, <2>1
<1> QED
  BY <1>2, <1>4 DEF q, ts

-----------------------------------------------------------------------------
(* What there is to play.                                                   *)

(* The segments of a list follow each other from the start of the period.   *)
Gapless ==
  /\ Segments[1].start = 0
  /\ \A i \in DOMAIN Segments : Segments[i].repeat >= 0

(* A list is sought with the time as it is, and so must be in the first     *)
(* period.                                                                  *)
FirstPeriod == PeriodStart = 0 \/ \A s \in Starts : s.layout = "template"

(* One unit behind its first instant a fragment has not ended.              *)
Divisible ==
  RefetchOk # {} =>
    /\ PeriodLength >= 2 /\ TemplateDuration >= 2
    /\ \A i \in DOMAIN Segments : Segments[i].duration >= 2

(* Where the media of the period ends.                                      *)
EndOf(layout) ==
  CASE layout = "list" ->
         LET s == Segments[Len(Segments)] IN s.start + (s.repeat + 1) * s.duration
    [] layout = "template" ->
         ((PeriodLength + TemplateDuration - 1) \div TemplateDuration) * TemplateDuration
    [] layout \in {"inline", "indexed"} -> PeriodLength

(* Playback starts at the start of the period, or where it has been sought: *)
(* where there is media in that direction, or at the end.                   *)
StartsInside ==
  \A s \in Starts :
    /\ s.forward \/ s.seek
    /\ s.seek => LET t == s.target - PeriodStart
                 IN t <= EndOf(s.layout) /\ (~s.forward => 0 < t)

(* Backwards, the representations are cut at the same times.                *)
SameCuts ==
  \A s \in Starts :
    ~s.forward /\ s.layout \in {"inline", "indexed"} =>
      \A r \in 1 .. s.reps : Cuts[r] = Cuts[1]

Playable == Gapless /\ FirstPeriod /\ Divisible /\ StartsInside /\ SameCuts

MediaEnd == EndOf(start.layout)

LEMMA LayoutFacts ==
  ASSUME start \in Starts
  PROVE  /\ Template(Mpd) <=> start.layout = "template"
         /\ OnDemand => Mpd.segments = <<[start |-> 0, duration |-> PeriodLength, repeat |-> 0]>>
         /\ start.layout = "list" => Mpd.segments = Segments
         /\ start.layout = "template" => ~OnDemand
         /\ start.layout = "list" => ~OnDemand
         /\ OnDemand \/ start.layout \in {"list", "template"}
         /\ Mpd.duration = TemplateDuration /\ Mpd.start = PeriodStart /\ Mpd.length = PeriodLength
<1>1. start.layout \in {"inline", "indexed", "list", "template"}
  BY StartType
<1>2. OnDemand <=> start.layout \in {"inline", "indexed"}
  BY DEF OnDemand
<1>3. Mpd.segments =
          CASE OnDemand -> <<[start |-> 0, duration |-> PeriodLength, repeat |-> 0]>>
            [] start.layout = "list" -> Segments
            [] start.layout = "template" -> <<>>
  BY DEF Mpd
<1>4. /\ OnDemand => Mpd.segments = <<[start |-> 0, duration |-> PeriodLength, repeat |-> 0]>>
      /\ start.layout = "list" => Mpd.segments = Segments
      /\ start.layout = "template" => Mpd.segments = <<>>
  BY <1>1, <1>2, <1>3
<1>5. Segments # <<>> /\ <<[start |-> 0, duration |-> PeriodLength, repeat |-> 0]>> # <<>>
  BY SegmentsAssumption
<1>6. Mpd.duration = TemplateDuration /\ Mpd.start = PeriodStart /\ Mpd.length = PeriodLength
  BY DEF Mpd
<1> QED
  BY <1>1, <1>2, <1>4, <1>5, <1>6 DEF Template

LEMMA MpdRight ==
  ASSUME start \in Starts, Gapless
  PROVE  IsMpd(Mpd) /\ Contiguous(Mpd) /\ Count(Mpd) \in Nat \ {0}
<1>1. IsMpd(Mpd)
  BY MpdFits
<1>2. CASE OnDemand
  <2>1. Mpd.segments = <<[start |-> 0, duration |-> PeriodLength, repeat |-> 0]>>
    BY <1>2, LayoutFacts
  <2>2. Len(Mpd.segments) = 1 /\ Mpd.segments[1].repeat = 0
    BY <2>1
  <2>3. Contiguous(Mpd)
    BY <2>2 DEF Contiguous, Segment
  <2> QED
    BY <1>1, <2>1, <2>2, <2>3 DEF Count, Template
<1>3. CASE start.layout = "list"
  <2>1. Mpd.segments = Segments /\ Segments # <<>> /\ Len(Segments) \in Nat \ {0}
    BY <1>3, LayoutFacts, SegmentsAssumption
  <2>2. \A i \in 0 .. Len(Segments) - 1 : Segment(Mpd, i).repeat >= 0
    <3>1. \A i \in 0 .. Len(Segments) - 1 : i + 1 \in DOMAIN Segments
      BY <2>1, SegmentsAssumption
    <3> QED
      BY <2>1, <3>1 DEF Segment, Gapless
  <2>3. ASSUME NEW i \in 1 .. Len(Segments) - 1
        PROVE  Segment(Mpd, i).start = SegmentEnd(Mpd, i - 1)
    <3>1. i - 1 \in 0 .. Len(Segments) - 1 /\ (i - 1) + 1 = i
      BY <2>1
    <3>2. Segment(Mpd, i - 1) = Segments[i] /\ Segments[i].repeat >= 0
      BY <2>1, <2>2, <3>1 DEF Segment
    <3>3. Segment(Mpd, i) = Segments[i + 1]
      BY <2>1 DEF Segment
    <3>4. Segments[i + 1].start
            = Segments[i].start + (Segments[i].repeat + 1) * Segments[i].duration
      BY <3>2, SegmentsAssumption
    <3>5. SegmentEnd(Mpd, i - 1)
            = Segments[i].start + (Segments[i].repeat + 1) * Segments[i].duration
      BY <3>2 DEF SegmentEnd
    <3> QED
      BY <3>3, <3>4, <3>5
  <2>4. Contiguous(Mpd)
    BY <2>1, <2>2, <2>3 DEF Contiguous
  <2> QED
    BY <1>1, <2>1, <2>4 DEF Count, Template
<1>4. CASE start.layout = "template"
  <2>1. Template(Mpd) /\ Mpd.segments = <<>> /\ Mpd.length # Unknown
    BY <1>4, LayoutFacts, SizesAssumption DEF Template, Unknown
  <2>2. Contiguous(Mpd)
    BY <2>1 DEF Contiguous
  <2> DEFINE n == PeriodLength + TemplateDuration - 1
  <2>3. n \in Nat /\ TemplateDuration \in Nat \ {0} /\ n >= TemplateDuration
    BY SizesAssumption
  <2>4. Count(Mpd) = n \div TemplateDuration
    BY <2>1, LayoutFacts DEF Count
  <2> HIDE DEF n
  <2>5. n \div TemplateDuration \in Nat /\ n < TemplateDuration * (n \div TemplateDuration) + TemplateDuration
    BY <2>3, Division
  <2>6. n \div TemplateDuration # 0
    <3>1. TemplateDuration * 0 = 0
      BY <2>3
    <3> QED
      BY <2>3, <2>5, <3>1
  <2> QED
    BY <1>1, <2>2, <2>4, <2>5, <2>6
<1> QED
  BY <1>2, <1>3, <1>4, LayoutFacts

(* The first fragment begins with the period, and no other ends behind the  *)
(* last.                                                                    *)
LEMMA FirstPlace ==
  ASSUME start \in Starts, Gapless
  PROVE  /\ WellPlaced(Mpd, Position(0, 0)) /\ Timestamp(Mpd, Position(0, 0)) = 0
<1>1. IsMpd(Mpd) /\ Contiguous(Mpd) /\ Count(Mpd) \in Nat \ {0}
  BY MpdRight
<1>2. Position(0, 0) \in Positions /\ Position(0, 0).index = 0 /\ Position(0, 0).repeat = 0
  BY DEF Position, Positions
<1>3. CASE Template(Mpd)
  <2>1. WellPlaced(Mpd, Position(0, 0))
    BY <1>1, <1>2, <1>3 DEF WellPlaced, HasFragment
  <2>2. 0 * Mpd.duration = 0
    BY <1>1 DEF IsMpd
  <2> QED
    BY <1>2, <1>3, <2>1, <2>2 DEF Timestamp
<1>4. CASE ~Template(Mpd)
  <2>1. 0 \in 0 .. Count(Mpd) - 1
    BY <1>1
  <2>2. Segment(Mpd, 0).repeat \in Nat /\ Segment(Mpd, 0).duration \in Nat
    BY <1>1, <1>4, <2>1, ListFacts
  <2>3. WellPlaced(Mpd, Position(0, 0))
    BY <1>1, <1>2, <1>4, <2>1, <2>2 DEF WellPlaced, HasFragment
  <2>4. Segment(Mpd, 0).start = 0
    <3>1. CASE OnDemand
      BY <3>1, LayoutFacts DEF Segment
    <3>2. CASE start.layout = "list"
      BY <3>2, LayoutFacts DEF Segment, Gapless
    <3> QED
      BY <1>4, <3>1, <3>2, LayoutFacts
  <2>5. Segment(Mpd, 0).duration * 0 = 0
    BY <2>2
  <2> QED
    BY <1>2, <1>4, <2>3, <2>4, <2>5 DEF Timestamp
<1> QED
  BY <1>3, <1>4

(* The position of the last fragment.                                       *)
LastPlace ==
  IF Template(Mpd) THEN Position(Count(Mpd) - 1, 0)
  ELSE Position(Count(Mpd) - 1, Segment(Mpd, Count(Mpd) - 1).repeat)

LEMMA LastPlaceFacts ==
  ASSUME start \in Starts, Gapless
  PROVE  /\ WellPlaced(Mpd, LastPlace) /\ ~HasNextSegment(Mpd, LastPlace, TRUE)
         /\ End(Mpd, LastPlace) = MediaEnd
<1> DEFINE n == Count(Mpd)
           p == LastPlace
<1>1. IsMpd(Mpd) /\ Contiguous(Mpd) /\ n \in Nat \ {0}
  BY MpdRight
<1>2. CASE Template(Mpd)
  <2>1. p \in Positions /\ p.index = n - 1 /\ p.repeat = 0
    BY <1>1, <1>2 DEF Position, Positions, LastPlace
  <2>2. WellPlaced(Mpd, p)
    BY <1>1, <1>2, <2>1 DEF WellPlaced, HasFragment
  <2>3. ~HasNextSegment(Mpd, p, TRUE)
    BY <1>1, <1>2, <2>1 DEF HasNextSegment
  <2>4. /\ start.layout = "template" /\ Mpd.length = PeriodLength
        /\ Mpd.duration = TemplateDuration /\ PeriodLength # Unknown
        /\ TemplateDuration \in Nat
    BY <1>2, LayoutFacts, SizesAssumption DEF Unknown
  <2>5. MediaEnd = n * TemplateDuration
    BY <1>2, <2>4 DEF MediaEnd, EndOf, Count
  <2>6. End(Mpd, p) = (n - 1) * TemplateDuration + TemplateDuration
    BY <1>2, <2>1, <2>4 DEF End, Timestamp, Duration
  <2> HIDE DEF n, p
  <2>7. ((n - 1) + 1) * TemplateDuration = TemplateDuration * (n - 1) + TemplateDuration
        /\ TemplateDuration * (n - 1) = (n - 1) * TemplateDuration
    BY <1>1, <2>4, NextProduct
  <2>8. (n - 1) + 1 = n
    BY <1>1
  <2> QED
    BY <2>2, <2>3, <2>5, <2>6, <2>7, <2>8 DEF p
<1>3. CASE ~Template(Mpd)
  <2> DEFINE s == Segment(Mpd, n - 1)
  <2>1. n - 1 \in 0 .. n - 1 /\ n = Len(Mpd.segments)
    BY <1>1, <1>3, CountType
  <2>2. /\ s.start \in Nat /\ s.duration \in Nat \ {0} /\ s.repeat \in Nat
        /\ SegmentEnd(Mpd, n - 1) = s.start + s.duration * s.repeat + s.duration
    BY <1>1, <1>3, <2>1, ListFacts
  <2>3. p \in Positions /\ p.index = n - 1 /\ p.repeat = s.repeat
    BY <1>1, <1>3, <2>2 DEF Position, Positions, LastPlace
  <2>4. WellPlaced(Mpd, p)
    BY <1>1, <1>3, <2>1, <2>2, <2>3 DEF WellPlaced, HasFragment
  <2>5. ~HasNextSegment(Mpd, p, TRUE)
    BY <1>1, <1>3, <2>2, <2>3 DEF HasNextSegment
  <2>6. End(Mpd, p) = SegmentEnd(Mpd, n - 1)
    BY <1>1, <1>3, <2>3, <2>4, FragmentFacts
  <2>7. SegmentEnd(Mpd, n - 1) = MediaEnd
    <3>1. CASE OnDemand
      <4>1. n = 1 /\ s = [start |-> 0, duration |-> PeriodLength, repeat |-> 0]
        <5> DEFINE u == [start |-> 0, duration |-> PeriodLength, repeat |-> 0]
        <5>1. Mpd.segments = <<u>>
          BY <3>1, LayoutFacts
        <5>2. Len(<<u>>) = 1 /\ <<u>>[1] = u
          OBVIOUS
        <5>3. n = 1
          BY <2>1, <5>1, <5>2
        <5> HIDE DEF u, n
        <5>4. Segment(Mpd, n - 1) = u
          BY <5>1, <5>2, <5>3 DEF Segment
        <5> QED
          BY <5>3, <5>4 DEF u
      <4>2. start.layout \in {"inline", "indexed"}
        BY <3>1 DEF OnDemand
      <4>3. MediaEnd = PeriodLength
        BY <4>2 DEF MediaEnd, EndOf
      <4>4. s.start = 0 /\ s.duration = PeriodLength /\ s.repeat = 0
        BY <4>1
      <4>5. PeriodLength * 0 = 0 /\ PeriodLength \in Nat
        BY SizesAssumption
      <4> HIDE DEF s, n
      <4> QED
        BY <2>2, <4>3, <4>4, <4>5
    <3>2. CASE start.layout = "list"
      <4>1. Mpd.segments = Segments
        BY <3>2, LayoutFacts
      <4>2. s = Segments[Len(Segments)]
        <5>1. (n - 1) + 1 = Len(Segments)
          BY <2>1, <4>1
        <5> QED
          BY <4>1, <5>1 DEF Segment
      <4>3. MediaEnd = s.start + (s.repeat + 1) * s.duration
        BY <3>2, <4>2 DEF MediaEnd, EndOf
      <4>4. (s.repeat + 1) * s.duration = s.duration * s.repeat + s.duration
        BY <2>2, NextProduct
      <4>5. s.duration * s.repeat \in Nat
        BY <2>2
      <4> HIDE DEF s
      <4> QED
        BY <2>2, <4>3, <4>4, <4>5
    <3> QED
      BY <1>3, <3>1, <3>2, LayoutFacts
  <2> QED
    BY <2>4, <2>5, <2>6, <2>7
<1> QED
  BY <1>2, <1>3

LEMMA MediaEnds ==
  ASSUME start \in Starts, Gapless, NEW p, WellPlaced(Mpd, p)
  PROVE  /\ Timestamp(Mpd, p) \in Nat /\ End(Mpd, p) \in Nat /\ MediaEnd \in Nat
         /\ Timestamp(Mpd, p) < End(Mpd, p) /\ End(Mpd, p) <= MediaEnd
         /\ ~HasNextSegment(Mpd, p, TRUE) => End(Mpd, p) = MediaEnd
         /\ p.index = 0 /\ (Template(Mpd) \/ p.repeat = 0) => Timestamp(Mpd, p) = 0
<1>1. IsMpd(Mpd) /\ Contiguous(Mpd) /\ Count(Mpd) \in Nat /\ Count(Mpd) > 0
  <2>1. IsMpd(Mpd) /\ Contiguous(Mpd) /\ Count(Mpd) \in Nat \ {0}
    BY MpdRight
  <2> QED
    BY <2>1
<1>2. /\ Timestamp(Mpd, p) \in Nat /\ End(Mpd, p) \in Nat /\ Timestamp(Mpd, p) < End(Mpd, p)
  <2>1. /\ Timestamp(Mpd, p) \in Nat /\ Duration(Mpd, p) \in Nat \ {0}
        /\ End(Mpd, p) = Timestamp(Mpd, p) + Duration(Mpd, p)
    BY <1>1, FragmentFacts
  <2> QED
    BY <2>1
<1>3. /\ WellPlaced(Mpd, LastPlace) /\ ~HasNextSegment(Mpd, LastPlace, TRUE)
      /\ End(Mpd, LastPlace) = MediaEnd
  BY LastPlaceFacts
<1>4. End(Mpd, p) <= MediaEnd
  BY <1>1, <1>3, LastFragment
<1>5. MediaEnd \in Nat
  BY <1>1, <1>3, FragmentFacts
<1>6. ~HasNextSegment(Mpd, p, TRUE) => End(Mpd, p) = MediaEnd
  <2> SUFFICES ASSUME ~HasNextSegment(Mpd, p, TRUE) PROVE End(Mpd, p) = MediaEnd
    OBVIOUS
  <2>1. End(Mpd, LastPlace) <= End(Mpd, p)
    BY <1>1, <1>3, LastFragment
  <2> QED
    BY <1>2, <1>3, <1>4, <1>5, <2>1
<1>7. p.index = 0 /\ (Template(Mpd) \/ p.repeat = 0) => Timestamp(Mpd, p) = 0
  <2> SUFFICES ASSUME p.index = 0, Template(Mpd) \/ p.repeat = 0 PROVE Timestamp(Mpd, p) = 0
    OBVIOUS
  <2>1. WellPlaced(Mpd, Position(0, 0)) /\ Timestamp(Mpd, Position(0, 0)) = 0
    BY FirstPlace
  <2>2. Timestamp(Mpd, p) <= Timestamp(Mpd, Position(0, 0))
    BY <1>1, <2>1, FirstFragment
  <2> QED
    BY <1>2, <2>1, <2>2
<1> QED
  BY <1>2, <1>4, <1>5, <1>6, <1>7

(* The spans of the fragments of files.                                     *)
LEMMA FileSpans ==
  ASSUME start \in Starts, Gapless, ~OnDemand
  PROVE  /\ \A r, k, p : WellPlaced(Mpd, p) => Span(r, p, k) \in Spans
                          /\ Span(r, p, k) = <<Timestamp(Mpd, p), End(Mpd, p)>>
         /\ \A sp \in Spans : \E p : WellPlaced(Mpd, p)
                                /\ sp = <<Timestamp(Mpd, p), End(Mpd, p)>>
<1> DEFINE n == Count(Mpd)
           where == IF Template(Mpd) THEN {Position(i, 0) : i \in 0 .. n - 1}
                    ELSE UNION {{Position(i, j) : j \in 0 .. LastRepeat(Mpd, i)} : i \in 0 .. n - 1}
<1>1. IsMpd(Mpd) /\ Contiguous(Mpd) /\ n \in Nat \ {0}
  BY MpdRight
<1>2. Spans = {Span(1, p, 0) : p \in where}
  BY DEF Spans
<1>3. \A r, k, p : Span(r, p, k) = <<Timestamp(Mpd, p), End(Mpd, p)>>
  BY DEF Span, End
<1>4. \A i \in 0 .. n - 1 : ~Template(Mpd) =>
         LastRepeat(Mpd, i) = Segment(Mpd, i).repeat /\ Segment(Mpd, i).repeat \in Nat
  BY <1>1, ListFacts DEF LastRepeat
<1>5. \A i, j : Position(i, j).index = i /\ Position(i, j).repeat = j
  BY DEF Position
<1>6. \A p \in where : WellPlaced(Mpd, p)
  <2>1. CASE Template(Mpd)
    <3> SUFFICES ASSUME NEW i \in 0 .. n - 1 PROVE WellPlaced(Mpd, Position(i, 0))
      BY <2>1
    <3>1. Position(i, 0) \in Positions
      BY <1>1 DEF Position, Positions
    <3> QED
      BY <1>1, <1>5, <2>1, <3>1 DEF WellPlaced, HasFragment
  <2>2. CASE ~Template(Mpd)
    <3> SUFFICES ASSUME NEW i \in 0 .. n - 1, NEW j \in 0 .. LastRepeat(Mpd, i)
                 PROVE  WellPlaced(Mpd, Position(i, j))
      BY <2>2
    <3>1. Segment(Mpd, i).repeat \in Nat /\ j \in 0 .. Segment(Mpd, i).repeat
      BY <1>4, <2>2
    <3>2. Position(i, j) \in Positions
      BY <1>1, <3>1 DEF Position, Positions
    <3> QED
      BY <1>1, <1>5, <2>2, <3>1, <3>2 DEF WellPlaced, HasFragment
  <2> QED
    BY <2>1, <2>2
<1>7. ASSUME NEW p, WellPlaced(Mpd, p)
      PROVE  <<Timestamp(Mpd, p), End(Mpd, p)>> \in Spans
  <2>1. p \in Positions /\ p.index \in 0 .. n - 1
        /\ (~Template(Mpd) => p.repeat \in 0 .. Segment(Mpd, p.index).repeat)
    BY <1>1, <1>7 DEF WellPlaced, HasFragment
  <2>2. CASE Template(Mpd)
    <3> DEFINE q == Position(p.index, 0)
    <3>1. q \in where /\ q.index = p.index
      BY <1>5, <2>1, <2>2
    <3>2. Timestamp(Mpd, q) = Timestamp(Mpd, p) /\ Duration(Mpd, q) = Duration(Mpd, p)
      BY <2>2, <3>1 DEF Timestamp, Duration
    <3>3. Span(1, q, 0) = <<Timestamp(Mpd, p), End(Mpd, p)>>
      BY <1>3, <3>2 DEF End
    <3> HIDE DEF where, q
    <3> QED
      BY <1>2, <3>1, <3>3
  <2>3. CASE ~Template(Mpd)
    <3>1. p = Position(p.index, p.repeat)
      BY <2>1 DEF Position, Positions
    <3>2. p \in where
      BY <1>4, <2>1, <2>3, <3>1
    <3>3. Span(1, p, 0) = <<Timestamp(Mpd, p), End(Mpd, p)>>
      BY <1>3
    <3> HIDE DEF where
    <3> QED
      BY <1>2, <3>2, <3>3
  <2> QED
    BY <2>2, <2>3
<1> HIDE DEF where
<1> QED
  BY <1>2, <1>3, <1>6, <1>7

(* The spans of the entries of an index.                                    *)
LEMMA EntrySpans ==
  ASSUME start \in Starts, OnDemand
  PROVE  /\ \A r \in 1 .. start.reps, k \in Int : \A p :
              k \in 0 .. Entries(r) - 1 => Span(r, p, k) \in Spans
                          /\ Span(r, p, k) = <<Pts(r, k), EntryEnd(r, k)>>
         /\ \A sp \in Spans : \E r \in 1 .. start.reps : \E k \in 0 .. Entries(r) - 1 :
              sp = <<Pts(r, k), EntryEnd(r, k)>>
<1>1. \A r, k, p : Span(r, p, k) = <<Pts(r, k), EntryEnd(r, k)>>
  BY DEF Span
<1>2. Spans = UNION {{Span(r, d.at, k) : k \in BlocksOf(r)} : r \in 1 .. start.reps}
  BY DEF Spans
<1>3. \A r \in 1 .. start.reps : BlocksOf(r) = 0 .. Entries(r) - 1
  BY BlockCount, RepsFacts
<1>4. ASSUME NEW r \in 1 .. start.reps, NEW k \in 0 .. Entries(r) - 1
      PROVE  <<Pts(r, k), EntryEnd(r, k)>> \in Spans
  <2>1. Span(r, d.at, k) \in {Span(r, d.at, l) : l \in BlocksOf(r)}
    BY <1>3
  <2> QED
    BY <1>1, <1>2, <2>1
<1>5. ASSUME NEW sp \in Spans
      PROVE  \E r \in 1 .. start.reps : \E k \in 0 .. Entries(r) - 1 :
               sp = <<Pts(r, k), EntryEnd(r, k)>>
  <2>1. PICK r \in 1 .. start.reps : sp \in {Span(r, d.at, k) : k \in BlocksOf(r)}
    BY <1>2
  <2>2. PICK k \in BlocksOf(r) : sp = Span(r, d.at, k)
    BY <2>1
  <2> QED
    BY <1>1, <1>3, <2>2
<1> QED
  BY <1>1, <1>4, <1>5

LEMMA EntryTimes ==
  ASSUME NEW r \in Reps, NEW k \in 0 .. Entries(r) - 1
  PROVE  /\ Pts(r, k) \in Nat /\ EntryEnd(r, k) \in Nat /\ Pts(r, k) < EntryEnd(r, k)
         /\ EntryEnd(r, k) <= PeriodLength
         /\ k + 1 \in 0 .. Entries(r) /\ EntryEnd(r, k) = Pts(r, k + 1)
         /\ k + 1 = Entries(r) => EntryEnd(r, k) = PeriodLength
         /\ k = 0 => Pts(r, k) = 0
<1>1. /\ Entries(r) \in Nat \ {0}
      /\ \A e \in 0 .. Entries(r) : Pts(r, e) \in Nat
      /\ Pts(r, k) < EntryEnd(r, k) /\ EntryEnd(r, k) = Pts(r, k + 1)
      /\ Pts(r, 0) = 0 /\ Pts(r, Entries(r)) = PeriodLength
  BY EntryFacts
<1>2. k + 1 \in 0 .. Entries(r) /\ k \in 0 .. Entries(r) /\ Entries(r) \in 0 .. Entries(r)
      /\ k + 1 <= Entries(r)
  BY <1>1
<1>3. Pts(r, k + 1) <= Pts(r, Entries(r))
  BY <1>2, EntriesGrow
<1> QED
  BY <1>1, <1>2, <1>3

(* The show: its fragments are pairs of times, and it ends where the media  *)
(* of the period does.                                                      *)
LEMMA ShowFacts ==
  ASSUME start \in Starts, Gapless
  PROVE  /\ Spans \in SUBSET (Nat \X Nat) /\ MediaEnd \in Nat
         /\ \A sp \in Spans : 0 <= sp[1] /\ sp[2] <= MediaEnd
         /\ Show.fragments = Spans /\ Show.forward = start.forward /\ Show.from = From
         /\ Show.to = IF start.forward THEN MediaEnd ELSE 0
<1>1. MediaEnd \in Nat /\ (OnDemand => MediaEnd = PeriodLength)
  <2>1. WellPlaced(Mpd, Position(0, 0))
    BY FirstPlace
  <2>2. OnDemand => MediaEnd = PeriodLength
    BY DEF OnDemand, MediaEnd, EndOf
  <2> QED
    BY <2>1, <2>2, MediaEnds
<1> DEFINE Goal == /\ Spans \in SUBSET (Nat \X Nat)
                   /\ \A sp \in Spans : 0 <= sp[1] /\ sp[2] <= MediaEnd
                   /\ \E sp \in Spans : sp[1] = 0
                   /\ \E sp \in Spans : sp[2] = MediaEnd
<1>2. ASSUME OnDemand PROVE Goal
  <2>1. 1 \in 1 .. start.reps /\ 1 .. start.reps \subseteq Reps
    <3>1. start.reps \in Nat \ {0} /\ 1 .. start.reps \subseteq Reps
      BY RepsFacts
    <3> QED
      BY <3>1
  <2>2. Spans \in SUBSET (Nat \X Nat) /\ \A sp \in Spans : 0 <= sp[1] /\ sp[2] <= MediaEnd
    <3> SUFFICES ASSUME NEW sp \in Spans
                 PROVE  sp \in Nat \X Nat /\ 0 <= sp[1] /\ sp[2] <= MediaEnd
      OBVIOUS
    <3>1. PICK r \in 1 .. start.reps :
            \E k \in 0 .. Entries(r) - 1 : sp = <<Pts(r, k), EntryEnd(r, k)>>
      BY <1>2, EntrySpans
    <3>2. PICK k \in 0 .. Entries(r) - 1 : sp = <<Pts(r, k), EntryEnd(r, k)>>
      BY <3>1
    <3>3. /\ Pts(r, k) \in Nat /\ EntryEnd(r, k) \in Nat /\ EntryEnd(r, k) <= PeriodLength
      BY <2>1, EntryTimes
    <3> QED
      BY <1>1, <1>2, <3>2, <3>3
  <2>3. \E sp \in Spans : sp[1] = 0
    <3>1. Entries(1) \in Nat \ {0} /\ 0 \in 0 .. Entries(1) - 1 /\ 0 \in Int
      BY <2>1, EntryFacts
    <3>2. Span(1, d.at, 0) \in Spans /\ Span(1, d.at, 0) = <<Pts(1, 0), EntryEnd(1, 0)>>
      BY <1>2, <2>1, <3>1, EntrySpans
    <3>3. Pts(1, 0) = 0
      BY <2>1, EntryFacts
    <3> QED
      BY <3>2, <3>3
  <2>4. \E sp \in Spans : sp[2] = MediaEnd
    <3> DEFINE k == Entries(1) - 1
    <3>1. k \in 0 .. Entries(1) - 1 /\ k \in Int /\ k + 1 = Entries(1)
      BY <2>1, EntryFacts
    <3> HIDE DEF k
    <3>2. Span(1, d.at, k) \in Spans /\ Span(1, d.at, k) = <<Pts(1, k), EntryEnd(1, k)>>
      BY <1>2, <2>1, <3>1, EntrySpans
    <3>3. EntryEnd(1, k) = PeriodLength
      BY <2>1, <3>1, EntryTimes
    <3> QED
      BY <1>1, <1>2, <3>2, <3>3
  <2> QED
    BY <2>2, <2>3, <2>4
<1>3. ASSUME ~OnDemand PROVE Goal
  <2>1. Spans \in SUBSET (Nat \X Nat) /\ \A sp \in Spans : 0 <= sp[1] /\ sp[2] <= MediaEnd
    <3> SUFFICES ASSUME NEW sp \in Spans
                 PROVE  sp \in Nat \X Nat /\ 0 <= sp[1] /\ sp[2] <= MediaEnd
      OBVIOUS
    <3>1. PICK p : WellPlaced(Mpd, p) /\ sp = <<Timestamp(Mpd, p), End(Mpd, p)>>
      BY <1>3, FileSpans
    <3>2. Timestamp(Mpd, p) \in Nat /\ End(Mpd, p) \in Nat /\ End(Mpd, p) <= MediaEnd
      BY <3>1, MediaEnds
    <3> QED
      BY <3>1, <3>2
  <2>2. \E sp \in Spans : sp[1] = 0
    <3>1. WellPlaced(Mpd, Position(0, 0)) /\ Timestamp(Mpd, Position(0, 0)) = 0
      BY FirstPlace
    <3> QED
      BY <1>3, <3>1, FileSpans
  <2>3. \E sp \in Spans : sp[2] = MediaEnd
    <3>1. WellPlaced(Mpd, LastPlace) /\ End(Mpd, LastPlace) = MediaEnd
      BY LastPlaceFacts
    <3> QED
      BY <1>3, <3>1, FileSpans
  <2> QED
    BY <2>1, <2>2, <2>3
<1>4. Goal
  BY <1>2, <1>3
<1>5. /\ Show.fragments = Spans /\ Show.forward = start.forward /\ Show.from = From
      /\ Show.to = IF start.forward THEN Largest({s[2] : s \in Spans})
                   ELSE Smallest({s[1] : s \in Spans})
  BY DEF Show
<1> HIDE DEF Show
<1>6. Largest({s[2] : s \in Spans}) = MediaEnd
  <2> DEFINE A == {s[2] : s \in Spans}
  <2>1. A \in SUBSET Int /\ MediaEnd \in A /\ \A a \in A : a <= MediaEnd
    BY <1>1, <1>4
  <2> HIDE DEF A
  <2>2. Largest(A) \in A /\ \A a \in A : a <= Largest(A)
    BY <1>1, <2>1, LargestOf
  <2>3. Largest(A) = MediaEnd
    <3>1. Largest(A) \in Int /\ MediaEnd <= Largest(A) /\ Largest(A) <= MediaEnd /\ MediaEnd \in Int
      BY <2>1, <2>2
    <3> QED
      BY <3>1
  <2> QED
    BY <2>3 DEF A
<1>7. Smallest({s[1] : s \in Spans}) = 0
  <2> DEFINE A == {s[1] : s \in Spans}
  <2>1. A \in SUBSET Nat /\ 0 \in A
    BY <1>4
  <2> HIDE DEF A
  <2>2. Smallest(A) \in A /\ \A a \in A : Smallest(A) <= a
    BY <2>1, SmallestOf
  <2>3. Smallest(A) = 0
    <3>1. Smallest(A) \in Nat /\ Smallest(A) <= 0
      BY <2>1, <2>2
    <3> QED
      BY <3>1
  <2> QED
    BY <2>3 DEF A
<1> QED
  BY <1>1, <1>4, <1>5, <1>6, <1>7

(* It stays the same.                                                       *)
LEMMA ShowFixed ==
  ASSUME start' = start
  PROVE  Show' = Show /\ From' = From /\ Spans' = Spans /\ MediaEnd' = MediaEnd
<1>1. Mpd' = Mpd /\ OnDemand' = OnDemand
  BY StartFixed
<1>2. From' = From
  BY DEF From
<1>3. MediaEnd' = MediaEnd
  BY DEF MediaEnd
<1>4. Spans' = Spans
  <2>1. CASE OnDemand
    <3> DEFINE E == UNION {{<<Pts(r, k), EntryEnd(r, k)>> :
                              k \in 0 .. ((First + Entries(r) * Block) - First) \div Block - 1} :
                           r \in 1 .. start.reps}
    <3>1. Spans = E
      BY <2>1 DEF Spans, Span, BlocksOf, PartEnd, MediaBase
    <3>2. Spans' = E'
      BY <1>1, <2>1 DEF Spans, Span, BlocksOf, PartEnd, MediaBase
    <3>3. E' = E
      BY DEF Pts, EntryEnd, First, Block, Entries
    <3> QED
      BY <3>1, <3>2, <3>3
  <2>2. CASE ~OnDemand
    BY <1>1, <2>2 DEF Spans, Span
  <2> QED
    BY <2>1, <2>2
<1> QED
  BY <1>2, <1>3, <1>4 DEF Show

-----------------------------------------------------------------------------
(* Where playback stands.                                                   *)

(* A time within a span, in the direction of playback.                      *)
Inside(sp, t) ==
  IF start.forward THEN sp[1] <= t /\ t < sp[2] ELSE sp[1] < t /\ t <= sp[2]

(* The end of a span that is reached last.                                  *)
Far(sp) == IF start.forward THEN sp[2] ELSE sp[1]

(* The span that the stream is at, and where its block begins in the file.  *)
Here == Span(d.rep, d.at, d.entry)
BlockStart == IF OnDemand THEN EntryStart ELSE 0

(* Media arrives, and its block has been pushed to its end.                 *)
MediaComes == Receiving /\ Part = "media" /\ d.lastRet = "OK"
InBlock == MediaComes /\ (OnDemand => d.index # 0)
Told == InBlock /\ d.mdat /\ d.off = BlockStart + Block

(* A sidx of representation r will be searched for time t.                  *)
Sought(r, pending, pos, t) ==
  IF pending # Unknown THEN t = pending /\ Inside(<<0, PeriodLength>>, t)
  ELSE IF pos = Unknown THEN start.forward /\ t = 0
  ELSE IF start.forward THEN t = pos
  ELSE \E e \in 0 .. Entries(r) - 1 :
         pos = Pts(r, e) /\ Pts(r, e) < t /\ t <= EntryEnd(r, e)

(* All has been pushed up to the span that the stream is at, or is going to *)
(* find in the index.                                                       *)
Stands ==
  IF OnDemand /\ d.index = 0 THEN Sought(d.rep, d.pending, d.sidxPos, at)
  ELSE IF Told THEN at = Far(Here) ELSE Inside(Here, at)

Positioned ==
  d.lastRet # "EOS" =>
    IF HasFragment(Mpd, d.at) THEN WellPlaced(Mpd, d.at) /\ Stands
    ELSE at = Show.to /\ dpc \in {"loop", "done"} /\ d.sidxPos = Unknown

(* The end is announced where everything has been pushed.                   *)
EndSaid ==
  /\ d.lastRet = "EOS" => at = Show.to /\ dpc \in {"wait", "result", "done"}
  /\ dpc = "done" => d.lastRet = "EOS"

(* Within a block, all of it before the adapter has been pushed.            *)
Unbroken ==
  /\ run.from <= run.to
  /\ InBlock /\ BlockStart < d.off /\ d.off <= BlockStart + Block =>
       run.rep = src.rep /\ run.at = src.at /\ run.to = d.off /\ run.from <= BlockStart

(* A fragment that is a file of its own is fetched from its beginning, and  *)
(* its moof is pushed before its mdat.                                      *)
Files ==
  ~OnDemand =>
    /\ Loading /\ (Part # "media" \/ Untouched \/ src.on) => frag.at = d.at
    /\ Loading => frag.from = 0 /\ frag.to = Block
    /\ src.on /\ Part = "media" /\ d.lastRet = "OK" => src.end = Block /\ ~finished
    /\ d.mdat => Receiving \/ d.lastRet = "EOS"
    /\ MediaComes =>
         IF d.mdat THEN /\ MoofSize <= d.off /\ d.off <= Block
                        /\ spc # "parse" /\ (spc = "idle" <=> d.queue = <<>>)
         ELSE /\ d.off = 0 \/ d.off = MoofSize
              /\ spc = "idle" => \/ d.off = 0 /\ src.pos < MoofSize
                                 \/ d.off = MoofSize /\ d.queue = <<>>

(* A sidx is read as soon as it is there.                                   *)
IndexRead ==
  OnDemand /\ MediaComes /\ d.index = 0 /\ spc = "idle" => src.pos < First

(* What is pushed last does not end behind the place that is reached.       *)
Caught ==
  IF start.forward THEN heard[2] <= at /\ From <= at ELSE at <= heard[1] /\ at <= From

PlayInv ==
  Positioned /\ EndSaid /\ Unbroken /\ Files /\ IndexRead /\ Caught /\ SeekHonoured

-----------------------------------------------------------------------------
(* What a push tells.                                                       *)

RunsOn == run.rep = src.rep /\ run.at = src.at /\ run.to = d.off
RunStart == IF RunsOn THEN run.from ELSE d.off

(* The push of the next n units completes block k.                          *)
Completes(n, k) ==
  /\ RunStart <= MediaBase + k * Block
  /\ d.off < MediaBase + (k + 1) * Block /\ MediaBase + (k + 1) * Block <= d.off + n

Completed(n) ==
  {Span(src.rep, src.at, k) :
     k \in {k \in BlocksOf(src.rep) : src.part = "media" /\ Completes(n, k)}}

LEMMA PushOpen ==
  ASSUME d \in Streams, \A i \in 1 .. Len(d.queue) : d.queue[i] = d.off + i - 1,
         NEW n \in 1 .. Len(d.queue), Push(d, SubSeq(d.queue, 1, n))
  PROVE  /\ push'.part = src.part /\ push'.rep = src.rep /\ push'.at = src.at
         /\ push'.units \in Seq(Int) /\ Len(push'.units) = n
         /\ \A i \in 1 .. n : push'.units[i] = d.off + i - 1
         /\ run' = [rep |-> src.rep, at |-> src.at, from |-> RunStart, to |-> d.off + n]
         /\ heard' = IF Completed(n) = {} THEN heard ELSE CHOOSE sp \in Completed(n) : TRUE
         /\ at' = IF start.forward THEN Largest({at, heard'[2]}) ELSE Smallest({at, heard'[1]})
<1> DEFINE q == SubSeq(d.queue, 1, n)
<1>1. /\ d.queue \in Seq(Int) /\ d.off \in Int /\ Len(d.queue) \in Nat
      /\ n \in 0 .. Len(d.queue) /\ n \in Nat /\ n >= 1
  BY FieldTypes
<1>2. q \in Seq(Int) /\ Len(q) = n /\ (q = <<>> <=> n = 0) /\ \A i \in 1 .. n : q[i] = d.off + i - 1
  BY <1>1, PushedUnits
<1>3. Push(d, q)
  OBVIOUS
<1> HIDE DEF q
<1>4. q # <<>> /\ 1 \in 1 .. n /\ n \in 1 .. n
  BY <1>1, <1>2
<1>5. q[1] = d.off /\ q[Len(q)] + 1 = d.off + n
  <2>1. q[1] = d.off + 1 - 1 /\ q[n] = d.off + n - 1
    BY <1>2, <1>4
  <2> QED
    BY <1>1, <1>2, <2>1
<1> DEFINE more == q # <<>> /\ run.rep = src.rep /\ run.at = src.at /\ run.to = q[1]
           from == IF more THEN run.from ELSE q[1]
           to == q[Len(q)] + 1
           full(k) == /\ from <= MediaBase + k * Block
                      /\ q[1] < MediaBase + (k + 1) * Block
                      /\ MediaBase + (k + 1) * Block <= to
           spans == {Span(src.rep, src.at, k) :
                       k \in {k \in BlocksOf(src.rep) : src.part = "media" /\ full(k)}}
<1>6. from = RunStart /\ to = d.off + n
  BY <1>4, <1>5 DEF RunStart, RunsOn
<1>7. spans = Completed(n)
  BY <1>5, <1>6 DEF Completed, Completes
<1>8. /\ push' = [part |-> src.part, rep |-> src.rep, at |-> src.at, units |-> q,
                  off |-> d.off, index |-> d.index, entry |-> d.entry]
      /\ run' = [rep |-> src.rep, at |-> src.at, from |-> from, to |-> to]
      /\ heard' = IF spans = {} THEN heard ELSE CHOOSE sp \in spans : TRUE
      /\ at' = IF start.forward THEN Largest({at, heard'[2]}) ELSE Smallest({at, heard'[1]})
  BY <1>3, <1>4 DEF Push
<1> HIDE DEF from, to, spans
<1> QED
  BY <1>2, <1>6, <1>7, <1>8

LEMMA OneOfTwo ==
  \A a, b \in Int : /\ a >= b => Largest({a, b}) = a
                    /\ a <= b => Largest({a, b}) = b
                    /\ a <= b => Smallest({a, b}) = a
                    /\ a >= b => Smallest({a, b}) = b
<1> SUFFICES ASSUME NEW a \in Int, NEW b \in Int
             PROVE  /\ a >= b => Largest({a, b}) = a
                    /\ a <= b => Largest({a, b}) = b
                    /\ a <= b => Smallest({a, b}) = a
                    /\ a >= b => Smallest({a, b}) = b
  OBVIOUS
<1>1. Largest({a, b}) \in {a, b} /\ \A y \in {a, b} : y <= Largest({a, b})
  <2>1. \E x \in {a, b} : \A y \in {a, b} : y <= x
    OBVIOUS
  <2> QED
    BY <2>1 DEF Largest
<1>2. Smallest({a, b}) \in {a, b} /\ \A y \in {a, b} : Smallest({a, b}) <= y
  <2>1. \E x \in {a, b} : \A y \in {a, b} : x <= y
    OBVIOUS
  <2> QED
    BY <2>1 DEF Smallest
<1> QED
  BY <1>1, <1>2

(* A push that completes no block tells nothing.                            *)
LEMMA PushSilent ==
  ASSUME d \in Streams, \A i \in 1 .. Len(d.queue) : d.queue[i] = d.off + i - 1,
         heard \in Int \X Int, at \in Int, start \in Starts, start' = start, Caught,
         NEW n \in 0 .. Len(d.queue), Push(d, SubSeq(d.queue, 1, n)), Completed(n) = {}
  PROVE  heard' = heard /\ at' = at
<1>1. d.queue \in Seq(Int) /\ Len(d.queue) \in Nat /\ d.off \in Int
  BY FieldTypes
<1>2. CASE n = 0
  <2>1. SubSeq(d.queue, 1, n) = <<>>
    BY <1>1, <1>2, PushedUnits
  <2> QED
    BY <2>1 DEF Push, shownVars
<1>3. CASE n # 0
  <2>1. n \in 1 .. Len(d.queue)
    BY <1>1, <1>3
  <2>2. heard' = heard
        /\ at' = IF start.forward THEN Largest({at, heard'[2]}) ELSE Smallest({at, heard'[1]})
    BY <2>1, PushOpen
  <2>3. at \in Int /\ heard[1] \in Int /\ heard[2] \in Int
    OBVIOUS
  <2>4. IF start.forward THEN heard[2] <= at ELSE at <= heard[1]
    BY DEF Caught
  <2> QED
    BY <2>2, <2>3, <2>4, OneOfTwo
<1> QED
  BY <1>2, <1>3

(* How far a run of units goes.                                             *)
LEMMA PushRuns ==
  ASSUME d \in Streams, \A i \in 1 .. Len(d.queue) : d.queue[i] = d.off + i - 1, Shown,
         run.from <= run.to,
         NEW n \in 0 .. Len(d.queue), Push(d, SubSeq(d.queue, 1, n))
  PROVE  /\ run'.from <= run'.to
         /\ n = 0 => run' = run
         /\ n # 0 => run'.rep = src.rep /\ run'.at = src.at /\ run'.to = d.off + n
                     /\ run'.from = RunStart /\ RunStart <= d.off
<1>1. d.queue \in Seq(Int) /\ Len(d.queue) \in Nat /\ d.off \in Int /\ n \in Nat
      /\ run.from \in Int /\ run.to \in Int
  BY FieldTypes DEF Shown
<1>2. CASE n = 0
  <2>1. SubSeq(d.queue, 1, n) = <<>>
    BY <1>1, <1>2, PushedUnits
  <2>2. run' = run
    BY <2>1 DEF Push, shownVars
  <2> QED
    BY <1>2, <2>2
<1>3. CASE n # 0
  <2>1. n \in 1 .. Len(d.queue)
    BY <1>1, <1>3
  <2>2. run' = [rep |-> src.rep, at |-> src.at, from |-> RunStart, to |-> d.off + n]
    BY <2>1, PushOpen
  <2>3. RunStart <= d.off /\ RunStart \in Int
    BY <1>1 DEF RunStart, RunsOn
  <2> QED
    BY <1>1, <1>3, <2>2, <2>3
<1> QED
  BY <1>2, <1>3

(* A push that completes just the block that is the next to be heard.       *)
LEMMA PushTells ==
  ASSUME d \in Streams, \A i \in 1 .. Len(d.queue) : d.queue[i] = d.off + i - 1,
         at \in Int, start \in Starts, start' = start,
         NEW n \in 1 .. Len(d.queue), Push(d, SubSeq(d.queue, 1, n)),
         NEW sp \in Int \X Int, Completed(n) = {sp}, Inside(sp, at)
  PROVE  heard' = sp /\ at' = Far(sp)
<1>1. heard' = sp
      /\ at' = IF start.forward THEN Largest({at, heard'[2]}) ELSE Smallest({at, heard'[1]})
  BY PushOpen
<1>2. sp[1] \in Int /\ sp[2] \in Int
  OBVIOUS
<1>3. start.forward \in BOOLEAN
  BY StartType
<1>4. CASE start.forward
  BY <1>1, <1>2, <1>4, OneOfTwo DEF Inside, Far
<1>5. CASE ~start.forward
  <2>1. at' = Smallest({at, sp[1]}) /\ at >= sp[1]
    BY <1>1, <1>2, <1>5 DEF Inside
  <2>2. Smallest({at, sp[1]}) = sp[1]
    BY <1>2, <2>1, OneOfTwo
  <2> QED
    BY <1>1, <1>5, <2>1, <2>2 DEF Far
<1> QED
  BY <1>3, <1>4, <1>5

(* The blocks that are completed end within the units pushed.               *)
LEMMA CompletedEmpty ==
  ASSUME d \in Streams, NEW n \in Nat,
         src.part # "media" \/
           \A k \in BlocksOf(src.rep) : k \in Nat =>
              ~(d.off < MediaBase + (k + 1) * Block /\ MediaBase + (k + 1) * Block <= d.off + n)
  PROVE  Completed(n) = {}
BY DEF Completed, Completes, BlocksOf

LEMMA CompletedOne ==
  ASSUME d \in Streams, NEW n \in Nat, src.part = "media", MediaBase \in Nat, d.off \in Nat,
         NEW e \in Nat, e \in BlocksOf(src.rep),
         MediaBase + e * Block < d.off, d.off < MediaBase + e * Block + Block,
         d.off + n = MediaBase + e * Block + Block, RunStart <= MediaBase + e * Block
  PROVE  Completed(n) = {Span(src.rep, src.at, e)}
<1>1. Block \in Nat \ {0}
  BY Sizes
<1>2. (e + 1) * Block = e * Block + Block /\ e * Block \in Nat
  BY <1>1
<1>3. Completes(n, e)
  BY <1>1, <1>2 DEF Completes
<1>4. ASSUME NEW k \in BlocksOf(src.rep), Completes(n, k)
      PROVE  k = e
  <2>1. k \in Nat
    BY <1>4 DEF BlocksOf
  <2>2. (k + 1) * Block = k * Block + Block /\ k * Block \in Nat
    BY <1>1, <2>1
  <2>3. /\ d.off < MediaBase + (k + 1) * Block /\ MediaBase + (k + 1) * Block <= d.off + n
    BY <1>4 DEF Completes
  <2>4. ~(k + 1 <= e)
    <3>1. k + 1 <= e => (k + 1) * Block <= e * Block
      BY <1>1, <2>1, FactorGrows
    <3> DEFINE A == (k + 1) * Block
               B == e * Block
    <3>2. A \in Nat /\ B \in Nat
      BY <1>1, <1>2, <2>1
    <3> HIDE DEF A, B
    <3>3. ~(A <= B)
      BY <2>3, <3>2 DEF A, B
    <3> QED
      BY <3>1, <3>3 DEF A, B
  <2>5. ~(e + 1 <= k)
    <3>1. e + 1 <= k => (e + 1) * Block <= k * Block
      BY <1>1, <2>1, FactorGrows
    <3> DEFINE A == e * Block
               B == k * Block
    <3>2. A \in Nat /\ B \in Nat
      BY <1>1, <1>2, <2>1, <2>2
    <3>3. MediaBase + (B + Block) <= MediaBase + A + Block
      BY <2>2, <2>3
    <3> HIDE DEF A, B
    <3>4. ~(A + Block <= B)
      BY <1>1, <3>2, <3>3
    <3> QED
      BY <1>2, <3>1, <3>4 DEF A, B
  <2> QED
    BY <2>1, <2>4, <2>5
<1> QED
  BY <1>3, <1>4 DEF Completed

-----------------------------------------------------------------------------
(* The index is entered at the entry that holds the time sought.            *)

LEMMA SeekBackwards ==
  ASSUME start \in Starts, ~start.forward, NEW x \in Streams, x.index \in Reps,
         NEW snap \in BOOLEAN, NEW ts \in Nat
  PROVE  /\ ~snap /\ 0 < ts /\ ts <= PeriodLength =>
              \E i \in 0 .. Entries(x.index) - 1 :
                SidxSeek(x, snap, ts).entry = i
                /\ Pts(x.index, i) < ts /\ ts <= EntryEnd(x.index, i)
         /\ \A j \in 0 .. Entries(x.index) - 1 :
              snap /\ ts = Pts(x.index, j) => SidxSeek(x, snap, ts).entry = j
<1> DEFINE r == x.index
           Holds(i) == Pts(r, i) <= ts /\ ts < EntryEnd(r, i)
           e == IF ts >= PeriodLength THEN Entries(r) - 1
                ELSE CHOOSE i \in 0 .. Entries(r) - 1 : Holds(i)
           k == IF ~start.forward /\ e > 0 /\ Pts(r, e) = ts THEN e - 1 ELSE e
           idx == IF snap /\ ~start.forward /\ k + 1 < Entries(r) /\ Pts(r, k) < ts
                  THEN k + 1 ELSE k
<1>0. /\ Entries(r) \in Nat \ {0} /\ PeriodLength \in Nat \ {0}
      /\ \A g \in 0 .. Entries(r) : Pts(r, g) \in Nat
      /\ Pts(r, 0) = 0 /\ Pts(r, Entries(r)) = PeriodLength
      /\ \A g \in 0 .. Entries(r) - 1 : Pts(r, g) < EntryEnd(r, g) /\ EntryEnd(r, g) = Pts(r, g + 1)
  BY EntryFacts, SizesAssumption
<1>1. e \in 0 .. Entries(r) - 1 /\ (ts < PeriodLength => Holds(e))
      /\ (ts >= PeriodLength => e = Entries(r) - 1)
  <2>1. CASE ts >= PeriodLength
    BY <1>0, <2>1
  <2>2. CASE ts < PeriodLength
    <3>1. \E i \in 0 .. Entries(r) - 1 : Holds(i)
      BY <1>0, <2>2, EntryHolds
    <3>2. e = CHOOSE i \in 0 .. Entries(r) - 1 : Holds(i)
      BY <1>0, <2>2
    <3> HIDE DEF Holds
    <3> QED
      BY <1>0, <2>2, <3>1, <3>2
  <2> QED
    BY <1>0, <2>1, <2>2
<1>2. SidxSeek(x, snap, ts) = [x EXCEPT !.entry = idx, !.sidxPos = Pts(x.index, idx)]
  BY DEF SidxSeek
<1>3. SidxSeek(x, snap, ts).entry = idx
  BY <1>2 DEF Streams
<1> HIDE DEF e
<1>4. CASE e > 0 /\ Pts(r, e) = ts
  <2>1. k = e - 1 /\ k \in 0 .. Entries(r) - 1 /\ k + 1 = e /\ e < Entries(r)
    BY <1>0, <1>1, <1>4
  <2>2. Pts(r, k) < ts /\ ts = EntryEnd(r, k)
    BY <1>0, <1>4, <2>1
  <2>3. idx = IF snap THEN e ELSE k
    BY <2>1, <2>2
  <2>4. ASSUME NEW j \in 0 .. Entries(r) - 1, ts = Pts(r, j) PROVE j = e
    <3>1. Pts(r, e) < Pts(r, e + 1) /\ Pts(r, j) < Pts(r, j + 1)
      BY <1>0, <1>1
    <3>2. j + 1 <= e => Pts(r, j + 1) <= Pts(r, e)
      BY <1>0, <1>1, EntriesGrow
    <3>3. e + 1 <= j => Pts(r, e + 1) <= Pts(r, j)
      BY <1>0, <1>1, EntriesGrow
    <3>4. /\ Pts(r, j) \in Nat /\ Pts(r, e) \in Nat /\ Pts(r, j + 1) \in Nat
          /\ Pts(r, e + 1) \in Nat /\ j \in Int /\ e \in Int
      BY <1>0, <1>1
    <3> QED
      BY <1>4, <2>4, <3>1, <3>2, <3>3, <3>4
  <2> QED
    BY <1>3, <2>1, <2>2, <2>3, <2>4
<1>5. CASE ~(e > 0 /\ Pts(r, e) = ts)
  <2>1. k = e
    BY <1>5
  <2>2. ASSUME 0 < ts, ts <= PeriodLength PROVE Pts(r, e) < ts /\ ts <= EntryEnd(r, e)
    <3>1. CASE ts < PeriodLength
      BY <1>0, <1>1, <1>5, <2>2, <3>1
    <3>2. CASE ts >= PeriodLength
      BY <1>0, <1>1, <2>2, <3>2
    <3> QED
      BY <1>0, <3>1, <3>2
  <2>3. ASSUME NEW j \in 0 .. Entries(r) - 1, ts = Pts(r, j) PROVE idx = j
    <3>0. /\ Pts(r, j) \in Nat /\ Pts(r, e) \in Nat /\ Pts(r, j + 1) \in Nat
          /\ Pts(r, e + 1) \in Nat /\ j \in Int /\ e \in Int
      BY <1>0, <1>1
    <3>1. Pts(r, j + 1) <= PeriodLength /\ Pts(r, j) < Pts(r, j + 1)
      <4>1. j + 1 \in 0 .. Entries(r) /\ Entries(r) \in 0 .. Entries(r) /\ j + 1 <= Entries(r)
        BY <1>0
      <4> QED
        BY <1>0, <4>1, EntriesGrow
    <3>2. ts < PeriodLength /\ Pts(r, e) <= ts /\ ts < Pts(r, e + 1)
      BY <1>0, <1>1, <2>3, <3>0, <3>1
    <3>3. ~(j + 1 <= e)
      <4>1. j + 1 <= e => Pts(r, j + 1) <= Pts(r, e)
        BY <1>0, <1>1, EntriesGrow
      <4> QED
        BY <2>3, <3>0, <3>1, <3>2, <4>1
    <3>4. ~(e + 1 <= j)
      <4>1. e + 1 <= j => Pts(r, e + 1) <= Pts(r, j)
        BY <1>0, <1>1, EntriesGrow
      <4> QED
        BY <2>3, <3>0, <3>2, <4>1
    <3>5. j = e
      BY <3>0, <3>3, <3>4
    <3> QED
      BY <2>1, <2>3, <3>0, <3>5
  <2>4. ~snap => idx = e
    BY <2>1
  <2> QED
    BY <1>1, <1>3, <2>2, <2>3, <2>4
<1> QED
  BY <1>4, <1>5

LEMMA ReadInside ==
  ASSUME start \in Starts, NEW x \in Streams, Remembered(x), NEW r \in Reps, NEW o \in Int,
         NEW t \in Int, Sought(r, x.pending, x.sidxPos, t)
  PROVE  LET y == ReadSidx(x, r, o)
         IN Inside(<<Pts(r, y.entry), EntryEnd(r, y.entry)>>, t)
<1> DEFINE y == [x EXCEPT !.index = r, !.entry = 0, !.base = o, !.allow = FALSE]
           e0 == IF start.forward THEN 0 ELSE Entries(r) - 1
<1>1. /\ y \in Streams /\ y.index = r /\ start.forward \in BOOLEAN
  <2>1. 0 \in Int /\ FALSE \in BOOLEAN /\ r \in {0} \cup Reps
    OBVIOUS
  <2>2. [x EXCEPT !.index = r] \in Streams
    BY <2>1, SetIndex
  <2>3. [[x EXCEPT !.index = r] EXCEPT !.entry = 0] \in Streams
    BY <2>1, <2>2, SetEntry
  <2>4. [[[x EXCEPT !.index = r] EXCEPT !.entry = 0] EXCEPT !.base = o] \in Streams
    BY <2>1, <2>3, SetBase
  <2>5. [[[[x EXCEPT !.index = r] EXCEPT !.entry = 0] EXCEPT !.base = o] EXCEPT !.allow = FALSE]
          \in Streams
    BY <2>1, <2>4, SetAllow
  <2> QED
    BY <2>5, StartType DEF Streams
<1>2. ReadSidx(x, r, o) =
        IF x.pending # Unknown
        THEN [SidxSeek(y, FALSE, x.pending) EXCEPT !.pending = Unknown]
        ELSE IF x.sidxPos = Unknown
        THEN [y EXCEPT !.entry = e0, !.sidxPos = Pts(r, e0)]
        ELSE SidxSeek(y, TRUE, x.sidxPos)
  BY DEF ReadSidx
<1> HIDE DEF y, e0
<1>3. /\ x.pending # Unknown => x.pending \in Nat
      /\ x.sidxPos # Unknown => x.sidxPos \in 0 .. PeriodLength - 1 /\ x.sidxPos \in Nat
  BY DEF Remembered
<1>4. PeriodLength \in Nat \ {0}
  BY SizesAssumption
<1>5. CASE x.pending # Unknown
  <2> DEFINE z == SidxSeek(y, FALSE, x.pending)
  <2>1. t = x.pending /\ Inside(<<0, PeriodLength>>, t)
    BY <1>5 DEF Sought
  <2>2. \E i \in 0 .. Entries(r) - 1 :
           /\ z = [y EXCEPT !.entry = i, !.sidxPos = Pts(r, i)]
           /\ start.forward /\ t < PeriodLength => Pts(r, i) <= t /\ t < EntryEnd(r, i)
    BY <1>1, <1>3, <1>5, <2>1, SidxSeekFacts
  <2>3. ~start.forward => \E i \in 0 .. Entries(r) - 1 :
           z.entry = i /\ Pts(r, i) < t /\ t <= EntryEnd(r, i)
    <3>1. ~start.forward => 0 < t /\ t <= PeriodLength
      BY <2>1 DEF Inside
    <3> QED
      BY <1>1, <1>3, <1>5, <2>1, <3>1, SeekBackwards
  <2>4. z \in Streams
    <3> HIDE DEF z
    <3>1. PICK i \in 0 .. Entries(r) - 1 : z = [y EXCEPT !.entry = i, !.sidxPos = Pts(r, i)]
      BY <2>2
    <3>2. i \in Int /\ Pts(r, i) \in Int
      BY EntryTimes
    <3> QED
      BY <1>1, <3>1, <3>2, SetEntry, SetSidxPos
  <2>5. ReadSidx(x, r, o).entry = z.entry
    BY <1>2, <1>5, <2>4 DEF Streams
  <2>6. start.forward => Pts(r, z.entry) <= t /\ t < EntryEnd(r, z.entry)
    <3> HIDE DEF z
    <3>1. start.forward => t < PeriodLength
      BY <2>1 DEF Inside
    <3>2. PICK i \in 0 .. Entries(r) - 1 :
           /\ z = [y EXCEPT !.entry = i, !.sidxPos = Pts(r, i)]
           /\ start.forward /\ t < PeriodLength => Pts(r, i) <= t /\ t < EntryEnd(r, i)
      BY <2>2
    <3>3. z.entry = i
      BY <1>1, <3>2 DEF Streams
    <3> QED
      BY <3>1, <3>2, <3>3
  <2> HIDE DEF z
  <2> QED
    BY <1>1, <2>3, <2>5, <2>6 DEF Inside
<1>6. CASE x.pending = Unknown /\ x.sidxPos = Unknown
  <2>1. start.forward /\ t = 0
    BY <1>6 DEF Sought
  <2>2. ReadSidx(x, r, o) = [y EXCEPT !.entry = 0, !.sidxPos = Pts(r, 0)]
    BY <1>2, <1>6, <2>1 DEF e0
  <2>3. ReadSidx(x, r, o).entry = 0
    BY <1>1, <2>2 DEF Streams
  <2>4. 0 \in 0 .. Entries(r) - 1
    BY EntryFacts
  <2>5. Pts(r, 0) = 0 /\ EntryEnd(r, 0) > 0
    BY <2>4, EntryTimes
  <2> QED
    BY <2>1, <2>3, <2>5 DEF Inside
<1>7. CASE x.pending = Unknown /\ x.sidxPos # Unknown
  <2> DEFINE z == SidxSeek(y, TRUE, x.sidxPos)
  <2>1. ReadSidx(x, r, o) = z
    BY <1>2, <1>7
  <2>2. CASE start.forward
    <3>1. t = x.sidxPos /\ t < PeriodLength
      BY <1>3, <1>4, <1>7, <2>2 DEF Sought
    <3>2. PICK i \in 0 .. Entries(r) - 1 :
           /\ z = [y EXCEPT !.entry = i, !.sidxPos = Pts(r, i)]
           /\ start.forward /\ t < PeriodLength => Pts(r, i) <= t /\ t < EntryEnd(r, i)
      BY <1>1, <1>3, <1>7, <3>1, SidxSeekFacts
    <3> HIDE DEF z
    <3>3. z.entry = i
      BY <1>1, <3>2 DEF Streams
    <3> QED
      BY <2>1, <2>2, <3>1, <3>2, <3>3 DEF Inside
  <2>3. CASE ~start.forward
    <3>1. PICK e \in 0 .. Entries(r) - 1 :
            x.sidxPos = Pts(r, e) /\ Pts(r, e) < t /\ t <= EntryEnd(r, e)
      BY <1>7, <2>3 DEF Sought
    <3>2. z.entry = e
      BY <1>1, <1>3, <1>7, <2>3, <3>1, SeekBackwards
    <3> QED
      BY <2>1, <2>3, <3>1, <3>2 DEF Inside
  <2> QED
    BY <1>1, <2>2, <2>3
<1> QED
  BY <1>5, <1>6, <1>7

-----------------------------------------------------------------------------
(* The beginning.                                                           *)

(* A seek finds the fragment that holds its target, unless it is to the     *)
(* very end.                                                                *)
LEMMA SeekMeets ==
  ASSUME start \in Starts, Playable, start.seek
  PROVE  LET s == Seek(Mpd, start.forward, start.target)
         IN /\ From \in Nat /\ From = start.target - PeriodStart
            /\ s.found \in BOOLEAN
            /\ s.found => /\ WellPlaced(Mpd, s.at)
                          /\ Inside(<<Timestamp(Mpd, s.at), End(Mpd, s.at)>>, From)
            /\ ~s.found => ~HasFragment(Mpd, s.at) /\ From = Show.to
<1> DEFINE ts == start.target
           s == Seek(Mpd, start.forward, ts)
<1>1. /\ ts \in Nat /\ ts >= PeriodStart /\ PeriodStart \in Nat /\ start.forward \in BOOLEAN
      /\ From = ts - PeriodStart /\ From \in Nat
  BY StartType, SizesAssumption DEF From
<1>2. Gapless /\ FirstPeriod /\ StartsInside
  BY DEF Playable
<1>3. /\ IsMpd(Mpd) /\ Contiguous(Mpd) /\ Count(Mpd) \in Nat \ {0} /\ Mpd.start = PeriodStart
      /\ Template(Mpd) \in BOOLEAN
  BY <1>2, MpdRight, LayoutFacts DEF Template
<1>4. From <= MediaEnd /\ (~start.forward => 0 < From)
  BY <1>1, <1>2 DEF StartsInside, MediaEnd
<1>5. MediaEnd \in Nat /\ Show.to = IF start.forward THEN MediaEnd ELSE 0
  BY <1>2, ShowFacts
<1>6. s.found \in BOOLEAN
  <2>1. ts \in Int
    BY <1>1
  <2>2. s \in [found : BOOLEAN, at : Positions]
    BY <1>1, <1>3, <2>1, SeekType
  <2> QED
    BY <2>2
<1>7. CASE Template(Mpd)
  <2>1. s = SeekTemplate(Mpd, start.forward, ts)
    BY <1>7 DEF Seek
  <2>2. ASSUME s.found
        PROVE  WellPlaced(Mpd, s.at) /\ Inside(<<Timestamp(Mpd, s.at), End(Mpd, s.at)>>, From)
    <3>1. IF start.forward THEN Mpd.start <= ts ELSE Mpd.start < ts
      BY <1>1, <1>3, <1>4
    <3>2. /\ WellPlaced(Mpd, s.at)
          /\ IF start.forward
             THEN Mpd.start + Timestamp(Mpd, s.at) <= ts /\ ts < Mpd.start + End(Mpd, s.at)
             ELSE Mpd.start + Timestamp(Mpd, s.at) < ts /\ ts <= Mpd.start + End(Mpd, s.at)
      BY <1>1, <1>3, <1>7, <2>1, <2>2, <3>1, TemplateSeekHolds
    <3>3. Timestamp(Mpd, s.at) \in Nat /\ End(Mpd, s.at) \in Nat
      BY <1>2, <3>2, MediaEnds
    <3> HIDE DEF s, ts
    <3> QED
      BY <1>1, <1>3, <3>2, <3>3 DEF Inside
  <2>3. ASSUME ~s.found
        PROVE  ~HasFragment(Mpd, s.at) /\ From = Show.to
    <3> DEFINE t == IF ts > Mpd.start THEN ts - Mpd.start ELSE 0
               i == t \div Mpd.duration
               index == IF ~start.forward /\ i > 0 /\ t % Mpd.duration = 0 THEN i - 1 ELSE i
    <3>1. s.at = Position(Count(Mpd), 0) /\ index >= Count(Mpd)
      BY <2>1, <2>3 DEF SeekTemplate
    <3>2. ~HasFragment(Mpd, s.at)
      BY <1>3, <1>7, <3>1 DEF HasFragment, Position
    <3>3. t = From
      BY <1>1, <1>3
    <3> HIDE DEF t, s
    <3> DEFINE D0 == TemplateDuration
    <3>4. Mpd.duration = D0 /\ D0 \in Nat \ {0}
      BY LayoutFacts, SizesAssumption
    <3>5. MediaEnd = Count(Mpd) * D0
      <4>1. start.layout = "template" /\ Mpd.length = PeriodLength /\ PeriodLength # Unknown
        BY <1>7, LayoutFacts, SizesAssumption DEF Unknown
      <4> QED
        BY <1>7, <3>4, <4>1 DEF MediaEnd, EndOf, Count
    <3> HIDE DEF D0
    <3>6. /\ i \in Nat /\ D0 * i <= From
          /\ From % D0 # 0 => D0 * i < From
      BY <1>1, <3>3, <3>4, Division
    <3>7. Count(Mpd) <= i /\ (~start.forward => From % D0 # 0 \/ Count(Mpd) + 1 <= i \/ i = 0)
      BY <1>3, <3>1, <3>3, <3>4, <3>6
    <3> HIDE DEF i
    <3>8. MediaEnd <= i * D0 /\ (Count(Mpd) + 1 <= i => MediaEnd < i * D0)
      <4>1. Count(Mpd) * D0 <= i * D0
        BY <1>3, <3>4, <3>6, <3>7, FactorGrows
      <4>2. Count(Mpd) + 1 <= i => (Count(Mpd) + 1) * D0 <= i * D0
        BY <1>3, <3>4, <3>6, <3>7, FactorGrows
      <4>3. (Count(Mpd) + 1) * D0 = Count(Mpd) * D0 + D0
        BY <1>3, <3>4
      <4> DEFINE P == Count(Mpd) * D0
                 Q == i * D0
      <4>4. P \in Nat /\ Q \in Nat
        BY <1>3, <3>4, <3>6
      <4> HIDE DEF P, Q
      <4>5. P <= Q /\ (Count(Mpd) + 1 <= i => P + D0 <= Q)
        BY <4>1, <4>2, <4>3 DEF P, Q
      <4>6. P <= Q /\ (Count(Mpd) + 1 <= i => P < Q)
        BY <3>4, <4>4, <4>5
      <4> QED
        BY <3>5, <4>6 DEF P, Q
    <3>9. i * D0 = D0 * i /\ i * D0 \in Nat
      BY <3>4, <3>6
    <3>10. CASE start.forward
      BY <1>1, <1>4, <1>5, <3>2, <3>6, <3>8, <3>9, <3>10
    <3>11. CASE ~start.forward
      <4>1. i # 0
        BY <1>3, <3>6, <3>7
      <4>2. MediaEnd < From
        BY <1>1, <1>5, <3>6, <3>7, <3>8, <3>9, <3>11, <4>1
      <4> QED
        BY <1>1, <1>4, <1>5, <4>2
    <3> QED
      BY <1>1, <3>10, <3>11
  <2> QED
    BY <1>1, <1>6, <2>2, <2>3
<1>8. CASE ~Template(Mpd)
  <2>1. s = SeekList(Mpd, start.forward, ts)
    BY <1>8 DEF Seek
  <2>2. PeriodStart = 0 /\ From = ts
    <3>1. start.layout # "template"
      BY <1>8, LayoutFacts
    <3>2. PeriodStart = 0
      BY <1>2, <3>1 DEF FirstPeriod
    <3> QED
      BY <1>1, <3>2
  <2>3. ASSUME s.found
        PROVE  WellPlaced(Mpd, s.at) /\ Inside(<<Timestamp(Mpd, s.at), End(Mpd, s.at)>>, From)
    <3>1. Segment(Mpd, 0).start = 0
      <4>1. WellPlaced(Mpd, Position(0, 0)) /\ Timestamp(Mpd, Position(0, 0)) = 0
        BY <1>2, FirstPlace
      <4>2. Position(0, 0).index = 0 /\ Position(0, 0).repeat = 0
        BY DEF Position
      <4> QED
        BY <1>3, <1>8, <4>1, <4>2, FragmentFacts
    <3>2. IF start.forward THEN Segment(Mpd, 0).start <= ts ELSE Segment(Mpd, 0).start < ts
      BY <1>1, <1>4, <2>2, <3>1
    <3>3. /\ WellPlaced(Mpd, s.at)
          /\ IF start.forward THEN Timestamp(Mpd, s.at) <= ts /\ ts < End(Mpd, s.at)
                              ELSE Timestamp(Mpd, s.at) < ts /\ ts <= End(Mpd, s.at)
      BY <1>1, <1>3, <1>8, <2>1, <2>3, <3>2, ListSeekHolds
    <3> QED
      BY <2>2, <3>3 DEF Inside
  <2>4. ASSUME ~s.found
        PROVE  ~HasFragment(Mpd, s.at) /\ From = Show.to
    <3>1. Holding(Mpd, start.forward, ts) = {} /\ s.at = Position(Len(Mpd.segments), 0)
      <4> DEFINE in == Holding(Mpd, start.forward, ts)
      <4>1. in # {} => s.found = TRUE
        BY <2>1 DEF SeekList
      <4>2. in = {} => s.at = Position(Len(Mpd.segments), 0)
        BY <2>1 DEF SeekList
      <4> QED
        BY <2>4, <4>1, <4>2
    <3>2. Count(Mpd) = Len(Mpd.segments)
      BY <1>8 DEF Count
    <3>3. ~HasFragment(Mpd, s.at)
      BY <1>3, <1>8, <3>1, <3>2 DEF HasFragment, Position
    <3> HIDE DEF s
    <3> DEFINE l == Count(Mpd) - 1
    <3>4. SegmentEnd(Mpd, l) = MediaEnd
      <4>1. WellPlaced(Mpd, LastPlace) /\ End(Mpd, LastPlace) = MediaEnd
        BY <1>2, LastPlaceFacts
      <4>2. LastPlace.index = l /\ LastPlace.repeat = Segment(Mpd, l).repeat
        BY <1>8 DEF LastPlace, Position
      <4> QED
        BY <1>3, <1>8, <4>1, <4>2, FragmentFacts
    <3>5. l \in 0 .. Len(Mpd.segments) - 1
      BY <1>3, <3>2
    <3>6. IF start.forward THEN ~(ts < MediaEnd) ELSE ~(ts <= MediaEnd)
      BY <3>1, <3>4, <3>5 DEF Holding
    <3> QED
      BY <1>1, <1>4, <1>5, <2>2, <3>3, <3>6
  <2> QED
    BY <1>1, <1>6, <2>3, <2>4
<1> QED
  BY <1>3, <1>7, <1>8

LEMMA HereFiles ==
  ASSUME start \in Starts, Gapless, ~OnDemand, WellPlaced(Mpd, d.at)
  PROVE  Here = <<Timestamp(Mpd, d.at), End(Mpd, d.at)>> /\ Here \in Spans
BY FileSpans DEF Here

LEMMA HereEntry ==
  ASSUME OnDemand
  PROVE  Here = <<Pts(d.rep, d.entry), EntryEnd(d.rep, d.entry)>>
BY DEF Here, Span

LEMMA PlayInit == ASSUME Playable, Init PROVE PlayInv
<1>1. /\ start \in Starts /\ d = NewStream /\ dpc = "loop" /\ spc = "idle" /\ ~src.on
      /\ push.units = <<>> /\ heard = <<From, From>> /\ at = From /\ run.from = 0 /\ run.to = 0
  BY DEF Init, NoSrc
<1>2. /\ d.lastRet = "OK" /\ d.sidxPos = Unknown /\ d.index = 0 /\ ~d.mdat
      /\ d.at = IF start.seek THEN Seek(Mpd, start.forward, start.target).at ELSE Position(0, 0)
      /\ d.pending = IF OnDemand /\ start.seek /\ Seek(Mpd, start.forward, start.target).found
                     THEN start.target - PeriodStart ELSE Unknown
  BY <1>1 DEF NewStream
<1>3. Gapless /\ StartsInside /\ start.forward \in BOOLEAN /\ start.seek \in BOOLEAN
  BY <1>1, StartType DEF Playable
<1>4. From \in Int
  <2>1. start.target \in Nat /\ PeriodStart \in Nat
    BY <1>1, StartType, SizesAssumption
  <2> QED
    BY <2>1 DEF From
<1>5. ~Receiving /\ ~MediaComes /\ ~InBlock /\ ~Told /\ ~Loading
  BY <1>1 DEF Receiving, MediaComes, InBlock, Told, Loading
<1>6. OnDemand => \A p : WellPlaced(Mpd, p) => Timestamp(Mpd, p) = 0 /\ End(Mpd, p) = PeriodLength
  <2> SUFFICES ASSUME OnDemand, NEW p, WellPlaced(Mpd, p)
               PROVE  Timestamp(Mpd, p) = 0 /\ End(Mpd, p) = PeriodLength
    OBVIOUS
  <2>1. /\ ~Template(Mpd) /\ Mpd.segments = <<[start |-> 0, duration |-> PeriodLength, repeat |-> 0]>>
    BY <1>1, LayoutFacts DEF OnDemand
  <2>2. Count(Mpd) = 1 /\ Segment(Mpd, 0) = [start |-> 0, duration |-> PeriodLength, repeat |-> 0]
    BY <2>1 DEF Count, Segment
  <2>3. p.index = 0 /\ p.repeat = 0
    BY <2>1, <2>2 DEF WellPlaced, HasFragment, Positions
  <2> QED
    BY <2>1, <2>2, <2>3, SizesAssumption DEF Timestamp, Duration, End
<1>7. Positioned
  <2>1. ASSUME WellPlaced(Mpd, d.at), Inside(<<Timestamp(Mpd, d.at), End(Mpd, d.at)>>, From),
               OnDemand => \/ d.pending = From /\ From \in Nat
                           \/ d.pending = Unknown /\ start.forward /\ From = 0
        PROVE  Stands
    <3>1. CASE OnDemand
      <4>1. From \in Nat => From # Unknown
        BY DEF Unknown
      <4>2. Sought(d.rep, d.pending, d.sidxPos, at)
        BY <1>1, <1>2, <1>6, <2>1, <3>1, <4>1 DEF Sought
      <4> QED
        BY <1>2, <3>1, <4>2 DEF Stands
    <3>2. CASE ~OnDemand
      BY <1>1, <1>3, <1>5, <2>1, <3>2, HereFiles DEF Stands
    <3> QED
      BY <3>1, <3>2
  <2>2. CASE start.seek
    <3> DEFINE s == Seek(Mpd, start.forward, start.target)
    <3>1. /\ From \in Nat /\ From = start.target - PeriodStart /\ s.found \in BOOLEAN
          /\ s.found => /\ WellPlaced(Mpd, s.at)
                        /\ Inside(<<Timestamp(Mpd, s.at), End(Mpd, s.at)>>, From)
          /\ ~s.found => ~HasFragment(Mpd, s.at) /\ From = Show.to
      BY <1>1, <2>2, SeekMeets
    <3>2. d.at = s.at /\ d.pending = IF OnDemand /\ s.found THEN From ELSE Unknown
      BY <1>2, <2>2, <3>1
    <3> HIDE DEF s
    <3>3. CASE s.found
      <4>1. WellPlaced(Mpd, d.at) /\ Inside(<<Timestamp(Mpd, d.at), End(Mpd, d.at)>>, From)
        BY <3>1, <3>2, <3>3
      <4>2. OnDemand => d.pending = From
        BY <3>2, <3>3
      <4>3. Stands
        <5>1. OnDemand => \/ d.pending = From /\ From \in Nat
                          \/ d.pending = Unknown /\ start.forward /\ From = 0
          BY <3>1, <4>2
        <5> QED
          BY <2>1, <4>1, <5>1
      <4>4. WellPlaced(Mpd, d.at) /\ HasFragment(Mpd, d.at) /\ Stands
        BY <4>1, <4>3 DEF WellPlaced
      <4> QED
        BY <4>4 DEF Positioned
    <3>4. CASE ~s.found
      BY <1>1, <1>2, <3>1, <3>2, <3>4 DEF Positioned
    <3> QED
      BY <3>1, <3>3, <3>4
  <2>3. CASE ~start.seek
    <3>1. start.forward /\ From = 0 /\ d.at = Position(0, 0) /\ d.pending = Unknown
      BY <1>1, <1>2, <1>3, <2>3 DEF StartsInside, From
    <3>2. WellPlaced(Mpd, d.at) /\ Timestamp(Mpd, d.at) = 0
      BY <1>1, <1>3, <3>1, FirstPlace
    <3>3. End(Mpd, d.at) \in Nat /\ 0 < End(Mpd, d.at)
      BY <1>1, <1>3, <3>2, MediaEnds
    <3>4. Inside(<<Timestamp(Mpd, d.at), End(Mpd, d.at)>>, From)
      BY <3>1, <3>2, <3>3 DEF Inside
    <3>5. Stands
      BY <2>1, <3>1, <3>2, <3>4
    <3> QED
      BY <3>2, <3>5 DEF Positioned, WellPlaced
  <2> QED
    BY <1>3, <2>2, <2>3
<1>8. EndSaid
  BY <1>1, <1>2 DEF EndSaid
<1>9. Unbroken
  BY <1>1, <1>5 DEF Unbroken
<1>10. Files
  <2>1. ~(src.on /\ Part = "media" /\ d.lastRet = "OK")
    BY <1>1
  <2> QED
    BY <1>2, <1>5, <2>1 DEF Files
<1>11. IndexRead
  BY <1>5 DEF IndexRead
<1>12. Caught
  BY <1>1, <1>4 DEF Caught
<1>13. SeekHonoured
  <2>1. Media = {}
    BY <1>1 DEF Media
  <2> QED
    BY <2>1 DEF SeekHonoured
<1> QED
  BY <1>7, <1>8, <1>9, <1>10, <1>11, <1>12, <1>13 DEF PlayInv

-----------------------------------------------------------------------------
(* What the steps of D leave as it is.                                      *)

LEMMA HereSame ==
  ASSUME start' = start, d'.rep = d.rep, d'.at = d.at, d'.entry = d.entry
  PROVE  Here' = Here
<1>1. Mpd' = Mpd /\ OnDemand' = OnDemand
  BY StartFixed
<1> QED
  BY <1>1 DEF Here, Span, Pts, EntryEnd

LEMMA ShownSame ==
  ASSUME start' = start, UNCHANGED shownVars, Caught, SeekHonoured, run.from <= run.to
  PROVE  Caught' /\ SeekHonoured' /\ run'.from <= run'.to
<1>1. Mpd' = Mpd /\ OnDemand' = OnDemand /\ From' = From
  BY StartFixed, ShowFixed
<1>2. push' = push /\ heard' = heard /\ at' = at /\ run' = run
  BY DEF shownVars
<1>3. Caught'
  BY <1>1, <1>2 DEF Caught
<1>4. SeekHonoured'
  BY <1>1, <1>2 DEF SeekHonoured, Media, BoxOf, MediaBase, First, Block, Span, Pts, EntryEnd
<1> QED
  BY <1>2, <1>3, <1>4

LEMMA SoughtSame ==
  ASSUME start' = start, d'.rep = d.rep, d'.pending = d.pending, d'.sidxPos = d.sidxPos,
         at' = at, Sought(d.rep, d.pending, d.sidxPos, at)
  PROVE  Sought(d.rep, d.pending, d.sidxPos, at)'
BY DEF Sought, Inside, Pts, EntryEnd, Entries

(* The stream stands where it stood, and no media comes.                    *)
LEMMA StandsSame ==
  ASSUME start' = start, at' = at, d'.rep = d.rep, d'.index = d.index,
         d'.pending = d.pending, d'.sidxPos = d.sidxPos, Here' = Here,
         ~Told, ~Told', Stands
  PROVE  Stands'
<1>1. OnDemand' = OnDemand
  BY StartFixed
<1>2. CASE OnDemand /\ d.index = 0
  BY <1>1, <1>2, SoughtSame DEF Stands
<1>3. CASE ~(OnDemand /\ d.index = 0)
  BY <1>1, <1>3 DEF Stands, Inside
<1> QED
  BY <1>2, <1>3

LEMMA PlayKept ==
  ASSUME start' = start, UNCHANGED shownVars, PlayInv, ~Told, ~MediaComes',
         d'.rep = d.rep, d'.at = d.at, d'.index = d.index, d'.entry = d.entry,
         d'.pending = d.pending, d'.sidxPos = d.sidxPos,
         d'.lastRet # "EOS" => d.lastRet # "EOS",
         d'.lastRet # "EOS" /\ dpc \in {"loop", "done"} /\ ~HasFragment(Mpd, d.at)
           => dpc' \in {"loop", "done"},
         EndSaid', Files'
  PROVE  PlayInv'
<1>1. Mpd' = Mpd /\ OnDemand' = OnDemand /\ Show' = Show /\ at' = at
  BY StartFixed, ShowFixed DEF shownVars
<1>2. ~InBlock' /\ ~Told'
  BY DEF InBlock, Told
<1>3. Here' = Here
  BY HereSame
<1>4. ASSUME d'.lastRet # "EOS"
      PROVE  IF HasFragment(Mpd, d.at)' THEN WellPlaced(Mpd, d.at)' /\ Stands'
             ELSE at' = Show.to' /\ dpc' \in {"loop", "done"} /\ d'.sidxPos = Unknown
  <2>1. IF HasFragment(Mpd, d.at) THEN WellPlaced(Mpd, d.at) /\ Stands
        ELSE at = Show.to /\ dpc \in {"loop", "done"} /\ d.sidxPos = Unknown
    BY <1>4 DEF PlayInv, Positioned
  <2>2. HasFragment(Mpd, d.at)' = HasFragment(Mpd, d.at)
        /\ WellPlaced(Mpd, d.at)' = WellPlaced(Mpd, d.at)
    BY <1>1
  <2>3. CASE HasFragment(Mpd, d.at)
    <3>1. Stands'
      BY <1>1, <1>2, <1>3, <2>1, <2>3, StandsSame
    <3> QED
      BY <2>1, <2>2, <2>3, <3>1
  <2>4. CASE ~HasFragment(Mpd, d.at)
    BY <1>1, <1>4, <2>1, <2>2, <2>4
  <2> QED
    BY <2>3, <2>4
<1>5. Positioned'
  BY <1>4 DEF Positioned
<1>6. Unbroken' /\ Caught' /\ SeekHonoured'
  BY <1>2, ShownSame DEF PlayInv, Unbroken
<1>7. IndexRead'
  BY DEF IndexRead
<1> QED
  BY <1>5, <1>6, <1>7 DEF PlayInv

-----------------------------------------------------------------------------
(* The steps of D.                                                          *)

(* Between two downloads the stream has not come to the end.                *)
LEMMA NotEnded ==
  ASSUME PlayInv, DashInv, dpc \in {"loop", "open"}
  PROVE  /\ d.lastRet # "EOS" /\ ~src.on /\ ~Receiving /\ ~MediaComes /\ ~InBlock /\ ~Told
         /\ HasFragment(Mpd, d.at) => WellPlaced(Mpd, d.at) /\ Stands
         /\ ~HasFragment(Mpd, d.at) => at = Show.to /\ d.sidxPos = Unknown /\ dpc = "loop"
<1>1. ~src.on
  BY DEF DashInv, Asked
<1>2. d.lastRet # "EOS"
  BY DEF PlayInv, EndSaid
<1> QED
  BY <1>1, <1>2 DEF PlayInv, Positioned, Receiving, MediaComes, InBlock, Told

LEMMA PlayUpdateInfo == ASSUME DashInv, PlayInv, UpdateInfo PROVE PlayInv'
<1>1. /\ dpc = "loop" /\ dpc' = "open" /\ start' = start /\ UNCHANGED shownVars /\ src' = src
      /\ IndexOnly \/ HasFragment(Mpd, d.at)
      /\ d' = [d EXCEPT !.lastRet = "OK", !.needHeader = Headers # <<>>]
      /\ frag' = Request
  BY DEF UpdateInfo, sourceVars
<1>2. /\ d.lastRet # "EOS" /\ ~src.on /\ ~Told
      /\ ~HasFragment(Mpd, d.at) => d.sidxPos = Unknown
  BY <1>1, NotEnded
<1>3. d \in Streams /\ start \in Starts
  BY DEF DashInv, TypeOK
<1>4. /\ d'.rep = d.rep /\ d'.at = d.at /\ d'.index = d.index /\ d'.entry = d.entry
      /\ d'.pending = d.pending /\ d'.sidxPos = d.sidxPos /\ d'.lastRet = "OK"
      /\ d'.mdat = d.mdat
  BY <1>1, <1>3 DEF Streams
<1>5. HasFragment(Mpd, d.at)
  BY <1>1, <1>2 DEF IndexOnly
<1>6. ~MediaComes' /\ ~Receiving'
  BY <1>1, <1>2 DEF MediaComes, Receiving
<1>7. EndSaid'
  BY <1>1, <1>4 DEF EndSaid
<1>8. Files'
  <2>1. OnDemand' = OnDemand /\ Block' = Block
    BY <1>1, StartFixed DEF Block
  <2>2. ASSUME ~OnDemand PROVE frag'.at = d.at /\ frag'.from = 0 /\ frag'.to = Block /\ ~d.mdat
    <3>1. d.index = 0 /\ d.base = 0
      BY <2>2 DEF DashInv, Indexed
    <3>2. PartEnd("media", d.rep) = Block
      BY <1>3, <2>2, FieldTypes, PartEndFacts
    <3>3. ~d.mdat
      BY <1>2, <2>2 DEF PlayInv, Files, Receiving
    <3> QED
      BY <1>1, <2>2, <3>1, <3>2, <3>3 DEF Request
  <2>3. ~src'.on
    BY <1>1, <1>2
  <2> QED
    BY <1>4, <1>6, <2>1, <2>2, <2>3 DEF Files
<1> QED
  BY <1>1, <1>2, <1>4, <1>5, <1>6, <1>7, <1>8, PlayKept

LEMMA PlayNoFragment ==
  ASSUME DashInv, PlayInv, NoFragment
  PROVE  PlayInv' /\ at = Show.to
<1>1. /\ dpc = "loop" /\ dpc' = "done" /\ start' = start /\ UNCHANGED shownVars /\ src' = src
      /\ ~HasFragment(Mpd, d.at) /\ d' = [d EXCEPT !.lastRet = "EOS"]
  BY DEF NoFragment, sourceVars
<1>2. /\ d.lastRet # "EOS" /\ ~src.on /\ ~Told /\ at = Show.to
  BY <1>1, NotEnded
<1>3. d \in Streams
  BY DEF DashInv, TypeOK
<1>4. /\ d'.rep = d.rep /\ d'.at = d.at /\ d'.index = d.index /\ d'.entry = d.entry
      /\ d'.pending = d.pending /\ d'.sidxPos = d.sidxPos /\ d'.lastRet = "EOS"
  BY <1>1, <1>3 DEF Streams
<1>5. ~MediaComes'
  BY <1>1, <1>2 DEF MediaComes, Receiving
<1>6. EndSaid'
  <2>1. Show' = Show /\ at' = at
    BY <1>1, ShowFixed DEF shownVars
  <2> QED
    BY <1>1, <1>2, <1>4, <2>1 DEF EndSaid
<1>7. Files'
  BY <1>1, <1>2, <1>4, <1>5 DEF Files, Loading
<1> QED
  BY <1>1, <1>2, <1>4, <1>5, <1>6, <1>7, PlayKept

LEMMA PlayOpen == ASSUME DashInv, PlayInv, Open PROVE PlayInv'
<1>1. /\ dpc = "open" /\ dpc' = "wait" /\ start' = start /\ UNCHANGED shownVars /\ d' = d
      /\ todo' = todo /\ frag' = frag /\ finished' = FALSE
      /\ src'.pos = src'.from /\ (Head(todo) = "media" => src'.end = frag.to)
  <2>1. /\ dpc = "open" /\ dpc' = "wait" /\ start' = start /\ UNCHANGED shownVars /\ d' = d
        /\ todo' = todo /\ frag' = frag /\ finished' = FALSE
    BY DEF Open, requestVars
  <2> DEFINE part == Head(todo)
             from == CASE part = "header" -> 0 [] part = "index" -> MoovSize
                       [] part = "media" -> frag.from
             end == IF part = "media" THEN frag.to ELSE PartEnd(part, frag.rep)
  <2>2. src' = [on |-> TRUE, rep |-> frag.rep, at |-> frag.at, part |-> part,
                from |-> from, pos |-> from, end |-> end]
    BY DEF Open
  <2>3. part = "media" => end = frag.to
    OBVIOUS
  <2> HIDE DEF from, end
  <2> QED
    BY <2>1, <2>2, <2>3
<1>2. d.lastRet # "EOS" /\ ~src.on /\ ~Told /\ ~Receiving
  BY <1>1, NotEnded
<1>3. ~MediaComes' /\ ~Receiving'
  BY <1>1 DEF MediaComes, Receiving
<1>4. HasFragment(Mpd, d.at)
  BY <1>1, NotEnded
<1>5. EndSaid'
  BY <1>1, <1>2 DEF EndSaid
<1>6. Files'
  <2>1. OnDemand' = OnDemand /\ Block' = Block /\ Part' = Part
    BY <1>1, StartFixed DEF Block, Part
  <2>2. ASSUME ~OnDemand PROVE frag.at = d.at /\ frag.from = 0 /\ frag.to = Block /\ ~d.mdat
    BY <1>1, <1>2, <2>2 DEF PlayInv, Files, Loading, Untouched
  <2> QED
    BY <1>1, <1>3, <2>1, <2>2 DEF Files, Part
<1> QED
  BY <1>1, <1>2, <1>3, <1>4, <1>5, <1>6, PlayKept

LEMMA PlayOpenFails == ASSUME DashInv, PlayInv, OpenFails PROVE PlayInv'
<1>1. /\ dpc = "open" /\ dpc' = "result" /\ start' = start /\ UNCHANGED shownVars /\ src' = src
      /\ todo' = todo /\ frag' = frag
      /\ \E ret \in {"ERROR", "CUSTOM_ERROR"} : d' = [d EXCEPT !.lastRet = ret]
  BY DEF OpenFails, requestVars, sourceVars
<1>2. d.lastRet # "EOS" /\ ~src.on /\ ~Told /\ ~Receiving
  BY <1>1, NotEnded
<1>3. d \in Streams
  BY DEF DashInv, TypeOK
<1>4. /\ d'.rep = d.rep /\ d'.at = d.at /\ d'.index = d.index /\ d'.entry = d.entry
      /\ d'.pending = d.pending /\ d'.sidxPos = d.sidxPos
      /\ d'.mdat = d.mdat /\ d'.lastRet # "EOS" /\ d'.lastRet # "OK"
  BY <1>1, <1>3 DEF Streams
<1>5. ~MediaComes' /\ ~src'.on
  BY <1>1, <1>2 DEF MediaComes, Receiving
<1>6. HasFragment(Mpd, d.at)
  BY <1>1, NotEnded
<1>7. EndSaid'
  BY <1>1, <1>4 DEF EndSaid
<1>8. Files'
  <2>1. OnDemand' = OnDemand /\ Block' = Block
    BY <1>1, StartFixed DEF Block
  <2>2. ASSUME ~OnDemand PROVE frag.at = d.at /\ frag.from = 0 /\ frag.to = Block /\ ~d.mdat
    BY <1>1, <1>2, <2>2 DEF PlayInv, Files, Loading, Untouched
  <2> QED
    BY <1>1, <1>4, <1>5, <2>1, <2>2 DEF Files
<1> QED
  BY <1>1, <1>2, <1>4, <1>5, <1>6, <1>7, <1>8, PlayKept

LEMMA PlayWoken == ASSUME DashInv, PlaceInv, PlayInv, Woken PROVE PlayInv'
<1>1. /\ dpc = "wait" /\ dpc' = "result" /\ start' = start /\ UNCHANGED shownVars /\ d' = d
      /\ todo' = todo /\ frag' = frag /\ finished /\ ~src'.on
  <2>1. src' = [src EXCEPT !.on = FALSE]
    BY DEF Woken
  <2>2. src \in [on : BOOLEAN, rep : Reps, at : [index : Int, repeat : Int],
              part : Parts, from : Int, pos : Int, end : Int]
    BY DEF DashInv, TypeOK
  <2> QED
    BY <2>1, <2>2 DEF Woken, requestVars
<1>2. ~MediaComes /\ (d.mdat => d.lastRet = "EOS" \/ ~Receiving)
  <2>1. src.on /\ d.lastRet = "OK" => Part # "media"
    BY <1>1 DEF PlaceInv, Coming, PlayInv, Files
  <2>2. Receiving => d.lastRet = "OK"
    BY DEF DashInv, Transfer, Receiving
  <2>3. d.mdat => Part = "media"
    BY <1>1 DEF DashInv, Indexed, Loading
  <2> QED
    BY <2>1, <2>2, <2>3 DEF MediaComes, Receiving
<1>3. ~MediaComes' /\ ~Receiving'
  BY <1>1 DEF MediaComes, Receiving
<1>4. EndSaid'
  <2>1. Show' = Show /\ at' = at
    BY <1>1, ShowFixed DEF shownVars
  <2> QED
    BY <1>1, <2>1 DEF PlayInv, EndSaid
<1>5. Files'
  <2>1. OnDemand' = OnDemand /\ Block' = Block /\ Part' = Part
    BY <1>1, StartFixed DEF Block, Part
  <2>2. ~OnDemand => Files
    BY DEF PlayInv
  <2>3. Loading /\ (Untouched' => Untouched)
    BY <1>1 DEF Loading, Untouched, Waiting
  <2> QED
    BY <1>1, <1>2, <1>3, <2>1, <2>2, <2>3 DEF Files
<1>6. ~Told
  BY <1>2 DEF Told, InBlock
<1> QED
  BY <1>1, <1>3, <1>4, <1>5, <1>6, PlayKept

(* Where D has a result, the source has been stopped.                       *)
LEMMA AtResult ==
  ASSUME DashInv, PlayInv, dpc = "result"
  PROVE  /\ ~src.on /\ ~Receiving /\ ~MediaComes /\ ~Told
         /\ d.lastRet # "EOS" => HasFragment(Mpd, d.at) /\ WellPlaced(Mpd, d.at) /\ Stands
         /\ d.lastRet = "EOS" => at = Show.to
         /\ ~OnDemand => (d.mdat => d.lastRet = "EOS")
<1>1. ~src.on
  BY DEF DashInv, Asked
<1>2. ~Receiving /\ ~MediaComes /\ ~Told
  BY <1>1 DEF Receiving, MediaComes, Told, InBlock
<1> QED
  BY <1>1, <1>2 DEF PlayInv, Positioned, EndSaid, Files

LEMMA PlayPartDone == ASSUME DashInv, PlayInv, PartDone PROVE PlayInv'
<1>1. /\ dpc = "result" /\ start' = start /\ UNCHANGED shownVars /\ src' = src /\ frag' = frag
      /\ d.lastRet = "OK" /\ todo' = Tail(todo)
      /\ d' = [d EXCEPT !.needHeader = @ /\ \E i \in DOMAIN todo' : todo'[i] # "media"]
      /\ dpc' = IF todo' = <<>> THEN "loop" ELSE "open"
  BY DEF PartDone, sourceVars
<1>2. /\ ~src.on /\ ~Told /\ HasFragment(Mpd, d.at) /\ (~OnDemand => ~d.mdat)
  BY <1>1, AtResult
<1>3. d \in Streams /\ start \in Starts
  BY DEF DashInv, TypeOK
<1>4. /\ d'.rep = d.rep /\ d'.at = d.at /\ d'.index = d.index /\ d'.entry = d.entry
      /\ d'.pending = d.pending /\ d'.sidxPos = d.sidxPos
      /\ d'.mdat = d.mdat /\ d'.lastRet = "OK"
  BY <1>1, <1>3 DEF Streams
<1>5. ~MediaComes' /\ ~src'.on
  BY <1>1, <1>2 DEF MediaComes, Receiving
<1>6. EndSaid'
  BY <1>1, <1>4 DEF EndSaid
<1>7. Files'
  <2>1. OnDemand' = OnDemand /\ Block' = Block
    BY <1>1, StartFixed DEF Block
  <2>2. ASSUME ~OnDemand, Loading' PROVE frag.at = d.at /\ frag.from = 0 /\ frag.to = Block
    <3>1. todo' # <<>>
      BY <1>1, <2>2 DEF Loading
    <3>2. todo \in Plans /\ Loading
      BY <1>1 DEF DashInv, Asked, Loading
    <3>3. Part # "media"
      BY <1>1, <1>3, <3>1, <3>2, PlanFacts, StartType DEF Part
    <3> QED
      BY <2>2, <3>2, <3>3 DEF PlayInv, Files
  <2> QED
    BY <1>1, <1>2, <1>4, <1>5, <2>1, <2>2 DEF Files
<1> QED
  BY <1>1, <1>2, <1>4, <1>5, <1>6, <1>7, PlayKept

LEMMA PlaySwitched == ASSUME DashInv, PlayInv, Switched PROVE PlayInv'
<1>1. /\ dpc = "result" /\ dpc' = "loop" /\ start' = start /\ UNCHANGED shownVars /\ src' = src
      /\ d' = d /\ d.lastRet = "SWITCH"
  BY DEF Switched, sourceVars
<1>2. /\ ~src.on /\ ~Told /\ HasFragment(Mpd, d.at) /\ (~OnDemand => ~d.mdat)
  BY <1>1, AtResult
<1>3. ~MediaComes' /\ ~src'.on
  BY <1>1, <1>2 DEF MediaComes, Receiving
<1>4. EndSaid'
  BY <1>1 DEF EndSaid
<1>5. Files'
  <2>1. OnDemand' = OnDemand
    BY <1>1, StartFixed
  <2> QED
    BY <1>1, <1>2, <1>3, <2>1 DEF Files, Loading
<1> QED
  BY <1>1, <1>2, <1>3, <1>4, <1>5, PlayKept

LEMMA PlayEnded ==
  ASSUME DashInv, PlayInv, Ended
  PROVE  PlayInv' /\ at = Show.to
<1>1. /\ dpc = "result" /\ dpc' = "done" /\ start' = start /\ UNCHANGED shownVars /\ src' = src
      /\ d' = d /\ d.lastRet = "EOS"
  BY DEF Ended, sourceVars
<1>2. /\ ~src.on /\ ~Told /\ at = Show.to
  BY <1>1, AtResult
<1>3. ~MediaComes' /\ ~src'.on
  BY <1>1, <1>2 DEF MediaComes, Receiving
<1>4. EndSaid'
  <2>1. Show' = Show /\ at' = at
    BY <1>1, ShowFixed DEF shownVars
  <2> QED
    BY <1>1, <1>2, <2>1 DEF EndSaid
<1>5. Files'
  BY <1>1, <1>3 DEF Files, Loading
<1> QED
  BY <1>1, <1>2, <1>3, <1>4, <1>5, PlayKept

LEMMA PlayAgain == ASSUME DashInv, PlayInv, Again PROVE PlayInv'
<1>1. /\ dpc = "result" /\ dpc' = "open" /\ start' = start /\ UNCHANGED shownVars /\ src' = src
      /\ frag' = frag /\ todo' = todo /\ d' = [d EXCEPT !.lastRet = "OK"]
      /\ d.lastRet = "CUSTOM_ERROR"
  BY DEF Again, MediaError, sourceVars
<1>2. /\ ~src.on /\ ~Told /\ HasFragment(Mpd, d.at) /\ (~OnDemand => ~d.mdat)
  BY <1>1, AtResult
<1>3. d \in Streams
  BY DEF DashInv, TypeOK
<1>4. /\ d'.rep = d.rep /\ d'.at = d.at /\ d'.index = d.index /\ d'.entry = d.entry
      /\ d'.pending = d.pending /\ d'.sidxPos = d.sidxPos
      /\ d'.mdat = d.mdat /\ d'.lastRet = "OK"
  BY <1>1, <1>3 DEF Streams
<1>5. ~MediaComes' /\ ~src'.on
  BY <1>1, <1>2 DEF MediaComes, Receiving
<1>6. EndSaid'
  BY <1>1, <1>4 DEF EndSaid
<1>7. Files'
  <2>1. OnDemand' = OnDemand /\ Block' = Block
    BY <1>1, StartFixed DEF Block
  <2>2. ~OnDemand => frag.at = d.at /\ frag.from = 0 /\ frag.to = Block
    BY <1>1 DEF PlayInv, Files, Loading, Untouched
  <2> QED
    BY <1>1, <1>2, <1>4, <1>5, <2>1, <2>2 DEF Files
<1> QED
  BY <1>1, <1>2, <1>4, <1>5, <1>6, <1>7, PlayKept

LEMMA PlayCut == ASSUME DashInv, PlayInv, Cut \/ GiveUp PROVE PlayInv'
<1>1. /\ dpc = "result" /\ dpc' \in {"cut", "failed"} /\ start' = start /\ UNCHANGED shownVars
      /\ src' = src /\ d.lastRet \in {"CUSTOM_ERROR", "ERROR"}
      /\ d' = d \/ d' = [d EXCEPT !.errs = @ + 1]
  BY DEF Cut, GiveUp, ErrorStays, TakenForEnd, MediaError, sourceVars
<1>2. /\ ~src.on /\ ~Told /\ HasFragment(Mpd, d.at) /\ (~OnDemand => ~d.mdat)
  BY <1>1, AtResult
<1>3. d \in Streams
  BY DEF DashInv, TypeOK
<1>4. /\ d'.rep = d.rep /\ d'.at = d.at /\ d'.index = d.index /\ d'.entry = d.entry
      /\ d'.pending = d.pending /\ d'.sidxPos = d.sidxPos
      /\ d'.mdat = d.mdat /\ d'.lastRet = d.lastRet
  BY <1>1, <1>3 DEF Streams
<1>5. ~MediaComes' /\ ~src'.on
  BY <1>1, <1>2 DEF MediaComes, Receiving
<1>6. EndSaid'
  BY <1>1, <1>4 DEF EndSaid
<1>7. Files'
  <2>1. OnDemand' = OnDemand
    BY <1>1, StartFixed
  <2> QED
    BY <1>1, <1>2, <1>4, <1>5, <2>1 DEF Files, Loading
<1> QED
  BY <1>1, <1>2, <1>4, <1>5, <1>6, <1>7, PlayKept

(* Before any data of a request has come, the source fails.                 *)
LEMMA PlayFail ==
  ASSUME Bare, DashInv, PlayInv, NEW kind \in FaultKinds, Fail(kind)
  PROVE  PlayInv'
<1>1. kind \in {"refused", "server"}
  BY DEF Fail, Bare
<1>2. /\ dpc = "wait" /\ dpc' = dpc /\ src.on /\ start' = start /\ UNCHANGED shownVars
      /\ todo' = todo /\ frag' = frag /\ src.pos = src.from
      /\ src' = [src EXCEPT !.end = src.pos]
      /\ d' = [d EXCEPT !.lastRet = IF @ = "OK" THEN "CUSTOM_ERROR" ELSE @]
  BY <1>1 DEF Fail, requestVars
<1>3. /\ d \in Streams
      /\ src \in [on : BOOLEAN, rep : Reps, at : [index : Int, repeat : Int],
              part : Parts, from : Int, pos : Int, end : Int]
  BY DEF DashInv, TypeOK
<1>4. d.lastRet \in {"OK", "CUSTOM_ERROR"}
  BY <1>2 DEF DashInv, Transfer
<1>5. /\ d'.rep = d.rep /\ d'.at = d.at /\ d'.index = d.index /\ d'.entry = d.entry
      /\ d'.pending = d.pending /\ d'.sidxPos = d.sidxPos
      /\ d'.mdat = d.mdat /\ d'.lastRet = "CUSTOM_ERROR"
  BY <1>2, <1>3, <1>4 DEF Streams
<1>6. ~Receiving /\ ~MediaComes' /\ ~Told /\ ~MediaComes /\ ~Receiving'
  BY <1>2, <1>3 DEF MediaComes, Receiving, Told, InBlock
<1>7. HasFragment(Mpd, d.at)
  BY <1>2, <1>4 DEF PlayInv, Positioned
<1>8. EndSaid'
  BY <1>2, <1>5 DEF EndSaid
<1>9. Files'
  <2>1. OnDemand' = OnDemand /\ Block' = Block
    BY <1>2, StartFixed DEF Block
  <2>2. ~OnDemand => frag.at = d.at /\ frag.from = 0 /\ frag.to = Block /\ ~d.mdat
    BY <1>2, <1>4, <1>6 DEF PlayInv, Files, Loading
  <2> QED
    BY <1>2, <1>5, <1>6, <2>1, <2>2 DEF Files
<1> QED
  BY <1>2, <1>5, <1>6, <1>7, <1>8, <1>9, <1>4, PlayKept

(* The MPD is fetched again, and the stream looks its position up in it.    *)
LEMMA PlayStartOver ==
  ASSUME OneRefetch, Playable, DashInv, PlayInv, StartOver
  PROVE  PlayInv'
<1> DEFINE x == [d EXCEPT !.errs = @ + 1]
<1>1. /\ dpc = "result" /\ dpc' = "loop" /\ start' = start /\ UNCHANGED shownVars
      /\ src' = src /\ d.lastRet \in {"CUSTOM_ERROR", "ERROR"}
      /\ d' = x \/ (start.reps \in RefetchOk /\ d' = Refetched(x))
  BY DEF StartOver, ErrorStays, sourceVars
<1>2. /\ ~src.on /\ ~Told /\ HasFragment(Mpd, d.at) /\ (~OnDemand => ~d.mdat)
      /\ WellPlaced(Mpd, d.at) /\ Stands
  BY <1>1, AtResult
<1>3. d \in Streams /\ start \in Starts
  BY DEF DashInv, TypeOK
<1>4. /\ x \in Streams /\ x.rep = d.rep /\ x.at = d.at /\ x.index = d.index /\ x.entry = d.entry
      /\ x.pending = d.pending /\ x.sidxPos = d.sidxPos
      /\ x.mdat = d.mdat /\ x.lastRet = d.lastRet
  <2>1. d.errs \in Nat /\ d.errs + 1 \in Nat
    BY <1>3, FieldTypes
  <2>2. x = [d EXCEPT !.errs = d.errs + 1]
    OBVIOUS
  <2>3. x \in Streams
    BY <1>3, <2>1, <2>2, SetErrs
  <2> QED
    BY <1>3, <2>2, <2>3 DEF Streams
<1> HIDE DEF x
<1>5. ~MediaComes' /\ ~src'.on /\ ~Told' /\ ~InBlock'
  BY <1>1, <1>2 DEF MediaComes, Receiving, Told, InBlock
<1>6. ASSUME d'.lastRet = d.lastRet, d'.mdat = d.mdat
      PROVE  EndSaid' /\ Files'
  <2>1. OnDemand' = OnDemand
    BY <1>1, StartFixed
  <2> QED
    BY <1>1, <1>2, <1>5, <1>6, <2>1 DEF Files, Loading, EndSaid
<1>7. CASE d' = x
  <2>1. EndSaid' /\ Files'
    BY <1>4, <1>6, <1>7
  <2> QED
    BY <1>1, <1>2, <1>4, <1>5, <1>7, <2>1, PlayKept
<1>8. CASE start.reps \in RefetchOk /\ d' = Refetched(x)
  <2>1. /\ d'.rep = 1 /\ d'.index = d.index /\ d'.entry = d.entry
        /\ d'.pending = d.pending /\ d'.sidxPos = d.sidxPos
        /\ d'.mdat = d.mdat /\ d'.lastRet = d.lastRet
    BY <1>3, <1>4, <1>8, RefetchedFacts
  <2>2. d.rep = 1
    <3>1. start.reps = 1 /\ d.rep \in 1 .. start.reps
      BY <1>8 DEF OneRefetch, DashInv, Asked
    <3> QED
      BY <3>1
  <2>3. Gapless /\ FirstPeriod /\ Divisible
    BY DEF Playable
  <2>4. IsMpd(Mpd) /\ Contiguous(Mpd) /\ Count(Mpd) \in Nat \ {0} /\ Mpd.start = PeriodStart
    BY <1>3, <2>3, MpdRight, LayoutFacts
  <2>5. Duration(Mpd, d.at) >= 2
    <3>1. /\ PeriodLength >= 2 /\ TemplateDuration >= 2
          /\ \A i \in DOMAIN Segments : Segments[i].duration >= 2
      BY <1>8, <2>3 DEF Divisible
    <3>2. CASE Template(Mpd)
      BY <1>3, <3>1, <3>2, LayoutFacts DEF Duration
    <3>3. CASE ~Template(Mpd)
      <4>1. d.at.index \in 0 .. Len(Mpd.segments) - 1 /\ d.at.index + 1 \in 1 .. Len(Mpd.segments)
            /\ Len(Mpd.segments) \in Nat
        <5>1. d.at.index \in 0 .. Count(Mpd) - 1 /\ Count(Mpd) = Len(Mpd.segments)
          BY <1>2, <2>4, <3>3, FragmentFacts, CountType
        <5> QED
          BY <2>4, <5>1
      <4>2. Duration(Mpd, d.at) = Mpd.segments[d.at.index + 1].duration
        BY <3>3 DEF Duration, Segment
      <4>3. CASE OnDemand
        <5>1. Mpd.segments = <<[start |-> 0, duration |-> PeriodLength, repeat |-> 0]>>
          BY <1>3, <4>3, LayoutFacts
        <5>2. d.at.index + 1 = 1
          BY <4>1, <5>1
        <5> QED
          BY <3>1, <4>2, <5>1, <5>2
      <4>4. CASE ~OnDemand
        <5>1. Mpd.segments = Segments
          BY <1>3, <3>3, <4>4, LayoutFacts
        <5>2. d.at.index + 1 \in DOMAIN Segments
          BY <4>1, <5>1, SegmentsAssumption
        <5> QED
          BY <3>1, <4>2, <5>1, <5>2
      <4> QED
        BY <4>3, <4>4
    <3> QED
      BY <3>2, <3>3
  <2>6. Template(Mpd) \/ Mpd.start = 0
    BY <1>3, <2>3, <2>4, LayoutFacts DEF FirstPeriod
  <2>7. d'.at = Seek(Mpd, start.forward, Timestamp(Mpd, d.at) + Mpd.start + 1).at
    <3>1. x.at \in Positions
      BY <1>4, FieldTypes
    <3>2. Refetched(x) = [x EXCEPT !.rep = 1,
            !.at = Seek(Mpd, start.forward, Timestamp(Mpd, d.at) + Mpd.start + 1).at]
      BY <1>2, <1>4, <2>4 DEF Refetched
    <3> QED
      BY <1>4, <1>8, <3>2 DEF Streams
  <2>8. /\ WellPlaced(Mpd, d'.at) /\ Timestamp(Mpd, d'.at) = Timestamp(Mpd, d.at)
        /\ Duration(Mpd, d'.at) = Duration(Mpd, d.at)
    <3>1. start.forward \in BOOLEAN
      BY <1>3, StartType
    <3> DEFINE q == Seek(Mpd, start.forward, Timestamp(Mpd, d.at) + Mpd.start + 1).at
    <3>2. /\ WellPlaced(Mpd, q) /\ Timestamp(Mpd, q) = Timestamp(Mpd, d.at)
          /\ Duration(Mpd, q) = Duration(Mpd, d.at)
      BY <1>2, <2>4, <2>5, <2>6, <3>1, SoughtAgain
    <3>3. d'.at = q
      BY <2>7
    <3> HIDE DEF q
    <3> QED
      BY <3>2, <3>3
  <2>9. Mpd' = Mpd /\ OnDemand' = OnDemand
    BY <1>1, StartFixed
  <2>10. Here' = Here
    BY <2>1, <2>2, <2>8, <2>9 DEF Here, Span, Pts, EntryEnd
  <2>11. Stands'
    <3>1. at' = at
      BY <1>1 DEF shownVars
    <3> QED
      BY <1>1, <1>2, <1>5, <2>1, <2>2, <2>10, <3>1, StandsSame
  <2>12. Positioned'
    <3>1. WellPlaced(Mpd, d.at)' /\ HasFragment(Mpd, d.at)'
      <4>1. WellPlaced(Mpd, d'.at) /\ HasFragment(Mpd, d'.at)
        BY <2>8 DEF WellPlaced
      <4> QED
        BY <2>9, <4>1
    <3> QED
      BY <2>11, <3>1 DEF Positioned
  <2>13. EndSaid' /\ Files'
    BY <1>6, <2>1
  <2>14. Unbroken' /\ Caught' /\ SeekHonoured'
    BY <1>1, <1>5, ShownSame DEF PlayInv, Unbroken
  <2>15. IndexRead'
    BY <1>5 DEF IndexRead
  <2> QED
    BY <2>12, <2>13, <2>14, <2>15 DEF PlayInv
<1> QED
  BY <1>1, <1>7, <1>8

-----------------------------------------------------------------------------
(* The steps of S.                                                          *)

LEMMA ReceiveAt ==
  ASSUME d \in Streams, NEW n \in 1 .. MaxBuffer, Receive(n)
  PROVE  d'.at = d.at
<1>1. Begun(d).at = d.at
  BY DEF Begun, Streams
<1>2. d' = [Begun(d) EXCEPT !.queue = @ \o [i \in 1 .. n |-> src.pos + i - 1]]
  BY DEF Receive
<1>3. d'.at = Begun(d).at
  BY <1>2
<1> QED
  BY <1>1, <1>3

(* Data of a box that has been begun comes from the same file.              *)
LEMMA MdatComes ==
  ASSUME PlaceInv, PlayInv, d.mdat, d.lastRet # "EOS"
  PROVE  Receiving
BY DEF PlaceInv, Looking, PlayInv, Files

LEMMA BlockFacts ==
  ASSUME DashInv
  PROVE  /\ Block \in Nat \ {0} /\ MoofSize \in Nat \ {0} /\ MoofSize < Block /\ First \in Nat \ {0}
         /\ OnDemand /\ d.index # 0 =>
              /\ d.entry \in 0 .. Entries(d.rep) - 1 /\ d.entry \in Nat
              /\ BlockStart = First + d.entry * Block /\ BlockStart \in Nat /\ First <= BlockStart
         /\ ~OnDemand => BlockStart = 0
<1>1. d.index # 0 => d.index = d.rep /\ d.entry \in 0 .. Entries(d.index) - 1 /\ d.rep \in Reps
  BY FieldTypes DEF DashInv, Indexed, TypeOK
<1>2. d.index # 0 => d.entry \in Nat
  BY <1>1, EntryFacts
<1>3. d.index # 0 => d.entry * Block \in Nat
  BY <1>2, Sizes
<1> QED
  BY <1>1, <1>2, <1>3, Sizes DEF BlockStart, EntryStart

LEMMA PlayReceive ==
  ASSUME DashInv, PlaceInv, PlayInv, NEW n \in 1 .. MaxBuffer, Receive(n)
  PROVE  PlayInv'
<1>1. /\ src.on /\ d.lastRet = "OK" /\ n \in Nat /\ n >= 1
      /\ d' \in Streams /\ Len(d'.queue) \in Nat /\ Len(d'.queue) >= n
      /\ src.pos + n = d'.off + Len(d'.queue) /\ d'.off >= src.from
      /\ d'.rep = d.rep /\ d'.index = d.index /\ d'.entry = d.entry
      /\ d'.sidxPos = d.sidxPos /\ d'.pending = d.pending /\ d'.mdat = d.mdat
      /\ d'.base = d.base /\ d'.lastRet = d.lastRet
      /\ (Waiting /\ d'.off = src.from) \/ (Receiving /\ d'.off = d.off)
  BY ReceiveFacts
<1>2. /\ d \in Streams /\ start \in Starts
      /\ src \in [on : BOOLEAN, rep : Reps, at : [index : Int, repeat : Int],
              part : Parts, from : Int, pos : Int, end : Int]
  BY DEF DashInv, TypeOK
<1>3. d'.at = d.at
  BY <1>2, ReceiveAt
<1>4. /\ dpc = "wait" /\ Loading /\ src.from \in Nat /\ src.pos \in Int /\ src.end \in Int
      /\ src.from <= src.pos /\ todo \in Plans /\ src.rep = d.rep
  BY <1>1, InTransfer
<1>5. /\ start' = start /\ todo' = todo /\ frag' = frag /\ dpc' = dpc /\ finished' = finished
      /\ UNCHANGED shownVars /\ src' = [src EXCEPT !.pos = @ + n]
      /\ spc = "idle" /\ spc' = IF d.mdat THEN "mdat" ELSE "parse"
      /\ src.pos + n <= src.end
  BY DEF Receive, requestVars
<1>6. /\ src'.on /\ src'.from = src.from /\ src'.pos = src.pos + n /\ src'.end = src.end
      /\ src'.rep = src.rep /\ src'.at = src.at
  BY <1>1, <1>2, <1>5
<1>7. /\ OnDemand' = OnDemand /\ Block' = Block /\ Part' = Part /\ Mpd' = Mpd /\ Show' = Show
      /\ Receiving' /\ BlockStart' = BlockStart /\ First' = First
      /\ (MediaComes' <=> Part = "media") /\ ~Waiting'
  <2>1. OnDemand' = OnDemand /\ Block' = Block /\ Part' = Part /\ First' = First
        /\ Mpd' = Mpd /\ Show' = Show
    BY <1>5, StartFixed, ShowFixed DEF Block, Part, First
  <2>2. Receiving' /\ ~Waiting'
    BY <1>1, <1>4, <1>6 DEF Receiving, Waiting
  <2>3. BlockStart' = BlockStart
    BY <1>1, <2>1 DEF BlockStart, EntryStart
  <2> QED
    BY <1>1, <2>1, <2>2, <2>3 DEF MediaComes
<1>8. d.mdat => Receiving /\ d'.off = d.off
  BY <1>1, MdatComes DEF Receiving, Waiting
<1>9. Told' <=> Told
  BY <1>1, <1>7, <1>8 DEF Told, InBlock, MediaComes
<1>10. HasFragment(Mpd, d.at) /\ WellPlaced(Mpd, d.at) /\ Stands
  BY <1>1, <1>4 DEF PlayInv, Positioned
<1>11. Here' = Here
  BY <1>1, <1>3, <1>5, HereSame
<1>12. Positioned'
  <2>1. at' = at
    BY <1>5 DEF shownVars
  <2>2. Stands'
    <3>1. CASE OnDemand /\ d.index = 0
      BY <1>1, <1>5, <1>7, <1>10, <2>1, <3>1, SoughtSame DEF Stands
    <3>2. CASE ~(OnDemand /\ d.index = 0)
      BY <1>1, <1>5, <1>7, <1>9, <1>10, <1>11, <2>1, <3>2 DEF Stands, Inside, Far
    <3> QED
      BY <3>1, <3>2
  <2> QED
    BY <1>3, <1>7, <1>10, <2>2 DEF Positioned
<1>13. EndSaid'
  BY <1>1, <1>4, <1>5 DEF EndSaid
<1>14. run' = run
  BY <1>5 DEF shownVars
<1>15. Unbroken'
  <2>1. ASSUME InBlock', BlockStart < d'.off, d'.off <= BlockStart + Block
        PROVE  run.rep = src.rep /\ run.at = src.at /\ run.to = d'.off /\ run.from <= BlockStart
    <3>1. Part = "media" /\ (OnDemand => d.index # 0)
      BY <1>1, <1>7, <2>1 DEF InBlock
    <3>2. CASE Waiting /\ d'.off = src.from
      <4>1. src.from = frag.from
        BY <1>1, <1>4, <3>1, InTransfer DEF DashInv, Transfer
      <4>2. CASE OnDemand
        <5>1. \/ frag.from = 0 \/ frag.from = EntryStart
          <6>1. Untouched
            BY <3>2 DEF Untouched
          <6> QED
            BY <1>4, <3>1, <4>2, <6>1 DEF PlaceInv, Wanted, WholeFile
        <5>2. BlockStart = EntryStart /\ BlockStart \in Nat
          BY <3>1, <4>2, BlockFacts DEF BlockStart
        <5>3. ~(BlockStart < d'.off)
          BY <3>2, <4>1, <5>1, <5>2
        <5> QED
          BY <2>1, <5>3
      <4>3. CASE ~OnDemand
        <5>1. frag.from = 0 /\ BlockStart = 0
          BY <1>4, <4>3 DEF PlayInv, Files, BlockStart
        <5> QED
          BY <2>1, <3>2, <4>1, <5>1
      <4> QED
        BY <4>2, <4>3
    <3>3. CASE Receiving /\ d'.off = d.off
      BY <1>1, <2>1, <3>1, <3>3 DEF PlayInv, Unbroken, InBlock, MediaComes
    <3> QED
      BY <1>1, <3>2, <3>3
  <2> QED
    BY <1>6, <1>7, <1>14, <2>1 DEF Unbroken, PlayInv
<1>16. Files'
  <2> SUFFICES ASSUME ~OnDemand PROVE Files'
    BY <1>7 DEF Files
  <2>1. Files
    BY DEF PlayInv
  <2>2. /\ Loading /\ (Part # "media" \/ Untouched \/ src.on) => frag.at = d.at
        /\ frag.from = 0 /\ frag.to = Block
        /\ Part = "media" => src.end = Block /\ ~finished
    BY <1>1, <1>4, <2>1 DEF Files
  <2>3. ASSUME Part = "media"
        PROVE  IF d.mdat THEN /\ MoofSize <= d'.off /\ d'.off <= Block
                              /\ spc' # "parse" /\ (spc' = "idle" <=> d'.queue = <<>>)
               ELSE (d'.off = 0 \/ d'.off = MoofSize) /\ spc' # "idle"
    <3>1. d'.queue # <<>>
      BY <1>1
    <3>2. CASE d.mdat
      BY <1>1, <1>5, <1>8, <2>1, <2>3, <3>1, <3>2 DEF Files, MediaComes
    <3>3. CASE ~d.mdat
      <4>1. src.from = frag.from
        BY <1>1, <2>3, InTransfer DEF DashInv, Transfer
      <4>2. Receiving => d.off = 0 \/ d.off = MoofSize
        BY <1>1, <2>1, <2>3, <3>3 DEF Files, MediaComes
      <4> QED
        BY <1>1, <1>5, <2>2, <3>3, <4>1, <4>2
    <3> QED
      BY <3>2, <3>3
  <2> QED
    BY <1>1, <1>3, <1>4, <1>5, <1>6, <1>7, <2>2, <2>3 DEF Files, Loading
<1>17. IndexRead'
  <2>1. ASSUME OnDemand, d.index = 0, Part = "media" PROVE spc' # "idle"
    BY <1>5
  <2> QED
    BY <1>1, <1>7, <2>1 DEF IndexRead
<1>18. Caught' /\ SeekHonoured'
  BY <1>5, ShownSame DEF PlayInv, Unbroken
<1> QED
  BY <1>12, <1>13, <1>15, <1>16, <1>17, <1>18 DEF PlayInv

(* A push honours the seek if the spans it belongs to do.                   *)
Honours(sp) == IF start.forward THEN sp[2] > From ELSE sp[1] < From

LEMMA PushHonours ==
  ASSUME d \in Streams, \A i \in 1 .. Len(d.queue) : d.queue[i] = d.off + i - 1,
         SeekHonoured, Caught, run.from <= run.to, start' = start,
         NEW n \in 0 .. Len(d.queue), Push(d, SubSeq(d.queue, 1, n)),
         \A i \in 1 .. n :
           src.part = "media" /\ BoxOf("media", d.queue[i]) \in {"moof", "mdat"} =>
             Honours(Span(src.rep, src.at, (d.queue[i] - MediaBase) \div Block))
  PROVE  SeekHonoured'
<1>1. d.queue \in Seq(Int) /\ Len(d.queue) \in Nat /\ d.off \in Int /\ n \in Nat
  BY FieldTypes
<1>2. CASE n = 0
  <2>1. SubSeq(d.queue, 1, n) = <<>>
    BY <1>1, <1>2, PushedUnits
  <2>2. UNCHANGED shownVars
    BY <2>1 DEF Push
  <2> QED
    BY <2>2, ShownSame
<1>3. CASE n # 0
  <2>1. n \in 1 .. Len(d.queue)
    BY <1>1, <1>3
  <2>2. /\ push'.part = src.part /\ push'.rep = src.rep /\ push'.at = src.at
        /\ push'.units \in Seq(Int) /\ Len(push'.units) = n
        /\ \A i \in 1 .. n : push'.units[i] = d.off + i - 1
    BY <2>1, PushOpen
  <2>3. OnDemand' = OnDemand /\ Mpd' = Mpd /\ From' = From
    BY StartFixed, ShowFixed
  <2>4. DOMAIN push'.units = 1 .. n
    BY <2>2
  <2>5. Media' = {push'.units[i] : i \in {i \in DOMAIN push'.units :
                    push'.part = "media" /\ BoxOf("media", push'.units[i]) \in {"moof", "mdat"}}}
    BY <2>3 DEF Media, BoxOf, MediaBase, First, Block
  <2>6. SeekHonoured' = (\A u \in Media' :
          Honours(Span(push'.rep, push'.at, (u - MediaBase) \div Block)))
    BY <2>3 DEF SeekHonoured, Honours, Span, Pts, EntryEnd, MediaBase, First, Block
  <2>7. ASSUME NEW u \in Media'
        PROVE  Honours(Span(push'.rep, push'.at, (u - MediaBase) \div Block))
    <3>1. PICK i \in 1 .. n : u = push'.units[i] /\ push'.part = "media"
                              /\ BoxOf("media", push'.units[i]) \in {"moof", "mdat"}
      BY <2>4, <2>5
    <3>2. push'.units[i] = d.queue[i]
      BY <1>1, <2>1, <2>2
    <3> QED
      BY <2>2, <3>1, <3>2
  <2> QED
    BY <2>6, <2>7
<1> QED
  BY <1>2, <1>3

(* What holds where the stream stands is not behind the target of a seek.   *)
LEMMA InsideHonours ==
  ASSUME start \in Starts, Caught, at \in Int, NEW sp \in Int \X Int, Inside(sp, at)
  PROVE  Honours(sp)
<1>1. From \in Int
  BY StartType, SizesAssumption DEF From
<1>2. sp[1] \in Int /\ sp[2] \in Int
  OBVIOUS
<1> QED
  BY <1>1, <1>2 DEF Inside, Caught, Honours

(* The ends of blocks.                                                      *)
LEMMA NoBoundary ==
  ASSUME NEW b \in Nat, NEW e \in Nat, NEW o \in Nat, NEW n \in Nat,
         \/ b + e * Block <= o
         \/ e = 0,
         o + n < b + e * Block + Block, NEW k \in Nat
  PROVE  ~(o < b + (k + 1) * Block /\ b + (k + 1) * Block <= o + n)
<1>1. Block \in Nat \ {0}
  BY Sizes
<1>2. (k + 1) * Block = k * Block + Block /\ k * Block \in Nat /\ e * Block \in Nat
  BY <1>1
<1> DEFINE K == k * Block
           A == e * Block
<1>3. k + 1 <= e => K + Block <= A
  <2>1. k + 1 <= e => (k + 1) * Block <= e * Block
    BY <1>1, FactorGrows
  <2> QED
    BY <1>2, <2>1
<1>4. e <= k => A <= K
  BY <1>1, FactorGrows
<1>5. e = 0 => A = 0
  BY <1>1
<1>6. K \in Nat /\ A \in Nat
  BY <1>2
<1>7. ~(o < b + (K + Block) /\ b + (K + Block) <= o + n)
  <2> HIDE DEF K, A
  <2>1. \/ b + A <= o
        \/ e = 0
    BY DEF A
  <2>2. o + n < b + A + Block
    BY DEF A
  <2>3. CASE e <= k
    BY <1>1, <1>4, <1>6, <2>2, <2>3
  <2>4. CASE ~(e <= k)
    <3>1. k + 1 <= e /\ e # 0
      BY <2>4
    <3> QED
      BY <1>1, <1>3, <1>6, <2>1, <3>1
  <2> QED
    BY <2>3, <2>4
<1> QED
  BY <1>2, <1>7

(* The boxes of a fragment that is a file of its own.                       *)
LEMMA FileBox ==
  ASSUME ~OnDemand, NEW u \in Nat, u < Block
  PROVE  /\ BoxOf("media", u) = IF u < MoofSize THEN "moof" ELSE "mdat"
         /\ LastOfBox("media", u) <=> u + 1 = MoofSize \/ u + 1 = Block
         /\ (u - MediaBase) \div Block = 0
<1>1. MediaBase = 0 /\ Block \in Nat \ {0} /\ MoofSize \in Nat \ {0} /\ MoofSize < Block
  BY Sizes DEF MediaBase
<1>2. u % Block = u /\ u \div Block = 0
  BY <1>1
<1>3. BoxOf("media", u) = IF u < MoofSize THEN "moof" ELSE "mdat"
  BY <1>1, <1>2 DEF BoxOf
<1>4. (u + 1) % Block = IF u + 1 = Block THEN 0 ELSE u + 1
  BY <1>1
<1>5. LastOfBox("media", u) <=> (u + 1) % Block \in {0, MoofSize}
  BY <1>1 DEF LastOfBox
<1> QED
  BY <1>1, <1>2, <1>3, <1>4, <1>5

LEMMA FileBoxesEnd ==
  ASSUME ~OnDemand, NEW o \in Nat, NEW n \in Nat, o + n <= Block, o = 0 \/ o = MoofSize,
         \A j \in 0 .. n - 1 : BoxOf("media", o + j) # "mdat",
         n # 0 => LastOfBox("media", o + n - 1)
  PROVE  n = 0 \/ (o = 0 /\ n = MoofSize)
<1>1. Block \in Nat \ {0} /\ MoofSize \in Nat \ {0} /\ MoofSize < Block
  BY Sizes
<1>2. CASE n = 0
  BY <1>2
<1>3. CASE n # 0
  <2>1. o + 0 \in Nat /\ o + 0 < Block /\ 0 \in 0 .. n - 1 /\ o + n - 1 \in Nat /\ o + n - 1 < Block
        /\ n - 1 \in 0 .. n - 1 /\ o + (n - 1) = o + n - 1
    BY <1>1, <1>3
  <2>2. BoxOf("media", o + 0) # "mdat" /\ BoxOf("media", o + n - 1) # "mdat"
    BY <2>1
  <2>3. o + 0 < MoofSize /\ o + n - 1 < MoofSize
    BY <2>1, <2>2, FileBox
  <2>4. o + n - 1 + 1 = MoofSize \/ o + n - 1 + 1 = Block
    BY <1>3, <2>1, FileBox
  <2> QED
    BY <1>1, <2>3, <2>4
<1> QED
  BY <1>2, <1>3

(* S looks for boxes: what the step does with the result p.                 *)
ParseStep(p) ==
  LET ends == p.jump /\ src.part # "index"
  IN /\ p.n \in 0 .. Len(d.queue) /\ p.n \in Nat /\ p.jump \in BOOLEAN
     /\ p.n # 0 => LastOfBox(src.part, d.queue[p.n])
     /\ \A i \in 1 .. p.n : BoxOf(src.part, d.queue[i]) # "mdat"
     /\ ~p.jump => \A j \in WholeBoxes(d.queue, src.part) : j <= p.n
     /\ d' = p.x /\ SameButIndex(d', d) /\ d'.off = d.off + p.n
     /\ d'.queue = SubSeq(d.queue, p.n + 1, Len(d.queue))
     /\ d'.mdat = (/\ ~p.jump /\ p.n < Len(d.queue)
                   /\ BoxOf(src.part, d.queue[p.n + 1]) = "mdat")
     /\ ReadsNone(p, d, src.part) \/ \E i \in 1 .. p.n : Reads(p, d, src.part, i)
     /\ Push(d, SubSeq(d.queue, 1, p.n))
     /\ spc' = IF ~ends /\ d'.mdat /\ d'.queue # <<>> THEN "mdat" ELSE "idle"
     /\ src' = IF ends THEN [src EXCEPT !.on = FALSE] ELSE src
     /\ ends => src.part = "media"
     /\ finished' = (finished \/ ends)

LEMMA ParseSteps ==
  ASSUME DashInv, Parse
  PROVE  /\ \E p : p = Parsed(d, src.part) /\ ParseStep(p)
         /\ start' = start /\ todo' = todo /\ frag' = frag /\ dpc' = dpc /\ spc = "parse"
<1>1. PICK p : p = Parsed(d, src.part) /\
           LET ends == p.jump /\ src.part # "index"
           IN /\ d' = p.x /\ Push(d, SubSeq(d.queue, 1, p.n))
              /\ spc' = IF ~ends /\ p.x.mdat /\ p.x.queue # <<>> THEN "mdat" ELSE "idle"
              /\ finished' = (finished \/ ends)
              /\ src' = IF ends THEN [src EXCEPT !.on = FALSE] ELSE src
              /\ ends => src.part = "media"
  BY ParseFacts
<1>2. /\ start \in Starts /\ d \in Streams /\ Remembered(d) /\ src.rep \in Reps
  BY DEF DashInv, TypeOK, Indexed
<1>3. Len(d.queue) \in Nat
  BY <1>2, FieldTypes
<1>4. /\ p.n \in 0 .. Len(d.queue) /\ p.jump \in BOOLEAN
      /\ p.n # 0 => LastOfBox(src.part, d.queue[p.n])
      /\ \A i \in 1 .. p.n : BoxOf(src.part, d.queue[i]) # "mdat"
      /\ ~p.jump => \A j \in WholeBoxes(d.queue, src.part) : j <= p.n
      /\ p.x \in Streams /\ SameButIndex(p.x, d)
      /\ p.x.off = d.off + p.n
      /\ p.x.queue = SubSeq(d.queue, p.n + 1, Len(d.queue))
      /\ p.x.mdat = (/\ ~p.jump /\ p.n < Len(d.queue)
                     /\ BoxOf(src.part, d.queue[p.n + 1]) = "mdat")
      /\ ReadsNone(p, d, src.part) \/ \E i \in 1 .. p.n : Reads(p, d, src.part, i)
  BY <1>1, <1>2, ParsedFacts
<1>5. p.n \in Nat
  BY <1>3, <1>4
<1>6. ParseStep(p)
  BY <1>1, <1>4, <1>5 DEF ParseStep
<1> QED
  BY <1>1, <1>6 DEF Parse, requestVars

(* Where S is at work, the stream has its place.                            *)
LEMMA AtWork ==
  ASSUME DashInv, PlayInv, spc # "idle"
  PROVE  /\ start \in Starts /\ d \in Streams /\ src.on /\ Receiving /\ d.lastRet = "OK"
         /\ dpc = "wait" /\ Loading /\ src.part = Part /\ Part \in Parts /\ src.rep = d.rep
         /\ src.rep \in Reps /\ src.at = frag.at
         /\ HasFragment(Mpd, d.at) /\ WellPlaced(Mpd, d.at) /\ Stands
         /\ d.off \in Nat /\ Len(d.queue) \in Nat /\ src.pos = d.off + Len(d.queue)
         /\ src.pos <= src.end /\ src.end \in Int /\ src.pos \in Nat
         /\ \A i \in 1 .. Len(d.queue) : d.queue[i] = d.off + i - 1
         /\ heard \in Int \X Int /\ at \in Int
         /\ Shown /\ run.from <= run.to /\ Caught /\ SeekHonoured
         /\ (MediaComes <=> Part = "media")
<1>1. /\ start \in Starts /\ d \in Streams /\ heard \in Int \X Int /\ at \in Int /\ Shown
  BY DEF DashInv, TypeOK
<1>2. /\ Receiving /\ src.on /\ d.lastRet = "OK"
      /\ d.off \in Nat /\ Len(d.queue) \in Nat /\ src.pos = d.off + Len(d.queue)
      /\ \A i \in 1 .. Len(d.queue) : d.queue[i] = d.off + i - 1
  BY AtHand
<1>3. /\ dpc = "wait" /\ Loading /\ src.part = Part /\ Part \in Parts /\ src.rep = d.rep
      /\ src.rep \in Reps /\ src.at = frag.at /\ src.pos <= src.end /\ src.end \in Int
  BY <1>2, InTransfer
<1>4. src.pos \in Nat
  BY <1>2
<1>5. HasFragment(Mpd, d.at) /\ WellPlaced(Mpd, d.at) /\ Stands
  BY <1>2, <1>3 DEF PlayInv, Positioned
<1>6. run.from <= run.to /\ Caught /\ SeekHonoured
  BY DEF PlayInv, Unbroken
<1> QED
  BY <1>1, <1>2, <1>3, <1>4, <1>5, <1>6 DEF MediaComes

(* Nothing is told by a step of Parse, and the place is kept.               *)
LEMMA ParseKept ==
  ASSUME DashInv, PlayInv, Parse, NEW p, ParseStep(p), Completed(p.n) = {},
         \A i \in 1 .. p.n :
           src.part = "media" /\ BoxOf("media", d.queue[i]) \in {"moof", "mdat"} =>
             Honours(Span(src.rep, src.at, (d.queue[i] - MediaBase) \div Block)),
         at' = at => Stands',
         InBlock' /\ BlockStart' < d'.off /\ d'.off <= (BlockStart + Block)' =>
           run'.rep = src'.rep /\ run'.at = src'.at /\ run'.to = d'.off /\ run'.from <= BlockStart',
         Files', IndexRead'
  PROVE  PlayInv' /\ at' = at /\ heard' = heard
<1>1. /\ start' = start /\ dpc' = dpc /\ spc # "idle"
  BY ParseSteps
<1>2. /\ p.n \in 0 .. Len(d.queue) /\ p.n \in Nat
      /\ SameButIndex(d', d) /\ d'.off = d.off + p.n
      /\ Push(d, SubSeq(d.queue, 1, p.n))
  BY DEF ParseStep
<1>3. /\ start \in Starts /\ d \in Streams /\ d.lastRet = "OK" /\ dpc = "wait"
      /\ HasFragment(Mpd, d.at) /\ WellPlaced(Mpd, d.at)
      /\ \A i \in 1 .. Len(d.queue) : d.queue[i] = d.off + i - 1
      /\ heard \in Int \X Int /\ at \in Int
      /\ Shown /\ run.from <= run.to /\ Caught /\ SeekHonoured
  BY <1>1, AtWork
<1>4. heard' = heard /\ at' = at
  BY <1>1, <1>2, <1>3, PushSilent
<1>5. Mpd' = Mpd /\ From' = From /\ Show' = Show
  BY <1>1, StartFixed, ShowFixed
<1>6. Caught'
  BY <1>1, <1>3, <1>4, <1>5 DEF Caught
<1>7. SeekHonoured'
  BY <1>1, <1>2, <1>3, PushHonours
<1>8. Positioned'
  BY <1>1, <1>2, <1>3, <1>4, <1>5 DEF Positioned, SameButIndex
<1>9. EndSaid'
  BY <1>1, <1>2, <1>3 DEF EndSaid, SameButIndex
<1>10. Unbroken'
  <2>1. run'.from <= run'.to
    BY <1>2, <1>3, PushRuns
  <2> QED
    BY <2>1 DEF Unbroken
<1> QED
  BY <1>4, <1>6, <1>7, <1>8, <1>9, <1>10 DEF PlayInv

(* A sidx that is read has the stream stand at the entry that is sought.    *)
LEMMA ParseReads ==
  ASSUME DashInv, PlaceInv, PlayInv, Parse, NEW p, p = Parsed(d, src.part), ParseStep(p),
         NEW i \in 1 .. p.n, Reads(p, d, src.part, i), at' = at
  PROVE  /\ OnDemand /\ d.index = 0 /\ d'.index = d.rep /\ d'.index # 0 /\ d'.rep = d.rep
         /\ d'.entry \in 0 .. Entries(d.rep) - 1 /\ d.off + i = First
         /\ Here' = <<Pts(d.rep, d'.entry), EntryEnd(d.rep, d'.entry)>> /\ Inside(Here', at)
         /\ Part # "header"
<1>1. /\ start' = start /\ dpc' = dpc /\ spc # "idle"
  BY ParseSteps
<1>2. /\ p.n \in 0 .. Len(d.queue) /\ d' = p.x /\ SameButIndex(d', d)
  BY DEF ParseStep
<1>3. /\ start \in Starts /\ d \in Streams /\ src.rep = d.rep /\ src.rep \in Reps /\ Stands
      /\ at \in Int /\ Remembered(d) /\ d.off \in Nat /\ i \in Nat
  <2>1. p.n \in Nat
    BY DEF ParseStep
  <2> QED
    BY <1>1, <2>1, AtWork DEF DashInv, Indexed
<1>4. /\ Part # "header" /\ OnDemand /\ d.off + i = First
      /\ p.x.index = d.rep /\ p.x.entry \in 0 .. Entries(d.rep) - 1
  BY <1>1, <1>2, ReadFacts
<1>5. d.index = 0
  BY <1>4 DEF Reads, PlaceInv, Looking
<1>6. Sought(d.rep, d.pending, d.sidxPos, at)
  BY <1>3, <1>4, <1>5 DEF Stands
<1> DEFINE o == d.off + i
           y == ReadSidx(d, d.rep, o)
<1>7. Inside(<<Pts(d.rep, y.entry), EntryEnd(d.rep, y.entry)>>, at)
  <2>1. o \in Int
    BY <1>3
  <2> HIDE DEF o
  <2> QED
    BY <1>3, <1>6, <2>1, ReadInside
<1>8. p.x.entry = y.entry
  BY <1>3 DEF Reads, SameIndex
<1>9. d'.rep = d.rep /\ d'.entry = p.x.entry /\ d'.index = d.rep
  BY <1>2, <1>4 DEF SameButIndex
<1>10. d.rep # 0
  BY <1>3, RepsFacts
<1>11. Here' = <<Pts(d.rep, d'.entry), EntryEnd(d.rep, d'.entry)>>
  <2>1. OnDemand'
    BY <1>1, <1>4, StartFixed
  <2> QED
    BY <1>9, <2>1 DEF Here, Span, Pts, EntryEnd
<1> HIDE DEF y
<1> QED
  BY <1>4, <1>5, <1>7, <1>8, <1>9, <1>10, <1>11

LEMMA ParseSame ==
  ASSUME DashInv, Parse
  PROVE  /\ Part' = Part /\ Loading' /\ OnDemand' = OnDemand /\ Block' = Block
         /\ First' = First /\ Mpd' = Mpd
<1>1. /\ start' = start /\ todo' = todo /\ dpc' = dpc /\ spc # "idle"
  BY ParseSteps
<1>2. dpc = "wait"
  BY <1>1, AtHand, InTransfer
<1> QED
  BY <1>1, <1>2, StartFixed DEF Part, Loading, Block, First

(* The parts without media.                                                 *)
LEMMA PlayParseHeader ==
  ASSUME DashInv, PlaceInv, PlayInv, Parse, NEW p, p = Parsed(d, src.part), ParseStep(p),
         Part # "media"
  PROVE  PlayInv' /\ at' = at /\ heard' = heard
<1>1. /\ start' = start /\ todo' = todo /\ frag' = frag /\ dpc' = dpc /\ spc # "idle"
  BY ParseSteps
<1>2. /\ start \in Starts /\ d \in Streams /\ src.part = Part /\ Stands /\ Loading
      /\ src.on /\ Receiving /\ d.lastRet = "OK" /\ ~MediaComes
  BY <1>1, AtWork
<1>3. /\ p.n \in Nat /\ d' = p.x /\ SameButIndex(d', d) /\ src' = src
      /\ ReadsNone(p, d, src.part) \/ \E i \in 1 .. p.n : Reads(p, d, src.part, i)
      /\ finished' = (finished \/ FALSE)
  <2>1. ~(p.jump /\ src.part # "index")
    BY <1>2 DEF ParseStep
  <2> QED
    BY <2>1 DEF ParseStep
<1>4. /\ Part' = Part /\ Loading' /\ OnDemand' = OnDemand /\ Block' = Block /\ Mpd' = Mpd
  BY ParseSame
<1>5. ~MediaComes' /\ ~InBlock' /\ ~Told' /\ ~Told
  BY <1>2, <1>4 DEF MediaComes, InBlock, Told
<1>6. Completed(p.n) = {}
  BY <1>2, <1>3, CompletedEmpty
<1>7. ASSUME at' = at PROVE Stands'
  <2>1. CASE ReadsNone(p, d, src.part)
    <3>1. /\ d'.rep = d.rep /\ d'.at = d.at /\ d'.index = d.index /\ d'.entry = d.entry
          /\ d'.pending = d.pending /\ d'.sidxPos = d.sidxPos
      BY <1>3, <2>1 DEF ReadsNone, SameIndex, SameButIndex
    <3>2. Here' = Here
      BY <1>1, <3>1, HereSame
    <3> QED
      BY <1>1, <1>2, <1>5, <1>7, <3>1, <3>2, StandsSame
  <2>2. CASE \E i \in 1 .. p.n : Reads(p, d, src.part, i)
    <3>1. /\ d'.index # 0 /\ Inside(Here', at)
      BY <1>7, <2>2, ParseReads
    <3> QED
      BY <1>1, <1>5, <1>7, <3>1 DEF Stands, Inside
  <2> QED
    BY <1>3, <2>1, <2>2
<1>8. Files'
  <2>1. ~OnDemand => Files
    BY DEF PlayInv
  <2>2. Receiving'
    BY <1>2, <1>3 DEF Receiving
  <2>3. d'.at = d.at
    BY <1>3 DEF SameButIndex
  <2>4. ~OnDemand => frag.at = d.at /\ frag.from = 0 /\ frag.to = Block
    BY <1>2, <2>1 DEF Files
  <2> QED
    BY <1>1, <1>2, <1>4, <1>5, <2>2, <2>3, <2>4 DEF Files
<1>9. IndexRead'
  BY <1>5 DEF IndexRead
<1> QED
  BY <1>2, <1>5, <1>6, <1>7, <1>8, <1>9, ParseKept

(* A fragment that is a file of its own: its moof.                          *)
LEMMA PlayParseFile ==
  ASSUME DashInv, PlaceInv, PlayInv, Playable, Parse,
         NEW p, p = Parsed(d, src.part), ParseStep(p), Part = "media", ~OnDemand
  PROVE  PlayInv' /\ at' = at /\ heard' = heard
<1>1. /\ start' = start /\ todo' = todo /\ frag' = frag /\ dpc' = dpc /\ spc = "parse"
      /\ spc # "idle"
  BY ParseSteps
<1>2. /\ start \in Starts /\ d \in Streams /\ src.part = Part /\ Stands /\ Loading
      /\ src.on /\ Receiving /\ d.lastRet = "OK" /\ MediaComes
      /\ src.rep \in Reps /\ src.at = frag.at /\ WellPlaced(Mpd, d.at)
      /\ d.off \in Nat /\ Len(d.queue) \in Nat /\ src.pos = d.off + Len(d.queue)
      /\ src.pos <= src.end /\ src.end \in Int /\ src.pos \in Nat
      /\ \A i \in 1 .. Len(d.queue) : d.queue[i] = d.off + i - 1
      /\ Caught /\ at \in Int
  BY <1>1, AtWork
<1>3. ReadsNone(p, d, src.part) /\ ~p.jump
  <2>1. ReadsNone(p, d, src.part)
    BY DEF ParseStep, Reads
  <2> QED
    BY <2>1 DEF ReadsNone
<1>4. /\ p.n \in Nat /\ p.n <= Len(d.queue) /\ d' = p.x /\ SameButIndex(d', d) /\ src' = src
      /\ finished' = (finished \/ FALSE)
      /\ p.n # 0 => LastOfBox("media", d.queue[p.n])
      /\ \A i \in 1 .. p.n : BoxOf("media", d.queue[i]) # "mdat"
      /\ \A j \in WholeBoxes(d.queue, "media") : j <= p.n
      /\ d'.off = d.off + p.n /\ d'.queue = SubSeq(d.queue, p.n + 1, Len(d.queue))
      /\ d'.mdat = (p.n < Len(d.queue) /\ BoxOf("media", d.queue[p.n + 1]) = "mdat")
      /\ spc' = IF d'.mdat /\ d'.queue # <<>> THEN "mdat" ELSE "idle"
  <2>1. src.part = "media" /\ ~(p.jump /\ src.part # "index")
    BY <1>2, <1>3
  <2>2. /\ p.n \in 0 .. Len(d.queue) /\ p.n \in Nat /\ d' = p.x /\ SameButIndex(d', d) /\ src' = src
        /\ finished' = (finished \/ FALSE)
        /\ spc' = IF d'.mdat /\ d'.queue # <<>> THEN "mdat" ELSE "idle"
    BY <2>1 DEF ParseStep
  <2>3. p.n <= Len(d.queue)
    BY <1>2, <2>2
  <2>4. /\ p.n # 0 => LastOfBox("media", d.queue[p.n])
        /\ \A i \in 1 .. p.n : BoxOf("media", d.queue[i]) # "mdat"
        /\ \A j \in WholeBoxes(d.queue, "media") : j <= p.n
    BY <1>3, <2>1 DEF ParseStep
  <2>5. /\ d'.off = d.off + p.n /\ d'.queue = SubSeq(d.queue, p.n + 1, Len(d.queue))
        /\ d'.mdat = (p.n < Len(d.queue) /\ BoxOf("media", d.queue[p.n + 1]) = "mdat")
    BY <1>3, <2>1 DEF ParseStep
  <2> QED
    BY <2>2, <2>3, <2>4, <2>5
<1>5. /\ d'.rep = d.rep /\ d'.at = d.at /\ d'.index = d.index /\ d'.entry = d.entry
      /\ d'.pending = d.pending /\ d'.sidxPos = d.sidxPos /\ d'.lastRet = "OK"
  BY <1>2, <1>3, <1>4 DEF ReadsNone, SameIndex, SameButIndex
<1>6. /\ Part' = Part /\ Loading' /\ OnDemand' = OnDemand /\ Block' = Block /\ Mpd' = Mpd
  BY ParseSame
<1>7. Files /\ ~d.mdat /\ (d.off = 0 \/ d.off = MoofSize) /\ src.end = Block /\ ~finished
      /\ frag.at = d.at /\ frag.from = 0 /\ frag.to = Block
  BY <1>1, <1>2 DEF Files, PlayInv
<1>8. Block \in Nat \ {0} /\ MoofSize \in Nat \ {0} /\ MoofSize < Block /\ MediaBase = 0
  BY Sizes DEF MediaBase
<1>9. p.n = 0 \/ (d.off = 0 /\ p.n = MoofSize)
  <2>1. d.off + p.n <= Block
    BY <1>2, <1>4, <1>7, <1>8
  <2>2. ASSUME NEW j \in 0 .. p.n - 1 PROVE BoxOf("media", d.off + j) # "mdat"
    <3>1. j + 1 \in 1 .. p.n /\ j + 1 \in 1 .. Len(d.queue)
      BY <1>2, <1>4
    <3>2. d.queue[j + 1] = d.off + (j + 1) - 1 /\ d.off + (j + 1) - 1 = d.off + j
      BY <1>2, <3>1
    <3> QED
      BY <1>4, <3>1, <3>2
  <2>3. p.n # 0 => LastOfBox("media", d.off + p.n - 1)
    <3>1. p.n # 0 => d.queue[p.n] = d.off + p.n - 1
      BY <1>2, <1>4
    <3> QED
      BY <1>4, <3>1
  <2> HIDE DEF ParseStep
  <2> QED
    BY <1>2, <1>4, <1>7, <2>1, <2>2, <2>3, FileBoxesEnd
<1>10. Completed(p.n) = {}
  <2>1. d.off + p.n < 0 + 0 * Block + Block
    BY <1>2, <1>4, <1>7, <1>8, <1>9
  <2>2. ASSUME NEW k \in BlocksOf(src.rep), k \in Nat
        PROVE  ~(d.off < MediaBase + (k + 1) * Block /\ MediaBase + (k + 1) * Block <= d.off + p.n)
    BY <1>2, <1>4, <1>8, <2>1, <2>2, NoBoundary
  <2> QED
    BY <1>2, <1>4, <2>2, CompletedEmpty
<1>11. ASSUME at' = at PROVE Stands'
  <2>1. Here' = Here
    BY <1>1, <1>5, HereSame
  <2>2. ~Told' /\ ~Told
    <3>1. BlockStart' = 0
      BY <1>6 DEF BlockStart
    <3>2. d'.off # 0 + Block
      BY <1>2, <1>4, <1>7, <1>8, <1>9
    <3> QED
      BY <1>6, <1>7, <3>1, <3>2 DEF Told
  <2> QED
    BY <1>1, <1>2, <1>5, <1>11, <2>1, <2>2, StandsSame
<1>12. ASSUME NEW i \in 1 .. p.n
       PROVE  Honours(Span(src.rep, src.at, (d.queue[i] - MediaBase) \div Block))
  <2>1. Here = <<Timestamp(Mpd, d.at), End(Mpd, d.at)>>
    BY <1>2, HereFiles DEF Playable
  <2>2. Span(src.rep, src.at, (d.queue[i] - MediaBase) \div Block) = Here
    BY <1>2, <1>7, <2>1 DEF Span, End
  <2>3. Inside(Here, at)
    BY <1>2, <1>7 DEF Stands, Told
  <2>4. Here \in Int \X Int
    <3>1. Timestamp(Mpd, d.at) \in Nat /\ End(Mpd, d.at) \in Nat
      BY <1>2, MediaEnds DEF Playable
    <3> QED
      BY <2>1, <3>1
  <2> QED
    BY <1>2, <2>2, <2>3, <2>4, InsideHonours
<1>13. ASSUME InBlock', BlockStart' < d'.off
       PROVE  run'.rep = src'.rep /\ run'.at = src'.at /\ run'.to = d'.off /\ run'.from <= BlockStart'
  <2>1. BlockStart' = 0 /\ BlockStart = 0
    BY <1>6 DEF BlockStart
  <2>2. /\ run'.from <= run'.to
        /\ p.n = 0 => run' = run
        /\ p.n # 0 => run'.rep = src.rep /\ run'.at = src.at /\ run'.to = d.off + p.n
                      /\ run'.from = RunStart /\ RunStart <= d.off
    BY <1>1, <1>2, AtWork, PushRuns DEF ParseStep
  <2>3. CASE p.n = 0
    <3>1. d'.off = d.off /\ run' = run
      BY <1>2, <1>4, <2>2, <2>3
    <3>2. InBlock /\ BlockStart < d.off /\ d.off <= BlockStart + Block
      BY <1>2, <1>6, <1>7, <1>8, <1>13, <2>1, <3>1 DEF InBlock
    <3> QED
      BY <1>4, <2>1, <3>1, <3>2 DEF PlayInv, Unbroken
  <2>4. CASE p.n # 0
    BY <1>4, <1>9, <2>1, <2>2, <2>4
  <2> QED
    BY <2>3, <2>4
<1>14. Files'
  <2>1. Receiving' /\ (MediaComes' <=> TRUE)
    BY <1>2, <1>4, <1>5, <1>6 DEF Receiving, MediaComes
  <2>2. d'.queue \in Seq(Int) /\ Len(d'.queue) = Len(d.queue) - p.n
    <3>1. d.queue \in Seq(Int) /\ p.n \in 0 .. Len(d.queue)
      BY <1>2, <1>4, FieldTypes
    <3> QED
      BY <1>4, <3>1, RestLength
  <2>3. CASE d'.mdat
    <3>1. p.n < Len(d.queue) /\ BoxOf("media", d.queue[p.n + 1]) = "mdat"
      BY <1>4, <2>3
    <3>2. d.queue[p.n + 1] = d.off + p.n /\ d.off + p.n \in Nat /\ d.off + p.n < Block
      <4>1. p.n + 1 \in 1 .. Len(d.queue) /\ p.n + 1 - 1 = p.n
        BY <1>2, <1>4, <3>1
      <4>2. d.queue[p.n + 1] = d.off + (p.n + 1) - 1
        BY <1>2, <4>1
      <4> QED
        BY <1>2, <1>4, <1>7, <3>1, <4>2
    <3>3. d.off + p.n >= MoofSize
      BY <1>8, <3>1, <3>2, FileBox
    <3>4. d'.queue # <<>>
      <4>1. Len(d'.queue) # 0
        BY <1>2, <1>4, <2>2, <3>1
      <4> QED
        BY <4>1
    <3>5. spc' = "mdat"
      BY <1>4, <2>3, <3>4
    <3>6. /\ Loading' /\ frag'.at = d'.at /\ frag'.from = 0 /\ frag'.to = Block'
          /\ src'.end = Block' /\ ~finished' /\ Receiving'
      BY <1>1, <1>4, <1>5, <1>6, <1>7, <2>1
    <3>7. /\ MoofSize <= d'.off /\ d'.off <= Block' /\ spc' # "parse" /\ (spc' = "idle" <=> d'.queue = <<>>)
      BY <1>4, <1>6, <1>8, <3>2, <3>3, <3>4, <3>5
    <3> QED
      BY <2>3, <3>6, <3>7 DEF Files
  <2>4. CASE ~d'.mdat
    <3>1. d'.off = 0 \/ d'.off = MoofSize
      BY <1>2, <1>4, <1>7, <1>8, <1>9
    <3>2. CASE d'.off = 0
      <4>1. p.n = 0 /\ d.off = 0
        BY <1>2, <1>4, <3>2
      <4>2. src.pos < MoofSize
        <5>1. SUFFICES ASSUME MoofSize <= Len(d.queue) PROVE FALSE
          BY <1>2, <1>8, <4>1
        <5>2. MoofSize \in 1 .. Len(d.queue) /\ MoofSize \in 0 .. Len(d.queue)
          BY <1>2, <1>8, <5>1
        <5>3. d.queue[MoofSize] = MoofSize - 1
          BY <1>2, <1>8, <4>1, <5>2
        <5>4. LastOfBox("media", d.queue[MoofSize])
          BY <1>8, <5>3, FileBox
        <5>5. ASSUME NEW i \in 1 .. MoofSize PROVE BoxOf("media", d.queue[i]) # "mdat"
          <6>1. i \in 1 .. Len(d.queue) /\ i - 1 \in Nat /\ i - 1 < MoofSize /\ i - 1 < Block
            BY <1>2, <1>8, <5>2
          <6>2. d.queue[i] = i - 1
            BY <1>2, <4>1, <6>1
          <6> QED
            BY <6>1, <6>2, FileBox
        <5>6. MoofSize \in WholeBoxes(d.queue, "media")
          BY <5>2, <5>4, <5>5 DEF WholeBoxes
        <5> QED
          BY <1>4, <1>8, <4>1, <5>6
      <4> QED
        BY <1>1, <1>4, <1>5, <1>6, <1>7, <2>1, <2>4, <3>2, <4>2 DEF Files
    <3>3. CASE d'.off = MoofSize
      <4>1. d.off + p.n = MoofSize
        BY <1>4, <3>3
      <4>2. Len(d.queue) = p.n
        <5>1. SUFFICES ASSUME p.n < Len(d.queue) PROVE FALSE
          BY <1>2, <1>4
        <5>2. p.n + 1 \in 1 .. Len(d.queue)
          BY <1>2, <1>4, <5>1
        <5>3. d.queue[p.n + 1] = MoofSize
          BY <1>2, <1>4, <1>8, <4>1, <5>2
        <5>4. BoxOf("media", MoofSize) = "mdat"
          BY <1>8, FileBox
        <5> QED
          BY <1>4, <2>4, <5>1, <5>3, <5>4
      <4>3. d'.queue = <<>>
        BY <1>2, <1>4, <2>2, <4>2
      <4> QED
        BY <1>1, <1>4, <1>5, <1>6, <1>7, <2>1, <2>4, <3>3, <4>3 DEF Files
    <3> QED
      BY <3>1, <3>2, <3>3
  <2> QED
    BY <2>3, <2>4
<1>15. IndexRead'
  BY <1>6 DEF IndexRead
<1> QED
  BY <1>10, <1>11, <1>12, <1>13, <1>14, <1>15, ParseKept

(* A file with an index: whole boxes up to some place before an mdat.       *)
LEMMA ParseMedia ==
  ASSUME DashInv, PlaceInv, PlayInv, Parse, NEW p, ParseStep(p), Part = "media", OnDemand
  PROVE  /\ start \in Starts /\ d \in Streams /\ src.part = "media" /\ src.rep = d.rep
         /\ src.rep \in Reps /\ MediaComes /\ Stands /\ Caught /\ at \in Int
         /\ d.off \in Nat /\ Len(d.queue) \in Nat /\ src.pos = d.off + Len(d.queue)
         /\ p.n \in Nat /\ p.n <= Len(d.queue) /\ d' = p.x /\ SameButIndex(d', d)
         /\ d'.off = d.off + p.n /\ d'.rep = d.rep /\ d'.at = d.at /\ d'.lastRet = "OK"
         /\ (d.allow <=> d.index = 0)
         /\ \A i \in 1 .. p.n : d.queue[i] = d.off + i - 1
         /\ (d'.mdat => d.queue # <<>>)
         /\ \A e \in Nat : d.off = First + e * Block => p.n = 0 \/ p.n = MoofSize
         /\ \A e \in Nat : d.off = First + e * Block + MoofSize => p.n = 0
         /\ d.off = 0 \/ d.off = MoovSize => d.off + p.n \in {0, MoovSize, First, First + MoofSize}
         /\ BlockStart' = First + d'.entry * Block
         /\ run'.from <= run'.to /\ (p.n = 0 => run' = run)
         /\ p.n # 0 => run'.rep = src.rep /\ run'.at = src.at /\ run'.to = d'.off
                       /\ run'.from <= d.off
         /\ src'.rep = src.rep /\ src'.at = src.at
<1>1. spc # "idle" /\ start' = start
  BY ParseSteps
<1>2. /\ start \in Starts /\ d \in Streams /\ src.part = Part /\ src.rep = d.rep
      /\ src.rep \in Reps /\ MediaComes /\ Stands /\ Caught /\ at \in Int
      /\ d.off \in Nat /\ Len(d.queue) \in Nat /\ src.pos = d.off + Len(d.queue)
      /\ \A i \in 1 .. Len(d.queue) : d.queue[i] = d.off + i - 1
      /\ d.lastRet = "OK" /\ Shown /\ run.from <= run.to
  BY <1>1, AtWork
<1>3. /\ p.n \in 0 .. Len(d.queue) /\ p.n \in Nat /\ d' = p.x /\ SameButIndex(d', d)
      /\ p.n # 0 => LastOfBox("media", d.queue[p.n])
      /\ \A i \in 1 .. p.n : BoxOf("media", d.queue[i]) # "mdat"
      /\ d'.off = d.off + p.n
      /\ Push(d, SubSeq(d.queue, 1, p.n))
      /\ src' = src \/ src' = [src EXCEPT !.on = FALSE]
  <2>1. src.part = "media"
    BY <1>2
  <2>2. /\ p.n \in 0 .. Len(d.queue) /\ p.n \in Nat /\ d' = p.x /\ SameButIndex(d', d)
        /\ p.n # 0 => LastOfBox("media", d.queue[p.n])
        /\ \A i \in 1 .. p.n : BoxOf("media", d.queue[i]) # "mdat"
        /\ d'.off = d.off + p.n
        /\ Push(d, SubSeq(d.queue, 1, p.n))
    BY <2>1 DEF ParseStep
  <2>3. src' = src \/ src' = [src EXCEPT !.on = FALSE]
    BY DEF ParseStep
  <2> QED
    BY <2>2, <2>3
<1>4. d'.mdat => d.queue # <<>>
  <2> SUFFICES ASSUME d'.mdat PROVE d.queue # <<>>
    OBVIOUS
  <2>1. p.n < Len(d.queue)
    BY DEF ParseStep
  <2>2. Len(d.queue) # 0
    BY <1>2, <1>3, <2>1
  <2> QED
    BY <2>2
<1>5. p.n <= Len(d.queue) /\ \A i \in 1 .. p.n : d.queue[i] = d.off + i - 1
  <2> DEFINE l == Len(d.queue)
             n == p.n
  <2>0. l \in Nat /\ n \in 0 .. l
    BY <1>2, <1>3
  <2>1. p.n <= Len(d.queue)
    <3> HIDE DEF l, n
    <3>1. n <= l
      BY <2>0
    <3> QED
      BY <3>1 DEF l, n
  <2>2. \A i \in 1 .. p.n : i \in 1 .. Len(d.queue)
    BY <1>2, <1>3, <2>1
  <2> QED
    BY <1>2, <2>1, <2>2
<1>6. /\ \A e \in Nat : d.off = First + e * Block => p.n = 0 \/ p.n = MoofSize
      /\ \A e \in Nat : d.off = First + e * Block + MoofSize => p.n = 0
      /\ d.off = 0 \/ d.off = MoovSize => d.off + p.n \in {0, MoovSize, First, First + MoofSize}
  <2>1. ASSUME NEW j \in 0 .. p.n - 1 PROVE BoxOf("media", d.off + j) # "mdat"
    <3> DEFINE n == p.n
               o == d.off
    <3>0. n \in Nat /\ o \in Nat
      BY <1>2, <1>3
    <3>1. j + 1 \in 1 .. p.n /\ d.off + (j + 1) - 1 = d.off + j
      <4>1. j \in 0 .. n - 1
        OBVIOUS
      <4> HIDE DEF n, o
      <4>2. j + 1 \in 1 .. n /\ o + (j + 1) - 1 = o + j
        BY <3>0, <4>1
      <4> QED
        BY <4>2 DEF n, o
    <3>2. d.queue[j + 1] = d.off + j
      BY <1>5, <3>1
    <3> QED
      BY <1>3, <3>1, <3>2
  <2>2. p.n # 0 => LastOfBox("media", d.off + p.n - 1)
    <3>1. p.n # 0 => d.queue[p.n] = d.off + p.n - 1
      BY <1>3, <1>5
    <3> QED
      BY <1>3, <3>1
  <2> QED
    BY <1>2, <1>3, <2>1, <2>2, WholeBoxesEnd
<1>7. BlockStart' = First + d'.entry * Block
  <2>1. OnDemand'
    BY <1>1, StartFixed
  <2> QED
    BY <2>1 DEF BlockStart, EntryStart, First, Block
<1>8. /\ run'.from <= run'.to /\ (p.n = 0 => run' = run)
      /\ p.n # 0 => run'.rep = src.rep /\ run'.at = src.at /\ run'.to = d'.off
                    /\ run'.from <= d.off
  BY <1>2, <1>3, PushRuns
<1>9. src'.rep = src.rep /\ src'.at = src.at
  BY <1>3 DEF DashInv, TypeOK
<1>10. d'.rep = d.rep /\ d'.at = d.at /\ d'.lastRet = "OK"
  BY <1>2, <1>3 DEF SameButIndex
<1>11. d.allow <=> d.index = 0
  BY DEF PlaceInv, Looking
<1> QED
  BY <1>2, <1>3, <1>4, <1>5, <1>6, <1>7, <1>8, <1>9, <1>10, <1>11

(* With an index, it is what comes before the mdat of the entry.            *)
LEMMA PlayParseEntry ==
  ASSUME DashInv, PlaceInv, PlayInv, Parse, NEW p, p = Parsed(d, src.part), ParseStep(p),
         Part = "media", OnDemand, d.index # 0
  PROVE  PlayInv' /\ at' = at /\ heard' = heard
<1>1. /\ start' = start /\ dpc' = dpc /\ spc = "parse" /\ spc # "idle"
  BY ParseSteps
<1>2. /\ start \in Starts /\ d \in Streams /\ src.part = "media" /\ src.rep = d.rep
      /\ src.rep \in Reps /\ MediaComes /\ Stands /\ Caught /\ at \in Int
      /\ d.off \in Nat /\ Len(d.queue) \in Nat
      /\ p.n \in Nat /\ p.n <= Len(d.queue) /\ d' = p.x /\ SameButIndex(d', d)
      /\ d'.off = d.off + p.n /\ d'.rep = d.rep /\ d'.at = d.at /\ d'.lastRet = "OK"
      /\ ~d.allow
      /\ \A i \in 1 .. p.n : d.queue[i] = d.off + i - 1
      /\ (d'.mdat => d.queue # <<>>)
  BY ParseMedia
<1>3. /\ \A e \in Nat : d.off = First + e * Block => p.n = 0 \/ p.n = MoofSize
      /\ \A e \in Nat : d.off = First + e * Block + MoofSize => p.n = 0
      /\ d.off = 0 \/ d.off = MoovSize => d.off + p.n \in {0, MoovSize, First, First + MoofSize}
      /\ BlockStart' = First + d'.entry * Block
      /\ run'.from <= run'.to /\ (p.n = 0 => run' = run)
      /\ p.n # 0 => run'.rep = src.rep /\ run'.at = src.at /\ run'.to = d'.off
                    /\ run'.from <= d.off
      /\ src'.rep = src.rep /\ src'.at = src.at
  BY ParseMedia
<1>4. ReadsNone(p, d, src.part)
  BY <1>2 DEF ParseStep, Reads
<1>5. /\ d'.index = d.index /\ d'.entry = d.entry /\ d'.pending = d.pending
      /\ d'.sidxPos = d.sidxPos
  BY <1>2, <1>4 DEF ReadsNone, SameIndex
<1>6. /\ Block \in Nat \ {0} /\ MoofSize \in Nat \ {0} /\ MoofSize < Block /\ First \in Nat \ {0}
      /\ d.entry \in 0 .. Entries(d.rep) - 1 /\ d.entry \in Nat
      /\ BlockStart = EntryStart /\ EntryStart = First + d.entry * Block
      /\ EntryStart \in Nat /\ First <= EntryStart
  BY BlockFacts DEF BlockStart, EntryStart
<1>7. ~d.mdat /\ BeforeMdat
  <2>1. Receiving
    BY <1>2 DEF MediaComes
  <2> QED
    BY <1>1, <2>1 DEF PlaceInv, Arriving, InMdat
<1>8. \/ d.queue = <<>> /\ p.n = 0
      \/ /\ EntryStart <= d.off \/ d.entry = 0
         /\ d.off + p.n <= EntryStart + MoofSize
         /\ p.n = 0 \/ d.off <= EntryStart
  <2>1. CASE d.off = EntryStart \/ d.off = EntryStart + MoofSize
    <3>1. /\ d.off = EntryStart => p.n = 0 \/ p.n = MoofSize
          /\ d.off = EntryStart + MoofSize => p.n = 0
      BY <1>3, <1>6
    <3> QED
      BY <1>2, <1>6, <2>1, <3>1
  <2>2. CASE d.entry = 0 /\ (d.off = 0 \/ d.off = MoovSize)
    <3>1. EntryStart = First
      BY <1>6, <2>2
    <3>2. d.off + p.n \in {0, MoovSize, First, First + MoofSize}
      BY <1>3, <2>2
    <3> QED
      BY <1>2, <2>2, <3>1, <3>2, Sizes
  <2>3. CASE d.queue = <<>>
    <3>1. Len(d.queue) = 0
      BY <2>3
    <3> QED
      BY <1>2, <2>3, <3>1
  <2> QED
    BY <1>7, <2>1, <2>2, <2>3 DEF BeforeMdat
<1>9. Completed(p.n) = {}
  <2>1. ASSUME NEW k \in BlocksOf(src.rep), k \in Nat
        PROVE  ~(d.off < MediaBase + (k + 1) * Block /\ MediaBase + (k + 1) * Block <= d.off + p.n)
    <3>0. MediaBase = First
      BY DEF MediaBase
    <3>1. CASE p.n = 0
      <4> DEFINE u == First + (k + 1) * Block
      <4>1. u \in Nat
        BY <1>6, <2>1
      <4> HIDE DEF u
      <4>2. ~(d.off < u /\ u <= d.off + p.n)
        BY <1>2, <3>1, <4>1
      <4> QED
        BY <3>0, <4>2 DEF u
    <3>2. CASE p.n # 0
      <4>1. /\ First + d.entry * Block <= d.off \/ d.entry = 0
            /\ d.off + p.n < First + d.entry * Block + Block
        <5>1. d.off + p.n < EntryStart + Block
          BY <1>2, <1>6, <1>8, <3>2
        <5> QED
          BY <1>6, <1>8, <3>2, <5>1
      <4> QED
        BY <1>2, <1>6, <2>1, <3>0, <4>1, NoBoundary
    <3> QED
      BY <3>1, <3>2
  <2> QED
    BY <1>2, <2>1, CompletedEmpty
<1>10. Here = Span(src.rep, src.at, d.entry) /\ Inside(Here, at) /\ Here \in Int \X Int
  <2>1. Here = <<Pts(d.rep, d.entry), EntryEnd(d.rep, d.entry)>>
    BY HereEntry
  <2>2. Here = Span(src.rep, src.at, d.entry)
    BY <1>2, <2>1 DEF Span
  <2>3. Inside(Here, at)
    BY <1>2, <1>7 DEF Stands, Told
  <2>4. Pts(d.rep, d.entry) \in Nat /\ EntryEnd(d.rep, d.entry) \in Nat
    BY <1>2, <1>6, EntryTimes
  <2> QED
    BY <2>1, <2>2, <2>3, <2>4
<1>11. ASSUME at' = at PROVE Stands'
  <2>1. Here' = Here
    BY <1>1, <1>2, <1>5, HereSame
  <2>2. ~Told
    BY <1>7 DEF Told
  <2>3. ~Told'
    <3> SUFFICES ASSUME d'.mdat, d'.off = BlockStart' + Block PROVE FALSE
      <4>1. Block' = Block
        BY ParseSame
      <4> QED
        BY <4>1 DEF Told
    <3>1. d.queue # <<>>
      BY <1>2
    <3>2. BlockStart' = EntryStart
      BY <1>3, <1>5, <1>6
    <3> QED
      BY <1>2, <1>6, <1>8, <3>1, <3>2
  <2> QED
    BY <1>1, <1>2, <1>5, <1>11, <2>1, <2>2, <2>3, StandsSame
<1>12. ASSUME NEW i \in 1 .. p.n, BoxOf("media", d.queue[i]) \in {"moof", "mdat"}
       PROVE  Honours(Span(src.rep, src.at, (d.queue[i] - MediaBase) \div Block))
  <2> DEFINE u == d.queue[i]
  <2>1. u = d.off + i - 1 /\ i \in Nat /\ i >= 1 /\ i <= p.n /\ p.n # 0
    BY <1>2
  <2>2. u \in Nat /\ d.off <= u /\ u < d.off + p.n
    BY <1>2, <2>1
  <2>3. u < EntryStart + Block
    <3> HIDE DEF u
    <3>1. d.off + p.n <= EntryStart + MoofSize
      BY <1>8, <2>1
    <3>2. d.off \in Nat /\ p.n \in Nat /\ u < d.off + p.n /\ u \in Nat
      BY <1>2, <2>2
    <3> QED
      BY <1>6, <3>1, <3>2
  <2>4. EntryStart <= u
    <3>1. CASE EntryStart <= d.off
      BY <1>2, <1>6, <2>2, <3>1
    <3>2. CASE d.entry = 0
      <4>1. EntryStart = First
        BY <1>6, <3>2
      <4>2. ~(u < First)
        BY <1>12, <2>2, BoxBefore
      <4> QED
        BY <1>6, <2>2, <4>1, <4>2
    <3> QED
      BY <1>8, <2>1, <3>1, <3>2
  <2> HIDE DEF u
  <2>5. (u - First) \div Block = d.entry
    BY <1>6, <2>2, <2>3, <2>4, EntryUnits
  <2>6. MediaBase = First
    BY DEF MediaBase
  <2>7. Honours(Here)
    BY <1>2, <1>10, InsideHonours
  <2> QED
    BY <1>10, <2>5, <2>6, <2>7 DEF u
<1>13. ASSUME InBlock', BlockStart' < d'.off, d'.off <= (BlockStart + Block)'
       PROVE  run'.rep = src'.rep /\ run'.at = src'.at /\ run'.to = d'.off /\ run'.from <= BlockStart'
  <2>1. BlockStart' = EntryStart /\ Block' = Block
    BY <1>3, <1>5, <1>6, ParseSame
  <2>2. CASE p.n = 0
    <3>1. d'.off = d.off /\ run' = run
      BY <1>2, <1>3, <2>2
    <3>2. InBlock /\ BlockStart < d.off /\ d.off <= BlockStart + Block
      BY <1>2, <1>6, <1>13, <2>1, <3>1 DEF InBlock
    <3> QED
      BY <1>3, <1>6, <2>1, <3>1, <3>2 DEF PlayInv, Unbroken
  <2>3. CASE p.n # 0
    <3>1. d.off <= EntryStart /\ run'.from <= d.off
      BY <1>3, <1>8, <2>3
    <3>2. run'.from \in Int
      <4>1. DashInv'
        BY InvParse
      <4> QED
        BY <4>1 DEF DashInv, Shown
    <3>3. run'.from <= BlockStart'
      BY <1>2, <1>6, <2>1, <3>1, <3>2
    <3> QED
      BY <1>3, <2>3, <3>3
  <2> QED
    BY <2>2, <2>3
<1>14. Files' /\ IndexRead'
  <2>1. OnDemand'
    BY ParseSame
  <2> QED
    BY <1>5, <2>1 DEF Files, IndexRead
<1> QED
  BY <1>9, <1>11, <1>12, <1>13, <1>14, ParseKept

(* Without one, it is what comes before the sidx, or the sidx.              *)
LEMMA PlayParseIndex ==
  ASSUME DashInv, PlaceInv, PlayInv, Parse, NEW p, p = Parsed(d, src.part), ParseStep(p),
         Part = "media", OnDemand, d.index = 0
  PROVE  PlayInv' /\ at' = at /\ heard' = heard
<1>1. /\ start' = start /\ dpc' = dpc /\ spc = "parse" /\ spc # "idle"
  BY ParseSteps
<1>2. /\ start \in Starts /\ d \in Streams /\ src.part = "media" /\ src.rep = d.rep
      /\ src.rep \in Reps /\ MediaComes /\ Stands /\ Caught /\ at \in Int
      /\ d.off \in Nat /\ Len(d.queue) \in Nat /\ src.pos = d.off + Len(d.queue)
      /\ p.n \in Nat /\ p.n <= Len(d.queue) /\ d' = p.x /\ SameButIndex(d', d)
      /\ d'.off = d.off + p.n /\ d'.rep = d.rep /\ d'.at = d.at /\ d'.lastRet = "OK"
      /\ d.allow
      /\ \A i \in 1 .. p.n : d.queue[i] = d.off + i - 1
      /\ d.off = 0 \/ d.off = MoovSize => d.off + p.n \in {0, MoovSize, First, First + MoofSize}
  BY ParseMedia
<1>3. /\ BlockStart' = First + d'.entry * Block
      /\ run'.from <= run'.to /\ (p.n = 0 => run' = run)
      /\ p.n # 0 => run'.rep = src.rep /\ run'.at = src.at /\ run'.to = d'.off
                    /\ run'.from <= d.off
      /\ src'.rep = src.rep /\ src'.at = src.at
  BY ParseMedia
<1>4. /\ Block \in Nat \ {0} /\ MoofSize \in Nat \ {0} /\ MoofSize < Block
      /\ First \in Nat \ {0} /\ MoovSize \in Nat /\ MoovSize < First /\ MediaBase = First
  BY Sizes DEF MediaBase
<1>5. /\ ~d.mdat /\ (d.off = 0 \/ d.off = MoovSize) /\ d.off < First
      /\ d.off + p.n \in {0, MoovSize, First, First + MoofSize}
  <2>1. Receiving
    BY <1>2 DEF MediaComes
  <2>2. ~d.mdat /\ (d.off = 0 \/ d.off = MoovSize)
    BY <2>1 DEF PlaceInv, Arriving
  <2> QED
    BY <1>2, <1>4, <2>2
<1>6. Completed(p.n) = {}
  <2>1. ASSUME NEW k \in BlocksOf(src.rep), k \in Nat
        PROVE  ~(d.off < MediaBase + (k + 1) * Block /\ MediaBase + (k + 1) * Block <= d.off + p.n)
    <3>1. d.off + p.n < First + Block
      BY <1>4, <1>5
    <3>2. d.off + p.n < First + 0 * Block + Block /\ 0 \in Nat
      BY <1>4, <3>1
    <3> QED
      BY <1>2, <1>4, <2>1, <3>2, NoBoundary
  <2> QED
    BY <1>2, <2>1, CompletedEmpty
<1>7. ~Told /\ OnDemand' /\ Block' = Block
  BY ParseSame DEF Told, InBlock
<1>8. ASSUME NEW i \in 1 .. p.n
      PROVE  d.queue[i] = d.off + i - 1 /\ d.queue[i] \in Nat /\ d.queue[i] < d.off + p.n
  <2>1. d.queue[i] = d.off + i - 1
    BY <1>2
  <2> DEFINE u == d.queue[i]
             o == d.off
             n == p.n
  <2>2. u = o + i - 1 /\ o \in Nat /\ n \in Nat /\ i \in 1 .. n
    BY <1>2, <2>1
  <2> HIDE DEF u, o, n
  <2>3. u \in Nat /\ u < o + n
    BY <2>2
  <2> QED
    BY <2>1, <2>3 DEF u, o, n
<1>9. CASE ReadsNone(p, d, src.part)
  <2>1. /\ d'.index = 0 /\ d'.entry = d.entry /\ d'.pending = d.pending
        /\ d'.sidxPos = d.sidxPos /\ ~p.jump
        /\ \A i \in 1 .. p.n :
             ~(BoxOf("media", d.queue[i]) = "sidx" /\ LastOfBox("media", d.queue[i]))
    <3>1. SameIndex(p.x, d) /\ ~p.jump
      BY <1>9 DEF ReadsNone
    <3>2. \A i \in 1 .. p.n :
            ~(BoxOf("media", d.queue[i]) = "sidx" /\ LastOfBox("media", d.queue[i]))
      BY <1>2, <1>9 DEF ReadsNone
    <3> QED
      BY <1>2, <3>1, <3>2 DEF SameIndex
  <2>2. First - 1 \in Nat /\ BoxOf("media", First - 1) = "sidx" /\ LastOfBox("media", First - 1)
    BY <1>4, BoxBefore
  <2>3. d.off + p.n < First
    <3> SUFFICES ASSUME d.off + p.n >= First PROVE FALSE
      BY <1>2, <1>4
    <3> DEFINE i == First - d.off
    <3>1. i \in 1 .. p.n /\ d.off + i - 1 = First - 1
      BY <1>2, <1>4, <1>5
    <3> HIDE DEF i
    <3>2. d.queue[i] = First - 1
      BY <1>2, <3>1
    <3> QED
      BY <2>1, <2>2, <3>1, <3>2
  <2>4. ASSUME at' = at PROVE Stands'
    <3>1. Here' = Here
      BY <1>1, <1>2, <2>1, HereSame
    <3>2. ~Told'
      BY <1>7, <2>1 DEF Told, InBlock
    <3> QED
      BY <1>1, <1>2, <1>7, <2>1, <2>4, <3>1, <3>2, StandsSame
  <2>5. ASSUME NEW i \in 1 .. p.n, BoxOf("media", d.queue[i]) \in {"moof", "mdat"}
        PROVE  FALSE
    <3>1. d.queue[i] \in Nat /\ d.queue[i] < First
      BY <1>2, <1>4, <1>8, <2>3
    <3> QED
      BY <2>5, <3>1, BoxBefore
  <2>6. ~InBlock' /\ Files'
    BY <1>7, <2>1 DEF InBlock, Files
  <2>7. IndexRead'
    <3>1. src' = src
      BY <2>1 DEF ParseStep
    <3>2. src.pos < First
      <4> SUFFICES ASSUME src.pos >= First PROVE FALSE
        BY <1>2, <1>4
      <4> DEFINE j == First - d.off
      <4>1. j \in 1 .. Len(d.queue) /\ d.off + j - 1 = First - 1 /\ j \in Nat
        BY <1>2, <1>4, <1>5
      <4>2. /\ ~(j <= p.n)
        BY <1>2, <1>4, <2>3
      <4>3. \A i \in 1 .. Len(d.queue) : d.queue[i] = d.off + i - 1
        BY <1>1, AtWork
      <4>4. d.queue[j] = First - 1
        BY <4>1, <4>3
      <4>5. ASSUME NEW i \in 1 .. j PROVE BoxOf("media", d.queue[i]) # "mdat"
        <5> HIDE DEF j
        <5>1. i \in 1 .. Len(d.queue) /\ i \in Nat /\ i >= 1 /\ i <= j
          BY <1>2, <4>1
        <5>2. d.queue[i] = d.off + i - 1 /\ d.off + i - 1 \in Nat /\ d.off + i - 1 < First
          BY <1>2, <1>4, <4>1, <4>3, <5>1
        <5> QED
          BY <5>2, BoxBefore
      <4> HIDE DEF j
      <4>6. j \in WholeBoxes(d.queue, "media")
        BY <1>2, <2>2, <4>1, <4>4, <4>5 DEF WholeBoxes
      <4>7. \A k \in WholeBoxes(d.queue, "media") : k <= p.n
        BY <1>2, <2>1 DEF ParseStep
      <4> QED
        BY <4>2, <4>6, <4>7
    <3>3. First' = First
      BY ParseSame
    <3> QED
      BY <3>1, <3>2, <3>3 DEF IndexRead
  <2> QED
    BY <1>6, <2>4, <2>5, <2>6, <2>7, ParseKept
<1>10. ASSUME NEW i \in 1 .. p.n, Reads(p, d, src.part, i)
       PROVE  PlayInv' /\ at' = at /\ heard' = heard
  <2>0. at' = at
    <3>1. Push(d, SubSeq(d.queue, 1, p.n)) /\ p.n \in 0 .. Len(d.queue)
      BY DEF ParseStep
    <3>2. /\ \A j \in 1 .. Len(d.queue) : d.queue[j] = d.off + j - 1
          /\ heard \in Int \X Int
      BY <1>1, AtWork
    <3> QED
      BY <1>1, <1>2, <1>6, <3>1, <3>2, PushSilent
  <2>1. /\ d'.index # 0 /\ d'.entry \in 0 .. Entries(d.rep) - 1 /\ d.off + i = First
        /\ Here' = <<Pts(d.rep, d'.entry), EntryEnd(d.rep, d'.entry)>> /\ Inside(Here', at)
    BY <1>10, <2>0, ParseReads
  <2>2. /\ p.jump = (d'.entry # 0 \/ ~start.forward) /\ (p.jump => p.n = i)
    BY <1>2, <1>10 DEF Reads
  <2>3. i \in Nat /\ i >= 1 /\ i <= p.n /\ p.n # 0
    BY <1>2
  <2>4. \/ d'.off = First
        \/ d'.off = First + MoofSize /\ ~p.jump
    <3>1. d.off + p.n >= First
      BY <1>2, <2>1, <2>3
    <3>2. d.off + p.n = First \/ d.off + p.n = First + MoofSize
      BY <1>4, <1>5, <3>1
    <3>3. p.jump => d.off + p.n = First
      BY <2>1, <2>2
    <3> QED
      BY <1>2, <1>4, <3>2, <3>3
  <2>5. d'.entry \in Nat /\ d'.entry * Block \in Nat /\ (d'.entry = 0 => d'.entry * Block = 0)
    <3>1. d'.entry \in Nat
      BY <1>2, <2>1, EntryFacts
    <3> QED
      BY <1>4, <3>1
  <2>6. ~Told'
    <3>1. d'.off # (First + d'.entry * Block) + Block
      BY <1>4, <2>4, <2>5
    <3> QED
      BY <1>3, <1>7, <3>1 DEF Told
  <2>7. Stands'
    BY <1>1, <2>0, <2>1, <2>6 DEF Stands, Inside
  <2>8. ASSUME NEW j \in 1 .. p.n, BoxOf("media", d.queue[j]) \in {"moof", "mdat"}
        PROVE  Honours(Span(src.rep, src.at, (d.queue[j] - MediaBase) \div Block))
    <3>1. d.queue[j] \in Nat /\ d.queue[j] < d'.off
      BY <1>2, <1>8
    <3>2. ~(d.queue[j] < First)
      BY <2>8, <3>1, BoxBefore
    <3>3. d'.off = First + MoofSize /\ ~p.jump
      BY <1>4, <2>4, <3>1, <3>2
    <3>4. d'.entry = 0
      BY <2>2, <3>3
    <3>5. (d.queue[j] - First) \div Block = 0
      <4> DEFINE u == d.queue[j]
      <4>1. u \in Nat /\ First <= u /\ u < First + Block
        BY <1>4, <3>1, <3>2, <3>3
      <4> HIDE DEF u
      <4>2. First + 0 * Block <= u /\ u < First + 0 * Block + Block /\ 0 \in Nat
        BY <1>4, <4>1
      <4>3. (u - First) \div Block = 0
        BY <4>1, <4>2, EntryUnits
      <4> QED
        BY <4>3 DEF u
    <3> DEFINE sp == <<Pts(d.rep, 0), EntryEnd(d.rep, 0)>>
    <3>6. Inside(sp, at) /\ sp \in Int \X Int
      <4>1. Pts(d.rep, 0) \in Nat /\ EntryEnd(d.rep, 0) \in Nat
        BY <1>2, <2>1, <3>4, EntryTimes
      <4> QED
        BY <2>1, <3>4, <4>1
    <3>7. Honours(sp)
      BY <1>2, <3>6, InsideHonours
    <3>8. Span(src.rep, src.at, 0) = sp
      BY <1>2 DEF Span
    <3> QED
      BY <1>4, <3>5, <3>7, <3>8
  <2>9. ASSUME InBlock', BlockStart' < d'.off
        PROVE  run'.rep = src'.rep /\ run'.at = src'.at /\ run'.to = d'.off /\ run'.from <= BlockStart'
    <3>1. run'.from \in Int
      <4>1. DashInv'
        BY InvParse
      <4> QED
        BY <4>1 DEF DashInv, Shown
    <3>2. run'.from <= BlockStart'
      BY <1>2, <1>3, <1>4, <1>5, <2>3, <2>5, <3>1
    <3> QED
      BY <1>3, <2>3, <3>2
  <2>10. Files' /\ IndexRead'
    BY <1>7, <2>1 DEF Files, IndexRead
  <2> QED
    BY <1>6, <2>7, <2>8, <2>9, <2>10, ParseKept
<1> QED
  BY <1>9, <1>10 DEF ParseStep

LEMMA PlayParse ==
  ASSUME DashInv, PlaceInv, PlayInv, Playable, Parse
  PROVE  PlayInv' /\ at' = at /\ heard' = heard
<1>1. PICK p : p = Parsed(d, src.part) /\ ParseStep(p)
  BY ParseSteps
<1> QED
  BY <1>1, PlayParseHeader, PlayParseFile, PlayParseEntry, PlayParseIndex

-----------------------------------------------------------------------------
(* The mdat.                                                                *)

(* S is within the mdat of the block that the stream is at.                 *)
LEMMA MdatHere ==
  ASSUME DashInv, PlaceInv, PlayInv, spc = "mdat", NEW n, n = Taken(d)
  PROVE  /\ Part = "media" /\ src.part = "media" /\ MediaComes /\ InBlock /\ d.mdat
         /\ OnDemand <=> d.index # 0
         /\ n \in 1 .. Len(d.queue) /\ n \in Nat
         /\ BlockStart \in Nat /\ BlockStart + MoofSize <= d.off
         /\ d.off + n <= BlockStart + Block
         /\ EntryDone(d) => d.off + n = BlockStart + Block
         /\ ~OnDemand => n = Len(d.queue)
         /\ Inside(Here, at)
<1>1. /\ start \in Starts /\ d \in Streams /\ Receiving /\ d.lastRet = "OK" /\ Loading
      /\ src.part = Part /\ Stands /\ (MediaComes <=> Part = "media")
      /\ d.off \in Nat /\ Len(d.queue) \in Nat /\ src.pos = d.off + Len(d.queue)
      /\ src.pos <= src.end /\ src.end \in Int /\ src.on
  BY AtWork
<1>2. d.mdat /\ Part = "media"
  BY <1>1 DEF DashInv, Adapter, Indexed
<1>3. MediaComes
  BY <1>1, <1>2
<1>4. OnDemand <=> d.index # 0
  <2>1. d.index # 0 => OnDemand
    BY DEF DashInv, Indexed
  <2>2. OnDemand => d.index # 0
    BY <1>1, <1>2 DEF PlaceInv, Arriving
  <2> QED
    BY <2>1, <2>2
<1>5. InBlock
  BY <1>3, <1>4 DEF InBlock
<1>6. d.queue # <<>>
  <2>1. CASE OnDemand
    BY <1>1, <1>2, <1>4, <2>1 DEF PlaceInv, Arriving, InMdat
  <2>2. CASE ~OnDemand
    BY <1>2, <1>3, <2>2 DEF PlayInv, Files
  <2> QED
    BY <2>1, <2>2
<1>7. Len(d.queue) >= 1
  <2>1. d.queue \in Seq(Int)
    BY <1>1, FieldTypes
  <2> QED
    BY <1>6, <2>1
<1>8. Block \in Nat \ {0} /\ MoofSize \in Nat \ {0} /\ MoofSize < Block
  BY Sizes
<1>9. CASE OnDemand
  <2>1. /\ EntryStart \in Nat /\ EntryStop(d) = EntryStart + Block
        /\ EntryStart + MoofSize <= d.off /\ d.off < EntryStop(d)
    BY <1>4, <1>9, MdatPlace
  <2>2. BlockStart = EntryStart
    BY <1>9 DEF BlockStart
  <2>3. n = IF d.off + Len(d.queue) < EntryStop(d) THEN Len(d.queue) ELSE EntryStop(d) - d.off
    <3>1. ~(EntryStop(d) <= d.off)
      BY <1>1, <1>8, <2>1
    <3> QED
      BY <1>4, <1>9, <3>1 DEF Taken
  <2>4. n \in 1 .. Len(d.queue) /\ n \in Nat /\ d.off + n <= EntryStart + Block
    <3> DEFINE l == Len(d.queue)
               o == d.off
               t == EntryStop(d)
               b == EntryStart
    <3>1. /\ n = IF o + l < t THEN l ELSE t - o
          /\ l \in Nat /\ l >= 1 /\ o \in Nat /\ b \in Nat /\ t = b + Block /\ o < t
      BY <1>1, <1>7, <2>1, <2>3
    <3> HIDE DEF l, o, t, b
    <3>2. n \in 1 .. l /\ n \in Nat /\ o + n <= b + Block
      BY <1>8, <3>1
    <3> QED
      BY <3>2 DEF l, o, b
  <2>5. EntryDone(d) => d.off + n = EntryStart + Block
    <3> SUFFICES ASSUME EntryDone(d) PROVE d.off + n = EntryStart + Block
      OBVIOUS
    <3>1. ~(d.off + Len(d.queue) < EntryStop(d))
      <4>1. d.off + Len(d.queue) >= EntryStop(d)
        BY DEF EntryDone
      <4> QED
        BY <1>1, <1>8, <2>1, <4>1
    <3>2. n = EntryStop(d) - d.off
      BY <2>3, <3>1
    <3> QED
      BY <1>1, <1>8, <2>1, <3>2
  <2>6. ~Told
    <3>1. d.off # EntryStart + Block
      BY <1>1, <1>8, <2>1
    <3> QED
      BY <2>2, <3>1 DEF Told
  <2>7. Inside(Here, at)
    BY <1>1, <1>4, <1>9, <2>6 DEF Stands
  <2> QED
    BY <1>1, <1>2, <1>3, <1>4, <1>5, <1>9, <2>1, <2>2, <2>4, <2>5, <2>7
<1>10. CASE ~OnDemand
  <2>1. n = Len(d.queue)
    BY <1>4, <1>10 DEF Taken
  <2>2. /\ BlockStart = 0 /\ BlockStart \in Nat /\ MoofSize <= d.off
        /\ src.end = Block
    BY <1>1, <1>2, <1>3, <1>10 DEF PlayInv, Files, BlockStart
  <2>3. n \in 1 .. Len(d.queue) /\ n \in Nat
    BY <1>1, <1>7, <2>1
  <2>4. d.off + n <= BlockStart + Block /\ d.off < Block /\ BlockStart + MoofSize <= d.off
    BY <1>1, <1>7, <1>8, <2>1, <2>2
  <2>5. ~EntryDone(d)
    BY <1>4, <1>10 DEF EntryDone
  <2>6. ~Told
    <3>1. d.off # 0 + Block
      BY <1>1, <1>8, <2>4
    <3> QED
      BY <2>2, <3>1 DEF Told
  <2>7. Inside(Here, at)
    BY <1>1, <1>10, <2>6 DEF Stands
  <2> QED
    BY <1>1, <1>2, <1>3, <1>4, <1>5, <1>10, <2>1, <2>2, <2>3, <2>4, <2>5, <2>7
<1> QED
  BY <1>9, <1>10

(* The number of the block that the stream is at, and its span.             *)
LEMMA BlockHere ==
  ASSUME DashInv, PlayInv, Playable, InBlock, OnDemand <=> d.index # 0
  PROVE  LET e == IF OnDemand THEN d.entry ELSE 0
         IN /\ e \in Nat /\ e \in BlocksOf(src.rep) /\ BlockStart = MediaBase + e * Block
            /\ MediaBase \in Nat
            /\ Here = Span(src.rep, src.at, e) /\ Here \in Spans /\ Here \in Int \X Int
            /\ \A u \in Nat : BlockStart <= u /\ u < BlockStart + Block => (u - MediaBase) \div Block = e
<1>1. /\ start \in Starts /\ d \in Streams /\ src.on /\ d.lastRet = "OK" /\ Part = "media"
      /\ Gapless
  BY DEF DashInv, TypeOK, InBlock, MediaComes, Receiving, Playable
<1>2. /\ src.rep = d.rep /\ src.at = frag.at /\ src.rep \in Reps /\ dpc = "wait"
      /\ d.rep \in 1 .. start.reps /\ Loading
  BY <1>1, InTransfer DEF DashInv, Asked
<1>3. WellPlaced(Mpd, d.at)
  BY <1>1, <1>2 DEF PlayInv, Positioned
<1>4. Block \in Nat \ {0} /\ First \in Nat
  BY Sizes
<1>5. CASE OnDemand
  <2>1. /\ d.entry \in 0 .. Entries(d.rep) - 1 /\ d.entry \in Nat
        /\ BlockStart = First + d.entry * Block
    BY <1>5, BlockFacts
  <2>2. MediaBase = First
    BY <1>5 DEF MediaBase
  <2>3. d.entry \in BlocksOf(src.rep)
    BY <1>2, <1>5, <2>1, BlockCount
  <2>4. Here = <<Pts(d.rep, d.entry), EntryEnd(d.rep, d.entry)>>
    BY <1>5, HereEntry
  <2>5. Here = Span(src.rep, src.at, d.entry)
    BY <1>2, <1>5, <2>4 DEF Span
  <2>6. Here \in Spans
    <3>1. d.entry \in Int
      BY <2>1
    <3>2. Span(d.rep, src.at, d.entry) \in Spans
      BY <1>1, <1>2, <1>5, <2>1, <3>1, EntrySpans
    <3> QED
      BY <1>2, <2>5, <3>2
  <2>7. Here \in Int \X Int
    BY <1>2, <2>1, <2>4, EntryTimes
  <2>8. \A u \in Nat : BlockStart <= u /\ u < BlockStart + Block => (u - MediaBase) \div Block = d.entry
    BY <2>1, <2>2, EntryUnits
  <2> QED
    BY <1>4, <1>5, <2>1, <2>2, <2>3, <2>5, <2>6, <2>7, <2>8
<1>6. CASE ~OnDemand
  <2>1. BlockStart = 0 /\ MediaBase = 0 /\ 0 * Block = 0
    BY <1>4, <1>6 DEF BlockStart, MediaBase
  <2>2. 0 \in BlocksOf(src.rep)
    BY <1>2, <1>6, BlockCount
  <2>3. Here = <<Timestamp(Mpd, d.at), End(Mpd, d.at)>> /\ Here \in Spans
    BY <1>1, <1>3, <1>6, HereFiles
  <2>4. Here = Span(src.rep, src.at, 0)
    <3>1. src.at = d.at
      BY <1>1, <1>2, <1>6 DEF PlayInv, Files
    <3> QED
      BY <1>6, <2>3, <3>1 DEF Span, End
  <2>5. Here \in Int \X Int
    <3>1. Timestamp(Mpd, d.at) \in Nat /\ End(Mpd, d.at) \in Nat
      BY <1>1, <1>3, MediaEnds
    <3> DEFINE a == Timestamp(Mpd, d.at)
               b == End(Mpd, d.at)
    <3>2. a \in Int /\ b \in Int /\ Here = <<a, b>>
      BY <2>3, <3>1
    <3> HIDE DEF a, b
    <3> QED
      BY <3>2
  <2>6. \A u \in Nat : BlockStart <= u /\ u < BlockStart + Block => (u - MediaBase) \div Block = 0
    BY <1>4, <1>6, <2>1, FileBox
  <2> QED
    BY <1>6, <2>1, <2>2, <2>3, <2>4, <2>5, <2>6
<1> QED
  BY <1>5, <1>6

(* What the push of the units of an mdat tells.                             *)
LEMMA MdatTells ==
  ASSUME DashInv, PlaceInv, PlayInv, Playable, spc = "mdat", start' = start,
         NEW n, n = Taken(d), Push(d, SubSeq(d.queue, 1, n))
  PROVE  /\ d.off + n # BlockStart + Block => heard' = heard /\ at' = at
         /\ d.off + n = BlockStart + Block => heard' = Here /\ at' = Far(Here)
         /\ SeekHonoured' /\ Caught'
         /\ run'.from <= run'.to /\ run'.rep = src.rep /\ run'.at = src.at
         /\ run'.to = d.off + n /\ run'.from <= BlockStart
<1> DEFINE e == IF OnDemand THEN d.entry ELSE 0
<1>1. /\ src.part = "media" /\ InBlock /\ (OnDemand <=> d.index # 0)
      /\ n \in 1 .. Len(d.queue) /\ n \in Nat
      /\ BlockStart \in Nat /\ BlockStart + MoofSize <= d.off
      /\ d.off + n <= BlockStart + Block /\ Inside(Here, at)
  BY MdatHere
<1>2. /\ e \in Nat /\ e \in BlocksOf(src.rep) /\ BlockStart = MediaBase + e * Block
      /\ MediaBase \in Nat
      /\ Here = Span(src.rep, src.at, e) /\ Here \in Int \X Int
      /\ \A u \in Nat : BlockStart <= u /\ u < BlockStart + Block => (u - MediaBase) \div Block = e
  BY <1>1, BlockHere
<1> HIDE DEF e
<1>3. /\ start \in Starts /\ d \in Streams /\ d.off \in Nat /\ Len(d.queue) \in Nat
      /\ \A i \in 1 .. Len(d.queue) : d.queue[i] = d.off + i - 1
      /\ heard \in Int \X Int /\ at \in Int /\ Shown /\ run.from <= run.to /\ Caught
      /\ SeekHonoured
  BY AtWork
<1>4. Block \in Nat \ {0} /\ MoofSize \in Nat \ {0} /\ n >= 1 /\ n <= Len(d.queue) /\ n \in 0 .. Len(d.queue)
  BY <1>1, <1>3, Sizes
<1>5. RunsOn /\ run.from <= BlockStart
  <2>1. BlockStart < d.off /\ d.off <= BlockStart + Block
    BY <1>1, <1>3, <1>4
  <2> QED
    BY <1>1, <2>1 DEF PlayInv, Unbroken, RunsOn
<1>6. RunStart <= BlockStart /\ RunStart = run.from
  BY <1>5 DEF RunStart
<1>7. /\ run'.from <= run'.to /\ run'.rep = src.rep /\ run'.at = src.at
      /\ run'.to = d.off + n /\ run'.from <= BlockStart
  BY <1>3, <1>4, <1>6, PushRuns
<1>8. SeekHonoured'
  <2>1. Honours(Here)
    BY <1>1, <1>2, <1>3, InsideHonours
  <2>2. ASSUME NEW i \in 1 .. n PROVE (d.queue[i] - MediaBase) \div Block = e
    <3> DEFINE u == d.queue[i]
               o == d.off
               b == BlockStart
    <3>1. i \in 1 .. Len(d.queue)
      BY <1>1, <1>4
    <3>2. u = o + i - 1
      BY <1>3, <3>1
    <3>3. o \in Nat /\ b \in Nat /\ b + MoofSize <= o /\ o + n <= b + Block
      BY <1>1, <1>3
    <3> HIDE DEF u, o, b
    <3>4. u \in Nat /\ b <= u /\ u < b + Block
      BY <1>1, <1>4, <3>2, <3>3
    <3> QED
      BY <1>2, <3>4 DEF u, b
  <2>3. ASSUME NEW i \in 1 .. n
        PROVE  Honours(Span(src.rep, src.at, (d.queue[i] - MediaBase) \div Block))
    BY <1>2, <2>1, <2>2
  <2> QED
    BY <1>3, <1>4, <2>3, PushHonours
<1>9. From' = From /\ From \in Int
  BY <1>3, StartType, SizesAssumption, ShowFixed DEF From
<1>10. CASE d.off + n # BlockStart + Block
  <2>1. d.off + n < MediaBase + e * Block + Block
    <3> DEFINE o == d.off
               b == BlockStart
               g == Block
    <3>1. o \in Nat /\ n \in Nat /\ b \in Nat /\ g \in Nat /\ o + n <= b + g /\ o + n # b + g
      BY <1>1, <1>3, <1>4, <1>10
    <3> HIDE DEF o, b, g
    <3>2. o + n < b + g
      BY <3>1
    <3>3. b = MediaBase + e * Block
      BY <1>2 DEF b
    <3> QED
      BY <3>2, <3>3 DEF o, g
  <2>2. MediaBase + e * Block <= d.off
    BY <1>1, <1>2, <1>3, <1>4
  <2>3. ASSUME NEW k \in BlocksOf(src.rep), k \in Nat
        PROVE  ~(d.off < MediaBase + (k + 1) * Block /\ MediaBase + (k + 1) * Block <= d.off + n)
    BY <1>1, <1>2, <1>3, <2>1, <2>2, <2>3, NoBoundary
  <2>4. Completed(n) = {}
    BY <1>1, <1>3, <2>3, CompletedEmpty
  <2>5. heard' = heard /\ at' = at
    BY <1>3, <1>4, <2>4, PushSilent
  <2>6. Caught'
    BY <1>3, <1>9, <2>5 DEF Caught
  <2> QED
    BY <1>7, <1>8, <1>10, <2>5, <2>6
<1>11. CASE d.off + n = BlockStart + Block
  <2>1. /\ MediaBase + e * Block < d.off /\ d.off < MediaBase + e * Block + Block
        /\ d.off + n = MediaBase + e * Block + Block
    BY <1>1, <1>2, <1>3, <1>4, <1>11
  <2>2. Completed(n) = {Here}
    BY <1>1, <1>2, <1>3, <1>6, <2>1, CompletedOne
  <2>3. heard' = Here /\ at' = Far(Here)
    BY <1>1, <1>2, <1>3, <2>2, PushTells
  <2>4. Caught'
    <3> DEFINE h == Here
    <3>1. h[1] \in Int /\ h[2] \in Int /\ start.forward \in BOOLEAN
      BY <1>2, <1>3, StartType
    <3>2. heard' = h /\ at' = IF start.forward THEN h[2] ELSE h[1]
      BY <2>3 DEF Far
    <3>3. IF start.forward THEN h[1] <= at /\ at < h[2] ELSE h[1] < at /\ at <= h[2]
      BY <1>1 DEF Inside
    <3>4. IF start.forward THEN From <= at ELSE at <= From
      BY <1>3 DEF Caught
    <3> HIDE DEF h
    <3>5. IF start.forward THEN heard'[2] <= at' /\ From <= at' ELSE at' <= heard'[1] /\ at' <= From
      BY <1>3, <1>9, <3>1, <3>2, <3>3, <3>4
    <3> QED
      BY <1>9, <3>5 DEF Caught
  <2> QED
    BY <1>7, <1>8, <1>11, <2>3, <2>4
<1> QED
  BY <1>10, <1>11


LEMMA LessProduct == \A a, b \in Int : (a - 1) * b = a * b - b
  OBVIOUS

(* S pushes what is there of the mdat.                                      *)
LEMMA PlayPushMdat ==
  ASSUME DashInv, PlaceInv, PlayInv, Playable, spc = "mdat", PushMdat,
         UNCHANGED <<start, todo, frag, retried, dpc, starting, status, faults>>
  PROVE  /\ PlayInv'
         /\ \/ heard' = heard /\ at' = at
            \/ Here \in Spans /\ Inside(Here, at) /\ heard' = Here /\ at' = Far(Here)
<1>0. /\ start \in Starts /\ d \in Streams /\ start' = start /\ spc # "idle" /\ frag' = frag
      /\ todo' = todo /\ dpc' = dpc /\ finished \in BOOLEAN
  BY DEF DashInv, TypeOK
<1>1. /\ src.on /\ Receiving /\ d.lastRet = "OK" /\ dpc = "wait" /\ Loading /\ src.rep = d.rep
      /\ HasFragment(Mpd, d.at) /\ WellPlaced(Mpd, d.at) /\ d.off \in Nat /\ Len(d.queue) \in Nat
      /\ heard \in Int \X Int /\ at \in Int
  BY <1>0, AtWork
<1>2. PICK n \in 0 .. Len(d.queue), r \in Choices, y \in Streams :
        /\ n = Taken(d)
        /\ Push(d, SubSeq(d.queue, 1, n))
        /\ d' = IF EntryDone(d) THEN Advance(y, r) ELSE y
        /\ y.off = d.off + n /\ y.queue = SubSeq(d.queue, n + 1, Len(d.queue))
        /\ y.rep = d.rep /\ y.at = d.at /\ y.index = d.index /\ y.entry = d.entry
        /\ y.sidxPos = d.sidxPos /\ y.pending = d.pending /\ y.mdat = d.mdat
        /\ y.section = d.section /\ y.base = d.base /\ y.needHeader = d.needHeader
        /\ y.lastRet = "OK" /\ y.allow = d.allow
  BY PushMdatFacts
<1> DEFINE ret == IF EntryDone(d) THEN d'.lastRet ELSE "OK"
<1>3. /\ spc' = IF EntryDone(d) /\ ret = "OK" /\ d'.queue # <<>> THEN "parse" ELSE "idle"
      /\ finished' = (finished \/ ret # "OK")
      /\ src' = IF ret = "OK" THEN src ELSE [src EXCEPT !.on = FALSE]
  BY DEF PushMdat, StopSource
<1>4. /\ Part = "media" /\ src.part = "media" /\ MediaComes /\ InBlock /\ d.mdat
      /\ (OnDemand <=> d.index # 0) /\ n \in 1 .. Len(d.queue) /\ n \in Nat
      /\ BlockStart \in Nat /\ BlockStart + MoofSize <= d.off
      /\ d.off + n <= BlockStart + Block
      /\ (EntryDone(d) => d.off + n = BlockStart + Block)
      /\ (~OnDemand => n = Len(d.queue))
      /\ Inside(Here, at)
  BY <1>2, MdatHere
<1>5. Here \in Spans /\ Here \in Int \X Int
  BY <1>4, BlockHere
<1>6. /\ d.off + n # BlockStart + Block => heard' = heard /\ at' = at
      /\ d.off + n = BlockStart + Block => heard' = Here /\ at' = Far(Here)
      /\ SeekHonoured' /\ Caught'
      /\ run'.from <= run'.to /\ run'.rep = src.rep /\ run'.at = src.at
      /\ run'.to = d.off + n /\ run'.from <= BlockStart
  BY <1>0, <1>2, MdatTells
<1>7. \/ heard' = heard /\ at' = at
      \/ Here \in Spans /\ Inside(Here, at) /\ heard' = Here /\ at' = Far(Here)
  BY <1>4, <1>5, <1>6
<1>8. /\ OnDemand' = OnDemand /\ Mpd' = Mpd /\ Part' = "media" /\ Block' = Block
      /\ First' = First /\ dpc' = "wait"
  BY <1>0, <1>1, <1>4, StartFixed DEF Part, Block, First
<1>9. ASSUME ~EntryDone(d) PROVE PlayInv'
  <2>1. /\ d' = y /\ src' = src /\ spc' = "idle" /\ finished' = finished
    BY <1>0, <1>2, <1>3, <1>9
  <2>2. /\ d'.rep = d.rep /\ d'.at = d.at /\ d'.entry = d.entry /\ d'.index = d.index
        /\ d'.mdat /\ d'.off = d.off + n /\ d'.lastRet = "OK"
    BY <1>2, <1>4, <2>1
  <2>3. Here' = Here /\ Far(Here)' = Far(Here)
    <3>1. Here' = Here
      BY <1>0, <2>2, HereSame
    <3> QED
      BY <1>0, <3>1 DEF Far
  <2>4. BlockStart' = BlockStart
    BY <1>8, <2>2 DEF BlockStart, EntryStart
  <2>5. MediaComes' /\ InBlock' /\ Receiving'
    BY <1>1, <1>4, <1>8, <2>1, <2>2 DEF MediaComes, InBlock, Receiving
  <2>6. Told' <=> d.off + n = BlockStart + Block
    BY <1>8, <2>2, <2>4, <2>5 DEF Told
  <2>7. Stands'
    <3>1. CASE d.off + n = BlockStart + Block
      <4>1. at' = Far(Here)'
        BY <1>6, <2>3, <3>1
      <4> QED
        BY <1>4, <1>8, <2>2, <2>6, <3>1, <4>1 DEF Stands
    <3>2. CASE d.off + n # BlockStart + Block
      <4>1. Inside(Here, at)'
        BY <1>0, <1>4, <1>6, <2>3, <3>2 DEF Inside
      <4> QED
        BY <1>4, <1>8, <2>2, <2>6, <3>2, <4>1 DEF Stands
    <3> QED
      BY <3>1, <3>2
  <2>8. Positioned' /\ EndSaid'
    BY <1>1, <1>8, <2>2, <2>7 DEF Positioned, EndSaid
  <2>9. Unbroken'
    BY <1>6, <2>1, <2>2, <2>4 DEF Unbroken
  <2>10. Files'
    <3> SUFFICES ASSUME ~OnDemand PROVE Files'
      BY <1>8 DEF Files
    <3>1. /\ frag.at = d.at /\ frag.from = 0 /\ frag.to = Block
          /\ src.end = Block /\ ~finished /\ BlockStart = 0
      BY <1>1, <1>4 DEF PlayInv, Files, BlockStart
    <3>2. MoofSize <= d'.off /\ d'.off <= Block
      <4>1. d.off \in Nat /\ n \in Nat /\ MoofSize \in Nat /\ Block \in Nat
        BY <1>1, <1>4, Sizes
      <4>2. MoofSize <= d.off /\ d.off + n <= Block
        BY <1>4, <3>1, <4>1
      <4> QED
        BY <2>2, <4>1, <4>2
    <3>3. d'.queue = <<>>
      <4>1. d.queue \in Seq(Int) /\ n = Len(d.queue)
        BY <1>0, <1>4, FieldTypes
      <4> DEFINE w == SubSeq(d.queue, n + 1, Len(d.queue))
      <4>2. w \in Seq(Int) /\ Len(w) = Len(d.queue) - n
        BY <1>2, <4>1, RestLength
      <4>3. d'.queue = w
        BY <1>2, <2>1
      <4> HIDE DEF w
      <4>4. Len(w) = 0
        BY <1>1, <4>1, <4>2
      <4> QED
        BY <4>2, <4>3, <4>4
    <3> QED
      BY <1>0, <1>8, <2>1, <2>2, <2>5, <3>1, <3>2, <3>3 DEF Files
  <2>11. IndexRead'
    BY <1>4, <1>8, <2>2 DEF IndexRead
  <2> QED
    BY <1>6, <2>8, <2>9, <2>10, <2>11 DEF PlayInv
<1>10. ASSUME EntryDone(d) PROVE PlayInv'
  <2> DEFINE e == d.entry
             f == NextEntry(d)
  <2>1. /\ OnDemand /\ d.index # 0 /\ HasNextSubfragment(d) /\ d' = Advance(y, r) /\ ret = d'.lastRet
        /\ heard' = Here /\ at' = Far(Here) /\ d.off + n = BlockStart + Block
    BY <1>2, <1>4, <1>6, <1>10 DEF EntryDone
  <2>2. /\ d.index = d.rep /\ d.pending = Unknown /\ d.rep \in Reps /\ d.rep \in 1 .. start.reps
        /\ d.entry \in 0 .. Entries(d.rep) - 1
    BY <1>0, <2>1, RepsFacts DEF DashInv, Indexed, Asked, TypeOK
  <2>3. r \in Reps /\ r \in 1 .. start.reps
    BY <1>0, <2>2, ChoicesFacts
  <2>4. HasNextSubfragment(y) /\ InIndex(y) /\ y.index # 0
    BY <1>2, <2>1, <2>2 DEF HasNextSubfragment, InIndex
  <2>5. /\ CanMove(y) /\ d'.pending = y.pending
        /\ \/ d'.lastRet = "OK" /\ d'.rep = y.rep /\ EntryMoved(d', y)
           \/ \E z \in Streams : EntryMoved(z, y) /\ y.rep # r /\ SwitchedTo(d', z, r)
    BY <1>0, <1>2, <2>1, <2>3, <2>4, AdvanceOutcome
  <2> HIDE DEF ret
  <2>6. NextEntry(y) = f /\ f \in 0 .. Entries(d.rep) - 1 /\ f \in Int
    BY <1>2, <2>2, <2>5 DEF CanMove, NextEntry
  <2>7. Here = <<Pts(d.rep, e), EntryEnd(d.rep, e)>>
    BY <2>1, HereEntry
  (* The next entry begins where this one has ended. *)
  <2>8. IF start.forward THEN Pts(d.rep, f) = at' /\ at' < EntryEnd(d.rep, f)
        ELSE Pts(d.rep, f) < at' /\ at' = EntryEnd(d.rep, f)
    <3>1. /\ Pts(d.rep, f) < EntryEnd(d.rep, f) /\ EntryEnd(d.rep, f) = Pts(d.rep, f + 1)
          /\ EntryEnd(d.rep, e) = Pts(d.rep, e + 1)
      BY <2>2, <2>6, EntryTimes
    <3>2. e \in Int
      BY <2>2
    <3>3. CASE start.forward
      <4>1. f = e + 1 /\ at' = EntryEnd(d.rep, e)
        BY <2>1, <2>7, <3>3 DEF NextEntry, Far
      <4> QED
        BY <3>1, <3>3, <4>1
    <3>4. CASE ~start.forward
      <4>1. f = e - 1 /\ at' = Pts(d.rep, e)
        BY <2>1, <2>7, <3>4 DEF NextEntry, Far
      <4>2. f + 1 = e
        BY <3>2, <4>1
      <4> QED
        BY <3>1, <3>4, <4>1, <4>2
    <3> QED
      BY <3>3, <3>4
  <2> HIDE DEF e, f
  <2>9. CASE d'.lastRet = "OK" /\ d'.rep = y.rep /\ EntryMoved(d', y)
    <3>1. /\ d'.entry = f /\ ~d'.mdat /\ d'.index = d.index /\ d'.at = d.at /\ d'.rep = d.rep
          /\ d'.off = d.off + n /\ d'.lastRet = "OK"
      BY <1>2, <2>6, <2>9 DEF EntryMoved
    <3>2. src' = src
      BY <1>3, <2>1, <3>1
    <3>3. ~Told' /\ Here' = <<Pts(d.rep, f), EntryEnd(d.rep, f)>>
      BY <1>8, <2>1, <3>1 DEF Told, Here, Span
    <3>4. Stands'
      <4>1. Pts(d.rep, f) \in Int /\ at' \in Int /\ EntryEnd(d.rep, f) \in Int
        BY <2>2, <2>6, <2>8, EntryTimes, StartType
      <4>2. Inside(Here, at)'
        BY <1>0, <2>8, <3>3, <4>1 DEF Inside
      <4> QED
        BY <2>1, <3>1, <3>3, <4>2 DEF Stands
    <3>5. Positioned' /\ EndSaid'
      BY <1>1, <1>8, <3>1, <3>4 DEF Positioned, EndSaid
    <3>6. ~(BlockStart' < d'.off /\ d'.off <= BlockStart' + Block)
      <4>1. /\ BlockStart = First + d.entry * Block /\ d.entry \in Nat
            /\ Block \in Nat \ {0} /\ First \in Nat
        BY <2>1, BlockFacts
      <4>2. BlockStart' = First + f * Block
        BY <1>8, <2>1, <3>1 DEF BlockStart, EntryStart
      <4>3. CASE start.forward
        <5>1. f = d.entry + 1
          BY <4>3 DEF f, NextEntry
        <5>2. f * Block = d.entry * Block + Block /\ d.entry * Block \in Nat
          <6>1. (d.entry + 1) * Block = Block * d.entry + Block /\ Block * d.entry = d.entry * Block
            <7>1. d.entry \in Int /\ Block \in Int
              BY <4>1
            <7> QED
              BY <7>1, NextProduct
          <6> QED
            BY <4>1, <5>1, <6>1
        <5>3. d'.off = BlockStart'
          <6>1. d'.off = First + d.entry * Block + Block
            BY <2>1, <3>1, <4>1
          <6> QED
            BY <4>1, <4>2, <5>2, <6>1
        <5> QED
          BY <4>1, <4>2, <5>2, <5>3
      <4>4. CASE ~start.forward
        <5>1. f = d.entry - 1
          BY <4>4 DEF f, NextEntry
        <5>2. f * Block = d.entry * Block - Block /\ d.entry * Block \in Nat
          <6>1. (d.entry - 1) * Block = d.entry * Block - Block
            <7>1. d.entry \in Int /\ Block \in Int
              BY <4>1
            <7> QED
              BY <7>1, LessProduct
          <6> QED
            BY <4>1, <5>1, <6>1
        <5>3. d'.off = First + d.entry * Block + Block /\ BlockStart' + Block = First + d.entry * Block
          <6>1. d'.off = First + d.entry * Block + Block
            BY <2>1, <3>1, <4>1
          <6>2. First + f * Block + Block = First + d.entry * Block
            BY <4>1, <5>2
          <6> QED
            BY <4>2, <6>1, <6>2
        <5> DEFINE b == d.entry * Block
        <5>4. b \in Nat /\ d'.off = First + b + Block /\ BlockStart' + Block = First + b
          BY <5>2, <5>3
        <5> HIDE DEF b
        <5> QED
          BY <4>1, <5>4
      <4> QED
        BY <4>3, <4>4
    <3>7. Unbroken'
      BY <1>6, <1>8, <3>6 DEF Unbroken
    <3>8. Files' /\ IndexRead'
      BY <1>8, <2>1, <3>1 DEF Files, IndexRead
    <3> QED
      BY <1>6, <3>5, <3>7, <3>8 DEF PlayInv
  <2>10. ASSUME NEW z \in Streams, EntryMoved(z, y), y.rep # r, SwitchedTo(d', z, r)
         PROVE  PlayInv'
    <3>1. z.entry = f /\ z.index = d.rep /\ z.at = d.at /\ z.pending = Unknown
      BY <1>2, <2>2, <2>6, <2>10 DEF EntryMoved
    <3>2. /\ d'.rep = r /\ d'.index = 0 /\ d'.at = d.at /\ d'.pending = Unknown
          /\ d'.lastRet = "SWITCH" /\ d'.sidxPos = Pts(d.rep, f) /\ d'.sidxPos # Unknown
      <4>1. Pts(d.rep, f) # Unknown /\ d.rep # 0
        BY <2>1, <2>2, <2>6, EntryInPeriod
      <4> QED
        BY <2>1, <2>10, <3>1, <4>1 DEF SwitchedTo
    <3>3. src'.on = FALSE
      BY <1>3, <2>1, <3>2 DEF DashInv, TypeOK
    <3>4. ~MediaComes' /\ ~InBlock'
      BY <3>3 DEF MediaComes, InBlock, Receiving
    <3>5. Stands'
      <4>1. CASE start.forward
        BY <1>0, <1>8, <2>1, <2>8, <3>2, <4>1 DEF Stands, Sought
      <4>2. CASE ~start.forward
        <5>1. Cuts[r] = Cuts[1] /\ Cuts[d.rep] = Cuts[1]
          BY <1>0, <2>1, <2>2, <2>3, <4>2 DEF Playable, SameCuts, OnDemand
        <5>2. /\ Entries(r) = Entries(d.rep) /\ Pts(r, f) = Pts(d.rep, f)
              /\ EntryEnd(r, f) = EntryEnd(d.rep, f)
          BY <5>1 DEF Entries, Pts, EntryEnd
        <5>3. at' <= EntryEnd(r, f)
          <6>1. EntryEnd(d.rep, f) \in Int
            BY <2>2, <2>6, EntryTimes
          <6> QED
            BY <2>8, <4>2, <5>2, <6>1
        <5>4. f \in 0 .. Entries(r) - 1 /\ Pts(r, f) < at' /\ d'.sidxPos = Pts(r, f)
          BY <2>6, <2>8, <3>2, <4>2, <5>2
        <5>5. Sought(d.rep, d.pending, d.sidxPos, at)'
          BY <1>0, <3>2, <4>2, <5>3, <5>4 DEF Sought
        <5> QED
          BY <1>8, <2>1, <3>2, <5>5 DEF Stands
      <4> QED
        BY <4>1, <4>2
    <3>6. Positioned' /\ EndSaid'
      BY <1>1, <1>8, <3>2, <3>5 DEF Positioned, EndSaid
    <3>7. Unbroken' /\ Files' /\ IndexRead'
      BY <1>6, <1>8, <2>1, <3>4 DEF Unbroken, Files, IndexRead
    <3> QED
      BY <1>6, <3>6, <3>7 DEF PlayInv
  <2> QED
    BY <2>5, <2>9, <2>10
<1> QED
  BY <1>7, <1>9, <1>10

LEMMA PlayMdat ==
  ASSUME DashInv, PlaceInv, PlayInv, Playable, Mdat
  PROVE  /\ PlayInv'
         /\ \/ heard' = heard /\ at' = at
            \/ Here \in Spans /\ Inside(Here, at) /\ heard' = Here /\ at' = Far(Here)
<1>1. spc = "mdat" /\ UNCHANGED <<start, todo, frag, retried, dpc, starting, status, faults>>
  BY DEF Mdat, requestVars
<1>2. ~InvalidSidx(d)
  BY <1>1, MdatPlace DEF InvalidSidx
<1>3. PushMdat
  BY <1>2 DEF Mdat
<1> QED
  BY <1>1, <1>3, PlayPushMdat

-----------------------------------------------------------------------------
(* The end of a file.                                                       *)

(* The source ends a block that is to be followed by another fragment when  *)
(* all of it has been pushed, and there is no other entry in the index.     *)
LEMMA EosTold ==
  ASSUME DashInv, PlaceInv, PlayInv, SourceEos, ~StaysInPlace(d, Part), d.lastRet = "OK"
  PROVE  /\ Part = "media" /\ WellPlaced(Mpd, d.at) /\ Told /\ at = Far(Here)
         /\ OnDemand => d.index # 0 /\ ~HasNextSubfragment(d)
<1>1. /\ start \in Starts /\ d \in Streams /\ src.on /\ spc = "idle" /\ src.pos = src.end
      /\ dpc = "wait" /\ start.forward \in BOOLEAN
  BY StartType DEF DashInv, TypeOK, Asked, SourceEos
<1>2. /\ Loading /\ src.rep = d.rep /\ src.rep = frag.rep /\ d.rep \in Reps /\ src.part = Part
      /\ src.from \in Nat /\ src.pos \in Int /\ src.end \in Int
  BY <1>1, InTransfer
<1>3. Part = "media" /\ src.from = frag.from
  BY <1>1, <1>2 DEF StaysInPlace, DashInv, Transfer
<1>4. HasFragment(Mpd, d.at) /\ WellPlaced(Mpd, d.at) /\ Stands
  BY <1>1 DEF PlayInv, Positioned
<1>5. /\ Block \in Nat \ {0} /\ MoofSize \in Nat \ {0} /\ MoofSize < Block /\ First \in Nat \ {0}
      /\ Entries(d.rep) \in Nat \ {0} /\ Entries(d.rep) * Block \in Nat \ {0}
  <2>1. Block \in Nat \ {0} /\ Entries(d.rep) \in Nat \ {0}
    BY <1>2, Sizes, EntryFacts
  <2> QED
    BY <2>1, Sizes
<1>6. d.index # 0 => d.index = d.rep /\ d.pending = Unknown /\ d.entry \in 0 .. Entries(d.rep) - 1
  BY DEF DashInv, TypeOK, Indexed
<1>7. ~OnDemand => src.end = Block /\ src.from = 0
  BY <1>1, <1>2, <1>3 DEF PlayInv, Files
<1>8. PartEnd("media", d.rep) = IF OnDemand THEN First + Entries(d.rep) * Block ELSE Block
  BY <1>2, PartEndFacts
<1>9. Receiving
  <2>1. SUFFICES ASSUME src.pos = src.from PROVE FALSE
    BY <1>1 DEF Receiving
  <2>2. CASE ~OnDemand
    BY <1>1, <1>5, <1>7, <2>1, <2>2
  <2>3. CASE OnDemand
    <3>1. src.end = frag.to /\ Untouched
      BY <1>1, <1>3, <2>1, <2>3 DEF PlaceInv, Coming, Untouched, Waiting
    <3>2. CASE WholeFile
      <4> DEFINE c == Entries(d.rep) * Block
      <4>1. c \in Nat \ {0} /\ PartEnd("media", d.rep) = First + c
        BY <1>5, <1>8, <2>3
      <4>2. src.from = 0 /\ src.end = PartEnd("media", d.rep)
        BY <1>2, <1>3, <3>1, <3>2 DEF WholeFile
      <4> HIDE DEF c
      <4>3. First \in Nat \ {0}
        BY <1>5
      <4>4. First + c = 0
        BY <1>1, <2>1, <4>1, <4>2
      <4> QED
        BY <4>1, <4>3, <4>4
    <3>3. CASE ~WholeFile
      <4>1. /\ d.index # 0 /\ frag.from = EntryStart
            /\ frag.to = IF start.forward THEN PartEnd("media", frag.rep) ELSE EntryStart + Block
        BY <1>2, <1>3, <2>3, <3>1, <3>3 DEF PlaceInv, Wanted
      <4>2. EntryStart = First + d.entry * Block /\ d.entry \in Nat /\ d.entry * Block \in Nat
        BY <1>5, <1>6, <4>1 DEF EntryStart
      <4>3. d.entry * Block < Entries(d.rep) * Block
        <5> DEFINE rest == Entries(d.rep) - d.entry
        <5>1. rest \in Nat \ {0} /\ Entries(d.rep) = d.entry + rest
          BY <1>5, <1>6, <4>1
        <5> HIDE DEF rest
        <5>2. (d.entry + rest) * Block = d.entry * Block + rest * Block /\ rest * Block \in Nat \ {0}
          BY <1>5, <4>2, <5>1
        <5> QED
          BY <1>5, <4>2, <5>1, <5>2
      <4> DEFINE b == d.entry * Block
                 c == Entries(d.rep) * Block
      <4>4. /\ b \in Nat /\ c \in Nat /\ b < c /\ src.from = First + b
            /\ src.end = IF start.forward THEN First + c ELSE First + b + Block
        BY <1>2, <1>3, <1>5, <1>8, <2>3, <3>1, <4>1, <4>2, <4>3
      <4> HIDE DEF b, c
      <4>5. src.end = First + b
        BY <1>1, <2>1, <4>4
      <4>6. CASE start.forward
        BY <1>5, <4>4, <4>5, <4>6
      <4>7. CASE ~start.forward
        BY <1>5, <4>4, <4>5, <4>7
      <4> QED
        BY <4>6, <4>7
    <3> QED
      BY <3>2, <3>3
  <2> QED
    BY <2>2, <2>3
<1>10. /\ MediaComes /\ src.pos = d.off + Len(d.queue) /\ d.off \in Int
       /\ d.queue \in Seq(Int) /\ (d.queue = <<>> => src.pos = d.off)
  <2>1. src.pos = d.off + Len(d.queue) /\ d.off \in Int /\ d.queue \in Seq(Int)
    BY <1>1, <1>9, FieldTypes DEF DashInv, Adapter
  <2>2. d.queue = <<>> => Len(d.queue) = 0
    BY <2>1
  <2> QED
    BY <1>3, <1>9, <2>1, <2>2 DEF MediaComes
<1>11. CASE OnDemand
  <2>1. d.index # 0
    <3> SUFFICES ASSUME d.index = 0 PROVE FALSE
      OBVIOUS
    <3>1. src.pos < First
      BY <1>1, <1>10, <1>11 DEF PlayInv, IndexRead
    <3>2. WholeFile
      BY <1>3, <1>9, <1>11 DEF PlaceInv, Arriving
    <3>3. src.end = frag.to
      BY <1>1, <1>3, <1>11 DEF PlaceInv, Coming
    <3>4. src.pos = First + Entries(d.rep) * Block
      BY <1>1, <1>2, <1>8, <1>11, <3>2, <3>3 DEF WholeFile
    <3> DEFINE c == Entries(d.rep) * Block
    <3>5. c \in Nat /\ src.pos = First + c
      BY <1>5, <3>4
    <3> HIDE DEF c
    <3> QED
      BY <1>5, <3>1, <3>5
  <2>2. d.pending = Unknown /\ d.index = d.rep /\ d.entry \in Nat /\ d.entry < Entries(d.rep)
    BY <1>5, <1>6, <2>1
  <2>3. d.mdat /\ ~HasNextSubfragment(d)
    BY <1>1, <1>11, <2>1, <2>2, FieldTypes DEF StaysInPlace
  <2>4. /\ InMdat /\ (start.forward => src.end = PartEnd("media", d.rep))
    BY <1>3, <1>9, <1>11, <2>1, <2>3 DEF PlaceInv, Arriving
  <2>5. d.queue = <<>> /\ src.pos = d.off
    BY <1>1, <1>10, <2>4 DEF InMdat
  <2>6. d.off = EntryStart + Block
    <3>1. CASE start.forward
      <4>1. Entries(d.rep) = d.entry + 1
        BY <1>5, <2>1, <2>2, <2>3, <3>1 DEF HasNextSubfragment
      <4>2. (d.entry + 1) * Block = Block * d.entry + Block /\ Block * d.entry = d.entry * Block
        BY <1>5, <2>2, NextProduct
      <4>3. d.off = First + Entries(d.rep) * Block
        BY <1>1, <1>8, <1>11, <2>4, <2>5, <3>1
      <4>4. First \in Int /\ Block \in Int /\ d.entry * Block \in Int
        BY <1>5, <2>2
      <4> QED
        BY <4>1, <4>2, <4>3, <4>4 DEF EntryStart
    <3>2. CASE ~start.forward
      BY <1>1, <2>4, <2>5, <3>2 DEF InMdat
    <3> QED
      BY <3>1, <3>2
  <2>7. Told
    BY <1>10, <1>11, <2>1, <2>3, <2>6 DEF Told, InBlock, BlockStart
  <2> QED
    BY <1>3, <1>4, <1>11, <2>1, <2>3, <2>7 DEF Stands
<1>12. CASE ~OnDemand
  <2>1. d.mdat
    <3> SUFFICES ASSUME ~d.mdat PROVE FALSE
      BY <1>1, FieldTypes
    <3>1. \/ d.off = 0 /\ src.pos < MoofSize
          \/ d.off = MoofSize /\ d.queue = <<>>
      BY <1>1, <1>10, <1>12 DEF PlayInv, Files
    <3> QED
      BY <1>1, <1>5, <1>7, <1>10, <1>12, <3>1
  <2>2. d.queue = <<>>
    BY <1>1, <1>10, <1>12, <2>1 DEF PlayInv, Files
  <2>3. d.off = 0 + Block
    BY <1>1, <1>5, <1>7, <1>10, <1>12, <2>2
  <2>4. Told
    BY <1>10, <1>12, <2>1, <2>3 DEF Told, InBlock, BlockStart
  <2> QED
    BY <1>3, <1>4, <1>12, <2>4 DEF Stands
<1> QED
  BY <1>11, <1>12

(* The stream stays where it is, or the end of the source is known already. *)
LEMMA PlayEosStays ==
  ASSUME DashInv, PlaceInv, PlayInv, SourceEos, StaysInPlace(d, Part) \/ d.lastRet # "OK"
  PROVE  PlayInv'
<1>0. /\ start \in Starts /\ d \in Streams /\ start' = start /\ src.on /\ spc = "idle"
      /\ src.pos = src.end /\ dpc = "wait" /\ dpc' = "wait" /\ todo' = todo /\ frag' = frag
      /\ src' = [src EXCEPT !.on = FALSE] /\ UNCHANGED shownVars
  BY DEF DashInv, TypeOK, Asked, SourceEos, StopSource, requestVars
<1>1. src'.on = FALSE /\ OnDemand' = OnDemand /\ Part' = Part /\ Loading /\ src.part = Part /\ Block' = Block
  BY <1>0, StartFixed DEF DashInv, TypeOK, Part, Loading, Asked, Block
<1>2. d' = d
  <2>1. PICK r \in Choices : d' = FragmentFinished(d, Part, r)
    BY <1>1 DEF SourceEos
  <2> QED
    BY <2>1 DEF FragmentFinished, Advance
<1>3. Receiving => d.lastRet = "OK"
  BY DEF DashInv, Transfer, Receiving
<1>4. d.mdat /\ Receiving => FALSE
  <2> SUFFICES ASSUME d.mdat, Receiving PROVE FALSE
    OBVIOUS
  <2>1. CASE OnDemand
    <3>1. Part = "media" /\ d.index # 0 /\ d.pending = Unknown /\ ~HasNextSubfragment(d)
      BY <1>0, <2>1, MdatAtEnd
    <3> QED
      BY <1>3, <3>1 DEF StaysInPlace
  <2>2. CASE ~OnDemand
    <3>1. Part = "media"
      BY <1>1 DEF DashInv, Indexed
    <3> QED
      BY <1>3, <2>2, <3>1 DEF StaysInPlace
  <2> QED
    BY <2>1, <2>2
<1>5. ~Told /\ ~MediaComes'
  BY <1>1, <1>4 DEF Told, InBlock, MediaComes, Receiving
<1>6. Untouched' => Untouched
  BY <1>0, <1>1, <1>2 DEF Untouched, Waiting
<1>7. EndSaid'
  <2>1. Show' = Show /\ at' = at
    BY <1>0, ShowFixed DEF shownVars
  <2> QED
    BY <1>0, <1>2, <2>1 DEF PlayInv, EndSaid
<1>8. Files'
  BY <1>0, <1>1, <1>2, <1>4, <1>5, <1>6 DEF PlayInv, Files, Loading
<1> QED
  BY <1>0, <1>2, <1>5, <1>7, <1>8, PlayKept

(* The fragments end, or the next one begins where this one ends.           *)
LEMMA NextMeets ==
  ASSUME start \in Starts, Gapless, WellPlaced(Mpd, d.at), at = Far(Here),
         ~OnDemand \/ d.entry \in 0 .. Entries(d.rep) - 1, d.rep \in Reps,
         OnDemand => d.index = d.rep /\ ~HasNextSubfragment(d) /\ d.index # 0,
         NEW a, a = AdvanceSegment(Mpd, d.at, start.forward)
  PROVE  /\ a.ret \in {"OK", "EOS"}
         /\ a.ret = "EOS" \/ ~HasNextSegment(Mpd, d.at, start.forward) => at = Show.to
         /\ OnDemand => at = Show.to /\ a.ret = "EOS"
         /\ a.ret = "OK" =>
              /\ WellPlaced(Mpd, a.at)
              /\ Inside(<<Timestamp(Mpd, a.at), End(Mpd, a.at)>>, at)
<1>1. IsMpd(Mpd) /\ Contiguous(Mpd) /\ start.forward \in BOOLEAN /\ Count(Mpd) \in Nat \ {0}
  BY MpdRight, StartType
<1>2. d.at \in Positions /\ d.at.index \in Int /\ d.at.index >= 0
  BY DEF WellPlaced, Positions
<1>3. a.ret \in {"OK", "EOS"} /\ a.at \in Positions
  BY <1>1, <1>2, AdvanceType
<1>4. /\ Timestamp(Mpd, d.at) \in Nat /\ End(Mpd, d.at) \in Nat
      /\ ~HasNextSegment(Mpd, d.at, TRUE) => End(Mpd, d.at) = MediaEnd
      /\ d.at.index = 0 /\ (Template(Mpd) \/ d.at.repeat = 0) => Timestamp(Mpd, d.at) = 0
  BY MediaEnds
<1>5. Show.to = IF start.forward THEN MediaEnd ELSE 0
  BY ShowFacts
<1>6. CASE ~OnDemand
  <2>1. at = IF start.forward THEN End(Mpd, d.at) ELSE Timestamp(Mpd, d.at)
    <3>1. Here = <<Timestamp(Mpd, d.at), End(Mpd, d.at)>>
      BY <1>6, HereFiles
    <3> QED
      BY <3>1 DEF Far
  <2>2. CASE start.forward
    <3>1. a = AdvanceForward(Mpd, d.at)
      BY <2>2 DEF AdvanceSegment
    <3>2. /\ a.ret = "OK" <=> HasNextSegment(Mpd, d.at, TRUE)
          /\ a.ret = "OK" => WellPlaced(Mpd, a.at) /\ Timestamp(Mpd, a.at) = End(Mpd, d.at)
      BY <1>1, <3>1, ForwardMeets
    <3>3. a.ret = "EOS" \/ ~HasNextSegment(Mpd, d.at, start.forward) => at = Show.to
      BY <1>1, <1>4, <1>5, <2>1, <2>2, <3>2
    <3>4. ASSUME a.ret = "OK" PROVE Inside(<<Timestamp(Mpd, a.at), End(Mpd, a.at)>>, at)
      <4>1. /\ WellPlaced(Mpd, a.at) /\ Timestamp(Mpd, a.at) = End(Mpd, d.at)
        BY <3>2, <3>4
      <4>2. Timestamp(Mpd, a.at) < End(Mpd, a.at) /\ End(Mpd, a.at) \in Nat
        BY <4>1, MediaEnds
      <4>3. Timestamp(Mpd, a.at) <= at /\ at < End(Mpd, a.at)
        <5> DEFINE u == Timestamp(Mpd, a.at)
                   v == End(Mpd, a.at)
                   w == End(Mpd, d.at)
        <5>1. u = w /\ u < v /\ v \in Nat /\ w \in Nat
          BY <1>4, <4>1, <4>2
        <5>2. at = w
          BY <2>1, <2>2
        <5> HIDE DEF u, v, w
        <5>3. u <= at /\ at < v
          BY <5>1, <5>2
        <5> QED
          BY <5>3 DEF u, v
      <4> QED
        BY <2>2, <4>3 DEF Inside
    <3> QED
      BY <1>3, <1>6, <3>2, <3>3, <3>4
  <2>3. CASE ~start.forward
    <3>1. a = AdvanceBackward(Mpd, d.at)
      BY <2>3 DEF AdvanceSegment
    <3>2. /\ a.ret = "EOS" <=> d.at.index = 0 /\ (Template(Mpd) \/ d.at.repeat = 0)
          /\ a.ret = "OK" => WellPlaced(Mpd, a.at) /\ End(Mpd, a.at) = Timestamp(Mpd, d.at)
      BY <1>1, <3>1, BackwardMeets
    <3>3. HasNextSegment(Mpd, d.at, start.forward)
      BY <1>2, <2>3 DEF HasNextSegment
    <3>4. a.ret = "EOS" => at = Show.to
      BY <1>4, <1>5, <2>1, <2>3, <3>2
    <3>5. ASSUME a.ret = "OK" PROVE Inside(<<Timestamp(Mpd, a.at), End(Mpd, a.at)>>, at)
      <4>1. /\ WellPlaced(Mpd, a.at) /\ End(Mpd, a.at) = Timestamp(Mpd, d.at)
        BY <3>2, <3>5
      <4>2. Timestamp(Mpd, a.at) < End(Mpd, a.at) /\ Timestamp(Mpd, a.at) \in Nat
        BY <4>1, MediaEnds
      <4> QED
        BY <1>4, <2>1, <2>3, <4>1, <4>2 DEF Inside
    <3> QED
      BY <1>3, <1>6, <3>2, <3>3, <3>4, <3>5
  <2> QED
    BY <1>1, <2>2, <2>3
<1>7. CASE OnDemand
  <2>1. /\ Mpd.segments = <<[start |-> 0, duration |-> PeriodLength, repeat |-> 0]>>
        /\ ~Template(Mpd) /\ MediaEnd = PeriodLength
    <3>1. Mpd.segments = <<[start |-> 0, duration |-> PeriodLength, repeat |-> 0]>>
      BY <1>7, LayoutFacts
    <3>2. ~Template(Mpd)
      BY <1>7, LayoutFacts
    <3> QED
      BY <1>7, <3>1, <3>2 DEF OnDemand, MediaEnd, EndOf
  <2>2. Count(Mpd) = 1 /\ Segment(Mpd, 0).repeat = 0
    BY <2>1 DEF Count, Segment
  <2>3. d.at.index = 0 /\ d.at.repeat = 0
    <3>1. d.at.index = 0
      BY <1>2, <2>1, <2>2 DEF WellPlaced, HasFragment
    <3>2. d.at.repeat \in 0 .. 0
      BY <2>1, <2>2, <3>1 DEF WellPlaced
    <3> QED
      BY <3>1, <3>2
  <2>4. a.ret = "EOS"
    <3>1. CASE start.forward
      <4>1. a = AdvanceForward(Mpd, d.at)
        BY <3>1 DEF AdvanceSegment
      <4>2. ~HasNextSegment(Mpd, d.at, TRUE)
        BY <2>1, <2>2, <2>3 DEF HasNextSegment
      <4>3. a.ret = "OK" <=> HasNextSegment(Mpd, d.at, TRUE)
        BY <1>1, <4>1, ForwardMeets
      <4> QED
        BY <1>3, <4>2, <4>3
    <3>2. CASE ~start.forward
      <4>1. a = AdvanceBackward(Mpd, d.at)
        BY <3>2 DEF AdvanceSegment
      <4> QED
        BY <1>1, <2>3, <4>1, BackwardMeets
    <3> QED
      BY <3>1, <3>2
  <2>5. at = Show.to
    <3>1. /\ Here = <<Pts(d.rep, d.entry), EntryEnd(d.rep, d.entry)>>
          /\ d.entry \in 0 .. Entries(d.rep) - 1 /\ Entries(d.rep) \in Nat \ {0}
      BY <1>7, HereEntry, EntryFacts
    <3>2. CASE start.forward
      <4>1. d.entry + 1 = Entries(d.rep)
        BY <1>7, <3>1, <3>2 DEF HasNextSubfragment
      <4>2. EntryEnd(d.rep, d.entry) = PeriodLength
        BY <3>1, <4>1, EntryTimes
      <4> QED
        BY <1>5, <2>1, <3>1, <3>2, <4>2 DEF Far
    <3>3. CASE ~start.forward
      <4>1. d.entry = 0
        BY <1>7, <3>1, <3>3 DEF HasNextSubfragment
      <4>2. Pts(d.rep, d.entry) = 0
        BY <3>1, <4>1, EntryTimes
      <4> QED
        BY <1>5, <3>1, <3>3, <4>2 DEF Far
    <3> QED
      BY <3>2, <3>3
  <2> QED
    BY <1>3, <2>4, <2>5
<1> QED
  BY <1>6, <1>7

(* The stream goes on to the next fragment, or has come to the end.         *)
LEMMA PlayEosMoves ==
  ASSUME DashInv, PlaceInv, PlayInv, Playable, SourceEos,
         ~StaysInPlace(d, Part), d.lastRet = "OK"
  PROVE  PlayInv'
<1> DEFINE a == AdvanceSegment(Mpd, d.at, start.forward)
<1>0. /\ start \in Starts /\ d \in Streams /\ start' = start /\ src.on
      /\ dpc = "wait" /\ dpc' = "wait" /\ todo' = todo /\ frag' = frag
      /\ src' = [src EXCEPT !.on = FALSE] /\ UNCHANGED shownVars /\ Gapless
  BY DEF DashInv, TypeOK, Asked, SourceEos, StopSource, requestVars, Playable
<1>1. src'.on = FALSE /\ OnDemand' = OnDemand /\ Part' = Part /\ Loading /\ src.part = Part
      /\ Mpd' = Mpd /\ Block' = Block
  BY <1>0, StartFixed DEF DashInv, TypeOK, Part, Loading, Asked, Block
<1>2. /\ Part = "media" /\ WellPlaced(Mpd, d.at) /\ at = Far(Here)
      /\ OnDemand => d.index # 0 /\ ~HasNextSubfragment(d)
  BY EosTold
<1>3. PICK r \in Choices : d' = Advance(d, r)
  BY <1>1 DEF SourceEos, FragmentFinished
<1>4. r \in Reps /\ InIndex(d) /\ d.rep \in Reps
  BY <1>0, ChoicesFacts, FieldTypes DEF DashInv, Asked, InIndex, TypeOK
<1>5. \/ AtEnd(d', d) \/ Moved(d', d)
      \/ \E z \in Streams : Moved(z, d) /\ z.lastRet = "OK" /\ SwitchedTo(d', z, r)
  BY <1>0, <1>3, <1>4, AdvanceFacts
<1>6. OnDemand => d.index = d.rep /\ d.entry \in 0 .. Entries(d.rep) - 1
  BY <1>2 DEF DashInv, TypeOK, Indexed
<1>7. ~CanMove(d)
  <2> SUFFICES ASSUME CanMove(d) PROVE FALSE
    OBVIOUS
  <2>1. /\ OnDemand /\ d.index = d.rep /\ d.index # 0 /\ ~HasNextSubfragment(d)
        /\ NextEntry(d) \in 0 .. Entries(d.rep) - 1
        /\ d.entry \in 0 .. Entries(d.rep) - 1 /\ Entries(d.rep) \in Nat \ {0}
    BY <1>2, <1>4, <1>6, EntryFacts DEF CanMove
  <2>2. CASE start.forward
    BY <2>1, <2>2 DEF NextEntry, HasNextSubfragment
  <2>3. CASE ~start.forward
    BY <2>1, <2>3 DEF NextEntry, HasNextSubfragment
  <2> QED
    BY <2>2, <2>3
<1>8. /\ a.ret \in {"OK", "EOS"}
      /\ a.ret = "EOS" \/ ~HasNextSegment(Mpd, d.at, start.forward) => at = Show.to
      /\ OnDemand => at = Show.to /\ a.ret = "EOS"
      /\ a.ret = "OK" =>
           /\ WellPlaced(Mpd, a.at)
           /\ Inside(<<Timestamp(Mpd, a.at), End(Mpd, a.at)>>, at)
  BY <1>0, <1>2, <1>4, <1>6, NextMeets
<1> HIDE DEF a
<1>9. ASSUME NEW z, Moved(z, d)
      PROVE  z.at = a.at /\ z.lastRet = a.ret /\ ~z.mdat /\ z.rep = d.rep
  BY <1>7, <1>9 DEF Moved, EntryMoved, SegmentMoved, a
<1>10. /\ ~MediaComes' /\ ~Told' /\ ~InBlock' /\ Show' = Show /\ at' = at
  BY <1>0, <1>1, ShowFixed DEF MediaComes, Told, InBlock, Receiving, shownVars
<1>11. Caught' /\ SeekHonoured' /\ run'.from <= run'.to
  BY <1>0, ShownSame DEF PlayInv, Unbroken
<1>12. Unbroken' /\ IndexRead'
  BY <1>10, <1>11 DEF Unbroken, IndexRead
<1>13. ASSUME d'.lastRet \in {"OK", "EOS", "SWITCH"}, d'.mdat => d'.lastRet = "EOS"
       PROVE  Files'
  <2>1. ~Untouched'
    BY <1>0, <1>1, <1>13 DEF Untouched, Waiting
  <2> QED
    BY <1>0, <1>1, <1>2, <1>10, <1>13, <2>1 DEF PlayInv, Files, Loading
<1>14. CASE d'.lastRet = "EOS" /\ at = Show.to
  BY <1>0, <1>10, <1>11, <1>12, <1>13, <1>14 DEF PlayInv, Positioned, EndSaid
<1>15. CASE d'.lastRet \in {"OK", "SWITCH"} /\ ~d'.mdat /\ a.ret = "OK" /\ d'.at = a.at
  <2>1. ~OnDemand
    BY <1>8, <1>15
  <2>2. WellPlaced(Mpd, a.at) /\ Inside(<<Timestamp(Mpd, a.at), End(Mpd, a.at)>>, at)
    BY <1>8, <1>15
  <2>3. Here' = <<Timestamp(Mpd, a.at), End(Mpd, a.at)>>
    BY <1>1, <1>15, <2>1 DEF Here, Span, End
  <2>4. Stands'
    <3>1. Inside(Here, at)'
      BY <1>0, <1>10, <2>2, <2>3 DEF Inside
    <3> QED
      BY <1>1, <1>10, <2>1, <3>1 DEF Stands
  <2>5. Positioned'
    BY <1>1, <1>15, <2>2, <2>4 DEF Positioned, WellPlaced
  <2> QED
    BY <1>0, <1>11, <1>12, <1>13, <1>15, <2>5 DEF PlayInv, EndSaid
<1>16. CASE AtEnd(d', d)
  <2>1. d'.lastRet = "EOS" /\ ~HasNextFragment(d)
    BY <1>0, <1>16 DEF AtEnd, Streams
  <2>2. ~HasNextSegment(Mpd, d.at, start.forward)
    BY <2>1 DEF HasNextFragment
  <2> QED
    BY <1>8, <1>14, <2>1, <2>2
<1>17. CASE Moved(d', d)
  BY <1>8, <1>9, <1>14, <1>15, <1>17
<1>18. ASSUME NEW z \in Streams, Moved(z, d), z.lastRet = "OK", SwitchedTo(d', z, r)
       PROVE  PlayInv'
  <2>1. z.at = a.at /\ a.ret = "OK"
    BY <1>9, <1>18
  <2>2. d'.lastRet = "SWITCH" /\ ~d'.mdat /\ d'.at = a.at
    BY <1>18, <2>1 DEF SwitchedTo
  <2> QED
    BY <1>15, <2>1, <2>2
<1> QED
  BY <1>5, <1>16, <1>17, <1>18

LEMMA PlaySourceEos ==
  ASSUME DashInv, PlaceInv, PlayInv, Playable, SourceEos
  PROVE  PlayInv'
  BY PlayEosStays, PlayEosMoves

-----------------------------------------------------------------------------
(* All steps.                                                               *)

LEMMA PlayStutter == ASSUME PlayInv, UNCHANGED vars PROVE PlayInv'
<1>1. /\ UNCHANGED <<start, d, todo, frag, dpc, src, finished, spc>>
      /\ UNCHANGED <<push, run, heard, at>> /\ UNCHANGED shownVars
  BY DEF vars, requestVars, sourceVars, shownVars
<1>2. /\ OnDemand' = OnDemand /\ Mpd' = Mpd /\ Part' = Part /\ Loading' = Loading
      /\ Receiving' = Receiving /\ Untouched' = Untouched /\ First' = First /\ Block' = Block
      /\ Show' = Show /\ From' = From
  BY <1>1, StartFixed, ShowFixed
  DEF Part, Loading, Receiving, Untouched, Waiting, First, Block
<1>3. MediaComes' = MediaComes /\ InBlock' = InBlock /\ BlockStart' = BlockStart
  BY <1>1, <1>2 DEF MediaComes, InBlock, BlockStart, EntryStart
<1>4. Told' = Told /\ Here' = Here
  BY <1>1, <1>2, <1>3, HereSame DEF Told
<1>5. Stands => Stands'
  BY <1>1, <1>2, <1>4 DEF Stands, Sought, Inside, Far
<1>6. Positioned' /\ EndSaid'
  BY <1>1, <1>2, <1>5 DEF PlayInv, Positioned, EndSaid
<1>7. Unbroken' /\ Files' /\ IndexRead'
  BY <1>1, <1>2, <1>3 DEF PlayInv, Unbroken, Files, IndexRead
<1>8. Caught' /\ SeekHonoured'
  BY <1>1, ShownSame DEF PlayInv, Unbroken
<1> QED
  BY <1>6, <1>7, <1>8 DEF PlayInv

LEMMA PlayNext ==
  ASSUME Bare, OneRefetch, Playable, DashInv, PlaceInv, PlayInv, [Next]_vars
  PROVE  PlayInv'
<1>1. CASE D
  BY <1>1, PlayUpdateInfo, PlayNoFragment, PlayOpen, PlayOpenFails, PlayWoken, PlayPartDone,
     PlaySwitched, PlayEnded, PlayAgain, PlayCut, PlayStartOver DEF D
<1>2. CASE S
  BY <1>2, PlayReceive, PlayParse, PlayMdat, PlaySourceEos DEF S
<1>3. CASE U
  BY <1>3, PlayFail DEF U
<1>4. CASE UNCHANGED vars
  BY <1>4, PlayStutter
<1> QED
  BY <1>1, <1>2, <1>3, <1>4 DEF Next, Finished

LEMMA PlayAlways ==
  ASSUME Bare, OneRefetch, ReadInOrder, Playable
  PROVE  Spec => []PlayInv
<1>1. DashInv /\ PlaceInv /\ PlayInv /\ [Next]_vars => PlayInv'
  BY PlayNext
<1>2. Init => PlayInv
  BY PlayInit
<1> QED
  BY <1>1, <1>2, DashAlways, PlaceAlways, PTL DEF Spec

(* After a seek nothing is pushed that lies before the target in the        *)
(* direction of playback, in any layout: what the MPD and the sidx are      *)
(* searched for is the place that the pushes have reached.                  *)
THEOREM DashSeekHonoured ==
  ASSUME Bare, OneRefetch, ReadInOrder, Playable
  PROVE  Spec => []SeekHonoured
<1>1. PlayInv => SeekHonoured
  BY DEF PlayInv
<1> QED
  BY <1>1, PlayAlways, PTL

-----------------------------------------------------------------------------
(* The abstract specification.                                              *)

Outcome ==
  IF dpc = "done" THEN "complete"
  ELSE IF dpc \in {"cut", "failed"} THEN "given up" ELSE "no"

LEMMA PromiseInit == ASSUME Playable, Init PROVE Promise!Init
<1>1. start \in Starts /\ Gapless /\ heard = <<From, From>> /\ at = From /\ dpc = "loop"
  BY DEF Init, Playable
<1>2. /\ Spans \in SUBSET (Nat \X Nat) /\ MediaEnd \in Nat
      /\ Show.fragments = Spans /\ Show.forward = start.forward /\ Show.from = From
      /\ Show.to = IF start.forward THEN MediaEnd ELSE 0
  BY <1>1, ShowFacts
<1>3. start.forward \in BOOLEAN /\ From \in Int /\ Show.to \in Int
  BY <1>1, <1>2, StartType, SizesAssumption DEF From
<1>4. Spans \in SUBSET (Int \X Int)
  BY <1>2
<1>5. Show \in [fragments : SUBSET (Int \X Int), forward : BOOLEAN, from : Int, to : Int]
  <2> DEFINE to == IF start.forward THEN Largest({s[2] : s \in Spans})
                   ELSE Smallest({s[1] : s \in Spans})
  <2>1. Show = [fragments |-> Spans, forward |-> start.forward, from |-> From, to |-> to]
    BY DEF Show
  <2> HIDE DEF to
  <2>2. to = Show.to
    BY <2>1
  <2>3. to \in Int
    BY <1>3, <2>2
  <2> QED
    BY <1>3, <1>4, <2>1, <2>3
<1> QED
  BY <1>1, <1>2, <1>5 DEF Promise!Init, Promise!Shows

(* A step that pushes no media to its end and does not end the download.    *)
LEMMA PromiseKept ==
  ASSUME start' = start, heard' = heard, at' = at, Outcome' = Outcome
  PROVE  UNCHANGED <<Show, heard, at, Outcome>>
  BY ShowFixed

(* What D does to the outcome.                                              *)
LEMMA PromiseEnds ==
  ASSUME DashInv, PlayInv, D
  PROVE  Promise!Next \/ UNCHANGED <<Show, heard, at, Outcome>>
<1>1. start' = start /\ UNCHANGED <<heard, at>> /\ Show' = Show
  <2>1. start' = start /\ UNCHANGED <<heard, at>>
    BY DEF D, UpdateInfo, NoFragment, Open, OpenFails, Woken, PartDone, Switched, Ended, Again,
           Cut, StartOver, GiveUp, shownVars
  <2> QED
    BY <2>1, ShowFixed
<1>2. CASE NoFragment \/ Ended
  <2>1. at = Show.to /\ dpc \in {"loop", "result"} /\ dpc' = "done"
    BY <1>2, PlayNoFragment, PlayEnded DEF NoFragment, Ended
  <2> QED
    BY <1>1, <2>1 DEF Promise!Next, Promise!Complete
<1>3. CASE Cut \/ GiveUp
  <2>1. dpc = "result" /\ dpc' \in {"cut", "failed"}
    BY <1>3 DEF Cut, GiveUp, ErrorStays
  <2> QED
    BY <1>1, <2>1 DEF Promise!Next, Promise!GiveUp
<1>4. CASE \/ UpdateInfo \/ Open \/ OpenFails \/ Woken \/ PartDone \/ Switched \/ Again
           \/ StartOver
  <2>1. Outcome = "no" /\ Outcome' = "no"
    BY <1>4 DEF UpdateInfo, Open, OpenFails, Woken, PartDone, Switched, Again,
                StartOver, ErrorStays, Outcome
  <2> QED
    BY <1>1, <2>1
<1> QED
  BY <1>2, <1>3, <1>4 DEF D

(* S pushes a fragment to its end, or nothing that would be heard.          *)
LEMMA PromisePlays ==
  ASSUME DashInv, PlaceInv, PlayInv, Playable, S
  PROVE  Promise!Next \/ UNCHANGED <<Show, heard, at, Outcome>>
<1>1. start' = start /\ dpc' = dpc /\ Show' = Show
  <2>1. start' = start /\ dpc' = dpc
    BY DEF S, Receive, Parse, Mdat, SourceEos, requestVars
  <2> QED
    BY <2>1, ShowFixed
<1>2. CASE (\E n \in 1 .. MaxBuffer : Receive(n)) \/ SourceEos
  BY <1>1, <1>2 DEF Receive, SourceEos, shownVars, Outcome
<1>3. CASE Parse
  BY <1>1, <1>3, PlayParse DEF Outcome
<1>4. CASE Mdat
  <2>1. \/ heard' = heard /\ at' = at
        \/ Here \in Spans /\ Inside(Here, at) /\ heard' = Here /\ at' = Far(Here)
    BY <1>4, PlayMdat
  <2>2. CASE heard' = heard /\ at' = at
    BY <1>1, <2>2 DEF Outcome
  <2>3. CASE Here \in Spans /\ Inside(Here, at) /\ heard' = Here /\ at' = Far(Here)
    <3>1. dpc = "wait"
      <4>1. spc # "idle"
        BY <1>4 DEF Mdat
      <4> QED
        BY <4>1, AtWork
    <3>2. Here \in Show.fragments /\ Show.forward = start.forward
      BY <2>3 DEF Show
    <3>3. IF start.forward THEN Here[1] <= at /\ at < Here[2] /\ at' = Here[2]
          ELSE Here[1] < at /\ at <= Here[2] /\ at' = Here[1]
      BY <2>3 DEF Inside, Far
    <3>4. Promise!Play
      BY <1>1, <2>3, <3>1, <3>2, <3>3 DEF Promise!Play
    <3> QED
      BY <3>4 DEF Promise!Next
  <2> QED
    BY <2>1, <2>2, <2>3
<1> QED
  BY <1>2, <1>3, <1>4 DEF S

LEMMA PromiseStep ==
  ASSUME DashInv, PlaceInv, PlayInv, Playable, [Next]_vars
  PROVE  [Promise!Next]_<<Show, heard, at, Outcome>>
<1>1. CASE D
  BY <1>1, PromiseEnds
<1>2. CASE S
  BY <1>2, PromisePlays
<1>3. CASE U
  <2>1. start' = start /\ dpc' = dpc /\ UNCHANGED shownVars
    BY <1>3 DEF U, Fail, requestVars
  <2>2. Show' = Show
    BY <2>1, ShowFixed
  <2> QED
    BY <2>1, <2>2 DEF shownVars, Outcome
<1>4. CASE UNCHANGED vars
  <2>1. start' = start /\ dpc' = dpc /\ UNCHANGED shownVars
    BY <1>4 DEF vars
  <2>2. Show' = Show
    BY <2>1, ShowFixed
  <2> QED
    BY <2>1, <2>2 DEF shownVars, Outcome
<1> QED
  BY <1>1, <1>2, <1>3, <1>4 DEF Next, Finished

(* The download of a stream implements Playback: each fragment that is      *)
(* pushed to its end holds the place reached, so that there is no gap, and  *)
(* gst_adaptive_demux_stream_download_loop announces the end only where all *)
(* media has been pushed, or the source has been given up.                  *)
THEOREM DashPlays ==
  ASSUME Bare, OneRefetch, ReadInOrder, Playable
  PROVE  Spec => Plays
<1>1. Init => Promise!Init
  BY PromiseInit
<1>2. DashInv /\ PlaceInv /\ PlayInv /\ [Next]_vars => [Promise!Next]_<<Show, heard, at, Outcome>>
  BY PromiseStep
<1> QED
  BY <1>1, <1>2, DashAlways, PlaceAlways, PlayAlways, PTL
  DEF Spec, Plays, Promise!Spec, Outcome
=============================================================================
