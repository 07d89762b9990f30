------------------------- MODULE MpdSegments_proofs -------------------------
(***************************************************************************)
(* Theorems about MpdSegments for any list of segments and any template.   *)
(***************************************************************************)
EXTENDS MpdSegments, SequenceTheorems, WellFoundedInduction, TLAPS

(* What an MPD is, and where a stream can be in it.                         *)
IsMpd(m) ==
  /\ m.segments \in Seq([start : Nat, duration : Nat \ {0}, repeat : Int])
  /\ m.duration \in Nat \ {0} /\ m.start \in Nat /\ m.length \in Nat \cup {Unknown}

Positions == [index : Int, repeat : Int]

(* A set of numbers that is not empty and bounded has a least and a largest *)
(* element.                                                                 *)
LEMMA LeastExists ==
  ASSUME NEW S \in SUBSET Nat, S # {}
  PROVE  \E x \in S : \A y \in S : x <= y
<1>1. PICK x \in S : \A y \in S : ~(<<y, x>> \in OpToRel(<, Nat))
  BY NatLessThanWellFounded, WFMin, Zenon
<1>2. ASSUME NEW y \in S PROVE x <= y
  <2>1. ~(y < x)
    BY <1>1 DEF OpToRel
  <2> QED
    BY <2>1
<1> QED
  BY <1>2

LEMMA LargestExists ==
  ASSUME NEW S \in SUBSET Int, NEW n \in Int, S # {}, \A x \in S : x <= n
  PROVE  \E x \in S : \A y \in S : y <= x
<1> DEFINE D == {n - x : x \in S}
<1>1. D \in SUBSET Nat
  OBVIOUS
<1>2. D # {}
  OBVIOUS
<1> HIDE DEF D
<1>3. PICK d \in D : \A e \in D : d <= e
  BY <1>1, <1>2, LeastExists
<1>4. PICK x \in S : d = n - x
  BY <1>3 DEF D
<1>5. ASSUME NEW y \in S PROVE y <= x
  <2>1. n - y \in D
    BY DEF D
  <2> QED
    BY <2>1, <1>3, <1>4
<1> QED
  BY <1>5

-----------------------------------------------------------------------------
(* Types.                                                                   *)

LEMMA SegmentType ==
  ASSUME NEW m, IsMpd(m), NEW i \in 0 .. Len(m.segments) - 1
  PROVE  /\ Segment(m, i) \in [start : Nat, duration : Nat \ {0}, repeat : Int]
         /\ ~Template(m)
<1>1. m.segments \in Seq([start : Nat, duration : Nat \ {0}, repeat : Int])
  BY DEF IsMpd
<1>2. i + 1 \in 1 .. Len(m.segments) /\ Len(m.segments) # 0
  BY <1>1
<1>3. Segment(m, i) \in [start : Nat, duration : Nat \ {0}, repeat : Int]
  BY <1>1, <1>2, ElementOfSeq, Zenon DEF Segment
<1>4. m.segments # <<>>
  BY <1>2
<1> QED
  BY <1>3, <1>4 DEF Template

LEMMA CountType ==
  ASSUME NEW m, IsMpd(m)
  PROVE  /\ Count(m) \in Nat
         /\ ~Template(m) => Count(m) = Len(m.segments) /\ Count(m) > 0
<1>1. ~Template(m) => Len(m.segments) \in Nat \ {0}
  BY DEF IsMpd, Template
<1>2. ASSUME Template(m), m.length # Unknown
      PROVE  (m.length + m.duration - 1) \div m.duration \in Nat
  <2> DEFINE n == m.length + m.duration - 1
  <2>1. n \in Nat /\ m.duration \in Nat \ {0}
    BY <1>2 DEF IsMpd
  <2> HIDE DEF n
  <2>2. n \div m.duration \in Nat
    BY <2>1
  <2> QED
    BY <2>2 DEF n
<1> QED
  BY <1>1, <1>2 DEF Count

LEMMA SegmentEndType ==
  ASSUME NEW m, IsMpd(m), NEW i \in 0 .. Len(m.segments) - 1
  PROVE  SegmentEnd(m, i) \in Int
<1>1. Segment(m, i) \in [start : Nat, duration : Nat \ {0}, repeat : Int]
  BY SegmentType
<1>2. i < Len(m.segments) - 1 =>
        Segment(m, i + 1) \in [start : Nat, duration : Nat \ {0}, repeat : Int]
  <2>1. Len(m.segments) \in Nat
    BY DEF IsMpd
  <2>2. i < Len(m.segments) - 1 => i + 1 \in 0 .. Len(m.segments) - 1
    BY <2>1
  <2> QED
    BY <2>2, SegmentType
<1>3. m.start + m.length \in Int
  BY DEF IsMpd, Unknown
<1>4. (Segment(m, i).repeat + 1) * Segment(m, i).duration \in Int
  BY <1>1
<1> QED
  BY <1>1, <1>2, <1>3, <1>4 DEF SegmentEnd

LEMMA LastRepeatType ==
  ASSUME NEW m, IsMpd(m), NEW i \in 0 .. Len(m.segments) - 1
  PROVE  LastRepeat(m, i) \in Int
<1>1. Segment(m, i) \in [start : Nat, duration : Nat \ {0}, repeat : Int]
  BY SegmentType
<1>2. SegmentEnd(m, i) \in Int
  BY SegmentEndType
<1>3. (SegmentEnd(m, i) - Segment(m, i).start) \div Segment(m, i).duration \in Int
  BY <1>1, <1>2
<1> QED
  BY <1>1, <1>3 DEF LastRepeat

LEMMA TimestampType ==
  ASSUME NEW m, IsMpd(m), NEW p \in Positions, HasFragment(m, p)
  PROVE  Timestamp(m, p) \in Int /\ Duration(m, p) \in Nat \ {0}
<1>1. CASE Template(m)
  BY <1>1 DEF IsMpd, Positions, Timestamp, Duration
<1>2. CASE ~Template(m)
  <2>1. p.index \in 0 .. Len(m.segments) - 1
    BY <1>2, CountType DEF HasFragment
  <2>2. Segment(m, p.index) \in [start : Nat, duration : Nat \ {0}, repeat : Int]
    BY <2>1, SegmentType
  <2>3. Segment(m, p.index).duration * p.repeat \in Int
    BY <2>2 DEF Positions
  <2> QED
    BY <1>2, <2>2, <2>3 DEF Timestamp, Duration
<1> QED
  BY <1>1, <1>2

LEMMA LastEndType == ASSUME NEW m, IsMpd(m) PROVE LastEnd(m) \in Int
<1>1. m.start + m.length \in Int
  BY DEF IsMpd, Unknown
<1>2. ~Template(m) => SegmentEnd(m, Count(m) - 1) \in Int
  BY CountType, SegmentEndType
<1> QED
  BY <1>1, <1>2 DEF LastEnd

LEMMA AdvanceType ==
  ASSUME NEW m, IsMpd(m), NEW p \in Positions, NEW forward \in BOOLEAN
  PROVE  AdvanceSegment(m, p, forward) \in [ret : {"OK", "EOS"}, at : Positions]
<1> DEFINE c == Count(m)
<1>1. c \in Nat /\ (~Template(m) => c = Len(m.segments) /\ c > 0)
  BY CountType
<1>2. AdvanceForward(m, p) \in [ret : {"OK", "EOS"}, at : Positions]
  BY <1>1 DEF AdvanceForward, Arrived, Position, Positions
<1>3. \A i \in 0 .. Len(m.segments) - 1 : LastRepeat(m, i) \in Int
  BY LastRepeatType
<1>4. AdvanceBackward(m, p) \in [ret : {"OK", "EOS"}, at : Positions]
  <2>1. CASE Template(m)
    BY <2>1 DEF AdvanceBackward, Arrived, Positions
  <2>2. CASE ~Template(m) /\ p.index < 0
    BY <2>2 DEF AdvanceBackward, Arrived, Positions
  <2>3. CASE ~Template(m) /\ p.index >= c
    BY <2>3, <1>1, <1>3 DEF AdvanceBackward, Arrived, Position, Positions
  <2>4. CASE ~Template(m) /\ p.index \in 0 .. c - 1
    BY <2>4, <1>1, <1>3 DEF AdvanceBackward, Arrived, Position, Positions
  <2> QED
    BY <2>1, <2>2, <2>3, <2>4, <1>1 DEF Positions
<1> QED
  BY <1>2, <1>4 DEF AdvanceSegment

-----------------------------------------------------------------------------
(* Fragments that follow each other.                                        *)

(* A list without gaps and without negative repeats.                        *)
Contiguous(m) ==
  /\ \A i \in 0 .. Len(m.segments) - 1 : Segment(m, i).repeat >= 0
  /\ \A i \in 1 .. Len(m.segments) - 1 :
       Segment(m, i).start = SegmentEnd(m, i - 1)

(* A position that names a fragment, and where this one ends.               *)
WellPlaced(m, p) ==
  /\ p \in Positions /\ p.index >= 0 /\ HasFragment(m, p)
  /\ ~Template(m) => p.repeat \in 0 .. Segment(m, p.index).repeat

End(m, p) == Timestamp(m, p) + Duration(m, p)

LEMMA NextProduct == \A a, b \in Int : a * (b + 1) = a * b + a /\ (b + 1) * a = a * b + a
  OBVIOUS

LEMMA Division ==
  ASSUME NEW a \in Nat, NEW b \in Nat \ {0}
  PROVE  /\ a \div b \in Nat
         /\ b * (a \div b) <= a /\ a < b * (a \div b) + b
         /\ a % b = 0 => b * (a \div b) = a
         /\ a % b # 0 => b * (a \div b) < a
  OBVIOUS

LEMMA SmallerFactor ==
  ASSUME NEW a \in Nat \ {0}, NEW b \in Int, NEW c \in Int, a * b < a * c
  PROVE  b < c
  OBVIOUS

(* The facts of a segment that the theorems need.                           *)
LEMMA ListFacts ==
  ASSUME NEW m, IsMpd(m), Contiguous(m), ~Template(m),
         NEW i \in 0 .. Count(m) - 1
  PROVE  /\ Count(m) = Len(m.segments) /\ Count(m) \in Nat \ {0}
         /\ Segment(m, i).start \in Nat /\ Segment(m, i).duration \in Nat \ {0}
         /\ Segment(m, i).repeat \in Nat
         /\ SegmentEnd(m, i) = Segment(m, i).start
              + Segment(m, i).duration * Segment(m, i).repeat + Segment(m, i).duration
         /\ i > 0 => Segment(m, i).start = SegmentEnd(m, i - 1)
<1>1. Count(m) = Len(m.segments) /\ Count(m) \in Nat \ {0}
  BY CountType
<1>2. Segment(m, i) \in [start : Nat, duration : Nat \ {0}, repeat : Int]
  BY <1>1, SegmentType
<1>3. Segment(m, i).repeat >= 0 /\ (i > 0 => Segment(m, i).start = SegmentEnd(m, i - 1))
  BY <1>1 DEF Contiguous
<1>4. (Segment(m, i).repeat + 1) * Segment(m, i).duration
        = Segment(m, i).duration * Segment(m, i).repeat + Segment(m, i).duration
  BY <1>2, NextProduct
<1>5. SegmentEnd(m, i) = Segment(m, i).start + (Segment(m, i).repeat + 1) * Segment(m, i).duration
  BY <1>3 DEF SegmentEnd
<1>6. Segment(m, i).duration * Segment(m, i).repeat \in Int
  BY <1>2
<1> QED
  BY <1>1, <1>2, <1>3, <1>4, <1>5, <1>6

(* gst_mpd_client_advance_segment forwards: the next fragment begins where  *)
(* this one ends, and there is one exactly if has_next_segment says so.     *)
THEOREM ForwardMeets ==
  ASSUME NEW m, IsMpd(m), Contiguous(m), NEW p, WellPlaced(m, p)
  PROVE  LET a == AdvanceForward(m, p)
         IN /\ a.ret = "OK" <=> HasNextSegment(m, p, TRUE)
            /\ a.ret = "OK" => /\ WellPlaced(m, a.at)
                               /\ Timestamp(m, a.at) = End(m, p)
<1> DEFINE a == AdvanceForward(m, p)
<1>1. Count(m) \in Nat /\ p.index \in Nat /\ p.repeat \in Int /\ p \in Positions
  BY CountType DEF WellPlaced, Positions
<1>2. CASE Template(m)
  <2>1. Count(m) > 0 => p.index < Count(m)
    BY <1>1, <1>2 DEF WellPlaced, HasFragment
  <2>2. a = Arrived(IF Count(m) > 0 /\ p.index + 1 >= Count(m) THEN "EOS" ELSE "OK",
                    [p EXCEPT !.index = @ + 1])
    BY <1>1, <1>2, <2>1 DEF AdvanceForward
  <2>3. a.at \in Positions /\ a.at.index = p.index + 1
        /\ (a.ret = "OK" <=> Count(m) = 0 \/ p.index + 1 < Count(m))
    BY <1>1, <2>2 DEF Arrived, Positions
  <2>4. a.ret = "OK" <=> HasNextSegment(m, p, TRUE)
    BY <1>2, <2>3 DEF HasNextSegment
  <2>5. a.ret = "OK" => WellPlaced(m, a.at)
    BY <1>1, <1>2, <2>3 DEF WellPlaced, HasFragment
  <2>6. (p.index + 1) * m.duration = p.index * m.duration + m.duration
    <3>1. m.duration \in Int
      BY DEF IsMpd
    <3> DEFINE i == p.index
               d == m.duration
    <3>2. i \in Int /\ d \in Int
      BY <3>1, <1>1
    <3> HIDE DEF i, d
    <3>3. (i + 1) * d = i * d + d
      BY <3>2
    <3> QED
      BY <3>3 DEF i, d
  <2>7. Timestamp(m, a.at) = End(m, p)
    BY <1>2, <2>3, <2>6 DEF Timestamp, Duration, End
  <2> QED
    BY <2>4, <2>5, <2>7
<1>3. CASE ~Template(m)
  <2> DEFINE s == Segment(m, p.index)
  <2>1. p.index \in 0 .. Count(m) - 1 /\ p.repeat \in 0 .. s.repeat
    BY <1>1, <1>3 DEF WellPlaced, HasFragment
  <2>2. /\ s.start \in Nat /\ s.duration \in Nat \ {0} /\ s.repeat \in Nat
        /\ SegmentEnd(m, p.index) = s.start + s.duration * s.repeat + s.duration
        /\ Count(m) \in Nat \ {0}
    BY <1>3, <2>1, ListFacts
  <2>3. End(m, p) = s.start + s.duration * p.repeat + s.duration
    BY <1>3 DEF End, Timestamp, Duration
  <2>4. CASE p.repeat < s.repeat
    <3>1. a = Arrived("OK", [p EXCEPT !.repeat = @ + 1])
      BY <1>1, <1>3, <2>1, <2>2, <2>4 DEF AdvanceForward
    <3>2. a.ret = "OK" /\ a.at \in Positions /\ a.at.index = p.index
          /\ a.at.repeat = p.repeat + 1
      BY <1>1, <3>1 DEF Arrived, Positions
    <3>3. WellPlaced(m, a.at)
      BY <1>3, <2>1, <2>2, <2>4, <3>2 DEF WellPlaced, HasFragment
    <3>4. s.duration * (p.repeat + 1) = s.duration * p.repeat + s.duration
      BY <2>1, <2>2, NextProduct
    <3>5. Timestamp(m, a.at) = s.start + s.duration * (p.repeat + 1)
      BY <1>3, <3>2 DEF Timestamp
    <3>6. HasNextSegment(m, p, TRUE)
      BY <1>3, <2>1, <2>2, <2>4 DEF HasNextSegment
    <3>7. s.duration * p.repeat \in Int
      BY <2>1, <2>2
    <3>8. Timestamp(m, a.at) = End(m, p)
      BY <2>2, <2>3, <3>4, <3>5, <3>7
    <3> QED
      BY <3>2, <3>3, <3>6, <3>8
  <2>5. CASE p.repeat = s.repeat
    <3>1. a = Arrived(IF p.index + 1 >= Count(m) THEN "EOS" ELSE "OK",
                      Position(p.index + 1, 0))
      BY <1>1, <1>3, <2>1, <2>2, <2>5 DEF AdvanceForward
    <3>2. /\ a.ret = "OK" <=> p.index + 1 < Count(m)
          /\ a.at = Position(p.index + 1, 0)
      BY <2>1, <2>2, <3>1 DEF Arrived
    <3>3. HasNextSegment(m, p, TRUE) <=> p.index + 1 < Count(m)
      BY <1>3, <2>1, <2>2, <2>5 DEF HasNextSegment
    <3>4. ASSUME p.index + 1 < Count(m)
          PROVE  WellPlaced(m, a.at) /\ Timestamp(m, a.at) = End(m, p)
      <4> DEFINE t == Segment(m, p.index + 1)
      <4>1. p.index + 1 \in 0 .. Count(m) - 1
        BY <2>1, <2>2, <3>4
      <4>2. /\ t.start \in Nat /\ t.duration \in Nat \ {0} /\ t.repeat \in Nat
            /\ t.start = SegmentEnd(m, p.index + 1 - 1)
        BY <1>3, <2>1, <4>1, ListFacts
      <4>3. a.at \in Positions /\ a.at.index = p.index + 1 /\ a.at.repeat = 0
        BY <2>1, <3>2 DEF Position, Positions
      <4>4. WellPlaced(m, a.at)
        BY <1>3, <4>1, <4>2, <4>3 DEF WellPlaced, HasFragment
      <4>5. t.duration * 0 = 0
        BY <4>2
      <4>6. Timestamp(m, a.at) = t.start
        BY <1>3, <4>2, <4>3, <4>5 DEF Timestamp
      <4>7. p.index + 1 - 1 = p.index
        BY <2>1
      <4> QED
        BY <2>2, <2>3, <2>5, <4>2, <4>4, <4>6, <4>7
    <3> QED
      BY <3>2, <3>3, <3>4
  <2>6. p.repeat < s.repeat \/ p.repeat = s.repeat
    BY <2>1, <2>2
  <2> QED
    BY <2>4, <2>5, <2>6
<1> QED
  BY <1>2, <1>3

(* gst_mpd_client_advance_segment backwards: the fragment before ends where *)
(* this one begins, and only the first one has none before it.              *)
THEOREM BackwardMeets ==
  ASSUME NEW m, IsMpd(m), Contiguous(m), NEW p, WellPlaced(m, p)
  PROVE  LET a == AdvanceBackward(m, p)
         IN /\ a.ret = "EOS" <=> p.index = 0 /\ (Template(m) \/ p.repeat = 0)
            /\ a.ret = "OK" => /\ WellPlaced(m, a.at)
                               /\ End(m, a.at) = Timestamp(m, p)
<1> DEFINE a == AdvanceBackward(m, p)
<1>1. Count(m) \in Nat /\ p.index \in Nat /\ p.repeat \in Int /\ p \in Positions
  BY CountType DEF WellPlaced, Positions
<1>2. CASE Template(m)
  <2>1. CASE p.index = 0
    BY <1>2, <2>1 DEF AdvanceBackward, Arrived
  <2>2. CASE p.index > 0
    <3> DEFINE i == p.index - 1
               d == m.duration
    <3>1. a = Arrived("OK", [p EXCEPT !.index = @ - 1])
      BY <1>1, <1>2, <2>2 DEF AdvanceBackward
    <3>2. a.ret = "OK" /\ a.at \in Positions /\ a.at.index = i
      BY <1>1, <3>1 DEF Arrived, Positions
    <3>3. WellPlaced(m, a.at)
      BY <1>1, <1>2, <2>2, <3>2 DEF WellPlaced, HasFragment
    <3>4. i \in Nat /\ d \in Nat /\ p.index = i + 1
      BY <1>1, <2>2 DEF IsMpd
    <3> HIDE DEF i, d
    <3>5. (i + 1) * d = i * d + d
      BY <3>4
    <3>6. End(m, a.at) = i * d + d /\ Timestamp(m, p) = (i + 1) * d
      BY <1>2, <3>2, <3>4 DEF End, Timestamp, Duration, d
    <3> QED
      BY <2>2, <3>2, <3>3, <3>5, <3>6
  <2> QED
    BY <1>1, <2>1, <2>2
<1>3. CASE ~Template(m)
  <2> DEFINE s == Segment(m, p.index)
  <2>1. p.index \in 0 .. Count(m) - 1 /\ p.repeat \in 0 .. s.repeat
    BY <1>1, <1>3 DEF WellPlaced, HasFragment
  <2>2. /\ s.start \in Nat /\ s.duration \in Nat \ {0} /\ s.repeat \in Nat
        /\ Count(m) \in Nat \ {0}
        /\ p.index > 0 => s.start = SegmentEnd(m, p.index - 1)
    BY <1>3, <2>1, ListFacts
  <2>3. CASE p.repeat > 0
    <3> DEFINE r == p.repeat - 1
               d == s.duration
    <3>1. a = Arrived("OK", [p EXCEPT !.repeat = @ - 1])
      BY <1>1, <1>3, <2>1, <2>3 DEF AdvanceBackward
    <3>2. a.ret = "OK" /\ a.at \in Positions /\ a.at.index = p.index /\ a.at.repeat = r
      BY <1>1, <3>1 DEF Arrived, Positions
    <3>3. WellPlaced(m, a.at)
      BY <1>3, <2>1, <2>2, <2>3, <3>2 DEF WellPlaced, HasFragment
    <3>4. r \in Nat /\ d \in Nat /\ p.repeat = r + 1
      BY <2>1, <2>2, <2>3
    <3>5. End(m, a.at) = s.start + d * r + d /\ Timestamp(m, p) = s.start + d * (r + 1)
      BY <1>3, <3>2, <3>4 DEF End, Timestamp, Duration
    <3> HIDE DEF r, d
    <3>6. d * (r + 1) = d * r + d /\ d * r \in Int
      BY <3>4, NextProduct
    <3>7. End(m, a.at) = Timestamp(m, p)
      BY <2>2, <3>4, <3>5, <3>6
    <3> QED
      BY <1>3, <2>3, <3>2, <3>3, <3>7
  <2>4. CASE p.repeat = 0 /\ p.index = 0
    BY <1>1, <1>3, <2>1, <2>2, <2>4 DEF AdvanceBackward, Arrived
  <2>5. CASE p.repeat = 0 /\ p.index > 0
    <3> DEFINE i == p.index - 1
               t == Segment(m, i)
    <3>1. i \in 0 .. Count(m) - 1
      BY <2>1, <2>2, <2>5
    <3>2. /\ t.start \in Nat /\ t.duration \in Nat \ {0} /\ t.repeat \in Nat
          /\ SegmentEnd(m, i) = t.start + t.duration * t.repeat + t.duration
      BY <1>3, <3>1, ListFacts
    <3>3. a = Arrived("OK", Position(i, t.repeat))
      BY <1>1, <1>3, <2>1, <2>5, <3>2 DEF AdvanceBackward, LastRepeat
    <3>4. a.ret = "OK" /\ a.at \in Positions /\ a.at.index = i /\ a.at.repeat = t.repeat
      BY <3>1, <3>2, <3>3 DEF Arrived, Position, Positions
    <3>5. WellPlaced(m, a.at)
      BY <1>3, <3>1, <3>2, <3>4 DEF WellPlaced, HasFragment
    <3>6. End(m, a.at) = SegmentEnd(m, i)
      BY <1>3, <3>2, <3>4 DEF End, Timestamp, Duration
    <3>7. Timestamp(m, p) = s.start
      <4>1. s.duration * 0 = 0
        BY <2>2
      <4> QED
        BY <1>3, <2>2, <2>5, <4>1 DEF Timestamp
    <3>8. s.start = SegmentEnd(m, i)
      BY <2>2, <2>5
    <3> QED
      BY <2>5, <3>4, <3>5, <3>6, <3>7, <3>8
  <2>6. p.repeat > 0 \/ (p.repeat = 0 /\ (p.index = 0 \/ p.index > 0))
    BY <1>1, <2>1, <2>2
  <2> QED
    BY <2>3, <2>4, <2>5, <2>6
<1> QED
  BY <1>2, <1>3

-----------------------------------------------------------------------------
(* A seek and the fragment it finds.                                        *)

(* The choice of SeekList is a segment that holds the time, and starts no   *)
(* later than this if the list does.                                        *)
LEMMA FirstHolding ==
  ASSUME NEW m, IsMpd(m), Contiguous(m), ~Template(m), NEW forward \in BOOLEAN,
         NEW ts \in Nat, Holding(m, forward, ts) # {}
  PROVE  LET in == Holding(m, forward, ts)
             i == CHOOSE i \in in : \A j \in in : i <= j
         IN /\ i \in in
            /\ i > 0 => IF forward THEN Segment(m, i).start <= ts
                                   ELSE Segment(m, i).start < ts
<1> DEFINE in == Holding(m, forward, ts)
           i == CHOOSE x \in in : \A j \in in : x <= j
<1>1. Count(m) = Len(m.segments) /\ Len(m.segments) \in Nat
  BY CountType
<1>2. in \in SUBSET Nat /\ in # {}
  BY <1>1 DEF Holding
<1>3. i \in in /\ \A j \in in : i <= j
  BY <1>2, LeastExists, Zenon
<1>4. i \in 0 .. Len(m.segments) - 1
  BY <1>3 DEF Holding
<1>5. ASSUME i > 0
      PROVE  IF forward THEN Segment(m, i).start <= ts ELSE Segment(m, i).start < ts
  <2>1. i - 1 \in 0 .. Len(m.segments) - 1 /\ i - 1 < i
    BY <1>1, <1>4, <1>5
  <2>2. i - 1 \notin in
    BY <1>3, <1>4, <2>1
  <2>3. SegmentEnd(m, i - 1) \in Int
    BY <2>1, SegmentEndType
  <2>4. IF forward THEN SegmentEnd(m, i - 1) <= ts ELSE SegmentEnd(m, i - 1) < ts
    <3> DEFINE j == i - 1
    <3>1. j \in 0 .. Len(m.segments) - 1 /\ j \notin Holding(m, forward, ts)
      BY <2>1, <2>2
    <3>2. j = i - 1
      OBVIOUS
    <3> HIDE DEF j
    <3>3. ~(IF forward THEN ts < SegmentEnd(m, j) ELSE ts <= SegmentEnd(m, j))
      BY <3>1, Zenon DEF Holding
    <3> QED
      BY <2>3, <3>2, <3>3
  <2>5. Segment(m, i).start = SegmentEnd(m, i - 1)
    BY <1>1, <1>4, <1>5, ListFacts
  <2> QED
    BY <2>4, <2>5
<1> QED
  BY <1>3, <1>5

(* gst_mpd_client_stream_seek in a list that begins before the time: if it  *)
(* succeeds, the stream stands at the fragment that holds the time, its     *)
(* first instant excluded and its last one included when playing backwards. *)
THEOREM ListSeekHolds ==
  ASSUME NEW m, IsMpd(m), Contiguous(m), ~Template(m), NEW forward \in BOOLEAN,
         NEW ts \in Nat, SeekList(m, forward, ts).found,
         IF forward THEN Segment(m, 0).start <= ts ELSE Segment(m, 0).start < ts
  PROVE  LET at == SeekList(m, forward, ts).at
         IN /\ WellPlaced(m, at)
            /\ IF forward THEN Timestamp(m, at) <= ts /\ ts < End(m, at)
                          ELSE Timestamp(m, at) < ts /\ ts <= End(m, at)
<1> DEFINE in == Holding(m, forward, ts)
           i == CHOOSE x \in in : \A j \in in : x <= j
           s == Segment(m, i)
           at == SeekList(m, forward, ts).at
           off == ts - s.start
           r == off \div s.duration
<1>1. in # {}
  BY DEF SeekList
<1>2. i \in in /\ (i > 0 => IF forward THEN s.start <= ts ELSE s.start < ts)
  BY <1>1, FirstHolding
<1>3. Count(m) = Len(m.segments) /\ Count(m) \in Nat \ {0}
  BY CountType
<1>4. /\ i \in 0 .. Count(m) - 1
      /\ IF forward THEN ts < SegmentEnd(m, i) ELSE ts <= SegmentEnd(m, i)
  BY <1>2, <1>3 DEF Holding
<1>5. IF forward THEN s.start <= ts ELSE s.start < ts
  BY <1>2, <1>3, <1>4
<1>6. /\ s.start \in Nat /\ s.duration \in Nat \ {0} /\ s.repeat \in Nat
      /\ SegmentEnd(m, i) = s.start + s.duration * s.repeat + s.duration
  BY <1>4, ListFacts
<1>7. at = Position(i, IF ~forward /\ r > 0 /\ off % s.duration = 0 THEN r - 1 ELSE r)
  BY <1>1 DEF SeekList
<1> HIDE DEF in, i, at
<1> DEFINE d == s.duration
           n == s.repeat
<1>8. /\ off \in Nat /\ (~forward => off > 0)
      /\ d \in Nat \ {0} /\ n \in Nat
  BY <1>5, <1>6
<1>9. IF forward THEN off < d * n + d ELSE off <= d * n + d
  <2>1. d * n \in Int
    BY <1>8
  <2> HIDE DEF d, n
  <2>2. d = s.duration /\ n = s.repeat
    BY DEF d, n
  <2> QED
    BY <1>4, <1>6, <2>1, <2>2
<1>10. /\ r \in Nat /\ d * r <= off /\ off < d * r + d
       /\ off % d = 0 => d * r = off
       /\ off % d # 0 => d * r < off
  BY <1>8, Division
<1> HIDE DEF off, r, d, n, s
<1> DEFINE q == at.repeat
<1>11. /\ at.index = i /\ at \in Positions
       /\ q = IF ~forward /\ r > 0 /\ off % d = 0 THEN r - 1 ELSE r
  BY <1>4, <1>7, <1>10 DEF Position, Positions, d, s
<1>12. /\ q \in Nat /\ d * q \in Int
       /\ IF forward THEN d * q <= off /\ off < d * q + d
                     ELSE d * q < off /\ off <= d * q + d
  <2>1. CASE ~forward /\ r > 0 /\ off % d = 0
    <3>1. q = r - 1 /\ q \in Nat /\ r = q + 1
      BY <1>10, <1>11, <2>1
    <3> HIDE DEF q
    <3>2. d * (q + 1) = d * q + d /\ d * q \in Int
      BY <1>8, <3>1, NextProduct
    <3> QED
      BY <1>8, <1>10, <2>1, <3>1, <3>2
  <2>2. CASE ~forward /\ r > 0 /\ off % d # 0
    BY <1>8, <1>10, <1>11, <2>2
  <2>3. CASE ~forward /\ r = 0
    <3>1. d * r = 0 /\ q = r
      BY <1>8, <1>11, <2>3
    <3> QED
      BY <1>8, <1>10, <2>3, <3>1
  <2>4. CASE forward
    BY <1>8, <1>10, <1>11, <2>4
  <2> QED
    BY <1>10, <2>1, <2>2, <2>3, <2>4
<1>13. q \in 0 .. n
  <2> HIDE DEF q
  <2>1. d * n \in Int /\ d * (n + 1) = d * n + d
    BY <1>8, NextProduct
  <2>2. d * q < d * (n + 1)
    BY <1>8, <1>9, <1>12, <2>1
  <2>3. q < n + 1
    BY <1>8, <1>12, <2>2, SmallerFactor
  <2> QED
    BY <1>8, <1>12, <2>3
<1>14. WellPlaced(m, at)
  BY <1>3, <1>4, <1>11, <1>13 DEF WellPlaced, HasFragment, n, s
<1>15. Timestamp(m, at) = s.start + d * q /\ End(m, at) = s.start + d * q + d
  BY <1>11 DEF Timestamp, End, Duration, d, s
<1>16. off = ts - s.start /\ s.start \in Nat
  BY <1>6 DEF off, s
<1> QED
  <2> HIDE DEF q
  <2>1. IF forward THEN Timestamp(m, at) <= ts /\ ts < End(m, at)
                   ELSE Timestamp(m, at) < ts /\ ts <= End(m, at)
    BY <1>8, <1>12, <1>15, <1>16
  <2> QED
    BY <1>14, <2>1 DEF at

(* The same with a template.  The time counts from the start of the stream, *)
(* the timestamps of a template from the start of its period.               *)
THEOREM TemplateSeekHolds ==
  ASSUME NEW m, IsMpd(m), Template(m), NEW forward \in BOOLEAN,
         NEW ts \in Nat, SeekTemplate(m, forward, ts).found,
         IF forward THEN m.start <= ts ELSE m.start < ts
  PROVE  LET at == SeekTemplate(m, forward, ts).at
         IN /\ WellPlaced(m, at)
            /\ IF forward
               THEN m.start + Timestamp(m, at) <= ts /\ ts < m.start + End(m, at)
               ELSE m.start + Timestamp(m, at) < ts /\ ts <= m.start + End(m, at)
<1> DEFINE t == IF ts > m.start THEN ts - m.start ELSE 0
           d == m.duration
           i == t \div d
           x == IF ~forward /\ i > 0 /\ t % d = 0 THEN i - 1 ELSE i
           at == SeekTemplate(m, forward, ts).at
<1>1. /\ t \in Nat /\ t = ts - m.start /\ (~forward => t > 0)
      /\ d \in Nat \ {0} /\ m.start \in Nat
  BY DEF IsMpd
<1>2. SeekTemplate(m, forward, ts) =
        IF Count(m) > 0 /\ x >= Count(m)
        THEN [found |-> FALSE, at |-> Position(Count(m), 0)]
        ELSE [found |-> TRUE, at |-> Position(x, 0)]
  BY DEF SeekTemplate
<1>3. d = m.duration
  OBVIOUS
<1> HIDE DEF t, d, at
<1>4. /\ i \in Nat /\ d * i <= t /\ t < d * i + d
      /\ t % d = 0 => d * i = t
      /\ t % d # 0 => d * i < t
  BY <1>1, Division
<1> HIDE DEF i
<1>5. /\ x \in Nat /\ d * x \in Int /\ x * d = d * x
      /\ IF forward THEN d * x <= t /\ t < d * x + d
                    ELSE d * x < t /\ t <= d * x + d
  <2>1. CASE ~forward /\ i > 0 /\ t % d = 0
    <3>1. x = i - 1 /\ x \in Nat /\ i = x + 1
      BY <1>4, <2>1
    <3> HIDE DEF x
    <3>2. d * (x + 1) = d * x + d /\ d * x \in Int /\ x * d = d * x
      BY <1>1, <3>1, NextProduct
    <3> QED
      BY <1>1, <1>4, <2>1, <3>1, <3>2
  <2>2. CASE ~forward /\ i > 0 /\ t % d # 0
    BY <1>1, <1>4, <2>2
  <2>3. CASE ~forward /\ i = 0
    <3>1. d * i = 0 /\ x = i
      BY <1>1, <2>3
    <3> QED
      BY <1>1, <1>4, <2>3, <3>1
  <2>4. CASE forward
    BY <1>1, <1>4, <2>4
  <2> QED
    BY <1>4, <2>1, <2>2, <2>3, <2>4
<1> HIDE DEF x
<1>6. at = Position(x, 0) /\ (Count(m) = 0 \/ x < Count(m))
  BY <1>2, <1>5, CountType DEF at
<1>7. at \in Positions /\ at.index = x
  BY <1>6, <1>5 DEF Position, Positions
<1>8. WellPlaced(m, at)
  BY <1>6, <1>5, <1>7, CountType DEF WellPlaced, HasFragment
<1>9. Timestamp(m, at) = d * x /\ End(m, at) = d * x + d
  BY <1>3, <1>5, <1>7 DEF Timestamp, Duration, End
<1>10. IF forward
      THEN m.start + Timestamp(m, at) <= ts /\ ts < m.start + End(m, at)
      ELSE m.start + Timestamp(m, at) < ts /\ ts <= m.start + End(m, at)
  <2>1. ts = m.start + t
    BY <1>1
  <2> QED
    BY <1>1, <1>5, <1>9, <2>1
<1> QED
  BY <1>8, <1>10 DEF at

=============================================================================
