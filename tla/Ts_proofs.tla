----------------------------- MODULE Ts_proofs -----------------------------
(***************************************************************************)
(* Theorems about the MPEG-TS demuxer.  First TsSync, for any file, any    *)
(* list of packet sizes and any seeks of upstream: offsets and places in   *)
(* the file keep their distance.                                           *)
(***************************************************************************)
EXTENDS TsSync, TsIO, SequenceTheorems, WellFoundedInduction, TLAPS

-----------------------------------------------------------------------------
(* Least and largest elements.                                              *)

LEMMA LeastNat ==
  ASSUME NEW S \in SUBSET Nat, S # {}
  PROVE  \E x \in S : \A y \in S : x <= y
<1>1. PICK x \in S : \A y \in S : ~(<<y, x>> \in OpToRel(<, Nat))
  BY NatLessThanWellFounded, WFMin, Zenon
<1>2. ASSUME NEW y \in S PROVE x <= y
  <2>1. ~(y < x)
    BY <1>1 DEF OpToRel
  <2> QED
    BY <2>1
<1> QED
  BY <1>2

(* Max and Min of a set of integers between two bounds are in the set.      *)
LEMMA MinFact ==
  ASSUME NEW S \in SUBSET Int, NEW n \in Int, S # {}, \A x \in S : n <= x
  PROVE  Min(S) \in S /\ \A y \in S : Min(S) <= y
<1> DEFINE D == {x - n : x \in S}
<1>0. D \in SUBSET Nat
  OBVIOUS
<1>1. D # {}
  OBVIOUS
<1> HIDE DEF D
<1>2. PICK d \in D : \A e \in D : d <= e
  BY <1>0, <1>1, LeastNat
<1>3. PICK x \in S : d = x - n
  BY <1>2 DEF D
<1>4. ASSUME NEW y \in S PROVE x <= y
  <2>1. y - n \in D
    BY DEF D
  <2> QED
    BY <2>1, <1>2, <1>3
<1>5. \E z \in S : \A y \in S : z =< y
  BY <1>4
<1> QED
  BY <1>5 DEF Min

LEMMA MaxFact ==
  ASSUME NEW S \in SUBSET Int, NEW n \in Int, S # {}, \A x \in S : x <= n
  PROVE  Max(S) \in S /\ \A y \in S : y <= Max(S)
<1> DEFINE D == {n - x : x \in S}
<1>0. D \in SUBSET Nat
  OBVIOUS
<1>1. D # {}
  OBVIOUS
<1> HIDE DEF D
<1>2. PICK d \in D : \A e \in D : d <= e
  BY <1>0, <1>1, LeastNat
<1>3. PICK x \in S : d = n - x
  BY <1>2 DEF D
<1>4. ASSUME NEW y \in S PROVE x >= y
  <2>1. n - y \in D
    BY DEF D
  <2> QED
    BY <2>1, <1>2, <1>3
<1>5. \E z \in S : \A y \in S : z >= y
  BY <1>4
<1> QED
  BY <1>5 DEF Max

(* A sequence of numbers is bounded: the first length that is not would     *)
(* have one before it.                                                      *)
LEMMA BoundedSeq ==
  ASSUME NEW s \in Seq(Nat)
  PROVE  \E n \in Nat : \A i \in DOMAIN s : s[i] <= n
<1> DEFINE Bounded(k) == \E n \in Nat : \A i \in 1 .. k : s[i] <= n
           Bad == {k \in Nat : k <= Len(s) /\ ~Bounded(k)}
<1>1. Len(s) \in Nat /\ DOMAIN s = 1 .. Len(s) /\ \A i \in 1 .. Len(s) : s[i] \in Nat
  OBVIOUS
<1>2. Bounded(0)
  <2>1. \A i \in 1 .. 0 : s[i] <= 0
    OBVIOUS
  <2> QED
    BY <2>1
<1>3. ASSUME NEW k \in Nat, k + 1 <= Len(s), Bounded(k)
      PROVE  Bounded(k + 1)
  <2>1. PICK n \in Nat : \A i \in 1 .. k : s[i] <= n
    BY <1>3
  <2> DEFINE top == IF s[k + 1] <= n THEN n ELSE s[k + 1]
  <2>2. s[k + 1] \in Nat
    BY <1>1, <1>3
  <2>3. ASSUME NEW i \in 1 .. k + 1 PROVE s[i] <= top
    <3>1. s[i] \in Nat
      BY <1>1, <1>3
    <3>2. i = k + 1 \/ i \in 1 .. k
      OBVIOUS
    <3> QED
      BY <3>1, <3>2, <2>1, <2>2
  <2>4. top \in Nat
    BY <2>2
  <2> QED
    BY <2>3, <2>4
<1>4. Bad \in SUBSET Nat /\ \A k \in Nat : k \in Bad <=> k <= Len(s) /\ ~Bounded(k)
  OBVIOUS
<1> HIDE DEF Bad, Bounded
<1>5. Bad = {}
  <2> SUFFICES ASSUME Bad # {} PROVE FALSE
    OBVIOUS
  <2>1. PICK k \in Bad : \A m \in Bad : k <= m
    BY <1>4, LeastNat
  <2>2. k \in Nat /\ k # 0 /\ k <= Len(s) /\ ~Bounded(k)
    BY <2>1, <1>2, <1>4
  <2>3. k - 1 \in Nat /\ k - 1 \notin Bad /\ k - 1 <= Len(s)
    BY <2>1, <2>2, <1>1
  <2>4. Bounded(k - 1)
    BY <2>3, <1>4
  <2>5. Bounded((k - 1) + 1)
    BY <2>2, <2>3, <2>4, <1>3
  <2> QED
    BY <2>2, <2>5
<1>6. Bounded(Len(s))
  BY <1>1, <1>4, <1>5
<1> QED
  BY <1>1, <1>6 DEF Bounded

LEMMA MaxSizeFact == MaxSize \in Nat \ {0} /\ M2ts \in Nat /\ Prefix \in 0 .. M2ts
<1> DEFINE S == {Sizes[i] : i \in DOMAIN Sizes}
<1>1. Sizes \in Seq(Nat \ {0}) /\ Sizes # <<>>
  BY SyncAssumption
<1>2. Sizes \in Seq(Nat) /\ S \in SUBSET (Nat \ {0}) /\ S # {}
  <2>1. 1 \in DOMAIN Sizes
    BY <1>1
  <2>2. \A i \in DOMAIN Sizes : Sizes[i] \in Nat \ {0}
    BY <1>1
  <2>3. Sizes \in Seq(Nat)
    BY <1>1, <2>2
  <2>4. S \in SUBSET (Nat \ {0})
    BY <2>2
  <2>5. Sizes[1] \in S
    BY <2>1
  <2> HIDE DEF S
  <2> QED
    BY <2>3, <2>4, <2>5
<1>3. PICK n \in Nat : \A i \in DOMAIN Sizes : Sizes[i] <= n
  BY <1>2, BoundedSeq
<1>4. \A x \in S : x <= n
  BY <1>3
<1>5. S \in SUBSET Int
  BY <1>2
<1>6. Max(S) \in S
  <2> HIDE DEF S
  <2> QED
    BY <1>2, <1>4, <1>5, MaxFact
<1>7. MaxSize \in Nat \ {0}
  BY <1>2, <1>6 DEF MaxSize
<1> QED
  BY <1>7, SyncAssumption

-----------------------------------------------------------------------------
(* The packetizer between two calls.                                        *)

PacketSizes0 == {0} \cup {Sizes[i] : i \in DOMAIN Sizes}

PacketizerType ==
  [base : Nat, avail : Nat, mapSize : Nat, mapOffset : Nat, size : PacketSizes0,
   offset : Nat, empty : BOOLEAN, needSync : BOOLEAN]

IsPacketizer(p) ==
  /\ p \in PacketizerType
  /\ FileSize \in Nat /\ p.base + p.avail <= FileSize
  /\ p.mapSize \in {0, p.avail} /\ p.mapOffset <= p.mapSize
  /\ p.empty => p.avail = 0

Place(p) == p.base + p.mapOffset

(* Where a packet is in the file, less the offset it is given.              *)
Distance0(p) == p.offset - Place(p)

(* Nothing is handed out and no more is known.                              *)
Alike(p, q) == q.size = p.size /\ q.offset = p.offset /\ q.empty = p.empty /\ q.needSync = p.needSync

LEMMA SizeFact ==
  /\ \A x \in PacketSizes0 : x \in Nat
  /\ \A i \in DOMAIN Sizes : Sizes[i] \in PacketSizes0 /\ Sizes[i] # 0
<1>1. Sizes \in Seq(Nat \ {0})
  BY SyncAssumption
<1>2. \A i \in DOMAIN Sizes : Sizes[i] \in Nat \ {0}
  BY <1>1
<1> QED
  BY <1>2 DEF PacketSizes0

LEMMA FlushFact ==
  ASSUME NEW p, IsPacketizer(p), NEW n \in 0 .. p.avail
  PROVE  /\ IsPacketizer(FlushBytes(p, n)) /\ Alike(p, FlushBytes(p, n))
         /\ FlushBytes(p, n).base = p.base + n
         /\ FlushBytes(p, n).mapOffset = 0 /\ FlushBytes(p, n).mapSize = 0
         /\ FlushBytes(p, n).avail = p.avail - n
<1> DEFINE base == p.base + n
           avail == p.avail - n
           q == [p EXCEPT !.base = base, !.avail = avail, !.mapSize = 0, !.mapOffset = 0]
<1>0. base \in Nat /\ avail \in Nat /\ FlushBytes(p, n) = q /\ base + avail = p.base + p.avail
  BY DEF FlushBytes, IsPacketizer, PacketizerType
<1> HIDE DEF base, avail
<1>1. /\ q \in PacketizerType
      /\ q.base = base /\ q.avail = avail /\ q.mapSize = 0 /\ q.mapOffset = 0
  BY <1>0 DEF IsPacketizer, PacketizerType
<1>2. Alike(p, q)
  BY DEF IsPacketizer, PacketizerType, Alike
<1> HIDE DEF q
<1>3. q.base + q.avail <= FileSize
  BY <1>0, <1>1 DEF IsPacketizer, PacketizerType
<1>4. q.empty => q.avail = 0
  BY <1>0, <1>1, <1>2 DEF IsPacketizer, PacketizerType, Alike, avail
<1>5. IsPacketizer(q)
  BY <1>1, <1>3, <1>4 DEF IsPacketizer, PacketizerType
<1> QED
  BY <1>0, <1>1, <1>2, <1>5 DEF base, avail

LEMMA MapFact ==
  ASSUME NEW p, IsPacketizer(p), NEW n \in Nat
  PROVE  /\ IsPacketizer(Map(p, n)) /\ Alike(p, Map(p, n)) /\ Place(Map(p, n)) = Place(p)
         /\ Map(p, n).base + Map(p, n).avail = p.base + p.avail
         /\ ~Mapped(Map(p, n), n) => Map(p, n).mapSize = 0
<1>1. CASE Mapped(p, n)
  BY <1>1 DEF Map, Alike
<1>2. CASE ~Mapped(p, n)
  <2> DEFINE q == FlushBytes(p, p.mapOffset)
  <2>1. p.mapOffset \in 0 .. p.avail
    BY DEF IsPacketizer, PacketizerType
  <2>2. /\ IsPacketizer(q) /\ Alike(p, q)
        /\ q.base = p.base + p.mapOffset /\ q.mapOffset = 0 /\ q.mapSize = 0
        /\ q.avail = p.avail - p.mapOffset
    BY <2>1, FlushFact
  <2>3. Map(p, n) = IF q.avail < n THEN q ELSE [q EXCEPT !.mapSize = q.avail]
    BY <1>2 DEF Map
  <2> HIDE DEF q
  <2>4. CASE q.avail < n
    BY <2>2, <2>3, <2>4 DEF IsPacketizer, PacketizerType, Place
  <2>5. CASE ~(q.avail < n)
    <3> DEFINE r == [q EXCEPT !.mapSize = q.avail]
    <3>1. IsPacketizer(r) /\ Alike(q, r) /\ Place(r) = Place(q) /\ r.avail = q.avail /\ r.base = q.base
          /\ r.mapSize = q.avail /\ r.mapOffset = 0
      BY <2>2, <2>5 DEF IsPacketizer, PacketizerType, Place, Alike
    <3>2. Map(p, n) = r
      BY <2>3, <2>5
    <3> HIDE DEF r
    <3>3. Mapped(r, n)
      BY <2>2, <2>5, <3>1 DEF Mapped, IsPacketizer, PacketizerType
    <3> QED
      BY <2>2, <3>1, <3>2, <3>3 DEF IsPacketizer, PacketizerType, Place, Alike
  <2> QED
    BY <2>4, <2>5
<1> QED
  BY <1>1, <1>2

(* mpegts_try_discover_packet_size keeps the offset; a size is found or not. *)
LEMMA DiscoverFact ==
  ASSUME NEW p0, IsPacketizer(p0)
  PROVE  /\ IsPacketizer(Discover(p0)) /\ Discover(p0).offset = p0.offset
         /\ Discover(p0).empty = p0.empty /\ Discover(p0).needSync = p0.needSync
         /\ p0.size = 0 /\ Discover(p0).size = 0 => Discover(p0).mapSize = 0
<1> DEFINE p == Map(p0, 4 * MaxSize)
           room == p.mapSize - p.mapOffset
           tried == {k \in 0 .. room : k + 3 * MaxSize < room}
           sizes(k) == {j \in DOMAIN Sizes : InStep(p, k, Sizes[j], 4)}
           found == {k \in tried : sizes(k) # {}}
           at == p.mapOffset + Min(found)
           size == Sizes[Min(sizes(Min(found)))]
<1>1. MaxSize \in Nat \ {0} /\ M2ts \in Nat /\ Prefix \in Nat
  BY MaxSizeFact
<1>2. IsPacketizer(p) /\ Alike(p0, p) /\ (~Mapped(p, 4 * MaxSize) => p.mapSize = 0)
  BY <1>1, MapFact
<1>3. Discover(p0) =
        IF ~Mapped(p, 4 * MaxSize) THEN p
        ELSE IF found = {} THEN FlushBytes(p, p.mapOffset + Max(tried) + 1)
        ELSE [p EXCEPT !.size = size,
                       !.mapOffset = IF size = M2ts /\ at >= Prefix THEN at - Prefix ELSE at]
  BY DEF Discover
<1> HIDE DEF p
<1>4. CASE ~Mapped(p, 4 * MaxSize)
  BY <1>2, <1>3, <1>4 DEF Alike
<1>5. CASE Mapped(p, 4 * MaxSize)
  <2>1. room \in Nat /\ room >= 4 * MaxSize /\ p.mapOffset + room <= p.avail /\ p.mapOffset \in Nat
    BY <1>1, <1>2, <1>5 DEF Mapped, IsPacketizer, PacketizerType
  <2> HIDE DEF room
  <2>2. /\ tried \in SUBSET Int /\ tried # {} /\ room \in Int
        /\ \A x \in tried : x <= room
        /\ \A x \in tried : x \in Nat /\ x + 1 <= room
    <3>1. 0 \in tried
      BY <1>1, <2>1
    <3>2. \A x \in tried : x \in Nat /\ x <= room /\ x + 1 <= room
      BY <1>1, <2>1
    <3> HIDE DEF tried
    <3> QED
      BY <2>1, <3>1, <3>2
  <2>3. CASE found = {}
    <3>1. Max(tried) \in Nat /\ Max(tried) + 1 <= room
      <4> HIDE DEF tried
      <4>1. Max(tried) \in tried
        BY <2>2, MaxFact
      <4> QED
        BY <4>1, <2>2
    <3> HIDE DEF tried
    <3>2. p.mapOffset + Max(tried) + 1 \in 0 .. p.avail
      BY <3>1, <2>1, <2>2, <1>2 DEF IsPacketizer, PacketizerType
    <3>3. /\ IsPacketizer(FlushBytes(p, p.mapOffset + Max(tried) + 1))
          /\ Alike(p, FlushBytes(p, p.mapOffset + Max(tried) + 1))
          /\ FlushBytes(p, p.mapOffset + Max(tried) + 1).mapSize = 0
      BY <1>2, <3>2, FlushFact
    <3> QED
      BY <1>2, <1>3, <1>5, <2>3, <3>3 DEF Alike
  <2>4. CASE found # {}
    <3>1. found \in SUBSET Int /\ (\A x \in found : 0 <= x) /\ \A x \in found : x \in tried
      <4>1. \A x \in found : x \in tried
        OBVIOUS
      <4> HIDE DEF tried, found
      <4>2. \A x \in found : x \in Nat
        BY <2>2, <4>1
      <4>3. \A x \in found : x \in Int /\ 0 <= x
        BY <4>2
      <4> QED
        BY <4>1, <4>3
    <3>2. Min(found) \in found
      <4> HIDE DEF found
      <4> QED
        BY <2>4, <3>1, MinFact
    <3>3. sizes(Min(found)) # {} /\ Min(found) \in Nat /\ Min(found) <= room
      <4>1. Min(found) \in tried
        BY <3>1, <3>2
      <4>2. sizes(Min(found)) # {}
        BY <3>2
      <4> HIDE DEF tried, found, sizes
      <4> QED
        BY <4>1, <4>2, <2>2
    <3> DEFINE js == sizes(Min(found))
    <3>4. js \in SUBSET DOMAIN Sizes
      OBVIOUS
    <3>5. js # {}
      BY <3>3
    <3> HIDE DEF js
    <3>6. Min(js) \in DOMAIN Sizes
      <4>1. js \in SUBSET Int /\ \A x \in js : 0 <= x
        BY <3>4, SyncAssumption
      <4>2. Min(js) \in js
        BY <3>5, <4>1, MinFact
      <4> QED
        BY <4>2, <3>4
    <3>7. size \in PacketSizes0 /\ size # 0
      BY <3>6, SizeFact DEF js
    <3> HIDE DEF found, size
    <3>8. at \in Nat /\ at <= p.mapSize
      BY <3>3, <2>1, <1>2 DEF IsPacketizer, PacketizerType, room
    <3> HIDE DEF at
    <3>12. Discover(p0) = [p EXCEPT !.size = size,
                       !.mapOffset = IF size = M2ts /\ at >= Prefix THEN at - Prefix ELSE at]
      BY <1>3, <1>5, <2>4
    <3> DEFINE to == IF size = M2ts /\ at >= Prefix THEN at - Prefix ELSE at
               q == [p EXCEPT !.size = size, !.mapOffset = to]
    <3>13. to \in Nat /\ to <= p.mapSize /\ Discover(p0) = q
      BY <1>1, <3>8, <3>12, <1>2 DEF IsPacketizer, PacketizerType
    <3> HIDE DEF to
    <3>9. /\ q \in PacketizerType
          /\ q.offset = p.offset /\ q.empty = p.empty /\ q.needSync = p.needSync
          /\ q.base = p.base /\ q.avail = p.avail /\ q.mapSize = p.mapSize /\ q.mapOffset = to
          /\ q.size = size
      BY <1>2, <3>7, <3>13 DEF IsPacketizer, PacketizerType
    <3>11. IsPacketizer(q)
      <4> HIDE DEF q
      <4> QED
        BY <1>2, <3>9, <3>13 DEF IsPacketizer, PacketizerType
    <3> QED
      BY <3>7, <3>9, <3>13, <3>11, <1>2 DEF Alike
  <2> QED
    BY <2>3, <2>4
<1> QED
  BY <1>4, <1>5

(* mpegts_packetizer_sync counts what it skips.                             *)
LEMMA SyncFact ==
  ASSUME NEW p0, IsPacketizer(p0), p0.size # 0
  PROVE  /\ IsPacketizer(Sync(p0)) /\ Distance0(Sync(p0)) = Distance0(p0)
         /\ Sync(p0).size = p0.size /\ Sync(p0).empty = p0.empty
         /\ Sync(p0).needSync => Sync(p0).mapSize = 0
<1> DEFINE p == Map(p0, 3 * p0.size)
           b == Before(p)
           room == p.mapSize - p.mapOffset
           tried == {k \in b .. room : k + 2 * p.size + b < room}
           found == {k \in tried : InStep(p, k, p.size, 3)}
           later == {j \in 1 .. b : InStep(p, Min(found) + j, p.size, 3)}
           skip == IF found = {} THEN IF tried = {} THEN 0 ELSE Max(tried) + 1 - b
                   ELSE Min(found) - b + (IF later = {} THEN 0 ELSE Min(later))
           q == Skip(p, skip)
<1>1. p0.size \in Nat /\ 3 * p0.size \in Nat
  BY SizeFact DEF IsPacketizer, PacketizerType
<1>2. /\ IsPacketizer(p) /\ Alike(p0, p) /\ Place(p) = Place(p0)
      /\ ~Mapped(p, 3 * p0.size) => p.mapSize = 0
  BY <1>1, MapFact
<1>3. Sync(p0) = IF ~Mapped(p, 3 * p0.size) THEN p
                 ELSE IF found = {} THEN FlushBytes(q, q.mapOffset)
                 ELSE [q EXCEPT !.needSync = FALSE]
  BY DEF Sync
<1> HIDE DEF p
<1>4. b \in Nat /\ p.size = p0.size /\ p.size \in Nat
  BY <1>1, <1>2, MaxSizeFact DEF Before, Alike
<1> HIDE DEF b
<1>5. CASE ~Mapped(p, 3 * p0.size)
  BY <1>2, <1>3, <1>5 DEF Alike, Distance0
<1>6. CASE Mapped(p, 3 * p0.size)
  <2>1. room \in Nat /\ p.mapOffset + room = p.mapSize /\ p.mapOffset \in Nat /\ p.mapSize \in Nat
        /\ p.offset \in Nat
    BY <1>2 DEF IsPacketizer, PacketizerType
  <2> HIDE DEF room
  <2>2. \A x \in tried : x \in Nat /\ b <= x /\ x + 1 <= room /\ x + b <= room /\ x <= room
    BY <1>4, <2>1
  <2>3. \A x \in found : x \in tried
    OBVIOUS
  <2>4. \A x \in later : x \in Nat /\ 1 <= x /\ x <= b
    BY <1>4
  <2> HIDE DEF tried, found, later
  <2>5. skip \in Nat /\ skip <= room
    <3>1. CASE found = {} /\ tried = {}
      BY <3>1, <2>1
    <3>2. CASE found = {} /\ tried # {}
      <4>1. tried \in SUBSET Int /\ room \in Int /\ \A x \in tried : x <= room
        BY <2>1, <2>2
      <4>2. Max(tried) \in tried
        BY <3>2, <4>1, MaxFact
      <4> QED
        BY <3>2, <4>2, <2>1, <2>2, <1>4
    <3>3. CASE found # {}
      <4>0. \A x \in found : x \in Int /\ 0 <= x
        BY <2>2, <2>3
      <4>1. found \in SUBSET Int /\ \A x \in found : 0 <= x
        BY <4>0
      <4>2. Min(found) \in found
        BY <3>3, <4>1, MinFact
      <4>3. Min(found) \in Nat /\ b <= Min(found) /\ Min(found) + b <= room
        BY <4>2, <2>2, <2>3
      <4>4. CASE later = {}
        BY <3>3, <4>3, <4>4, <1>4, <2>1
      <4>5. CASE later # {}
        <5>0. \A x \in later : x \in Int /\ 0 <= x
          BY <2>4
        <5>1. later \in SUBSET Int /\ \A x \in later : 0 <= x
          BY <5>0
        <5>2. Min(later) \in later
          BY <4>5, <5>1, MinFact
        <5>3. Min(later) \in Nat /\ Min(later) <= b
          BY <5>2, <2>4
        <5> QED
          BY <3>3, <4>3, <4>5, <5>3, <1>4, <2>1
      <4> QED
        BY <4>4, <4>5
    <3> QED
      BY <3>1, <3>2, <3>3
  <2> HIDE DEF skip
  <2> DEFINE to == p.mapOffset + skip
             offset == p.offset + skip
             r == [p EXCEPT !.mapOffset = to, !.offset = offset]
  <2>6. to \in Nat /\ to <= p.mapSize /\ offset \in Nat /\ q = r /\ offset - to = p.offset - p.mapOffset
    BY <2>1, <2>5 DEF Skip
  <2> HIDE DEF q, to, offset
  <2>7. /\ r \in PacketizerType /\ r.mapOffset = to /\ r.offset = offset /\ r.base = p.base
        /\ r.avail = p.avail /\ r.mapSize = p.mapSize /\ r.size = p.size /\ r.empty = p.empty
    BY <1>2, <2>6 DEF IsPacketizer, PacketizerType
  <2> HIDE DEF r
  <2>8. IsPacketizer(r)
    BY <1>2, <2>6, <2>7 DEF IsPacketizer
  <2>9. Distance0(r) = Distance0(p)
    BY <1>2, <2>6, <2>7 DEF Distance0, Place, IsPacketizer, PacketizerType
  <2>10. Distance0(p) = Distance0(p0)
    BY <1>2 DEF Distance0, Alike
  <2>11. CASE found = {}
    <3>1. r.mapOffset \in 0 .. r.avail
      BY <2>8 DEF IsPacketizer, PacketizerType
    <3>2. /\ IsPacketizer(FlushBytes(r, r.mapOffset)) /\ Alike(r, FlushBytes(r, r.mapOffset))
          /\ FlushBytes(r, r.mapOffset).base = r.base + r.mapOffset
          /\ FlushBytes(r, r.mapOffset).mapOffset = 0
          /\ FlushBytes(r, r.mapOffset).mapSize = 0
      BY <2>8, <3>1, FlushFact
    <3>3. Sync(p0) = FlushBytes(r, r.mapOffset)
      BY <1>3, <1>6, <2>6, <2>11
    <3>4. Distance0(Sync(p0)) = Distance0(r)
      BY <3>2, <3>3, <2>7 DEF Distance0, Place, Alike, PacketizerType
    <3> QED
      BY <3>2, <3>3, <3>4, <2>7, <2>9, <2>10, <1>2 DEF Alike
  <2>12. CASE found # {}
    <3> DEFINE u == [r EXCEPT !.needSync = FALSE]
    <3>1. /\ u \in PacketizerType /\ u.mapOffset = r.mapOffset /\ u.offset = r.offset /\ u.base = r.base
          /\ u.avail = r.avail /\ u.mapSize = r.mapSize /\ u.size = r.size /\ u.empty = r.empty
          /\ u.needSync = FALSE
      BY <2>7 DEF PacketizerType
    <3>2. Sync(p0) = u
      BY <1>3, <1>6, <2>6, <2>12
    <3> HIDE DEF u
    <3>3. IsPacketizer(u) /\ Distance0(u) = Distance0(r)
      BY <2>8, <3>1 DEF IsPacketizer, Distance0, Place
    <3> QED
      BY <3>1, <3>2, <3>3, <2>7, <2>9, <2>10, <1>2 DEF Alike
  <2> QED
    BY <2>11, <2>12
<1> QED
  BY <1>5, <1>6

(* mpegts_packetizer_clear_packet behind a packet that is counted.          *)
LEMMA ClearFact ==
  ASSUME NEW p, IsPacketizer(p), p.size # 0, Mapped(p, p.size)
  PROVE  LET q == ClearPacket([p EXCEPT !.offset = @ + p.size])
         IN  IsPacketizer(q) /\ Distance0(q) = Distance0(p) /\ q.size = p.size /\ q.empty = p.empty
<1> DEFINE offset == p.offset + p.size
           to == p.mapOffset + p.size
           u == [p EXCEPT !.offset = offset]
           q == [u EXCEPT !.mapOffset = to]
           end == ClearPacket([p EXCEPT !.offset = @ + p.size])
<1>1. p.size \in Nat
  BY SizeFact DEF IsPacketizer, PacketizerType
<1>2. /\ offset \in Nat /\ to \in Nat /\ to <= p.mapSize
      /\ offset - to = p.offset - p.mapOffset
  BY <1>1 DEF IsPacketizer, PacketizerType, Mapped
<1>3. [p EXCEPT !.offset = @ + p.size] = u
  BY DEF IsPacketizer, PacketizerType
<1>4. u.size = p.size /\ u.mapOffset = p.mapOffset
  BY DEF IsPacketizer, PacketizerType
<1>5. end = IF q.mapSize - q.mapOffset < q.size THEN FlushBytes(q, q.mapOffset) ELSE q
  <2>1. [u EXCEPT !.mapOffset = @ + u.size] = q
    BY <1>4 DEF IsPacketizer, PacketizerType
  <2>2. q.size = p.size
    BY DEF IsPacketizer, PacketizerType
  <2>3. end = ClearPacket(u)
    BY <1>3
  <2> HIDE DEF q, u, end
  <2>4. ClearPacket(u) = IF q.mapSize - q.mapOffset < q.size THEN FlushBytes(q, q.mapOffset) ELSE q
    <3> DEFINE v == [u EXCEPT !.mapOffset = @ + u.size]
    <3>1. q.size = u.size
      BY <1>4, <2>2
    <3>2. ClearPacket(u) = IF v.mapSize - v.mapOffset < u.size THEN FlushBytes(v, v.mapOffset) ELSE v
      BY DEF ClearPacket
    <3>3. v = q
      BY <2>1
    <3> HIDE DEF v
    <3> QED
      BY <3>1, <3>2, <3>3
  <2> QED
    BY <2>3, <2>4
<1> HIDE DEF offset, to, end
<1>6. /\ q \in PacketizerType /\ q.mapOffset = to /\ q.offset = offset /\ q.base = p.base
      /\ q.avail = p.avail /\ q.mapSize = p.mapSize /\ q.size = p.size /\ q.empty = p.empty
  BY <1>2 DEF IsPacketizer, PacketizerType
<1> HIDE DEF q
<1>7. IsPacketizer(q)
  BY <1>2, <1>6 DEF IsPacketizer
<1>8. Distance0(q) = Distance0(p)
  BY <1>2, <1>6 DEF Distance0, Place, IsPacketizer, PacketizerType
<1>9. q.mapOffset \in 0 .. q.avail
  BY <1>7 DEF IsPacketizer, PacketizerType
<1>10. /\ IsPacketizer(FlushBytes(q, q.mapOffset)) /\ Alike(q, FlushBytes(q, q.mapOffset))
       /\ Distance0(FlushBytes(q, q.mapOffset)) = Distance0(q)
  <2>1. /\ IsPacketizer(FlushBytes(q, q.mapOffset)) /\ Alike(q, FlushBytes(q, q.mapOffset))
        /\ FlushBytes(q, q.mapOffset).base = q.base + q.mapOffset
        /\ FlushBytes(q, q.mapOffset).mapOffset = 0
    BY <1>7, <1>9, FlushFact
  <2> QED
    BY <1>6, <2>1 DEF Distance0, Place, Alike, PacketizerType
<1>11. IsPacketizer(end) /\ Distance0(end) = Distance0(p) /\ end.size = p.size /\ end.empty = p.empty
  BY <1>5, <1>6, <1>7, <1>8, <1>10 DEF Alike
<1> QED
  BY <1>11 DEF end

-----------------------------------------------------------------------------
(* The invariant: the offset is as far ahead of the place in the file as it *)
(* was when the last packet was handed out, and not at all when the size of *)
(* a packet was known before the last seek.  Nothing is mapped while the    *)
(* caller is not looking, so that what is pushed comes behind what there is. *)
SyncInv ==
  /\ syFile \in Files /\ syLooking \in BOOLEAN
  /\ IsPacketizer(sy) /\ (~syLooking => sy.mapSize = 0)
  /\ syGot \subseteq 0 .. FileSize
  /\ syFrom \in [at : Nat, known : BOOLEAN]
  /\ syLast \in [offset : Nat, at : Nat \cup {-1}]
  /\ syLast.at >= 0 => sy.size # 0 /\ ~sy.empty /\ syLast.offset - syLast.at = Distance0(sy)
  /\ syFrom.known => sy.size # 0 /\ (~sy.empty => Distance0(sy) = 0)
  /\ syFrom.known /\ syLast.at >= 0 => syLast.offset = syLast.at

LEMMA FileFact ==
  ASSUME NEW f \in Files
  PROVE  Len(f.bytes) \in Nat /\ f.jumps \subseteq 0 .. Len(f.bytes)
BY SyncAssumption

LEMMA SyncInitially == SyncInit => SyncInv
<1> SUFFICES ASSUME SyncInit PROVE SyncInv
  OBVIOUS
<1>1. FileSize \in Nat
  BY FileFact DEF SyncInit, FileSize
<1>2. IsPacketizer(sy)
  BY <1>1 DEF SyncInit, IsPacketizer, PacketizerType, PacketSizes0
<1>3. syLast = [offset |-> 0, at |-> -1] /\ syLast.at = -1
  BY DEF SyncInit, NoPacket
<1>4. syFrom = [at |-> 0, known |-> FALSE] /\ syGot = {} /\ syLooking = FALSE /\ syFile \in Files
      /\ sy.mapSize = 0
  BY DEF SyncInit
<1>5. syLast \in [offset : Nat, at : Nat \cup {-1}] /\ ~(syLast.at >= 0)
  BY <1>3
<1>6. syFrom \in [at : Nat, known : BOOLEAN] /\ syFrom.known = FALSE /\ syGot \subseteq 0 .. FileSize
  BY <1>4
<1> QED
  BY <1>1, <1>2, <1>4, <1>5, <1>6 DEF SyncInv

LEMMA PushKeeps == SyncInv /\ Push => SyncInv'
<1> SUFFICES ASSUME SyncInv, Push PROVE SyncInv'
  OBVIOUS
<1> DEFINE read == sy.base + sy.avail
           n == Min({Chunk, FileSize - read})
           avail == sy.avail + n
           offset == IF sy.empty THEN read ELSE sy.offset
           q == [sy EXCEPT !.avail = avail, !.empty = FALSE, !.offset = offset]
<1>1. /\ IsPacketizer(sy) /\ sy.mapSize = 0 /\ sy.mapOffset = 0 /\ FileSize \in Nat /\ read \in Nat /\ read <= FileSize
  BY DEF SyncInv, Push, IsPacketizer, PacketizerType
<1>2. n \in Nat /\ n > 0 /\ n <= FileSize - read
  <2> DEFINE left == FileSize - read
             S == {Chunk, left}
  <2>0. left \in Nat /\ Chunk \in Nat
    BY <1>1, SyncAssumption
  <2>1. n > 0
    BY DEF Push
  <2> HIDE DEF left
  <2>2. S \in SUBSET Int /\ left \in S
    BY <2>0
  <2>3. \A x \in S : x \in Nat /\ 0 <= x
    BY <2>0
  <2>4. n = Min(S)
    BY DEF left
  <2> HIDE DEF S, n
  <2>5. Min(S) \in S /\ \A x \in S : Min(S) <= x
    BY <2>2, <2>3, MinFact
  <2>6. n \in Nat /\ n > 0 /\ n <= left
    BY <2>1, <2>2, <2>3, <2>4, <2>5
  <2> QED
    BY <2>6 DEF left
<1>3. avail \in Nat /\ sy.base + avail <= FileSize /\ offset \in Nat
  <2> HIDE DEF n
  <2> QED
    BY <1>1, <1>2 DEF IsPacketizer, PacketizerType
<1>4. sy' = q
  BY DEF Push, SyncInv, IsPacketizer, PacketizerType
<1>5. UNCHANGED <<syFile, syLast, syGot, syFrom>> /\ syLooking'
  BY DEF Push
<1> HIDE DEF avail, n
<1>6. Distance0(sy) = sy.offset - sy.base /\ (sy.empty => offset = sy.base)
  BY <1>1 DEF Distance0, Place, IsPacketizer, PacketizerType
<1> HIDE DEF offset
<1>7. /\ q \in PacketizerType /\ q.avail = avail /\ q.offset = offset /\ q.empty = FALSE
      /\ q.base = sy.base /\ q.mapSize = 0 /\ q.mapOffset = 0 /\ q.size = sy.size
  BY <1>1, <1>3 DEF IsPacketizer, PacketizerType
<1> HIDE DEF q
<1>8. IsPacketizer(q) /\ Distance0(q) = offset - sy.base
  BY <1>1, <1>3, <1>7 DEF IsPacketizer, PacketizerType, Distance0, Place
<1>9. FileSize' = FileSize
  BY <1>5 DEF FileSize
<1>10. IsPacketizer(sy)'
  BY <1>4, <1>8, <1>9 DEF IsPacketizer
<1>11. (~sy.empty => Distance0(sy)' = Distance0(sy)) /\ (sy.empty => Distance0(sy)' = 0)
  <2>1. Distance0(sy)' = offset - sy.base
    BY <1>4, <1>8 DEF Distance0, Place
  <2>2. ~sy.empty => offset = sy.offset
    BY DEF offset
  <2> QED
    BY <1>1, <1>6, <2>1, <2>2 DEF IsPacketizer, PacketizerType
<1>12. sy'.size = sy.size /\ sy'.empty = FALSE
  BY <1>4, <1>7
<1> QED
  BY <1>5, <1>9, <1>10, <1>11, <1>12 DEF SyncInv

LEMMA SeekKeeps == SyncInv /\ SeekUpstream => SyncInv'
<1> SUFFICES ASSUME SyncInv, SeekUpstream PROVE SyncInv'
  OBVIOUS
<1>1. PICK to \in syFile.jumps :
        /\ sy' = [Cleared(sy) EXCEPT !.base = to]
        /\ syFrom' = [at |-> to, known |-> sy.size # 0]
  BY DEF SeekUpstream
<1>2. syLast' = NoPacket /\ syGot' = {} /\ syFile' = syFile /\ syLooking' = syLooking
  BY DEF SeekUpstream
<1>3. FileSize \in Nat /\ to \in 0 .. FileSize
  BY FileFact DEF SyncInv, FileSize
<1>4. /\ sy' \in PacketizerType /\ sy'.base = to /\ sy'.avail = 0 /\ sy'.mapSize = 0 /\ sy'.mapOffset = 0
      /\ sy'.size = sy.size /\ sy'.empty = TRUE
  <2> DEFINE c == Cleared(sy)
             q == [c EXCEPT !.base = to]
  <2>1. to \in Nat /\ sy \in PacketizerType
    BY <1>3 DEF SyncInv, IsPacketizer
  <2>2. /\ c \in PacketizerType /\ c.avail = 0 /\ c.mapSize = 0 /\ c.mapOffset = 0
        /\ c.size = sy.size /\ c.empty = TRUE
    BY <2>1 DEF Cleared, PacketizerType
  <2> HIDE DEF c
  <2>3. /\ q \in PacketizerType /\ q.base = to /\ q.avail = 0 /\ q.mapSize = 0 /\ q.mapOffset = 0
        /\ q.size = sy.size /\ q.empty = TRUE
    BY <2>1, <2>2 DEF PacketizerType
  <2> HIDE DEF q
  <2>4. sy' = q
    BY <1>1 DEF q, c
  <2> QED
    BY <2>3, <2>4
<1>5. FileSize' = FileSize
  BY <1>2 DEF FileSize
<1>6. IsPacketizer(sy)'
  BY <1>3, <1>4, <1>5 DEF IsPacketizer
<1>7. syLast' \in [offset : Nat, at : Nat \cup {-1}] /\ ~(syLast'.at >= 0)
  BY <1>2 DEF NoPacket
<1>8. syFrom' \in [at : Nat, known : BOOLEAN] /\ syFrom'.known = (sy.size # 0)
  BY <1>1, <1>3
<1> QED
  BY <1>2, <1>4, <1>5, <1>6, <1>7, <1>8 DEF SyncInv

(* The packetizer after the search for a size, for a sync byte and for a    *)
(* packet, with what it says of the packet.                                 *)
LEMMA LookStep ==
  ASSUME SyncInv, Look
  PROVE  \/ /\ IsPacketizer(sy') /\ (~syLooking' => sy'.mapSize = 0) /\ syLooking' \in BOOLEAN
            /\ sy'.empty = sy.empty /\ UNCHANGED <<syLast, syGot>>
            /\ sy.size # 0 => sy'.size = sy.size /\ Distance0(sy') = Distance0(sy)
         \/ \E p : /\ IsPacketizer(p) /\ p.size # 0 /\ Mapped(p, p.size) /\ p.empty = sy.empty
                   /\ sy.size # 0 => p.size = sy.size /\ Distance0(p) = Distance0(sy)
                   /\ sy' = ClearPacket([p EXCEPT !.offset = @ + p.size]) /\ syLooking' = syLooking
                   /\ syLast' = [offset |-> p.offset, at |-> Place(p)]
                   /\ syGot' = syGot \cup {Place(p)}
<1> DEFINE known == IF sy.size = 0 THEN Discover(sy) ELSE sy
           synced == IF known.needSync THEN Sync(known) ELSE known
           p == Map(synced, synced.size)
<1>1. PICK beyond \in BOOLEAN :
        IF known.size = 0 THEN NeedMore(known)
        ELSE IF synced.needSync THEN NeedMore(synced)
        ELSE IF ~Mapped(p, p.size) THEN NeedMore(p)
        ELSE IF ~InStep(p, Before(p), p.size, 1) \/ Elsewhere(p, beyond)
        THEN /\ sy' = [p EXCEPT !.needSync = TRUE]
             /\ UNCHANGED <<syLooking, syLast, syGot>>
        ELSE /\ sy' = ClearPacket([p EXCEPT !.offset = @ + p.size])
             /\ syLast' = [offset |-> p.offset, at |-> p.base + p.mapOffset]
             /\ syGot' = syGot \cup {p.base + p.mapOffset}
             /\ UNCHANGED syLooking
  BY DEF Look
<1>2. /\ IsPacketizer(known) /\ known.empty = sy.empty
      /\ sy.size # 0 => known = sy
      /\ known.size = 0 => known.mapSize = 0
  BY DiscoverFact DEF SyncInv
<1>3. syLooking = TRUE
  BY DEF Look, SyncInv
<1> HIDE DEF known
<1>4. CASE known.size = 0
  BY <1>1, <1>2, <1>4 DEF NeedMore
<1>5. CASE known.size # 0
  <2>1. /\ IsPacketizer(synced) /\ synced.size = known.size /\ synced.empty = known.empty
        /\ Distance0(synced) = Distance0(known) /\ (synced.needSync => synced.mapSize = 0)
    BY <1>2, <1>5, SyncFact
  <2> HIDE DEF synced
  <2>2. CASE synced.needSync
    BY <1>1, <1>2, <1>5, <2>1, <2>2 DEF NeedMore
  <2>3. CASE ~synced.needSync
    <3>1. synced.size \in Nat
      BY <2>1, SizeFact DEF IsPacketizer, PacketizerType
    <3>2. /\ IsPacketizer(p) /\ Alike(synced, p) /\ Place(p) = Place(synced)
          /\ ~Mapped(p, synced.size) => p.mapSize = 0
      BY <2>1, <3>1, MapFact
    <3> HIDE DEF p
    <3>3. p.size = known.size /\ p.empty = sy.empty /\ Distance0(p) = Distance0(known)
      BY <1>2, <2>1, <3>2 DEF Alike, Distance0
    <3>4. CASE ~Mapped(p, p.size)
      BY <1>1, <1>2, <1>5, <2>1, <2>3, <3>2, <3>3, <3>4 DEF NeedMore
    <3>5. CASE Mapped(p, p.size) /\ (~InStep(p, Before(p), p.size, 1) \/ Elsewhere(p, beyond))
      <4> DEFINE q == [p EXCEPT !.needSync = TRUE]
      <4>1. sy' = q /\ UNCHANGED <<syLooking, syLast, syGot>>
        BY <1>1, <1>5, <2>3, <3>5
      <4>2. IsPacketizer(q) /\ q.size = p.size /\ q.empty = p.empty /\ Distance0(q) = Distance0(p)
        BY <3>2 DEF IsPacketizer, PacketizerType, Distance0, Place
      <4> HIDE DEF q
      <4> QED
        BY <1>2, <1>3, <3>3, <4>1, <4>2
    <3>6. CASE Mapped(p, p.size) /\ ~(~InStep(p, Before(p), p.size, 1) \/ Elsewhere(p, beyond))
      <4>1. /\ sy' = ClearPacket([p EXCEPT !.offset = @ + p.size])
            /\ syLast' = [offset |-> p.offset, at |-> p.base + p.mapOffset]
            /\ syGot' = syGot \cup {p.base + p.mapOffset}
            /\ UNCHANGED syLooking
        BY <1>1, <1>5, <2>3, <3>6
      <4> QED
        BY <1>2, <1>5, <3>2, <3>3, <3>6, <4>1 DEF Place
    <3> QED
      BY <3>4, <3>5, <3>6
  <2> QED
    BY <2>2, <2>3
<1> QED
  BY <1>4, <1>5

LEMMA LookKeeps == SyncInv /\ Look => SyncInv' /\ OffsetsMoveTogether
<1> SUFFICES ASSUME SyncInv, Look PROVE SyncInv' /\ OffsetsMoveTogether
  OBVIOUS
<1>1. UNCHANGED <<syFile, syFrom>> /\ FileSize' = FileSize /\ syLooking = TRUE
  BY DEF Look, FileSize, SyncInv
<1>2. sy.size \in PacketSizes0 /\ Distance0(sy) \in Int /\ syLast.offset \in Nat /\ syLast.at \in Int
  BY DEF SyncInv, IsPacketizer, PacketizerType, Distance0, Place
<1>3. CASE /\ IsPacketizer(sy') /\ (~syLooking' => sy'.mapSize = 0) /\ syLooking' \in BOOLEAN
           /\ sy'.empty = sy.empty /\ UNCHANGED <<syLast, syGot>>
           /\ sy.size # 0 => sy'.size = sy.size /\ Distance0(sy') = Distance0(sy)
  <2>1. IsPacketizer(sy)' /\ Distance0(sy)' = Distance0(sy')
    BY <1>1, <1>3 DEF IsPacketizer, Distance0, Place
  <2>2. SyncInv'
    BY <1>1, <1>3, <2>1 DEF SyncInv
  <2>3. OffsetsMoveTogether
    BY <1>2, <1>3 DEF OffsetsMoveTogether
  <2> QED
    BY <2>2, <2>3
<1>4. ASSUME NEW p, IsPacketizer(p), p.size # 0, Mapped(p, p.size), p.empty = sy.empty,
             sy.size # 0 => p.size = sy.size /\ Distance0(p) = Distance0(sy),
             sy' = ClearPacket([p EXCEPT !.offset = @ + p.size]), syLooking' = syLooking,
             syLast' = [offset |-> p.offset, at |-> Place(p)],
             syGot' = syGot \cup {Place(p)}
      PROVE  SyncInv' /\ OffsetsMoveTogether
  <2>1. IsPacketizer(sy') /\ Distance0(sy') = Distance0(p) /\ sy'.size = p.size /\ sy'.empty = p.empty
    BY <1>4, ClearFact
  <2>2. IsPacketizer(sy)' /\ Distance0(sy)' = Distance0(sy')
    BY <1>1, <2>1 DEF IsPacketizer, Distance0, Place
  <2>3. /\ p.size \in Nat /\ p.offset \in Nat /\ Place(p) \in 0 .. FileSize /\ ~p.empty
        /\ Distance0(p) = p.offset - Place(p) /\ FileSize \in Nat
    BY <1>4, SizeFact DEF IsPacketizer, PacketizerType, Place, Mapped, Distance0
  <2>4. syLast' \in [offset : Nat, at : Nat \cup {-1}] /\ syLast'.offset = p.offset /\ syLast'.at = Place(p)
    BY <1>4, <2>3
  <2>5. syGot' \subseteq 0 .. FileSize
    BY <1>4, <2>3 DEF SyncInv
  <2>6. syFrom.known => Distance0(p) = 0
    BY <1>4, <2>3 DEF SyncInv
  <2>7. SyncInv'
    BY <1>1, <1>4, <2>1, <2>2, <2>3, <2>4, <2>5, <2>6 DEF SyncInv
  <2>8. OffsetsMoveTogether
    <3> SUFFICES ASSUME syLast.at >= 0 PROVE syLast'.offset - syLast.offset = syLast'.at - syLast.at
      BY DEF OffsetsMoveTogether
    <3>1. syLast.offset - syLast.at = Distance0(p)
      BY <1>4 DEF SyncInv
    <3> QED
      BY <1>2, <2>3, <2>4, <3>1
  <2> QED
    BY <2>7, <2>8
<1> QED
  BY <1>3, <1>4, LookStep

LEMMA SyncStep == SyncInv /\ [SyncNext]_syncVars => SyncInv' /\ OffsetsMoveTogether
<1> SUFFICES ASSUME SyncInv, [SyncNext]_syncVars PROVE SyncInv' /\ OffsetsMoveTogether
  OBVIOUS
<1>1. syLast.offset \in Int /\ syLast.at \in Int
  BY DEF SyncInv
<1>2. CASE Push
  <2>1. syLast' = syLast
    BY <1>2 DEF Push
  <2> QED
    BY <1>1, <1>2, <2>1, PushKeeps DEF OffsetsMoveTogether
<1>3. CASE Look
  BY <1>3, LookKeeps
<1>4. CASE SeekUpstream
  <2>1. ~(syLast'.at >= 0)
    BY <1>4 DEF SeekUpstream, NoPacket
  <2> QED
    BY <1>4, <2>1, SeekKeeps DEF OffsetsMoveTogether
<1>5. CASE UNCHANGED syncVars
  <2>1. FileSize' = FileSize
    BY <1>5 DEF syncVars, FileSize
  <2>2. IsPacketizer(sy)' /\ Distance0(sy)' = Distance0(sy)
    BY <1>5, <2>1 DEF syncVars, SyncInv, IsPacketizer, Distance0, Place
  <2>3. SyncInv'
    BY <1>5, <2>1, <2>2 DEF SyncInv, syncVars
  <2> QED
    BY <1>1, <1>5, <2>3 DEF syncVars, OffsetsMoveTogether
<1> QED
  BY <1>2, <1>3, <1>4, <1>5 DEF SyncNext

LEMMA SyncInvariant == SyncSpec => []SyncInv
BY SyncInitially, SyncStep, PTL DEF SyncSpec

(* Where the packetizer looks is always within what it has mapped, and what *)
(* it has mapped within the file.                                           *)
THEOREM SyncTypeCorrect == SyncSpec => []SyncTypeOK
<1>1. SyncInv => SyncTypeOK
  <2> SUFFICES ASSUME SyncInv PROVE SyncTypeOK
    OBVIOUS
  <2>1. /\ sy \in PacketizerType /\ FileSize \in Nat /\ sy.base + sy.avail <= FileSize
        /\ sy.mapSize \in {0, sy.avail} /\ sy.mapOffset <= sy.mapSize
    BY DEF SyncInv, IsPacketizer
  <2>2. sy.base \in 0 .. FileSize /\ sy.avail \in 0 .. FileSize /\ sy.mapSize \in 0 .. FileSize
    BY <2>1 DEF PacketizerType
  <2>3. sy \in [base : 0 .. FileSize, avail : 0 .. FileSize, mapSize : 0 .. FileSize,
                mapOffset : Nat, size : PacketSizes0,
                offset : Nat, empty : BOOLEAN, needSync : BOOLEAN]
    BY <2>1, <2>2 DEF PacketizerType
  <2> QED
    BY <2>1, <2>3 DEF SyncInv, SyncTypeOK, PacketSizes0
<1> QED
  BY <1>1, SyncInvariant, PTL

(* The offset by which the demuxer relates PCRs to places and seeks moves   *)
(* with the adapter whatever is skipped, mapped or flushed between packets. *)
THEOREM OffsetsStayTogether == SyncSpec => OffsetsMove
<1>1. SyncInv /\ [SyncNext]_syncVars => [OffsetsMoveTogether]_syncVars
  BY SyncStep
<1> QED
  BY <1>1, SyncInvariant, PTL DEF SyncSpec, OffsetsMove

(* When the size of a packet was known before the last seek, the offset of  *)
(* a packet is its place in the file.                                       *)
THEOREM SeekMakesOffsetsTrue == SyncSpec => []OffsetTrueAfterSeek
<1>1. SyncInv => OffsetTrueAfterSeek
  BY DEF SyncInv, OffsetTrueAfterSeek
<1> QED
  BY <1>1, SyncInvariant, PTL
=============================================================================
