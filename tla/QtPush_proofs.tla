--------------------------- MODULE QtPush_proofs ---------------------------
(***************************************************************************)
(* Theorems about QtPush: for every set of plain files, any buffers and    *)
(* any seeks, the demuxer in push mode keeps its place and pushes what the *)
(* tracks say.                                                             *)
(*                                                                         *)
(* The inductive invariant says where the demuxer is in the file.  What    *)
(* holds even after a failure: types, tracks and flags agree (TypeOf,      *)
(* IndexOf, FlagsOf), the end is the end (EndOf), the seek covers what is  *)
(* asked (CoversOf), what is out is of the tracks, in a row and complete   *)
(* up to where they stand (OutOf, InRow, DoneOf, TrickOf), no media data   *)
(* lies before the first that was jumped over (FirstOf).  While nothing has failed:   *)
(* adapter, offset and upstream meet (LinkOf), the state is that of an     *)
(* atom of the file (AtomOf), what is needed next is the sample of lowest  *)
(* place (MovieOf), none of which is behind (AheadOf), and media data      *)
(* still to come or kept is in front (NoTracksOf, HeadOf, FragmentsOf).    *)
(*                                                                         *)
(* The parts take file, demuxer, upstream, seek and output as arguments,   *)
(* so that a lemma can speak of a demuxer in the middle of a step.         *)
(***************************************************************************)
EXTENDS QtPush, SequenceTheorems, WellFoundedInduction, TLAPS

(* Where the tracks stand: none before its first sample.                    *)
Stand(q) == Positioned(q.index)
Off(q, k, i) == q.tracks[k].samples[i].off
Numbers(q, k) == DOMAIN q.tracks[k].samples

(* The cells of a file from one on.                                         *)
IsRun(cells, first) == \A i \in DOMAIN cells : cells[i] = first + i - 1
Jumps(f) == f.seekable /\ f.big

(* Media tracks that are through; media tracks of which nothing is behind.  *)
NoMediaLeft(q) ==
  \A k \in DOMAIN q.tracks : IsMedia(q.tracks[k]) => Stand(q)[k] > Count(q.tracks[k])
MediaAhead(q) ==
  \A k \in DOMAIN q.tracks : IsMedia(q.tracks[k]) =>
    \A i \in Numbers(q, k) : Stand(q)[k] <= i => q.offset <= Off(q, k, i)

(* What is needed next reaches to the sample of lowest place.               *)
NextAt(q) ==
  /\ q.todrop \in Nat /\ q.needed = q.todrop + 1
  /\ \E k \in DOMAIN q.tracks :
       Stand(q)[k] \in Numbers(q, k) /\ Off(q, k, Stand(q)[k]) = q.offset + q.todrop
  /\ \A k \in DOMAIN q.tracks : IsMedia(q.tracks[k]) /\ Stand(q)[k] \in Numbers(q, k) =>
       q.offset + q.todrop <= Off(q, k, Stand(q)[k])

(* The records hold these fields and no other.                              *)
Fields ==
  {"state", "needed", "offset", "todrop", "adapter", "busy", "err", "eos", "mdatleft",
   "mdatbuf", "mdatoffset", "restore", "restoreOff", "firstMdat", "gotMoov", "lastMoov",
   "tracks", "index", "from", "run", "trick", "rate", "pushedI", "discont", "tricking",
   "flushing", "covers"}
IsQt(q) == q = [x \in Fields |-> q[x]]
IsUp(u) == u = [pos |-> u.pos, segment |-> u.segment]
IsSeek(s) == s = [step |-> s.step, left |-> s.left, offset |-> s.offset, want |-> s.want]

(* The tracks a header and the fragments behind it have made.               *)
IsIndex(f, tracks) ==
  /\ tracks \in Seq(TrackIn(f)) /\ DOMAIN tracks = DOMAIN f.tracks
  /\ \A k \in DOMAIN tracks : tracks[k].kind = f.tracks[k].kind
  /\ Ordered(Rows(tracks))
  /\ ~f.fragmented => tracks = f.tracks

(* Types, and what the flags say of each other.                             *)
TypeOf(f, q, u, s) ==
  /\ PlainFile(f)
  /\ IsQt(q) /\ IsUp(u) /\ IsSeek(s)
  /\ q.state \in {"initial", "header", "buffer_mdat", "movie"}
  /\ q.needed \in -1..f.size + 1 /\ q.offset \in 0..f.size /\ q.todrop \in Nat
  /\ q.adapter \in Seq(0..f.size - 1) /\ q.mdatbuf \in Seq(0..f.size - 1)
  /\ q.mdatleft \in Nat /\ q.run \in Nat /\ q.rate \in {1, -1}
  /\ q.busy \in BOOLEAN /\ q.err \in BOOLEAN /\ q.eos \in BOOLEAN /\ q.gotMoov \in BOOLEAN
  /\ q.trick \in BOOLEAN /\ q.pushedI \in BOOLEAN /\ q.discont \in BOOLEAN
  /\ q.tricking \in BOOLEAN /\ q.flushing \in BOOLEAN
  /\ u.pos \in 0..f.size /\ u.segment \in -1..f.size
  /\ s.step \in {"none", "flushing"}

IndexOf(f, q) ==
  /\ q.gotMoov = (q.tracks # <<>>)
  /\ q.tracks # <<>> => IsIndex(f, q.tracks)
  /\ q.index \in [DOMAIN q.tracks -> Nat] /\ q.from \in [DOMAIN q.tracks -> Nat \ {0}]
  /\ \A k \in DOMAIN q.tracks : q.from[k] <= Stand(q)[k]

FlagsOf(f, q, u, s) ==
  /\ q.flushing = (s.step = "flushing")
  /\ s.step = "flushing" => s.offset # NoEntry
  /\ q.tricking => q.busy /\ q.state = "movie" /\ (q.trick \/ q.flushing)
  /\ q.flushing \/ q.trick \/ q.tricking => ~f.fragmented /\ q.state = "movie"
  /\ q.state = "movie" => q.tracks # <<>>
  /\ f.fragmented => q.restore = <<>> /\ q.mdatbuf = <<>> /\ q.firstMdat = NoEntry
  /\ q.busy => ~q.eos /\ ~q.err
  /\ q.eos => u.segment = NoSegment
  /\ u.segment # NoSegment /\ q.state = "movie" => ~q.busy

(* At the end nothing is left; a seek leaves no track too far on.           *)
EndOf(q) == q.eos /\ ~q.trick /\ ~q.flushing => NoMediaLeft(q)

CoversOf(f, q, s) ==
  /\ \A k \in DOMAIN q.covers : k \in DOMAIN q.tracks /\ q.from[k] <= q.covers[k]
  /\ s.offset # NoEntry =>
       /\ ~f.fragmented /\ q.tracks # <<>> /\ s.offset \in 0..f.size
       /\ DOMAIN s.want = DOMAIN q.tracks
       /\ \A k \in DOMAIN q.tracks : SampleFrom(q.tracks[k], s.offset, TRUE) <= s.want[k]

(* What is out.                                                             *)
OutOf(q, o) ==
  /\ o \in Seq([track : Nat, index : Nat, cell : Nat, run : Nat])
  /\ \A n \in DOMAIN o :
       /\ o[n].track \in DOMAIN q.tracks /\ o[n].index \in Numbers(q, o[n].track)
       /\ o[n].cell = Off(q, o[n].track, o[n].index) /\ o[n].run <= q.run
       /\ o[n].run = q.run =>
            q.from[o[n].track] <= o[n].index /\ o[n].index < Stand(q)[o[n].track]

(* The samples out are consecutive, and reach to where the tracks stand.    *)
InRow(o) ==
  \A m, n \in DOMAIN o :
    m < n /\ o[m].track = o[n].track /\ o[m].run = o[n].run =>
      /\ o[m].index < o[n].index
      /\ \A i \in o[m].index..o[n].index :
           \E j \in m..n : o[j].track = o[m].track /\ o[j].index = i

DoneOf(q, u, o) ==
  ~q.trick /\ ~q.flushing /\ ~(u.segment # NoSegment /\ q.state = "movie") =>
    \A k \in DOMAIN q.tracks : \A i \in q.from[k]..Stand(q)[k] - 1 :
      \E n \in DOMAIN o : o[n].track = k /\ o[n].index = i /\ o[n].run = q.run

(* A trick play whose key frame is still to come has put out none in this   *)
(* run.                                                                     *)
TrickOf(q, u, o) ==
  q.trick /\ ~q.flushing /\ u.segment = NoSegment /\ ~q.pushedI /\ ~q.tricking /\ ~q.eos =>
    \A n \in DOMAIN o : o[n].run # q.run

-----------------------------------------------------------------------------
(* While nothing has failed.                                                *)
SamplesBelow(q, p) == \A k \in DOMAIN q.tracks : \A i \in Numbers(q, k) : Off(q, k, i) < p
Apart(f, q) ==
  /\ q.state = "movie" /\ ~f.fragmented /\ (q.busy \/ q.flushing) /\ q.needed # NoEntry
  /\ SamplesBelow(q, q.offset + Len(q.adapter))

(* The adapter begins at the offset and upstream goes on where it ends,     *)
(* unless a trick play has led it away while the last samples are played.   *)
LinkOf(f, q, u) ==
  /\ IsRun(q.adapter, q.offset)
  /\ ~q.eos /\ u.segment = NoSegment => u.pos = q.offset + Len(q.adapter) \/ Apart(f, q)
  /\ u.segment # NoSegment =>
       /\ q.adapter = <<>> /\ u.pos = u.segment
       /\ IF q.state = "movie" THEN ~f.fragmented
          ELSE q.state = "initial" /\ q.offset = u.segment
  /\ ~q.busy /\ ~q.eos /\ u.segment = NoSegment /\ ~q.flushing =>
       q.needed = NoEntry \/ Len(q.adapter) < q.needed

(* Outside the media data the demuxer is at an atom of the file.            *)
AtomOf(f, q, u) ==
  /\ q.state = "initial" => q.needed = Head1
  /\ q.state \in {"header", "buffer_mdat"} =>
       \E a \in Range(f.atoms) :
         /\ a.first = q.offset /\ a.len = q.needed
         /\ q.state = "header" => a.kind # "mdat" /\ (q.mdatbuf = <<>> \/ a.kind = "moov")
         /\ q.state = "buffer_mdat" => a.kind # "moov"
  /\ q.state = "buffer_mdat" => ~f.fragmented /\ ~Jumps(f) /\ q.tracks = <<>>

(* In the media data the next sample is known, or that there is none.       *)
MovieOf(f, q, u) ==
  q.state = "movie" =>
    /\ q.mdatbuf = <<>> /\ \A k \in DOMAIN q.tracks : q.index[k] >= 1
    /\ u.segment = NoSegment =>
         \/ NextAt(q)
         \/ ~f.fragmented /\ q.needed = NoEntry /\ NoMediaLeft(q)
         \/ f.fragmented /\ q.needed = q.mdatleft /\ q.todrop = q.mdatleft /\ NoMediaLeft(q)
    /\ f.fragmented => \E d \in AtomsOf(f, "mdat") :
         d.first <= q.offset /\ q.offset + q.mdatleft = d.first + d.len

AheadOf(q, u) == u.segment = NoSegment \/ q.state # "movie" => MediaAhead(q)

(* Where the media data lies while there are no tracks, and once there are. *)
FirstOf(f, q) ==
  q.firstMdat # NoEntry =>
    q.firstMdat \in 0..f.size /\ \A d \in AtomsOf(f, "mdat") : q.firstMdat <= d.first

Kept(f, q) ==
  /\ IsRun(q.mdatbuf, q.mdatoffset) /\ q.mdatoffset + Len(q.mdatbuf) = q.offset
  /\ \A d \in AtomsOf(f, "mdat") : q.mdatoffset <= d.first
  /\ \E d \in AtomsOf(f, "mdat") : d.first = q.mdatoffset

MdatAhead(f, q) == \A d \in AtomsOf(f, "mdat") : q.offset <= d.first

NoTracksOf(f, q) ==
  q.tracks = <<>> =>
    /\ \A m \in AtomsOf(f, "moov") : q.offset <= m.first
    /\ ~f.fragmented =>
         IF Jumps(f) THEN q.mdatbuf = <<>> /\ (q.firstMdat = NoEntry => MdatAhead(f, q))
         ELSE /\ q.firstMdat = NoEntry
              /\ IF q.mdatbuf = <<>> /\ q.state # "buffer_mdat" THEN MdatAhead(f, q)
                 ELSE Kept(f, q)

HeadOf(f, q) ==
  q.tracks # <<>> /\ ~f.fragmented /\ q.state # "movie" => q.mdatbuf = <<>> /\ MdatAhead(f, q)

(* Fragments: those behind have been read, those ahead have not.            *)
Known(q, a) ==
  \A k \in DOMAIN q.tracks : \A i \in DOMAIN a.adds[k] :
    \E j \in Numbers(q, k) : Off(q, k, j) = a.adds[k][i].off
FragmentsOf(f, q) ==
  f.fragmented /\ q.tracks # <<>> =>
    /\ \A m \in AtomsOf(f, "moov") : m.first < q.offset
    /\ \A a \in AtomsOf(f, "moof") :
         IF a.first < q.offset THEN Known(q, a) ELSE SamplesBelow(q, a.first)
    /\ \A k \in DOMAIN q.tracks : Stand(q)[k] <= PastEnd(q.tracks[k])
    /\ \A k \in DOMAIN q.tracks : \A i \in Numbers(q, k) :
         /\ \E d \in AtomsOf(f, "mdat") : Within(d, Off(q, k, i))
         /\ i < Stand(q)[k] => Off(q, k, i) < q.offset

(* The invariant.                                                           *)
LiveOf(f, q, u) ==
  /\ LinkOf(f, q, u) /\ AtomOf(f, q, u) /\ MovieOf(f, q, u) /\ AheadOf(q, u)
  /\ NoTracksOf(f, q) /\ HeadOf(f, q) /\ FragmentsOf(f, q)

InvOf(f, q, u, s, o) ==
  /\ TypeOf(f, q, u, s) /\ IndexOf(f, q) /\ FlagsOf(f, q, u, s) /\ EndOf(q) /\ CoversOf(f, q, s)
  /\ OutOf(q, o) /\ InRow(o) /\ DoneOf(q, u, o) /\ TrickOf(q, u, o) /\ FirstOf(f, q)
  /\ ~q.err => LiveOf(f, q, u)
PushInv == InvOf(file, qt, up, seek, out)

-----------------------------------------------------------------------------
(* Least and largest elements.                                              *)

(* A set of natural numbers that is not empty has a least element.          *)
LEMMA LeastNat ==
  ASSUME NEW S \in SUBSET Nat, S # {}
  PROVE  \E x \in S : \A y \in S : x <= y
<1>1. PICK x \in S : \A y \in S : ~(<<y, x>> \in OpToRel(<, Nat))
  BY NatLessThanWellFounded, WFMin, Zenon
<1>2. ASSUME NEW y \in S PROVE x <= y
  <2>1. ~(y < x)
    BY <1>1 DEF OpToRel
  <2> QED
    BY <2>1
<1> QED
  BY <1>2

(* Max and Min of a set of integers between two bounds are in the set.      *)
LEMMA MinFact ==
  ASSUME NEW S \in SUBSET Int, NEW n \in Int, S # {}, \A x \in S : n <= x
  PROVE  Min(S) \in S /\ \A y \in S : Min(S) <= y
<1> DEFINE D == {x - n : x \in S}
<1>0. D \in SUBSET Nat
  OBVIOUS
<1>1. D # {}
  OBVIOUS
<1> HIDE DEF D
<1>2. PICK d \in D : \A e \in D : d <= e
  BY <1>0, <1>1, LeastNat
<1>3. PICK x \in S : d = x - n
  BY <1>2 DEF D
<1>4. ASSUME NEW y \in S PROVE x <= y
  <2>1. y - n \in D
    BY DEF D
  <2> QED
    BY <2>1, <1>2, <1>3
<1>5. \E z \in S : \A y \in S : z =< y
  BY <1>4
<1> QED
  BY <1>5 DEF Min

LEMMA MaxFact ==
  ASSUME NEW S \in SUBSET Int, NEW n \in Int, S # {}, \A x \in S : x <= n
  PROVE  Max(S) \in S /\ \A y \in S : y <= Max(S)
<1> DEFINE D == {n - x : x \in S}
<1>0. D \in SUBSET Nat
  OBVIOUS
<1>1. D # {}
  OBVIOUS
<1> HIDE DEF D
<1>2. PICK d \in D : \A e \in D : d <= e
  BY <1>0, <1>1, LeastNat
<1>3. PICK x \in S : d = n - x
  BY <1>2 DEF D
<1>4. ASSUME NEW y \in S PROVE x >= y
  <2>1. n - y \in D
    BY DEF D
  <2> QED
    BY <2>1, <1>2, <1>3
<1>5. \E z \in S : \A y \in S : z >= y
  BY <1>4
<1> QED
  BY <1>5 DEF Max

(* The fields that stay as they are.                                        *)
Keeps(r, q, names) == \A x \in names : r[x] = q[x]

(* What a plain file says of its atoms.                                     *)
LEMMA AtomFact ==
  ASSUME NEW f, PlainFile(f)
  PROVE  /\ f.size \in Nat
         /\ \A a \in Range(f.atoms) : /\ a.first \in Nat /\ a.len \in Nat \ {0}
                                     /\ a.first + a.len <= f.size
         /\ \A a, b \in Range(f.atoms) :
              a = b \/ a.first + a.len <= b.first \/ b.first + b.len <= a.first
         /\ \A a, b \in Range(f.atoms) : a.first = b.first => a = b
         /\ \A a, b \in AtomsOf(f, "moov") : a = b
         /\ \A kind : AtomsOf(f, kind) \subseteq Range(f.atoms)
         /\ \A kind : \A a \in AtomsOf(f, kind) : a.kind = kind
         /\ \A a \in Range(f.atoms) : a \in AtomsOf(f, a.kind)
         /\ f.fragmented \in BOOLEAN /\ f.big \in BOOLEAN /\ f.seekable \in BOOLEAN
         /\ f.pushes \subseteq Nat \ {0}
<1>1. SoundFile(f)
  BY DEF PlainFile
<1>2. \A kind : AtomsOf(f, kind) \subseteq Range(f.atoms)
  BY DEF AtomsOf
<1>3. /\ f.size \in Nat
      /\ \A a \in Range(f.atoms) : /\ a.first \in Nat /\ a.len \in Nat \ {0}
                                  /\ a.first + a.len <= f.size
      /\ \A a, b \in Range(f.atoms) :
              a = b \/ a.first + a.len <= b.first \/ b.first + b.len <= a.first
  BY <1>1 DEF SoundFile
<1>4. \A a, b \in Range(f.atoms) : a.first = b.first => a = b
  BY <1>3
<1>5. \A kind : \A a \in AtomsOf(f, kind) : a.kind = kind
  BY DEF AtomsOf
<1>6. \A a \in Range(f.atoms) : a \in AtomsOf(f, a.kind)
  BY DEF AtomsOf
<1>7. /\ \A a, b \in AtomsOf(f, "moov") : a = b
      /\ f.fragmented \in BOOLEAN /\ f.big \in BOOLEAN /\ f.seekable \in BOOLEAN
      /\ f.pushes \subseteq Nat \ {0}
  BY <1>1 DEF SoundFile
<1> QED
  BY <1>2, <1>3, <1>4, <1>5, <1>6, <1>7

(* A cell of the media data is behind every other atom that is not behind   *)
(* it.                                                                      *)
LEMMA WithinFact ==
  ASSUME NEW f, PlainFile(f), NEW d \in AtomsOf(f, "mdat"), NEW c \in Int, Within(d, c),
         NEW a \in Range(f.atoms), a.kind # "mdat", a.first <= c
  PROVE  a.first + a.len <= d.first /\ a.first + a.len <= c
<1>1. a # d /\ d \in Range(f.atoms) /\ d.kind = "mdat"
  BY AtomFact
<1>2. d.first < c /\ c < d.first + d.len
  BY DEF Within
<1>3. a.first \in Nat /\ a.len \in Nat /\ d.first \in Nat /\ d.len \in Nat
  BY <1>1, AtomFact
<1>4. a.first + a.len <= d.first \/ d.first + d.len <= a.first
  BY <1>1, AtomFact
<1> QED
  BY <1>2, <1>3, <1>4

(* What a plain file says of its tracks.                                    *)
LEMMA TracksFact ==
  ASSUME NEW f, PlainFile(f)
  PROVE  /\ f.tracks \in Seq(TrackIn(f)) /\ f.tracks # <<>>
         /\ \E k \in DOMAIN f.tracks : IsMedia(f.tracks[k])
         /\ \A k \in DOMAIN f.tracks : f.tracks[k].edits # <<>>
<1>1. /\ f.tracks \in Seq(TrackIn(f))
      /\ \E k \in DOMAIN f.tracks : IsMedia(f.tracks[k])
      /\ \A k \in DOMAIN f.tracks : f.tracks[k].edits # <<>>
  BY DEF PlainFile, SoundFile
<1>2. f.tracks # <<>>
  BY <1>1
<1> QED
  BY <1>1, <1>2

(* The samples of a track and their places.                                 *)
LEMMA TypedSamples ==
  ASSUME NEW f, PlainFile(f), NEW t \in TrackIn(f)
  PROVE  /\ t.samples \in Seq(SampleIn(f)) /\ Count(t) \in Nat /\ DOMAIN t.samples = 1..Count(t)
         /\ t.edits \in Seq([time : Int, stop : Int, media : Nat])
         /\ t = [kind |-> t.kind, samples |-> t.samples, edits |-> t.edits]
         /\ \A i \in DOMAIN t.samples :
              /\ t.samples[i].off \in 0..f.size - 1 /\ t.samples[i].size \in Nat \ {0}
              /\ t.samples[i].pts \in Int /\ t.samples[i].key \in BOOLEAN
<1>1. /\ t.samples \in Seq(SampleIn(f)) /\ t.edits \in Seq([time : Int, stop : Int, media : Nat])
      /\ t = [kind |-> t.kind, samples |-> t.samples, edits |-> t.edits]
  BY DEF TrackIn
<1>2. Count(t) \in Nat /\ DOMAIN t.samples = 1..Count(t)
  BY <1>1 DEF Count
<1>3. ASSUME NEW i \in DOMAIN t.samples
      PROVE  t.samples[i] \in SampleIn(f)
  BY <1>1, <1>2, <1>3
<1>4. ASSUME NEW i \in DOMAIN t.samples
      PROVE  /\ t.samples[i].off \in 0..f.size - 1 /\ t.samples[i].size \in Nat \ {0}
             /\ t.samples[i].pts \in Int /\ t.samples[i].key \in BOOLEAN
  BY <1>3, <1>4 DEF SampleIn
<1> QED
  BY <1>1, <1>2, <1>4

LEMMA SampleFact ==
  ASSUME NEW f, PlainFile(f), NEW q, IndexOf(f, q), NEW k \in DOMAIN q.tracks
  PROVE  /\ q.tracks[k] \in TrackIn(f) /\ IsIndex(f, q.tracks) /\ q.tracks # <<>>
         /\ q.tracks[k].samples \in Seq(SampleIn(f))
         /\ Count(q.tracks[k]) \in Nat /\ Numbers(q, k) = 1..Count(q.tracks[k])
         /\ \A i \in Numbers(q, k) : Off(q, k, i) \in 0..f.size - 1
         /\ \A i, j \in Numbers(q, k) : i < j => Off(q, k, i) < Off(q, k, j)
         /\ \A l \in DOMAIN q.tracks : k # l =>
              \A i \in Numbers(q, k), j \in Numbers(q, l) : Off(q, k, i) # Off(q, l, j)
<1>1. q.tracks # <<>>
  BY Zenon, SMT
<1>2. IsIndex(f, q.tracks)
  BY <1>1 DEF IndexOf
<1>3. q.tracks \in Seq(TrackIn(f)) /\ Ordered(Rows(q.tracks))
  BY <1>2 DEF IsIndex
<1>4. q.tracks[k] \in TrackIn(f)
  BY <1>3
<1>5. /\ q.tracks[k].samples \in Seq(SampleIn(f))
      /\ Count(q.tracks[k]) \in Nat /\ Numbers(q, k) = 1..Count(q.tracks[k])
      /\ \A i \in Numbers(q, k) : Off(q, k, i) \in 0..f.size - 1
  BY <1>4, TypedSamples DEF Numbers, Off
<1>6. /\ DOMAIN Rows(q.tracks) = DOMAIN q.tracks
      /\ \A l \in DOMAIN q.tracks : Rows(q.tracks)[l] = q.tracks[l].samples
  BY DEF Rows
<1>7. \A i, j \in Numbers(q, k) : i < j => Off(q, k, i) < Off(q, k, j)
  BY <1>3, <1>6 DEF Ordered, Numbers, Off
<1>8. \A l \in DOMAIN q.tracks : k # l =>
        \A i \in Numbers(q, k), j \in Numbers(q, l) : Off(q, k, i) # Off(q, l, j)
  BY <1>3, <1>6 DEF Ordered, Numbers, Off
<1> QED
  BY <1>1, <1>2, <1>4, <1>5, <1>7, <1>8

(* Where the tracks stand is a sample number, the index once it is set.     *)
LEMMA StandFact ==
  ASSUME NEW f, NEW q, IndexOf(f, q)
  PROVE  /\ Stand(q) \in [DOMAIN q.tracks -> Nat \ {0}]
         /\ Positioned(Stand(q)) = Stand(q)
         /\ \A k \in DOMAIN q.tracks : q.index[k] >= 1 => Stand(q)[k] = q.index[k]
BY DEF IndexOf, Stand, Positioned, Unset

(* Types of what is out.                                                    *)
LEMMA OutFact ==
  ASSUME NEW q, NEW o, OutOf(q, o)
  PROVE  /\ Len(o) \in Nat /\ DOMAIN o = 1..Len(o)
         /\ \A n \in DOMAIN o :
              /\ o[n].track \in Nat /\ o[n].index \in Nat /\ o[n].cell \in Nat /\ o[n].run \in Nat
              /\ o[n].run <= q.run
<1> DEFINE R == [track : Nat, index : Nat, cell : Nat, run : Nat]
<1>1. o \in Seq(R)
  BY DEF OutOf
<1> HIDE DEF R
<1>2. Len(o) \in Nat /\ DOMAIN o = 1..Len(o) /\ \A n \in DOMAIN o : o[n] \in R
  BY <1>1
<1>3. \A x \in R : x.track \in Nat /\ x.index \in Nat /\ x.cell \in Nat /\ x.run \in Nat
  BY DEF R
<1>4. \A n \in DOMAIN o : o[n].run <= q.run
  BY DEF OutOf
<1> QED
  BY <1>2, <1>3, <1>4
-----------------------------------------------------------------------------
(* What the operators make of a demuxer.                                    *)

(* What WithNextEntry does, whatever it finds.                              *)
LEMMA EntryShape ==
  ASSUME NEW q, IsQt(q)
  PROVE  /\ IsQt(WithNextEntry(q)) /\ Keeps(WithNextEntry(q), q, Fields \ {"index", "todrop", "needed"})
         /\ WithNextEntry(q).index = Stand(q)
<1> DEFINE p == [q EXCEPT !.index = Positioned(@)]
           ahead == {k \in Left(p) : IsMedia(p.tracks[k]) \/ Due(p, k).off >= p.offset}
           lowest == Min({Due(p, k).off : k \in ahead})
<1>1. IsQt(p) /\ Keeps(p, q, Fields \ {"index", "todrop", "needed"}) /\ p.index = Stand(q)
  BY DEF IsQt, Fields, Keeps, Stand
<1>2. WithNextEntry(q) = IF ahead = {} \/ lowest < p.offset THEN [p EXCEPT !.needed = NoEntry]
       ELSE [p EXCEPT !.todrop = lowest - p.offset, !.needed = 1 + lowest - p.offset]
  BY DEF WithNextEntry
<1> HIDE DEF p, ahead, lowest
<1>3. CASE ahead = {} \/ lowest < p.offset
  <2>1. WithNextEntry(q) = [p EXCEPT !.needed = NoEntry]
    BY <1>2, <1>3
  <2> QED
    BY <2>1, <1>1 DEF IsQt, Fields, Keeps
<1>4. CASE ~(ahead = {} \/ lowest < p.offset)
  <2>1. WithNextEntry(q) = [p EXCEPT !.todrop = lowest - p.offset, !.needed = 1 + lowest - p.offset]
    BY <1>2, <1>4
  <2> QED
    BY <2>1, <1>1 DEF IsQt, Fields, Keeps
<1> QED
  BY <1>3, <1>4

(* What WithNextEntry finds: the sample of lowest place, or that no media   *)
(* is left.                                                                 *)
LEMMA NextEntry ==
  ASSUME NEW f, PlainFile(f), NEW q, IsQt(q), IndexOf(f, q), q.offset \in 0..f.size,
         MediaAhead(q)
  PROVE  \/ NextAt(WithNextEntry(q)) /\ WithNextEntry(q).needed \in 1..f.size
         \/ /\ WithNextEntry(q).needed = NoEntry /\ WithNextEntry(q).todrop = q.todrop
            /\ NoMediaLeft(WithNextEntry(q))
<1> DEFINE p == [q EXCEPT !.index = Positioned(@)]
           ahead == {k \in Left(p) : IsMedia(p.tracks[k]) \/ Due(p, k).off >= p.offset}
           dues == {Due(p, k).off : k \in ahead}
           lowest == Min(dues)
           r == WithNextEntry(q)
<1>1. IsQt(p) /\ p.index = Stand(q) /\ p.tracks = q.tracks /\ p.offset = q.offset /\ p.todrop = q.todrop
  BY DEF IsQt, Fields, Stand
<1>2. r = IF ahead = {} \/ lowest < p.offset THEN [p EXCEPT !.needed = NoEntry]
       ELSE [p EXCEPT !.todrop = lowest - p.offset, !.needed = 1 + lowest - p.offset]
  BY DEF WithNextEntry
<1>3. /\ Stand(q) \in [DOMAIN q.tracks -> Nat \ {0}]
      /\ Positioned(Stand(q)) = Stand(q)
  BY StandFact
<1>4. /\ r.index = Stand(q) /\ r.tracks = q.tracks /\ r.offset = q.offset
      /\ Stand(r) = Stand(q)
  BY EntryShape, <1>3 DEF Keeps, Fields, Stand
<1>5. Left(p) = {k \in DOMAIN q.tracks : Stand(q)[k] \in Numbers(q, k)}
  <2>1. ASSUME NEW k \in DOMAIN q.tracks
        PROVE  Stand(q)[k] <= Count(q.tracks[k]) <=> Stand(q)[k] \in Numbers(q, k)
    BY <1>3, SampleFact
  <2> QED
    BY <2>1, <1>1 DEF Left
<1>6. \A k \in Left(p) : Due(p, k).off = Off(q, k, Stand(q)[k])
  BY <1>1 DEF Due, Off
<1>7. \A k \in DOMAIN q.tracks : Stand(q)[k] \in Numbers(q, k) => Off(q, k, Stand(q)[k]) \in 0..f.size - 1
  BY SampleFact
<1>8. \A k \in DOMAIN q.tracks : IsMedia(q.tracks[k]) /\ Stand(q)[k] \in Numbers(q, k) =>
        q.offset <= Off(q, k, Stand(q)[k])
  BY <1>3 DEF MediaAhead
<1> HIDE DEF p, r
<1>9. /\ \A k \in ahead : /\ k \in DOMAIN q.tracks /\ Stand(q)[k] \in Numbers(q, k)
                          /\ Due(p, k).off = Off(q, k, Stand(q)[k])
                          /\ q.offset <= Due(p, k).off /\ Due(p, k).off \in 0..f.size - 1
      /\ \A k \in DOMAIN q.tracks : IsMedia(q.tracks[k]) /\ Stand(q)[k] \in Numbers(q, k) => k \in ahead
  <2>1. ASSUME NEW k \in ahead
        PROVE /\ k \in DOMAIN q.tracks /\ Stand(q)[k] \in Numbers(q, k)
              /\ Due(p, k).off = Off(q, k, Stand(q)[k])
              /\ q.offset <= Due(p, k).off /\ Due(p, k).off \in 0..f.size - 1
    <3>1. k \in Left(p) /\ (IsMedia(q.tracks[k]) \/ Due(p, k).off >= q.offset)
      BY <1>1
    <3>2. k \in DOMAIN q.tracks /\ Stand(q)[k] \in Numbers(q, k) /\ Due(p, k).off = Off(q, k, Stand(q)[k])
      BY <3>1, <1>5, <1>6
    <3> QED
      BY <3>1, <3>2, <1>7, <1>8
  <2>2. ASSUME NEW k \in DOMAIN q.tracks, IsMedia(q.tracks[k]), Stand(q)[k] \in Numbers(q, k)
        PROVE k \in ahead
    BY <2>2, <1>1, <1>5
  <2> QED
    BY <2>1, <2>2
<1> HIDE DEF ahead
<1>10. CASE ahead = {}
  <2>1. r = [p EXCEPT !.needed = NoEntry]
    BY <1>10, <1>2
  <2>2. r.needed = NoEntry /\ r.todrop = q.todrop
    BY <2>1, <1>1 DEF IsQt, Fields
  <2>3. NoMediaLeft(r)
    <3>1. SUFFICES ASSUME NEW k \in DOMAIN q.tracks, IsMedia(q.tracks[k]) PROVE Stand(q)[k] > Count(q.tracks[k])
      BY <1>4 DEF NoMediaLeft
    <3>2. Stand(q)[k] \notin Numbers(q, k)
      BY <3>1, <1>9, <1>10
    <3> QED
      BY <3>2, <1>3, SampleFact
  <2> QED
    BY <2>2, <2>3 DEF r
<1>11. CASE ahead # {}
  <2>1. PICK k0 \in ahead : TRUE
    BY <1>11
  <2>2. dues # {} /\ dues \in SUBSET Int /\ \A x \in dues : 0 <= x
    BY <2>1, <1>9
  <2>3. lowest \in dues /\ \A x \in dues : lowest <= x
    BY <2>2, MinFact, 0 \in Int
  <2>4. PICK k \in ahead : lowest = Due(p, k).off
    BY <2>3
  <2> HIDE DEF lowest
  <2>5. lowest \in 0..f.size - 1 /\ q.offset <= lowest /\ q.offset \in Int
    BY <2>4, <1>9, AtomFact
  <2>6. r = [p EXCEPT !.todrop = lowest - p.offset, !.needed = 1 + lowest - p.offset]
    BY <1>2, <1>11, <2>5, <1>1
  <2>7. r.todrop = lowest - q.offset /\ r.needed = 1 + lowest - q.offset
    BY <2>6, <1>1 DEF IsQt, Fields
  <2>8. r.todrop \in Nat /\ r.needed = r.todrop + 1 /\ q.offset + r.todrop = lowest /\ r.needed \in 1..f.size
    BY <2>7, <2>5, AtomFact
  <2>9. \E l \in DOMAIN q.tracks :
          Stand(q)[l] \in Numbers(q, l) /\ Off(q, l, Stand(q)[l]) = lowest
    BY <2>4, <1>9
  <2>10. ASSUME NEW l \in DOMAIN q.tracks, IsMedia(q.tracks[l]), Stand(q)[l] \in Numbers(q, l)
         PROVE  lowest <= Off(q, l, Stand(q)[l])
    <3>1. l \in ahead /\ Due(p, l).off \in dues
      BY <2>10, <1>9
    <3> QED
      BY <3>1, <2>3, <1>9
  <2>11. NextAt(r)
    BY <2>8, <2>9, <2>10, <1>4 DEF NextAt, Numbers, Off
  <2> QED
    BY <2>11, <2>8 DEF r
<1> QED
  BY <1>10, <1>11

(* Of which fields each part of the invariant speaks.                       *)
LEMMA Speaks ==
  ASSUME NEW f, NEW q, NEW r, NEW u, NEW s, NEW o
  PROVE
    /\ Keeps(r, q, {"gotMoov", "tracks", "index", "from"})
       /\ IndexOf(f, q) => IndexOf(f, r)
    /\ Keeps(r, q, {"eos", "trick", "flushing", "tracks", "index"})
       /\ EndOf(q) => EndOf(r)
    /\ Keeps(r, q, {"covers", "tracks", "from"})
       /\ CoversOf(f, q, s) => CoversOf(f, r, s)
    /\ Keeps(r, q, {"tracks", "run", "from", "index"})
       /\ OutOf(q, o) => OutOf(r, o)
    /\ Keeps(r, q, {"trick", "flushing", "state", "tracks", "from", "index",
                "run"})
       /\ DoneOf(q, u, o) => DoneOf(r, u, o)
    /\ Keeps(r, q, {"trick", "flushing", "pushedI", "tricking", "eos", "run"})
       /\ TrickOf(q, u, o) => TrickOf(r, u, o)
    /\ Keeps(r, q, {"firstMdat"})
       /\ FirstOf(f, q) => FirstOf(f, r)
    /\ Keeps(r, q, {"adapter", "offset", "eos", "state", "busy", "flushing",
                "needed", "tracks"})
       /\ LinkOf(f, q, u) => LinkOf(f, r, u)
    /\ Keeps(r, q, {"state", "needed", "offset", "mdatbuf", "tracks"})
       /\ AtomOf(f, q, u) => AtomOf(f, r, u)
    /\ Keeps(r, q, {"state", "mdatbuf", "tracks", "index", "todrop",
                "needed", "offset", "mdatleft"})
       /\ MovieOf(f, q, u) => MovieOf(f, r, u)
    /\ Keeps(r, q, {"state", "tracks", "index", "offset"})
       /\ AheadOf(q, u) => AheadOf(r, u)
    /\ Keeps(r, q, {"tracks", "offset", "mdatbuf", "firstMdat", "state",
                "mdatoffset"})
       /\ NoTracksOf(f, q) => NoTracksOf(f, r)
    /\ Keeps(r, q, {"tracks", "state", "mdatbuf", "offset"})
       /\ HeadOf(f, q) => HeadOf(f, r)
    /\ Keeps(r, q, {"tracks", "offset", "index"})
       /\ FragmentsOf(f, q) => FragmentsOf(f, r)
<1>1. Keeps(r, q, {"gotMoov", "tracks", "index", "from"})
       /\ IndexOf(f, q) => IndexOf(f, r)
  BY DEF Keeps, IndexOf, Stand
<1>2. Keeps(r, q, {"eos", "trick", "flushing", "tracks", "index"})
       /\ EndOf(q) => EndOf(r)
  BY DEF Keeps, EndOf, NoMediaLeft, Stand
<1>3. Keeps(r, q, {"covers", "tracks", "from"})
       /\ CoversOf(f, q, s) => CoversOf(f, r, s)
  BY DEF Keeps, CoversOf
<1>4. Keeps(r, q, {"tracks", "run", "from", "index"})
       /\ OutOf(q, o) => OutOf(r, o)
  BY DEF Keeps, OutOf, Numbers, Off, Stand
<1>5. Keeps(r, q, {"trick", "flushing", "state", "tracks", "from", "index",
                "run"})
       /\ DoneOf(q, u, o) => DoneOf(r, u, o)
  BY DEF Keeps, DoneOf, Stand
<1>6. Keeps(r, q, {"trick", "flushing", "pushedI", "tricking", "eos", "run"})
       /\ TrickOf(q, u, o) => TrickOf(r, u, o)
  BY DEF Keeps, TrickOf
<1>7. Keeps(r, q, {"firstMdat"})
       /\ FirstOf(f, q) => FirstOf(f, r)
  BY DEF Keeps, FirstOf
<1>8. Keeps(r, q, {"adapter", "offset", "eos", "state", "busy", "flushing",
                "needed", "tracks"})
       /\ LinkOf(f, q, u) => LinkOf(f, r, u)
  BY DEF Keeps, LinkOf, Apart, SamplesBelow, Numbers, Off
<1>9. Keeps(r, q, {"state", "needed", "offset", "mdatbuf", "tracks"})
       /\ AtomOf(f, q, u) => AtomOf(f, r, u)
  BY DEF Keeps, AtomOf
<1>10. Keeps(r, q, {"state", "mdatbuf", "tracks", "index", "todrop",
                "needed", "offset", "mdatleft"})
       /\ MovieOf(f, q, u) => MovieOf(f, r, u)
  BY DEF Keeps, MovieOf, NextAt, NoMediaLeft, Stand, Numbers, Off
<1>11. Keeps(r, q, {"state", "tracks", "index", "offset"})
       /\ AheadOf(q, u) => AheadOf(r, u)
  BY DEF Keeps, AheadOf, MediaAhead, Stand, Numbers, Off
<1>12. Keeps(r, q, {"tracks", "offset", "mdatbuf", "firstMdat", "state",
                "mdatoffset"})
       /\ NoTracksOf(f, q) => NoTracksOf(f, r)
  BY DEF Keeps, NoTracksOf, MdatAhead, Kept
<1>13. Keeps(r, q, {"tracks", "state", "mdatbuf", "offset"})
       /\ HeadOf(f, q) => HeadOf(f, r)
  BY DEF Keeps, HeadOf, MdatAhead
<1>14. Keeps(r, q, {"tracks", "offset", "index"})
       /\ FragmentsOf(f, q) => FragmentsOf(f, r)
  BY DEF Keeps, FragmentsOf, Known, SamplesBelow, Numbers, Off, Stand
<1> QED
  BY <1>1, <1>2, <1>3, <1>4, <1>5, <1>6, <1>7, <1>8, <1>9, <1>10, <1>11, <1>12, <1>13, <1>14

-----------------------------------------------------------------------------
(* The steps.                                                               *)

(* A demuxer that plays what it kept has the next sample in its adapter.    *)
LEMMA ApartReady ==
  ASSUME NEW f, NEW q, NEW u, NEW s, TypeOf(f, q, u, s), IndexOf(f, q), MovieOf(f, q, u), Apart(f, q),
         u.segment = NoSegment
  PROVE  NextAt(q) /\ q.needed <= Len(q.adapter)
<1>1. NextAt(q)
  BY DEF Apart, MovieOf
<1>2. PICK k \in DOMAIN q.tracks :
        Stand(q)[k] \in Numbers(q, k) /\ Off(q, k, Stand(q)[k]) = q.offset + q.todrop
  BY <1>1 DEF NextAt
<1>3. q.offset + q.todrop < q.offset + Len(q.adapter)
  BY <1>2 DEF Apart, SamplesBelow
<1>4. q.offset \in Int /\ q.todrop \in Nat /\ q.needed = q.todrop + 1 /\ Len(q.adapter) \in Nat
  BY <1>1, AtomFact DEF NextAt, TypeOf
<1> QED
  BY <1>1, <1>3, <1>4

(* Rest, the handler returns to upstream for more.                          *)
LEMMA RestKeeps == PushInv /\ Rest => InvOf(file', qt', up', seek', out')
<1> SUFFICES ASSUME PushInv, Rest PROVE InvOf(file', qt', up', seek', out')
  OBVIOUS
<1> DEFINE q == qt
           r == qt'
<1>1. /\ file' = file /\ up' = up /\ seek' = seek /\ out' = out
      /\ q.busy /\ ~q.tricking /\ (q.needed = NoEntry \/ Len(q.adapter) < q.needed)
      /\ r = Stopped(q)
  BY DEF Rest
<1>2. InvOf(file, q, up, seek, out) /\ IsQt(q) /\ ~q.err /\ LiveOf(file, q, up)
  BY <1>1 DEF PushInv, InvOf, TypeOf, FlagsOf
<1>3. IsQt(r) /\ r.busy = FALSE /\ Keeps(r, q, Fields \ {"busy"})
  BY <1>1, <1>2 DEF IsQt, Fields, Keeps, Stopped
<1> HIDE DEF q, r
<1>4. TypeOf(file, r, up, seek)
  BY <1>2, <1>3 DEF InvOf, TypeOf, Keeps, Fields
<1>5. FlagsOf(file, r, up, seek)
  BY <1>1, <1>2, <1>3 DEF InvOf, FlagsOf, Keeps, Fields
<1>6. /\ IndexOf(file, r) /\ EndOf(r) /\ CoversOf(file, r, seek) /\ OutOf(r, out) /\ InRow(out)
      /\ DoneOf(r, up, out) /\ TrickOf(r, up, out) /\ FirstOf(file, r)
  BY <1>2, <1>3, Speaks DEF InvOf, Keeps, Fields
<1>7. /\ AtomOf(file, r, up) /\ MovieOf(file, r, up) /\ AheadOf(r, up) /\ NoTracksOf(file, r)
      /\ HeadOf(file, r) /\ FragmentsOf(file, r)
  BY <1>2, <1>3, Speaks DEF LiveOf, Keeps, Fields
<1>8. LinkOf(file, r, up)
  <2>1. LinkOf(file, q, up) /\ MovieOf(file, q, up) /\ TypeOf(file, q, up, seek) /\ IndexOf(file, q)
    BY <1>2 DEF InvOf, LiveOf
  <2>2. /\ r.adapter = q.adapter /\ r.offset = q.offset /\ r.eos = q.eos /\ r.state = q.state
        /\ r.flushing = q.flushing /\ r.needed = q.needed
    BY <1>3 DEF Keeps, Fields
  <2>3. q.needed \in Int /\ Len(q.adapter) \in Nat
    BY <2>1, AtomFact DEF TypeOf
  <2>4. up.segment = NoSegment => ~Apart(file, q)
    <3>1. Apart(file, q) => q.needed # NoEntry
      BY DEF Apart
    <3> QED
      BY <3>1, <1>1, <2>1, <2>3, ApartReady DEF q
  <2> QED
    BY <2>1, <2>2, <2>4, <1>1 DEF LinkOf, q, r
<1> QED
  BY <1>1, <1>4, <1>5, <1>6, <1>7, <1>8 DEF InvOf, LiveOf, r

(* Upstream is at the end and the demuxer waits: nothing is left for it.    *)
LEMMA NothingAtEnd ==
  ASSUME NEW f, NEW q, NEW u, NEW s, TypeOf(f, q, u, s), IndexOf(f, q), FlagsOf(f, q, u, s),
         LiveOf(f, q, u), ~q.busy, ~q.eos, ~q.flushing, u.segment = NoSegment, u.pos = f.size,
         q.tracks # <<>>
  PROVE  NoMediaLeft(q)
<1>1. /\ f.size \in Nat /\ q.offset \in 0..f.size /\ q.needed \in Int /\ Len(q.adapter) \in Nat
      /\ u.pos = q.offset + Len(q.adapter)
      /\ q.needed = NoEntry \/ Len(q.adapter) < q.needed
  BY AtomFact DEF TypeOf, LiveOf, LinkOf, Apart
<1>2. MediaAhead(q)
  BY DEF LiveOf, AheadOf
<1>3. /\ Stand(q) \in [DOMAIN q.tracks -> Nat \ {0}]
  BY StandFact
<1>4. CASE q.state = "initial"
  <2>1. q.offset = f.size
    BY <1>1, <1>4 DEF LiveOf, AtomOf, Head1, NoEntry
  <2>2. SUFFICES ASSUME NEW k \in DOMAIN q.tracks, IsMedia(q.tracks[k]), Stand(q)[k] <= Count(q.tracks[k])
        PROVE  FALSE
    BY <1>3, SampleFact DEF NoMediaLeft, TypeOf
  <2>3. Stand(q)[k] \in Numbers(q, k) /\ Off(q, k, Stand(q)[k]) \in 0..f.size - 1
    BY <2>2, <1>3, SampleFact DEF TypeOf
  <2>4. q.offset <= Off(q, k, Stand(q)[k])
    BY <2>2, <2>3, <1>2, <1>3 DEF MediaAhead
  <2> QED
    BY <2>1, <2>3, <2>4, <1>1
<1>5. CASE q.state \in {"header", "buffer_mdat"}
  <2>1. PICK a \in Range(f.atoms) : a.first = q.offset /\ a.len = q.needed
    BY <1>5 DEF LiveOf, AtomOf
  <2>2. a.first + a.len <= f.size /\ a.len \in Nat
    BY AtomFact DEF TypeOf
  <2> QED
    BY <1>1, <2>1, <2>2 DEF NoEntry
<1>6. CASE q.state = "movie"
  <2>1. ASSUME NextAt(q) PROVE FALSE
    <3>1. PICK k \in DOMAIN q.tracks :
            Stand(q)[k] \in Numbers(q, k) /\ Off(q, k, Stand(q)[k]) = q.offset + q.todrop
      BY <2>1 DEF NextAt
    <3>2. Off(q, k, Stand(q)[k]) \in 0..f.size - 1
      BY <3>1, SampleFact DEF TypeOf
    <3> QED
      BY <1>1, <2>1, <3>1, <3>2 DEF NextAt, NoEntry
  <2> QED
    BY <1>6, <2>1 DEF LiveOf, MovieOf
<1> QED
  BY <1>4, <1>5, <1>6 DEF TypeOf

(* EOS of upstream.                                                         *)
LEMMA UpEosKeeps == PushInv /\ UpEos => InvOf(file', qt', up', seek', out')
<1> SUFFICES ASSUME PushInv, UpEos PROVE InvOf(file', qt', up', seek', out')
  OBVIOUS
<1> DEFINE q == qt
           r == qt'
<1>1. /\ file' = file /\ up' = up /\ seek' = seek /\ out' = out
      /\ ~q.busy /\ ~q.err /\ ~q.eos /\ up.pos = file.size /\ up.segment = NoSegment
      /\ seek.step # "flushing"
      /\ r = IF q.tracks = <<>> THEN Failed(q) ELSE [q EXCEPT !.eos = TRUE]
  BY DEF UpEos
<1>2. InvOf(file, q, up, seek, out) /\ IsQt(q) /\ LiveOf(file, q, up)
  BY <1>1 DEF PushInv, InvOf, TypeOf
<1>3. CASE q.tracks = <<>>
  <2>1. IsQt(r) /\ r.busy = FALSE /\ r.err = TRUE /\ Keeps(r, q, Fields \ {"busy", "err"})
    BY <1>1, <1>2, <1>3 DEF IsQt, Fields, Keeps, Failed
  <2> HIDE DEF q, r
  <2>2. TypeOf(file, r, up, seek)
    BY <1>2, <2>1 DEF InvOf, TypeOf, Keeps, Fields
  <2>3. FlagsOf(file, r, up, seek)
    BY <1>1, <1>2, <2>1 DEF InvOf, FlagsOf, Keeps, Fields
  <2>4. /\ IndexOf(file, r) /\ EndOf(r) /\ CoversOf(file, r, seek) /\ OutOf(r, out) /\ InRow(out)
        /\ DoneOf(r, up, out) /\ TrickOf(r, up, out) /\ FirstOf(file, r)
    BY <1>2, <2>1, Speaks DEF InvOf, Keeps, Fields
  <2> QED
    BY <1>1, <2>1, <2>2, <2>3, <2>4 DEF InvOf, r
<1>4. CASE q.tracks # <<>>
  <2>1. IsQt(r) /\ r.eos = TRUE /\ Keeps(r, q, Fields \ {"eos"})
    BY <1>1, <1>2, <1>4 DEF IsQt, Fields, Keeps
  <2> HIDE DEF q, r
  <2>2. TypeOf(file, r, up, seek)
    BY <1>2, <2>1 DEF InvOf, TypeOf, Keeps, Fields
  <2>3. FlagsOf(file, r, up, seek)
    BY <1>1, <1>2, <2>1 DEF InvOf, FlagsOf, Keeps, Fields, q
  <2>4. /\ IndexOf(file, r) /\ CoversOf(file, r, seek) /\ OutOf(r, out) /\ InRow(out)
        /\ DoneOf(r, up, out) /\ FirstOf(file, r)
    BY <1>2, <2>1, Speaks DEF InvOf, Keeps, Fields
  <2>5. TrickOf(r, up, out)
    BY <2>1 DEF TrickOf
  <2>6. EndOf(r)
    <3>1. ~q.flushing
      BY <1>1, <1>2 DEF InvOf, FlagsOf
    <3>2. NoMediaLeft(q)
      BY <1>1, <1>2, <1>4, <3>1, NothingAtEnd DEF InvOf, q
    <3> QED
      BY <2>1, <3>2 DEF EndOf, NoMediaLeft, Stand, Keeps, Fields
  <2>7. /\ AtomOf(file, r, up) /\ MovieOf(file, r, up) /\ AheadOf(r, up) /\ NoTracksOf(file, r)
        /\ HeadOf(file, r) /\ FragmentsOf(file, r)
    BY <1>2, <2>1, Speaks DEF LiveOf, Keeps, Fields
  <2>8. LinkOf(file, r, up)
    BY <1>1, <1>2, <2>1 DEF LiveOf, LinkOf, Keeps, Fields
  <2> QED
    BY <1>1, <2>1, <2>2, <2>3, <2>4, <2>5, <2>6, <2>7, <2>8 DEF InvOf, LiveOf, r
<1> QED
  BY <1>3, <1>4

(* A buffer of upstream.                                                    *)
LEMMA ChainKeeps == PushInv /\ Chain => InvOf(file', qt', up', seek', out')
<1> SUFFICES ASSUME PushInv, Chain PROVE InvOf(file', qt', up', seek', out')
  OBVIOUS
<1> DEFINE q == qt
           r == qt'
           u == up
           v == up'
<1>1. PICK n \in file.pushes :
        /\ up.pos + n <= file.size
        /\ up' = [up EXCEPT !.pos = @ + n]
        /\ qt' = [qt EXCEPT !.adapter = @ \o [i \in 1..n |-> up.pos + i - 1],
                             !.busy = qt.needed # NoEntry, !.eos = qt.needed = NoEntry]
  BY DEF Chain
<1>2. /\ file' = file /\ seek' = seek /\ out' = out
      /\ ~q.busy /\ ~q.err /\ ~q.eos /\ u.segment = NoSegment /\ seek.step # "flushing"
  BY DEF Chain
<1>3. /\ InvOf(file, q, u, seek, out) /\ IsQt(q) /\ IsUp(u) /\ LiveOf(file, q, u)
      /\ TypeOf(file, q, u, seek)
  BY <1>2 DEF PushInv, InvOf, TypeOf
<1>4. n \in Nat \ {0} /\ file.size \in Nat /\ u.pos \in 0..file.size
  BY <1>3, AtomFact DEF TypeOf
<1>5. v.pos = u.pos + n /\ v.segment = NoSegment /\ IsUp(v)
  BY <1>1, <1>2, <1>3 DEF IsUp
<1> DEFINE more == [i \in 1..n |-> u.pos + i - 1]
<1>6. /\ IsQt(r) /\ r.adapter = q.adapter \o more /\ r.busy = (q.needed # NoEntry)
      /\ r.eos = (q.needed = NoEntry) /\ Keeps(r, q, Fields \ {"adapter", "busy", "eos"})
  BY <1>1, <1>3 DEF IsQt, Fields, Keeps
<1>7. more \in Seq(0..file.size - 1) /\ Len(more) = n
  BY <1>1, <1>4
<1>8. q.adapter \in Seq(0..file.size - 1) /\ IsRun(q.adapter, q.offset) /\ ~q.flushing
  BY <1>3, <1>2 DEF TypeOf, LiveOf, LinkOf, InvOf, FlagsOf
<1>9. u.pos = q.offset + Len(q.adapter) /\ q.offset \in Nat /\ Len(q.adapter) \in Nat
  BY <1>3, <1>2, <1>8 DEF TypeOf, LiveOf, LinkOf, Apart
<1>21. \A i \in 1..n : more[i] = u.pos + i - 1
  OBVIOUS
<1> HIDE DEF more
<1> DEFINE all == q.adapter \o more
<1>10. /\ all \in Seq(0..file.size - 1) /\ Len(all) = Len(q.adapter) + n
       /\ DOMAIN all = 1..Len(q.adapter) + n
  BY <1>7, <1>8
<1>11. ASSUME NEW i \in DOMAIN all PROVE all[i] = q.offset + i - 1
  <2>1. i \in 1..Len(q.adapter) + n
    BY <1>10
  <2>2. CASE i <= Len(q.adapter)
    <3>1. i \in DOMAIN q.adapter /\ all[i] = q.adapter[i]
      BY <2>1, <2>2, <1>8, <1>7
    <3> QED
      BY <3>1, <1>8 DEF IsRun
  <2>3. CASE ~(i <= Len(q.adapter))
    <3>1. all[i] = more[i - Len(q.adapter)] /\ i - Len(q.adapter) \in 1..n
      BY <2>1, <2>3, <1>8, <1>7, <1>9, <1>4
    <3>2. more[i - Len(q.adapter)] = u.pos + (i - Len(q.adapter)) - 1
      BY <3>1, <1>21
    <3> HIDE DEF all
    <3> QED
      BY <2>1, <3>1, <3>2, <1>9
  <2> QED
    BY <2>2, <2>3
<1> HIDE DEF q, r, u, v, more
<1>12. TypeOf(file, r, v, seek)
  <2>1. r.adapter \in Seq(0..file.size - 1)
    BY <1>6, <1>10
  <2>2. v.pos \in 0..file.size
    BY <1>1, <1>4, <1>5 DEF u
  <2>3. /\ r.state = q.state /\ r.needed = q.needed /\ r.offset = q.offset /\ r.todrop = q.todrop
        /\ r.mdatbuf = q.mdatbuf /\ r.mdatleft = q.mdatleft /\ r.run = q.run /\ r.rate = q.rate
        /\ r.err = q.err /\ r.gotMoov = q.gotMoov /\ r.trick = q.trick /\ r.pushedI = q.pushedI
        /\ r.discont = q.discont /\ r.tricking = q.tricking /\ r.flushing = q.flushing
    BY <1>6 DEF Keeps, Fields
  <2>4. v.segment \in -1..file.size
    BY <1>5, <1>4 DEF NoSegment
  <2> QED
    BY <1>3, <1>5, <1>6, <2>1, <2>2, <2>3, <2>4 DEF TypeOf
<1>13. FlagsOf(file, r, v, seek)
  <2>1. FlagsOf(file, q, u, seek)
    BY <1>3 DEF InvOf
  <2> QED
    BY <1>5, <1>6, <1>2, <2>1 DEF FlagsOf, Keeps, Fields, q, u
<1>14. ASSUME q.needed = NoEntry PROVE q.state = "movie" /\ ~file.fragmented /\ NoMediaLeft(q)
  <2>1. q.state # "initial"
    BY <1>14, <1>3 DEF LiveOf, AtomOf, Head1, NoEntry
  <2>2. q.state \notin {"header", "buffer_mdat"}
    <3>1. SUFFICES ASSUME NEW a \in Range(file.atoms), a.len = q.needed PROVE FALSE
      BY <1>3 DEF LiveOf, AtomOf
    <3> QED
      BY <3>1, <1>14, <1>3, AtomFact DEF NoEntry, TypeOf
  <2>3. q.state = "movie"
    BY <2>1, <2>2, <1>3 DEF TypeOf
  <2>4. ~NextAt(q) /\ q.mdatleft # NoEntry
    BY <1>14, <1>3 DEF NextAt, NoEntry, TypeOf
  <2> QED
    BY <2>3, <2>4, <1>3, <1>2, <1>14 DEF LiveOf, MovieOf, q, u
<1>15. /\ IndexOf(file, r) /\ CoversOf(file, r, seek) /\ OutOf(r, out) /\ InRow(out)
       /\ FirstOf(file, r)
  BY <1>3, <1>6, Speaks DEF InvOf, Keeps, Fields
<1>16. EndOf(r)
  <2>1. r.eos => NoMediaLeft(q)
    BY <1>6, <1>14
  <2> QED
    BY <1>6, <2>1 DEF EndOf, NoMediaLeft, Stand, Keeps, Fields
<1>17. DoneOf(r, v, out) /\ TrickOf(r, v, out)
  <2>1. DoneOf(q, u, out) /\ TrickOf(q, u, out) /\ u.segment = NoSegment /\ ~q.eos
    BY <1>2, <1>3 DEF InvOf, q, u
  <2> QED
    BY <2>1, <1>5, <1>6 DEF DoneOf, TrickOf, Stand, Keeps, Fields
<1>18. /\ AtomOf(file, r, v) /\ NoTracksOf(file, r) /\ HeadOf(file, r) /\ FragmentsOf(file, r)
  <2>1. AtomOf(file, r, u) /\ NoTracksOf(file, r) /\ HeadOf(file, r) /\ FragmentsOf(file, r)
    BY <1>3, <1>6, Speaks DEF LiveOf, Keeps, Fields
  <2> QED
    BY <2>1 DEF AtomOf
<1>19. MovieOf(file, r, v) /\ AheadOf(r, v)
  <2>1. Keeps(r, q, Fields \ {"adapter", "busy", "eos"}) /\ LiveOf(file, q, u)
    BY <1>3, <1>6
  <2>2. MovieOf(file, r, u) /\ AheadOf(r, u)
    BY <2>1, Speaks DEF LiveOf, Keeps, Fields
  <2> QED
    BY <2>2, <1>2, <1>5 DEF MovieOf, AheadOf, u
<1>20. LinkOf(file, r, v)
  <2>1. r.adapter = all /\ r.offset = q.offset /\ r.needed = q.needed
    BY <1>6 DEF Keeps, Fields
  <2>2. IsRun(r.adapter, r.offset)
    BY <2>1, <1>11 DEF IsRun
  <2>4. v.pos = u.pos + n /\ u.pos = q.offset + Len(q.adapter) /\ Len(all) = Len(q.adapter) + n
    BY <1>5, <1>9, <1>10
  <2>5. q.offset \in Nat /\ Len(q.adapter) \in Nat /\ n \in Nat
    BY <1>9, <1>4
  <2>3. v.pos = r.offset + Len(r.adapter)
    <3> HIDE DEF all
    <3> QED
      BY <2>1, <2>4, <2>5
  <2> QED
    BY <2>2, <2>3, <1>5, <1>6 DEF LinkOf
<1> QED
  BY <1>2, <1>12, <1>13, <1>15, <1>16, <1>17, <1>18, <1>19, <1>20 DEF InvOf, LiveOf, r, v

(* A trick play looks at the flags.                                         *)
LEMMA TrickTestKeeps == PushInv /\ TrickTest => InvOf(file', qt', up', seek', out')
<1> SUFFICES ASSUME PushInv, TrickTest PROVE InvOf(file', qt', up', seek', out')
  OBVIOUS
<1> DEFINE q == qt
           r == qt'
<1>1. /\ file' = file /\ up' = up /\ seek' = seek /\ out' = out
      /\ q.busy /\ q.state = "movie" /\ q.trick /\ ~q.tricking
      /\ r = [q EXCEPT !.pushedI = FALSE, !.tricking = TRUE]
  BY DEF TrickTest, Ready, TrickNext
<1>2. InvOf(file, q, up, seek, out) /\ IsQt(q) /\ ~q.err /\ LiveOf(file, q, up)
  BY <1>1 DEF PushInv, InvOf, TypeOf, FlagsOf
<1>3. IsQt(r) /\ r.pushedI = FALSE /\ r.tricking = TRUE /\ Keeps(r, q, Fields \ {"pushedI", "tricking"})
  BY <1>1, <1>2 DEF IsQt, Fields, Keeps
<1> HIDE DEF q, r
<1>4. TypeOf(file, r, up, seek)
  BY <1>2, <1>3 DEF InvOf, TypeOf, Keeps, Fields
<1>5. FlagsOf(file, r, up, seek)
  BY <1>1, <1>2, <1>3 DEF InvOf, FlagsOf, Keeps, Fields
<1>6. /\ IndexOf(file, r) /\ EndOf(r) /\ CoversOf(file, r, seek) /\ OutOf(r, out) /\ InRow(out)
      /\ DoneOf(r, up, out) /\ FirstOf(file, r)
  BY <1>2, <1>3, Speaks DEF InvOf, Keeps, Fields
<1>7. TrickOf(r, up, out)
  BY <1>3 DEF TrickOf
<1>8. LiveOf(file, r, up)
  BY <1>2, <1>3, Speaks DEF LiveOf, Keeps, Fields
<1> QED
  BY <1>1, <1>4, <1>5, <1>6, <1>7, <1>8 DEF InvOf, r

(* The flush of a seek has been through.                                    *)
LEMMA FlushStopKeeps == PushInv /\ FlushStop => InvOf(file', qt', up', seek', out')
<1> SUFFICES ASSUME PushInv, FlushStop PROVE InvOf(file', qt', up', seek', out')
  OBVIOUS
<1> DEFINE q == qt
           r == qt'
           v == up'
           s == seek
           t == seek'
<1>1. /\ file' = file /\ out' = out /\ s.step = "flushing" /\ ~q.busy
      /\ t = [s EXCEPT !.step = "none"]
      /\ v = [pos |-> s.offset, segment |-> s.offset]
      /\ r = [FlushReset(q) EXCEPT !.flushing = FALSE, !.eos = FALSE, !.discont = TRUE]
  BY DEF FlushStop
<1>2. InvOf(file, q, up, s, out) /\ IsQt(q) /\ IsSeek(s)
  BY DEF PushInv, InvOf, TypeOf
<1>3. /\ t.step = "none" /\ t.offset = s.offset /\ t.want = s.want /\ t.left = s.left /\ IsSeek(t)
  BY <1>1, <1>2 DEF IsSeek
<1>4. v.pos = s.offset /\ v.segment = s.offset /\ IsUp(v)
  BY <1>1 DEF IsUp
<1>5. /\ IsQt(r) /\ r.adapter = <<>> /\ r.offset = 0 /\ r.pushedI = FALSE /\ r.flushing = FALSE
      /\ r.eos = FALSE /\ r.discont = TRUE
      /\ Keeps(r, q, Fields \ {"adapter", "offset", "pushedI", "flushing", "eos", "discont"})
  BY <1>1, <1>2 DEF IsQt, Fields, Keeps, FlushReset
<1>6. /\ FlagsOf(file, q, up, s) /\ CoversOf(file, q, s) /\ TypeOf(file, q, up, s)
  BY <1>2 DEF InvOf
<1>7. /\ s.offset \in 0..file.size /\ ~file.fragmented /\ q.state = "movie" /\ q.tracks # <<>>
      /\ file.size \in Nat /\ v.segment # NoSegment
  BY <1>1, <1>4, <1>6, AtomFact DEF FlagsOf, CoversOf, NoEntry, NoSegment, TypeOf
<1>12. q.busy = FALSE
  BY <1>1, <1>6 DEF TypeOf
<1> HIDE DEF q, r, v, s, t
<1>8. TypeOf(file, r, v, t)
  <2>1. r.adapter \in Seq(0..file.size - 1)
    BY <1>5
  <2>2. /\ r.state = q.state /\ r.needed = q.needed /\ r.todrop = q.todrop
        /\ r.mdatbuf = q.mdatbuf /\ r.mdatleft = q.mdatleft /\ r.run = q.run /\ r.rate = q.rate
        /\ r.err = q.err /\ r.gotMoov = q.gotMoov /\ r.trick = q.trick /\ r.busy = q.busy
        /\ r.tricking = q.tricking
    BY <1>5 DEF Keeps, Fields
  <2>3. v.pos \in 0..file.size /\ v.segment \in -1..file.size /\ r.offset \in 0..file.size
    BY <1>4, <1>5, <1>7
  <2> QED
    BY <1>3, <1>4, <1>5, <1>6, <2>1, <2>2, <2>3 DEF TypeOf
<1>9. FlagsOf(file, r, v, t)
  BY <1>3, <1>5, <1>6, <1>7, <1>12 DEF FlagsOf, Keeps, Fields
<1>10. /\ IndexOf(file, r) /\ OutOf(r, out) /\ InRow(out) /\ FirstOf(file, r) /\ CoversOf(file, r, s)
  BY <1>2, <1>5, Speaks DEF InvOf, Keeps, Fields
<1>11. CoversOf(file, r, t)
  BY <1>3, <1>10 DEF CoversOf
<1>13. EndOf(r)
  BY <1>5 DEF EndOf
<1>14. DoneOf(r, v, out) /\ TrickOf(r, v, out)
  BY <1>5, <1>7 DEF DoneOf, TrickOf, Keeps, Fields
<1>15. ASSUME ~r.err PROVE LiveOf(file, r, v)
  <2>1. LiveOf(file, q, up)
    BY <1>15, <1>2, <1>5 DEF InvOf, Keeps, Fields
  <2>2. r.state = "movie" /\ r.busy = FALSE /\ r.tracks = q.tracks /\ r.index = q.index /\ r.mdatbuf = q.mdatbuf
    BY <1>5, <1>7, <1>12 DEF Keeps, Fields
  <2>3. LinkOf(file, r, v)
    BY <2>2, <1>4, <1>5, <1>7 DEF LinkOf, IsRun
  <2>4. AtomOf(file, r, v) /\ AheadOf(r, v)
    BY <2>2, <1>7 DEF AtomOf, AheadOf
  <2>5. MovieOf(file, r, v)
    BY <2>1, <2>2, <1>7 DEF MovieOf, LiveOf
  <2>6. NoTracksOf(file, r) /\ HeadOf(file, r) /\ FragmentsOf(file, r)
    BY <2>2, <1>7 DEF NoTracksOf, HeadOf, FragmentsOf
  <2> QED
    BY <2>3, <2>4, <2>5, <2>6 DEF LiveOf
<1> QED
  BY <1>1, <1>8, <1>9, <1>10, <1>11, <1>13, <1>14, <1>15 DEF InvOf, r, v, t

(* The key frame of a sample is a sample of the track.                      *)
LEMMA KeyFact ==
  ASSUME NEW f, PlainFile(f), NEW t \in TrackIn(f), NEW i \in Nat \ {0}
  PROVE  /\ i > Count(t) => \A next \in BOOLEAN : KeyFrame(t, i, next) = PastEnd(t)
         /\ i <= Count(t) => /\ KeyFrame(t, i, FALSE) \in 1..i
                             /\ KeyFrame(t, i, FALSE) = 1 \/ KeyFrame(t, i, FALSE) \in Syncs(t)
                             /\ \/ KeyFrame(t, i, TRUE) = NoSample
                                \/ KeyFrame(t, i, TRUE) \in 1..Count(t)
<1>1. Count(t) \in Nat /\ DOMAIN t.samples = 1..Count(t)
  BY TypedSamples
<1>2. Syncs(t) \subseteq 1..Count(t)
  BY DEF Syncs
<1>3. i > Count(t) => \A next \in BOOLEAN : KeyFrame(t, i, next) = PastEnd(t)
  BY <1>1 DEF KeyFrame
<1>4. ASSUME i <= Count(t)
      PROVE  /\ KeyFrame(t, i, FALSE) \in 1..i
             /\ KeyFrame(t, i, FALSE) = 1 \/ KeyFrame(t, i, FALSE) \in Syncs(t)
  <2> DEFINE key == KeyFrame(t, i, FALSE)
  <2> DEFINE S == {k \in Syncs(t) : k <= i} \cup {1}
  <2>1. S \in SUBSET Int /\ S # {} /\ \A x \in S : 1 <= x
    BY <1>2
  <2>2. Max(S) \in S
    <3>1. \A x \in S : x <= i
      BY <1>2
    <3>2. i \in Int
      OBVIOUS
    <3> HIDE DEF S
    <3> QED
      BY <2>1, <3>1, <3>2, MaxFact
  <2>3. Max(S) \in 1..i /\ (Max(S) = 1 \/ Max(S) \in Syncs(t))
    BY <2>2, <1>2
  <2> HIDE DEF S
  <2>4. ~(i > Count(t))
    BY <1>1, <1>4
  <2>5. CASE t.kind = "video" /\ Cardinality(Syncs(t)) < 2
    <3> SUFFICES key \in 1..i /\ (key = 1 \/ key \in Syncs(t))
      BY DEF key
    <3>1. key = 1
      BY <2>4, <2>5 DEF KeyFrame
    <3> HIDE DEF key
    <3> QED
      BY <3>1
  <2>6. CASE ~(t.kind = "video" /\ Cardinality(Syncs(t)) < 2) /\ AllKeyFrames(t)
    <3> SUFFICES key \in 1..i /\ (key = 1 \/ key \in Syncs(t))
      BY DEF key
    <3>1. key = i
      BY <2>4, <2>6 DEF KeyFrame
    <3>2. i \in Syncs(t)
      BY <2>6, <1>1, <1>4 DEF AllKeyFrames
    <3> HIDE DEF key
    <3> QED
      BY <3>1, <3>2
  <2>7. CASE ~(t.kind = "video" /\ Cardinality(Syncs(t)) < 2) /\ ~AllKeyFrames(t)
    <3> SUFFICES key \in 1..i /\ (key = 1 \/ key \in Syncs(t))
      BY DEF key
    <3>1. key = Max(S)
      BY <2>4, <2>7 DEF KeyFrame, S
    <3> HIDE DEF key
    <3> QED
      BY <3>1, <2>3
  <2> QED
    BY <2>5, <2>6, <2>7
<1>5. ASSUME i <= Count(t)
      PROVE  KeyFrame(t, i, TRUE) = NoSample \/ KeyFrame(t, i, TRUE) \in 1..Count(t)
  <2> DEFINE key == KeyFrame(t, i, TRUE)
  <2> DEFINE S == {k \in Syncs(t) : k >= i}
  <2>1. S \in SUBSET Int /\ (\A x \in S : 1 <= x) /\ S \subseteq 1..Count(t)
    BY <1>2
  <2>2. S # {} => Min(S) \in S
    BY <2>1, MinFact, 1 \in Int
  <2> HIDE DEF S
  <2>4. ~(i > Count(t))
    BY <1>1, <1>5
  <2>5. CASE t.kind = "video" /\ Cardinality(Syncs(t)) < 2
    <3> SUFFICES key = NoSample \/ key \in 1..Count(t)
      BY DEF key
    <3>1. key = 1
      BY <2>4, <2>5 DEF KeyFrame
    <3> HIDE DEF key
    <3> QED
      BY <3>1, <1>1, <1>5
  <2>6. CASE ~(t.kind = "video" /\ Cardinality(Syncs(t)) < 2) /\ AllKeyFrames(t)
    <3> SUFFICES key = NoSample \/ key \in 1..Count(t)
      BY DEF key
    <3>1. key = i
      BY <2>4, <2>6 DEF KeyFrame
    <3> HIDE DEF key
    <3> QED
      BY <3>1, <1>1, <1>5
  <2>7. CASE ~(t.kind = "video" /\ Cardinality(Syncs(t)) < 2) /\ ~AllKeyFrames(t)
    <3> SUFFICES key = NoSample \/ key \in 1..Count(t)
      BY DEF key
    <3>1. key = IF S = {} THEN NoSample ELSE Min(S)
      BY <2>4, <2>7 DEF KeyFrame, S
    <3> HIDE DEF key
    <3> QED
      BY <3>1, <2>1, <2>2
  <2> QED
    BY <2>5, <2>6, <2>7
<1> QED
  BY <1>3, <1>4, <1>5

(* What a trick play goes to is a sample of the track.                      *)
LEMMA TrickTargetFact ==
  ASSUME PushInv, qt.state = "movie", ~qt.err, NEW k \in VideoTrack
  PROVE  TrickTarget(k) = NoSample \/ TrickTarget(k) > Count(qt.tracks[k])
           \/ TrickTarget(k) \in Numbers(qt, k)
<1> DEFINE t == qt.tracks[k]
<1>1. k \in DOMAIN qt.tracks
  BY DEF VideoTrack, Tracks
<1>2. /\ PlainFile(file) /\ IndexOf(file, qt) /\ qt.index[k] \in Nat \ {0} /\ qt.rate \in {1, -1}
  <2>1. InvOf(file, qt, up, seek, out) /\ LiveOf(file, qt, up)
    BY DEF PushInv, InvOf
  <2>2. PlainFile(file) /\ IndexOf(file, qt) /\ qt.rate \in {1, -1}
    BY <2>1 DEF InvOf, TypeOf
  <2>3. qt.index[k] \in Nat /\ qt.index[k] >= 1
    BY <1>1, <2>1, <2>2 DEF IndexOf, LiveOf, MovieOf
  <2> QED
    BY <2>2, <2>3
<1>3. t \in TrackIn(file) /\ Count(t) \in Nat /\ Numbers(qt, k) = 1..Count(t)
  BY <1>1, <1>2, SampleFact
<1> HIDE DEF t
<1>4. CASE qt.rate < 0 /\ qt.index[k] < 3
  BY <1>4 DEF TrickTarget
<1>5. CASE qt.rate < 0 /\ ~(qt.index[k] < 3)
  <2> DEFINE i == qt.index[k] - 2
             to == TrickTarget(k)
             key == KeyFrame(t, i, FALSE)
  <2>1. i \in Nat \ {0}
    BY <1>2, <1>5
  <2>2. to = key
    <3>1. (qt.rate > 0) = FALSE
      BY <1>2, <1>5
    <3>2. to = KeyFrame(t, i, qt.rate > 0)
      BY <1>5 DEF TrickTarget, t
    <3> QED
      BY <3>1, <3>2, Zenon
  <2>3. i > Count(t) => key = PastEnd(t)
    BY <1>2, <1>3, <2>1, KeyFact
  <2>4. i <= Count(t) => key \in 1..i
    BY <1>2, <1>3, <2>1, KeyFact
  <2> HIDE DEF i, to, key
  <2>5. to > Count(t) \/ to \in 1..Count(t)
    <3>1. CASE i > Count(t)
      BY <3>1, <2>2, <2>3, <1>3 DEF PastEnd
    <3>2. CASE i <= Count(t)
      BY <3>2, <2>2, <2>4, <1>3
    <3> QED
      BY <3>1, <3>2, <2>1, <1>3
  <2> QED
    BY <2>5, <1>3 DEF to, t
<1>6. CASE ~(qt.rate < 0)
  <2> DEFINE i == qt.index[k]
             to == TrickTarget(k)
             key == KeyFrame(t, i, TRUE)
  <2>1. i \in Nat \ {0}
    BY <1>2
  <2>2. to = key
    <3>1. (qt.rate > 0) = TRUE
      BY <1>2, <1>6
    <3>2. to = KeyFrame(t, i, qt.rate > 0)
      BY <1>6 DEF TrickTarget, t
    <3> QED
      BY <3>1, <3>2, Zenon
  <2>3. i > Count(t) => key = PastEnd(t)
    BY <1>2, <1>3, <2>1, KeyFact
  <2>4. i <= Count(t) => key = NoSample \/ key \in 1..Count(t)
    BY <1>2, <1>3, <2>1, KeyFact
  <2> HIDE DEF i, to, key
  <2>5. to = NoSample \/ to > Count(t) \/ to \in 1..Count(t)
    <3>1. CASE i > Count(t)
      BY <3>1, <2>2, <2>3, <1>3 DEF PastEnd
    <3>2. CASE i <= Count(t)
      BY <3>2, <2>2, <2>4, <1>3
    <3> QED
      BY <3>1, <3>2, <2>1, <1>3
  <2> QED
    BY <2>5, <1>3 DEF to, t
<1> QED
  BY <1>4, <1>5, <1>6

(* A trick play leads upstream to its next key frame.                       *)
LEMMA TrickSeekKeeps == PushInv /\ TrickSeek => InvOf(file', qt', up', seek', out')
<1> SUFFICES ASSUME PushInv, TrickSeek PROVE InvOf(file', qt', up', seek', out')
  OBVIOUS
<1> DEFINE q == qt
           r == qt'
           u == up
           v == up'
<1>1. /\ file' = file /\ out' = out /\ seek' = seek /\ q.tricking /\ seek.step = "none"
  BY DEF TrickSeek
<1>2. PICK k \in VideoTrack :
         LET to == TrickTarget(k)
             p == [Stopped(qt) EXCEPT !.tricking = FALSE]
         IN IF to = NoSample \/ to > Count(qt.tracks[k])
            THEN qt' = [p EXCEPT !.eos = TRUE] /\ UNCHANGED up
            ELSE /\ qt' = [p EXCEPT !.adapter = <<>>, !.discont = TRUE]
                 /\ up' = [up EXCEPT !.pos = Offset(qt.tracks[k], to),
                                     !.segment = Offset(qt.tracks[k], to)]
  BY DEF TrickSeek
<1>3. /\ InvOf(file, q, u, seek, out) /\ IsQt(q) /\ IsUp(u) /\ FlagsOf(file, q, u, seek)
      /\ TypeOf(file, q, u, seek)
  BY DEF PushInv, InvOf, TypeOf
<1>4. /\ ~q.err /\ q.busy /\ q.state = "movie" /\ q.flushing = FALSE /\ u.segment = NoSegment
      /\ ~file.fragmented /\ q.tracks # <<>> /\ LiveOf(file, q, u) /\ ~q.eos
  BY <1>1, <1>3 DEF FlagsOf, TypeOf, InvOf
<1> DEFINE to == TrickTarget(k)
<1>5. CASE to = NoSample \/ to > Count(qt.tracks[k])
  <2>1. v = u /\ r = [Stopped(q) EXCEPT !.tricking = FALSE, !.eos = TRUE]
    BY <1>2, <1>5
  <2>2. /\ IsQt(r) /\ r.busy = FALSE /\ r.tricking = FALSE /\ r.eos = TRUE
        /\ Keeps(r, q, Fields \ {"busy", "tricking", "eos"})
    BY <2>1, <1>3 DEF IsQt, Fields, Keeps, Stopped
  <2> HIDE DEF q, r, u, v
  <2>3. TypeOf(file, r, u, seek)
    BY <1>3, <2>2 DEF TypeOf, Keeps, Fields
  <2>4. FlagsOf(file, r, u, seek)
    BY <1>1, <1>3, <1>4, <2>2 DEF FlagsOf, Keeps, Fields
  <2>5. /\ IndexOf(file, r) /\ CoversOf(file, r, seek) /\ OutOf(r, out) /\ InRow(out)
        /\ DoneOf(r, u, out) /\ FirstOf(file, r)
    BY <1>3, <2>2, Speaks DEF InvOf, Keeps, Fields
  <2>6. EndOf(r)
    <3>1. q.trick
      BY <1>3, <1>4, <1>1 DEF FlagsOf, q
    <3> QED
      BY <3>1, <2>2 DEF EndOf, Keeps, Fields
  <2>7. TrickOf(r, u, out)
    BY <2>2 DEF TrickOf
  <2>8. /\ AtomOf(file, r, u) /\ MovieOf(file, r, u) /\ AheadOf(r, u) /\ NoTracksOf(file, r)
        /\ HeadOf(file, r) /\ FragmentsOf(file, r)
    BY <1>4, <2>2, Speaks DEF LiveOf, Keeps, Fields
  <2>9. LinkOf(file, r, u)
    BY <1>4, <2>2 DEF LiveOf, LinkOf, Keeps, Fields
  <2> QED
    BY <1>1, <2>1, <2>3, <2>4, <2>5, <2>6, <2>7, <2>8, <2>9 DEF InvOf, LiveOf, r, v, u
<1>6. CASE ~(to = NoSample \/ to > Count(qt.tracks[k]))
  <2>1. /\ r = [Stopped(q) EXCEPT !.tricking = FALSE, !.adapter = <<>>, !.discont = TRUE]
        /\ v = [u EXCEPT !.pos = Offset(q.tracks[k], to), !.segment = Offset(q.tracks[k], to)]
    BY <1>2, <1>6
  <2>2. /\ IsQt(r) /\ r.busy = FALSE /\ r.tricking = FALSE /\ r.adapter = <<>> /\ r.discont = TRUE
        /\ Keeps(r, q, Fields \ {"busy", "tricking", "adapter", "discont"})
    BY <2>1, <1>3 DEF IsQt, Fields, Keeps, Stopped
  <2>3. /\ IsUp(v) /\ v.pos = Offset(q.tracks[k], to) /\ v.segment = Offset(q.tracks[k], to)
    BY <2>1, <1>3 DEF IsUp
  <2>4. Offset(q.tracks[k], to) \in 0..file.size - 1 /\ file.size \in Nat
    <3>1. to \in Numbers(q, k)
      BY <1>4, <1>6, TrickTargetFact
    <3>2. k \in DOMAIN q.tracks
      BY DEF VideoTrack, Tracks
    <3> QED
      BY <3>1, <3>2, <1>3, SampleFact, AtomFact DEF InvOf, TypeOf, Off, Offset
  <2> HIDE DEF q, r, u, v, to
  <2>5. v.segment # NoSegment /\ v.segment = v.pos /\ v.pos \in 0..file.size /\ v.segment \in -1..file.size
    BY <2>3, <2>4 DEF NoSegment
  <2>6. TypeOf(file, r, v, seek)
    <3>1. r.adapter \in Seq(0..file.size - 1)
      BY <2>2
    <3>2. /\ r.state = q.state /\ r.needed = q.needed /\ r.todrop = q.todrop /\ r.offset = q.offset
          /\ r.mdatbuf = q.mdatbuf /\ r.mdatleft = q.mdatleft /\ r.run = q.run /\ r.rate = q.rate
          /\ r.err = q.err /\ r.gotMoov = q.gotMoov /\ r.trick = q.trick /\ r.pushedI = q.pushedI
          /\ r.eos = q.eos /\ r.flushing = q.flushing
      BY <2>2 DEF Keeps, Fields
    <3> QED
      BY <1>3, <2>2, <2>3, <2>5, <3>1, <3>2 DEF TypeOf
  <2>7. FlagsOf(file, r, v, seek)
    BY <1>3, <1>4, <2>2 DEF FlagsOf, Keeps, Fields
  <2>8. /\ IndexOf(file, r) /\ EndOf(r) /\ CoversOf(file, r, seek) /\ OutOf(r, out) /\ InRow(out)
        /\ FirstOf(file, r)
    BY <1>3, <2>2, Speaks DEF InvOf, Keeps, Fields
  <2>9. /\ r.state = "movie" /\ r.busy = FALSE /\ r.tracks = q.tracks /\ r.index = q.index
        /\ r.mdatbuf = q.mdatbuf
    BY <2>2, <1>4 DEF Keeps, Fields
  <2>10. DoneOf(r, v, out) /\ TrickOf(r, v, out)
    BY <2>5, <2>9 DEF DoneOf, TrickOf
  <2>11. LinkOf(file, r, v)
    BY <2>2, <2>5, <2>9, <1>4 DEF LinkOf, IsRun
  <2>12. AtomOf(file, r, v) /\ AheadOf(r, v) /\ HeadOf(file, r) /\ NoTracksOf(file, r) /\ FragmentsOf(file, r)
    BY <2>5, <2>9, <1>4 DEF AtomOf, AheadOf, HeadOf, NoTracksOf, FragmentsOf
  <2>13. MovieOf(file, r, v)
    BY <2>5, <2>9, <1>4 DEF MovieOf, LiveOf
  <2> QED
    BY <1>1, <2>6, <2>7, <2>8, <2>10, <2>11, <2>12, <2>13 DEF InvOf, LiveOf, r, v
<1> QED
  BY <1>5, <1>6

(* gst_qtdemux_find_sample: the first sample at or behind a position.       *)
LEMMA FromFact ==
  ASSUME NEW f, PlainFile(f), NEW t \in TrackIn(f), NEW pos \in Int
  PROVE  /\ SampleFrom(t, pos, TRUE) \in 1..PastEnd(t) /\ SampleFrom(t, pos, TRUE) \in Nat \ {0}
         /\ SampleFrom(t, pos, TRUE) <= Count(t) =>
              /\ SampleFrom(t, pos, TRUE) \in DOMAIN t.samples
              /\ Offset(t, SampleFrom(t, pos, TRUE)) >= pos
         /\ \A i \in DOMAIN t.samples : Offset(t, i) >= pos => SampleFrom(t, pos, TRUE) <= i
<1> DEFINE fits == {i \in 1..Count(t) : t.samples[i].size > 0 /\ Offset(t, i) >= pos}
           first == SampleFrom(t, pos, TRUE)
<1>1. /\ Count(t) \in Nat /\ DOMAIN t.samples = 1..Count(t)
      /\ \A i \in DOMAIN t.samples : t.samples[i].size > 0
  BY TypedSamples
<1>2. first = IF fits = {} THEN PastEnd(t) ELSE Min(fits)
  <2>1. {i \in 1..Count(t) :
                   /\ t.samples[i].size > 0
                   /\ IF TRUE THEN Offset(t, i) >= pos
                      ELSE Offset(t, i) + t.samples[i].size <= pos} = fits
    OBVIOUS
  <2> QED
    BY <2>1, Zenon DEF SampleFrom
<1>3. fits # {} => Min(fits) \in fits /\ \A i \in fits : Min(fits) <= i
  <2>1. fits \in SUBSET Int /\ \A i \in fits : 1 <= i
    BY <1>1
  <2> HIDE DEF fits
  <2> QED
    BY <2>1, MinFact, 1 \in Int
<1>4. \A i \in DOMAIN t.samples : Offset(t, i) >= pos => i \in fits
  BY <1>1
<1>5. \A i \in fits : i \in 1..Count(t) /\ Offset(t, i) >= pos
  OBVIOUS
<1> HIDE DEF fits, first
<1> DEFINE Goal == /\ first \in 1..PastEnd(t) /\ first \in Nat \ {0}
                   /\ first <= Count(t) => first \in DOMAIN t.samples /\ Offset(t, first) >= pos
                   /\ \A i \in DOMAIN t.samples : Offset(t, i) >= pos => first <= i
<1>6. CASE fits = {}
  <2>1. Goal
    BY <1>6, <1>1, <1>2, <1>4 DEF PastEnd
  <2> QED
    BY <2>1, Zenon DEF first
<1>7. CASE fits # {}
  <2>1. Goal
    BY <1>7, <1>1, <1>2, <1>3, <1>4, <1>5 DEF PastEnd
  <2> QED
    BY <2>1, Zenon DEF first
<1> QED
  BY <1>6, <1>7

(* What a SEGMENT makes of a demuxer that plays.                            *)
LEMMA SegmentedFact ==
  ASSUME NEW f, PlainFile(f), NEW q, IsQt(q), IndexOf(f, q), NEW pos \in 0..f.size
  PROVE  LET r == Segmented(q, pos)
         IN /\ IsQt(r) /\ Keeps(r, q, Fields \ {"adapter", "offset", "index", "run", "from", "todrop", "needed"})
            /\ r.adapter = <<>> /\ r.offset = pos /\ r.run = q.run + 1 /\ r.from = r.index
            /\ r.index = MovedTo(q.tracks, pos) /\ r.index \in [DOMAIN q.tracks -> Nat \ {0}]
            /\ Stand(r) = r.index
            /\ MediaAhead(r)
            /\ \/ NextAt(r) /\ r.needed \in 1..f.size
               \/ r.needed = NoEntry /\ r.todrop = 0 /\ NoMediaLeft(r)
<1> DEFINE r == Segmented(q, pos)
           index == MovedTo(q.tracks, pos)
           leads == Leading(q.tracks, pos)
<1>1. /\ IsQt(r) /\ Keeps(r, q, Fields \ {"adapter", "offset", "index", "run", "from", "todrop", "needed"})
      /\ r.adapter = <<>> /\ r.offset = pos /\ r.run = q.run + 1 /\ r.from = index
      /\ r.index = index
      /\ r.todrop = IF leads = {} THEN 0 ELSE Min(leads) - pos
      /\ r.needed = IF leads = {} THEN NoEntry ELSE 1 + Min(leads) - pos
  BY DEF IsQt, Fields, Keeps, Segmented
<1>2. r.tracks = q.tracks
  BY <1>1 DEF Keeps, Fields
<1>3. pos \in Int /\ f.size \in Nat
  BY AtomFact
<1>4. ASSUME NEW k \in DOMAIN q.tracks
      PROVE  /\ index[k] \in 1..PastEnd(q.tracks[k]) /\ index[k] \in Nat \ {0}
             /\ index[k] <= Count(q.tracks[k]) => index[k] \in Numbers(q, k) /\ Off(q, k, index[k]) >= pos
             /\ \A i \in Numbers(q, k) : Off(q, k, i) >= pos => index[k] <= i
  <2>1. q.tracks[k] \in TrackIn(f)
    BY SampleFact
  <2>2. index[k] = SampleFrom(q.tracks[k], pos, TRUE)
    BY DEF MovedTo
  <2> HIDE DEF index
  <2> QED
    BY <2>1, <2>2, <1>3, FromFact DEF Numbers, Off, Offset
<1>5. index \in [DOMAIN q.tracks -> Nat \ {0}]
  BY <1>4 DEF MovedTo
<1>6. leads = {Off(q, k, index[k]) : k \in {k \in DOMAIN q.tracks : IsMedia(q.tracks[k]) /\ index[k] \in Numbers(q, k)}}
  <2>1. \A k \in DOMAIN q.tracks : index[k] = SampleFrom(q.tracks[k], pos, TRUE)
    BY DEF MovedTo
  <2>2. \A k \in DOMAIN q.tracks : index[k] <= Count(q.tracks[k]) <=> index[k] \in Numbers(q, k)
    BY <1>4, SampleFact
  <2> HIDE DEF index
  <2> QED
    BY <2>1, <2>2 DEF Leading, IsMedia, Off, Offset
<1> HIDE DEF r, index, leads
<1>7. Stand(r) = index
  BY <1>1, <1>5 DEF Stand, Positioned, Unset
<1>8. MediaAhead(r)
  <2> SUFFICES ASSUME NEW k \in DOMAIN q.tracks, NEW i \in Numbers(q, k), index[k] <= i
               PROVE  pos <= Off(q, k, i)
    BY <1>1, <1>2, <1>7 DEF MediaAhead, Numbers, Off
  <2>1. /\ Numbers(q, k) = 1..Count(q.tracks[k]) /\ Count(q.tracks[k]) \in Nat
        /\ \A j \in Numbers(q, k) : Off(q, k, j) \in 0..f.size - 1
        /\ \A j, l \in Numbers(q, k) : j < l => Off(q, k, j) < Off(q, k, l)
    BY SampleFact
  <2>2. index[k] \in Numbers(q, k) /\ Off(q, k, index[k]) >= pos
    BY <1>4, <2>1
  <2>3. index[k] = i \/ Off(q, k, index[k]) < Off(q, k, i)
    BY <2>1, <2>2
  <2> QED
    BY <2>1, <2>2, <2>3, <1>3
<1>9. CASE leads = {}
  <2>1. r.needed = NoEntry /\ r.todrop = 0
    BY <1>1, <1>9
  <2>2. ASSUME NEW k \in DOMAIN q.tracks, IsMedia(q.tracks[k]) PROVE index[k] > Count(q.tracks[k])
    <3>1. index[k] \notin Numbers(q, k)
      BY <2>2, <1>6, <1>9
    <3> QED
      BY <3>1, <1>4, SampleFact
  <2>3. NoMediaLeft(r)
    BY <2>2, <1>2, <1>7 DEF NoMediaLeft
  <2> QED
    BY <2>1, <2>3, <1>1, <1>5, <1>7, <1>8 DEF r, index
<1>10. CASE leads # {}
  <2>1. leads \in SUBSET Int /\ \A x \in leads : 0 <= x
    BY <1>6, SampleFact
  <2>2. Min(leads) \in leads /\ \A x \in leads : Min(leads) <= x
    BY <2>1, <1>10, MinFact, 0 \in Int
  <2> DEFINE low == Min(leads)
  <2>3. PICK k \in DOMAIN q.tracks : IsMedia(q.tracks[k]) /\ index[k] \in Numbers(q, k) /\ low = Off(q, k, index[k])
    BY <2>2, <1>6
  <2>4. r.todrop = low - pos /\ r.needed = 1 + low - pos
    BY <1>1, <1>10
  <2> HIDE DEF low
  <2>5. pos <= low /\ low \in 0..f.size - 1
    BY <2>3, <1>4, SampleFact
  <2>6. /\ r.todrop \in Nat /\ r.needed = r.todrop + 1 /\ pos + r.todrop = low /\ r.needed \in 1..f.size
    BY <2>4, <2>5, <1>3
  <2>7. ASSUME NEW l \in DOMAIN q.tracks, IsMedia(q.tracks[l]), index[l] \in Numbers(q, l)
        PROVE  low <= Off(q, l, index[l])
    BY <2>7, <2>2, <1>6 DEF low
  <2>8. NextAt(r)
    BY <2>3, <2>6, <2>7, <1>1, <1>2, <1>7 DEF NextAt, Numbers, Off
  <2> QED
    BY <2>6, <2>8, <1>1, <1>5, <1>7, <1>8 DEF r, index
<1> QED
  BY <1>9, <1>10

(* The SEGMENT event.                                                       *)
LEMMA SegmentKeeps == PushInv /\ Segment => InvOf(file', qt', up', seek', out')
<1> SUFFICES ASSUME PushInv, Segment PROVE InvOf(file', qt', up', seek', out')
  OBVIOUS
<1> DEFINE q == qt
           r == qt'
           u == up
           v == up'
<1>1. /\ file' = file /\ out' = out /\ seek' = seek /\ u.segment # NoSegment /\ ~q.busy /\ ~q.err
      /\ seek.step # "flushing" /\ v = [u EXCEPT !.segment = NoSegment]
      /\ r = IF q.state # "movie" \/ q.tracks = <<>> THEN q
             ELSE [Segmented(q, u.segment) EXCEPT
                     !.covers = IF u.segment = seek.offset THEN seek.want ELSE <<>>]
  BY DEF Segment
<1>2. /\ InvOf(file, q, u, seek, out) /\ IsQt(q) /\ IsUp(u) /\ FlagsOf(file, q, u, seek)
      /\ TypeOf(file, q, u, seek) /\ LiveOf(file, q, u) /\ IndexOf(file, q) /\ PlainFile(file)
  BY <1>1 DEF PushInv, InvOf, TypeOf
<1>3. v.segment = NoSegment /\ v.pos = u.pos /\ IsUp(v)
  BY <1>1, <1>2 DEF IsUp
<1>4. /\ q.busy = FALSE /\ q.flushing = FALSE /\ q.tricking = FALSE /\ q.eos = FALSE
      /\ file.size \in Nat /\ u.pos = u.segment /\ u.segment \in 0..file.size
      /\ q.adapter = <<>>
  <2>1. q.adapter = <<>> /\ u.pos = u.segment
    BY <1>1, <1>2 DEF LiveOf, LinkOf
  <2> QED
    BY <2>1, <1>1, <1>2, AtomFact DEF FlagsOf, TypeOf, NoSegment
<1>5. CASE q.state # "movie"
  <2>1. r = q /\ q.state = "initial" /\ q.offset = u.segment /\ q.needed = 1
    BY <1>1, <1>5, <1>2 DEF LiveOf, LinkOf, AtomOf, Head1
  <2> HIDE DEF q, r, u, v
  <2>2. TypeOf(file, q, v, seek)
    <3>1. v.pos \in 0..file.size /\ v.segment \in -1..file.size
      BY <1>2, <1>3, <1>4 DEF NoSegment
    <3> QED
      BY <1>2, <1>3, <3>1 DEF TypeOf
  <2>3. FlagsOf(file, q, v, seek)
    BY <1>2, <1>3 DEF FlagsOf
  <2>4. DoneOf(q, v, out) /\ TrickOf(q, v, out)
    <3>1. ~q.trick /\ DoneOf(q, u, out)
      BY <1>2, <2>1 DEF FlagsOf, InvOf
    <3> QED
      BY <3>1, <1>3, <2>1 DEF DoneOf, TrickOf
  <2>5. LinkOf(file, q, v)
    BY <1>3, <1>4, <2>1 DEF LinkOf, IsRun
  <2>6. AtomOf(file, q, v) /\ MovieOf(file, q, v)
    BY <2>1, <1>2 DEF LiveOf, AtomOf, MovieOf
  <2>7. AheadOf(q, v)
    BY <2>1, <1>2 DEF LiveOf, AheadOf
  <2> QED
    BY <1>1, <1>2, <2>1, <2>2, <2>3, <2>4, <2>5, <2>6, <2>7 DEF InvOf, LiveOf, r, v
<1>6. CASE q.state = "movie"
  <2> DEFINE pos == u.segment
             p == Segmented(q, pos)
  <2>1. q.tracks # <<>> /\ ~file.fragmented
    BY <1>6, <1>1, <1>2 DEF FlagsOf, LiveOf, LinkOf
  <2>2. r = [p EXCEPT !.covers = IF pos = seek.offset THEN seek.want ELSE <<>>]
    BY <1>1, <1>6, <2>1
  <2>3. /\ IsQt(p) /\ Keeps(p, q, Fields \ {"adapter", "offset", "index", "run", "from", "todrop", "needed"})
        /\ p.adapter = <<>> /\ p.offset = pos /\ p.run = q.run + 1 /\ p.from = p.index
        /\ p.index = MovedTo(q.tracks, pos) /\ p.index \in [DOMAIN q.tracks -> Nat \ {0}]
        /\ Stand(p) = p.index
        /\ MediaAhead(p)
        /\ \/ NextAt(p) /\ p.needed \in 1..file.size
           \/ p.needed = NoEntry /\ p.todrop = 0 /\ NoMediaLeft(p)
    BY <1>2, <1>4, SegmentedFact
  <2> HIDE DEF q, u, v, p
  <2>4. IsQt(r) /\ Keeps(r, p, Fields \ {"covers"}) /\ r.covers = IF pos = seek.offset THEN seek.want ELSE <<>>
    BY <2>2, <2>3 DEF IsQt, Fields, Keeps
  <2> HIDE DEF r, pos
  <2>5. /\ Keeps(r, q, Fields \ {"adapter", "offset", "index", "run", "from", "todrop", "needed", "covers"})
        /\ r.adapter = <<>> /\ r.offset = pos /\ r.run = q.run + 1 /\ r.from = r.index
        /\ r.index = MovedTo(q.tracks, pos) /\ r.index \in [DOMAIN q.tracks -> Nat \ {0}]
        /\ r.tracks = p.tracks /\ r.index = p.index /\ r.needed = p.needed /\ r.todrop = p.todrop
        /\ r.offset = p.offset
    BY <2>3, <2>4 DEF Keeps, Fields
  <2>6. Stand(r) = r.index
    BY <2>3, <2>5 DEF Stand
  <2>7. /\ MediaAhead(r)
        /\ \/ NextAt(r) /\ r.needed \in 1..file.size
           \/ r.needed = NoEntry /\ r.todrop = 0 /\ NoMediaLeft(r)
    BY <2>3, <2>5 DEF MediaAhead, NextAt, NoMediaLeft, Stand, Numbers, Off
  <2>8. r.tracks = q.tracks /\ r.state = "movie" /\ r.busy = FALSE /\ r.flushing = FALSE /\ r.eos = FALSE /\ r.err = q.err
        /\ r.tricking = FALSE /\ r.mdatbuf = q.mdatbuf /\ r.gotMoov = q.gotMoov /\ r.firstMdat = q.firstMdat
        /\ r.trick = q.trick /\ r.pushedI = q.pushedI /\ r.rate = q.rate /\ r.mdatleft = q.mdatleft
        /\ r.discont = q.discont /\ r.restore = q.restore
    BY <2>5, <1>4, <1>6 DEF Keeps, Fields
  <2>9. TypeOf(file, r, v, seek)
    <3>1. v.pos \in 0..file.size /\ v.segment \in -1..file.size
      BY <1>2, <1>3, <1>4 DEF NoSegment
    <3>2. r.adapter \in Seq(0..file.size - 1) /\ r.run \in Nat /\ r.offset \in 0..file.size
      BY <2>5, <1>2, <1>4 DEF TypeOf, pos
    <3>3. r.needed \in -1..file.size + 1 /\ r.todrop \in Nat
      BY <2>7, <1>4 DEF NextAt, NoEntry
    <3> QED
      BY <1>2, <1>3, <2>4, <2>8, <3>1, <3>2, <3>3 DEF TypeOf
  <2>10. IndexOf(file, r)
    <3>1. \A k \in DOMAIN r.tracks : r.from[k] <= Stand(r)[k]
      BY <2>5, <2>6, <2>8
    <3> QED
      BY <1>2, <2>5, <2>8, <3>1 DEF IndexOf
  <2>11. FlagsOf(file, r, v, seek)
    BY <1>1, <1>2, <1>3, <1>4, <1>6, <2>1, <2>8 DEF FlagsOf
  <2>12. EndOf(r) /\ FirstOf(file, r)
    BY <2>8, <1>2 DEF EndOf, FirstOf, InvOf
  <2>13. CoversOf(file, r, seek)
    <3>1. CoversOf(file, q, seek)
      BY <1>2 DEF InvOf
    <3>2. CASE pos = seek.offset
      <4>1. seek.offset # NoEntry
        BY <3>2, <1>4 DEF NoEntry, pos
      <4>2. \A k \in DOMAIN q.tracks : r.from[k] = SampleFrom(q.tracks[k], seek.offset, TRUE)
        BY <2>5, <3>2 DEF MovedTo
      <4> QED
        BY <3>1, <3>2, <4>1, <4>2, <2>4, <2>8 DEF CoversOf
    <3>3. CASE pos # seek.offset
      <4>1. DOMAIN r.covers = {}
        BY <2>4, <3>3
      <4> QED
        BY <3>1, <4>1, <2>8 DEF CoversOf
    <3> QED
      BY <3>2, <3>3
  <2>14. OutOf(r, out) /\ InRow(out)
    <3>1. OutOf(q, out) /\ InRow(out) /\ q.run \in Nat
      BY <1>2 DEF InvOf, TypeOf
    <3>2. \A n \in DOMAIN out : out[n].run \in Nat /\ out[n].run <= q.run
      BY <3>1, OutFact
    <3> QED
      BY <3>1, <3>2, <2>5, <2>8 DEF OutOf, Numbers, Off
  <2>15. DoneOf(r, v, out)
    <3>1. \A k \in DOMAIN r.tracks : r.from[k]..Stand(r)[k] - 1 = {}
      BY <2>5, <2>6, <2>8
    <3> QED
      BY <3>1 DEF DoneOf
  <2>16. TrickOf(r, v, out)
    <3>1. \A n \in DOMAIN out : out[n].run \in Nat /\ out[n].run <= q.run
      BY <1>2, OutFact DEF InvOf
    <3> QED
      BY <3>1, <2>5, <1>2 DEF TrickOf, TypeOf
  <2>17. LinkOf(file, r, v)
    <3>1. v.pos = pos /\ pos \in Int
      BY <1>3, <1>4 DEF pos
    <3>5. Len(r.adapter) = 0
      BY <2>5
    <3>4. v.pos = r.offset + Len(r.adapter)
      BY <3>1, <3>5, <2>5
    <3>2. r.needed = NoEntry \/ Len(r.adapter) < r.needed
      BY <2>5, <2>7
    <3> QED
      BY <3>4, <3>2, <2>5, <1>3 DEF LinkOf, IsRun
  <2>18. AtomOf(file, r, v) /\ AheadOf(r, v) /\ HeadOf(file, r) /\ NoTracksOf(file, r) /\ FragmentsOf(file, r)
    BY <2>1, <2>7, <2>8 DEF AtomOf, AheadOf, HeadOf, NoTracksOf, FragmentsOf
  <2>19. MovieOf(file, r, v)
    <3>1. q.mdatbuf = <<>>
      BY <1>2, <1>6 DEF LiveOf, MovieOf
    <3>2. \A k \in DOMAIN r.tracks : r.index[k] >= 1
      BY <2>5, <2>8
    <3> QED
      BY <3>1, <3>2, <2>1, <2>7, <2>8 DEF MovieOf
  <2> QED
    BY <1>1, <2>9, <2>10, <2>11, <2>12, <2>13, <2>14, <2>15, <2>16, <2>17, <2>18, <2>19
       DEF InvOf, LiveOf, r, v
<1> QED
  BY <1>5, <1>6


-----------------------------------------------------------------------------
(* A seek of the application.                                               *)

(* The edit that plays at a time is one of the track's, and none is empty.  *)
LEMMA EditFact ==
  ASSUME NEW f, PlainFile(f), NEW t \in TrackIn(f), t.edits # <<>>, NEW time \in Int
  PROVE  LET e == SegmentAt(t, time)
         IN /\ e \in DOMAIN t.edits /\ FirstFull(t, e) # {} /\ Min(FirstFull(t, e)) = e
            /\ t.edits[e].time \in Int /\ t.edits[e].media \in Int
<1> DEFINE e == SegmentAt(t, time)
           within == {x \in 1..Len(t.edits) - 1 : t.edits[x].time <= time /\ time < t.edits[x].stop}
           R == [time : Int, stop : Int, media : Nat]
<1>1. Len(t.edits) \in Nat \ {0} /\ DOMAIN t.edits = 1..Len(t.edits) /\ \A x \in DOMAIN t.edits : t.edits[x] \in R
  <2>1. t.edits \in Seq(R)
    BY TypedSamples
  <2> HIDE DEF R
  <2>2. Len(t.edits) \in Nat /\ DOMAIN t.edits = 1..Len(t.edits) /\ \A x \in DOMAIN t.edits : t.edits[x] \in R
    BY <2>1
  <2>3. Len(t.edits) # 0
    BY <2>1
  <2> QED
    BY <2>2, <2>3
<1>2. \A x \in DOMAIN t.edits : t.edits[x].time \in Int /\ t.edits[x].media \in Nat
  BY <1>1
<1>3. e = IF within = {} THEN Len(t.edits) ELSE Min(within)
  BY DEF SegmentAt
<1>4. e \in 1..Len(t.edits)
  <2>1. within \in SUBSET Int /\ (\A x \in within : 1 <= x) /\ \A x \in within : x \in 1..Len(t.edits)
    BY <1>1
  <2> HIDE DEF within
  <2>2. within # {} => Min(within) \in within
    BY <2>1, MinFact, 1 \in Int
  <2>3. CASE within = {}
    <3>1. e = Len(t.edits)
      BY <1>3, <2>3
    <3> HIDE DEF e
    <3> QED
      BY <3>1, <1>1
  <2>4. CASE within # {}
    <3>1. e = Min(within)
      BY <1>3, <2>4
    <3> HIDE DEF e
    <3> QED
      BY <3>1, <2>1, <2>2, <2>4
  <2> QED
    BY <2>3, <2>4
<1> HIDE DEF e, within
<1>5. FirstFull(t, e) = e..Len(t.edits)
  <2>1. ASSUME NEW x \in e..Len(t.edits) PROVE ~IsEmptyEdit(t.edits[x])
    <3>1. x \in DOMAIN t.edits
      BY <1>1, <1>4
    <3> QED
      BY <3>1, <1>2 DEF IsEmptyEdit, NoMedia
  <2> QED
    BY <2>1 DEF FirstFull
<1>6. e..Len(t.edits) # {} /\ Min(e..Len(t.edits)) = e
  <2> DEFINE S == e..Len(t.edits)
  <2>1. S \in SUBSET Int /\ (\A x \in S : e <= x) /\ e \in S /\ e \in Int
    BY <1>1, <1>4
  <2> HIDE DEF S
  <2>2. Min(S) \in S /\ \A y \in S : Min(S) <= y
    BY <2>1, MinFact
  <2> DEFINE m == Min(S)
  <2> HIDE DEF m
  <2>3. m \in S /\ m <= e
    BY <2>1, <2>2 DEF m
  <2>4. m = e
    BY <2>1, <2>3
  <2> QED
    BY <2>1, <2>4 DEF S, m
<1>7. FirstFull(t, e) # {} /\ Min(FirstFull(t, e)) = e
  BY <1>5, <1>6
<1>8. e \in DOMAIN t.edits /\ t.edits[e].time \in Int /\ t.edits[e].media \in Int
  BY <1>1, <1>2, <1>4
<1> QED
  BY <1>7, <1>8 DEF e

(* The sample at a time is one of the track's, the first or one that does   *)
(* not begin later.                                                         *)
LEMMA IndexFact ==
  ASSUME NEW f, PlainFile(f), NEW t \in TrackIn(f), t.samples # <<>>, NEW time \in Int
  PROVE  /\ IndexAt(t, time) \in 1..Count(t)
         /\ \A i \in 1..IndexAt(t, time) : i = 1 \/ Pts(t, i) <= time
<1> DEFINE late == {i \in 2..Count(t) : Pts(t, i) > time} \cup {PastEnd(t)}
           at == IndexAt(t, time)
<1>1. Count(t) \in Nat \ {0} /\ \A i \in 1..Count(t) : Pts(t, i) \in Int
  <2>1. t.samples \in Seq(SampleIn(f)) /\ Count(t) \in Nat /\ \A i \in 1..Count(t) : Pts(t, i) \in Int
    BY TypedSamples DEF Pts
  <2>2. Count(t) # 0
    BY <2>1 DEF Count
  <2> QED
    BY <2>1, <2>2
<1>2. at = IF Pts(t, 1) = time THEN 1 ELSE Min(late) - 1
  BY DEF IndexAt
<1>3. Min(late) \in late /\ \A x \in late : Min(late) <= x
  <2>1. late \in SUBSET Int /\ late # {} /\ \A x \in late : 2 <= x
    BY <1>1 DEF PastEnd
  <2> HIDE DEF late
  <2> QED
    BY <2>1, MinFact, 2 \in Int
<1>4. \A x \in late : x \in 2..PastEnd(t)
  BY <1>1 DEF PastEnd
<1>5. \A i \in 2..Count(t) : Pts(t, i) > time => i \in late
  OBVIOUS
<1> HIDE DEF late, at
<1>6. CASE Pts(t, 1) = time
  <2>1. at = 1
    BY <1>2, <1>6
  <2> QED
    BY <2>1, <1>1 DEF at
<1>7. CASE Pts(t, 1) # time
  <2> DEFINE m == Min(late)
  <2>1. at = m - 1 /\ m \in 2..PastEnd(t) /\ \A x \in late : m <= x
    BY <1>2, <1>3, <1>4, <1>7
  <2> HIDE DEF m
  <2>2. at \in 1..Count(t)
    BY <2>1, <1>1 DEF PastEnd
  <2>3. ASSUME NEW i \in 1..at, i # 1 PROVE Pts(t, i) <= time
    <3>1. i \in 2..Count(t) /\ i < m
      BY <2>1, <2>2, <2>3, <1>1
    <3>2. i \notin late
      BY <2>1, <3>1
    <3> QED
      BY <3>1, <3>2, <1>1, <1>5
  <2> QED
    BY <2>2, <2>3 DEF at
<1> QED
  BY <1>6, <1>7

(* The sample a track names is not behind the one a player needs.           *)
LEMMA SaysFact ==
  ASSUME NEW f, PlainFile(f), NEW t \in TrackIn(f), t.samples # <<>>, t.edits # <<>>, NEW time \in Int
  PROVE  /\ TrackSeek(t, time, FALSE).index \in 1..Count(t)
         /\ TrackSeek(t, time, FALSE).index <= NeededFor(t, time) /\ NeededFor(t, time) \in 1..Count(t)
<1> DEFINE e == SegmentAt(t, time)
           edit == t.edits[e]
           start == edit.media + (time - edit.time)
           i == IndexAt(t, start)
           key == KeyFrame(t, i, FALSE)
           S == {x \in Syncs(t) : Pts(t, x) <= start} \cup {1}
<1>1. /\ e \in DOMAIN t.edits /\ Min(FirstFull(t, e)) = e
      /\ edit.time \in Int /\ edit.media \in Int
  BY EditFact
<1>2. start \in Int
  BY <1>1
<1>3. i \in 1..Count(t) /\ \A x \in 1..i : x = 1 \/ Pts(t, x) <= start
  BY <1>2, IndexFact
<1>4. Count(t) \in Nat /\ i \in Nat \ {0} /\ i <= Count(t)
  BY <1>3, TypedSamples
<1>5. key \in 1..i /\ (key = 1 \/ key \in Syncs(t))
  BY <1>4, KeyFact
<1>6. TrackSeek(t, time, FALSE).index = key
  <2>1. WantedAt(t, start, FALSE) = i
    BY DEF WantedAt
  <2>2. KeyFor(t, i, FALSE) = key
    BY DEF KeyFor
  <2>3. TrackSeek(t, time, FALSE) = Said(t, edit, WantedAt(t, start, FALSE), KeyFor(t, WantedAt(t, start, FALSE), FALSE))
    BY <1>1 DEF TrackSeek
  <2>4. TrackSeek(t, time, FALSE) = Said(t, edit, i, key)
    BY <2>1, <2>2, <2>3, Zenon
  <2>5. Said(t, edit, i, key).index = key
    BY DEF Said
  <2> QED
    BY <2>4, <2>5, Zenon
<1>7. NeededFor(t, time) = Max(S)
  BY <1>1 DEF NeededFor
<1>8. key \in S /\ S # {} /\ S \in SUBSET Int /\ (\A x \in S : x <= Count(t)) /\ \A x \in S : x \in 1..Count(t)
  <2>1. \A x \in S : x \in 1..Count(t)
    BY <1>4 DEF Syncs
  <2> HIDE DEF key, i, start
  <2>2. key \in S
    BY <1>3, <1>5
  <2> HIDE DEF S
  <2> QED
    BY <2>1, <2>2, <1>4
<1> HIDE DEF S, key, i, start, edit, e
<1> DEFINE need == Max(S)
<1>9. need \in S /\ \A y \in S : y <= need
  BY <1>4, <1>8, Count(t) \in Int, MaxFact
<1> HIDE DEF need
<1>10. key \in 1..Count(t) /\ key <= need /\ need \in 1..Count(t)
  BY <1>8, <1>9
<1> QED
  BY <1>6, <1>7, <1>10 DEF need

(* gst_qtdemux_adjust_seek: the place it names is in the file, and from it  *)
(* on each track finds a sample not behind the one it needs.                *)
LEMMA AdjustFact ==
  ASSUME NEW f, PlainFile(f), ~f.fragmented, NEW time \in Int
  PROVE  /\ AdjustSeek(f.tracks, time, FALSE, FALSE).offset \in 0..f.size - 1
         /\ \A k \in DOMAIN f.tracks :
              SampleFrom(f.tracks[k], AdjustSeek(f.tracks, time, FALSE, FALSE).offset, TRUE)
                <= IF Sparse(f.tracks[k]) THEN PastEnd(f.tracks[k]) ELSE NeededFor(f.tracks[k], time)
<1> DEFINE to == AdjustSeek(f.tracks, time, FALSE, FALSE).offset
           media == {k \in DOMAIN f.tracks : IsMedia(f.tracks[k])}
           at(k) == TrackSeek(f.tracks[k], time, FALSE).index
           offs == {Offset(f.tracks[k], at(k)) : k \in media}
<1>1. ASSUME NEW k \in DOMAIN f.tracks
      PROVE  /\ f.tracks[k] \in TrackIn(f) /\ f.tracks[k].edits # <<>> /\ f.tracks[k].samples # <<>>
             /\ FirstFull(f.tracks[k], SegmentAt(f.tracks[k], time)) # {}
  <2>1. f.tracks[k] \in TrackIn(f) /\ f.tracks[k].edits # <<>>
    BY TracksFact
  <2>2. f.tracks[k].samples # <<>>
    BY DEF PlainFile, SoundFilm
  <2> QED
    BY <2>1, <2>2, EditFact
<1>2. /\ \A k \in DOMAIN f.tracks : /\ at(k) \in 1..Count(f.tracks[k]) /\ at(k) <= NeededFor(f.tracks[k], time)
                                    /\ NeededFor(f.tracks[k], time) \in 1..Count(f.tracks[k])
  BY <1>1, SaysFact
<1>3. media # {}
  BY TracksFact
<1>4. to = Min(offs)
  <2>1. {k \in DOMAIN f.tracks : /\ FALSE \/ ~Sparse(f.tracks[k])
                                 /\ FirstFull(f.tracks[k], SegmentAt(f.tracks[k], time)) # {}} = media
    BY <1>1 DEF IsMedia
  <2> QED
    BY <2>1, <1>3 DEF AdjustSeek
<1>5. \A k \in DOMAIN f.tracks : \A i \in 1..Count(f.tracks[k]) : Offset(f.tracks[k], i) \in 0..f.size - 1
  BY <1>1, TypedSamples DEF Offset
<1>6. offs # {} /\ (\A x \in offs : x \in 0..f.size - 1)
  BY <1>2, <1>3, <1>5
<1>7. \A k \in media : Offset(f.tracks[k], at(k)) \in offs /\ k \in DOMAIN f.tracks
  OBVIOUS
<1> HIDE DEF offs, to, at
<1>8. f.size \in Nat
  BY AtomFact
<1>9. offs \in SUBSET Int /\ \A x \in offs : 0 <= x
  BY <1>6, <1>8
<1>10. to \in offs /\ \A x \in offs : to <= x
  BY <1>4, <1>6, <1>9, MinFact, 0 \in Int
<1>11. to \in 0..f.size - 1 /\ to \in Int
  BY <1>6, <1>8, <1>10
<1>12. ASSUME NEW k \in DOMAIN f.tracks
       PROVE  SampleFrom(f.tracks[k], to, TRUE)
                <= IF Sparse(f.tracks[k]) THEN PastEnd(f.tracks[k]) ELSE NeededFor(f.tracks[k], time)
  <2> DEFINE t == f.tracks[k]
             first == SampleFrom(t, to, TRUE)
  <2>1. first \in 1..PastEnd(t) /\ \A i \in DOMAIN t.samples : Offset(t, i) >= to => first <= i
    BY <1>1, <1>11, FromFact
  <2>2. Count(t) \in Nat /\ DOMAIN t.samples = 1..Count(t)
    BY <1>1, TypedSamples
  <2>3. at(k) \in 1..Count(t) /\ at(k) <= NeededFor(t, time) /\ NeededFor(t, time) \in 1..Count(t)
    BY <1>2
  <2> DEFINE need == NeededFor(t, time)
  <2>4. IsMedia(t) => Offset(t, at(k)) >= to
    <3>1. IsMedia(t) => k \in media
      OBVIOUS
    <3>2. Offset(t, at(k)) \in Int
      BY <1>5, <2>3
    <3> QED
      BY <3>1, <3>2, <1>7, <1>10, <1>11
  <2> HIDE DEF t, first, need
  <2>5. first <= IF Sparse(t) THEN PastEnd(t) ELSE need
    <3>1. CASE Sparse(t)
      BY <3>1, <2>1, <2>2 DEF PastEnd
    <3>2. CASE ~Sparse(t)
      <4>1. first <= at(k)
        BY <3>2, <2>1, <2>2, <2>3, <2>4 DEF IsMedia
      <4> QED
        BY <4>1, <3>2, <2>1, <2>2, <2>3 DEF need, PastEnd
    <3> QED
      BY <3>1, <3>2
  <2> QED
    BY <2>5, Zenon DEF first, t, need
<1> QED
  BY <1>11, <1>12, Zenon DEF to

(* A seek of the application.                                               *)
LEMMA AppSeekKeeps ==
  ASSUME NEW time \in Times, NEW trick \in BOOLEAN, NEW rate \in {1, -1}
  PROVE  PushInv /\ AppSeek(time, trick, rate) => InvOf(file', qt', up', seek', out')
<1> SUFFICES ASSUME PushInv, AppSeek(time, trick, rate) PROVE InvOf(file', qt', up', seek', out')
  OBVIOUS
<1> DEFINE q == qt
           r == qt'
           s == seek
           t == seek'
           to == AdjustSeek(q.tracks, time, FALSE, FALSE)
           want == [k \in Tracks |-> IF Sparse(qt.tracks[k]) THEN PastEnd(qt.tracks[k])
                                     ELSE NeededFor(qt.tracks[k], time)]
<1>1. /\ file' = file /\ out' = out /\ up' = up /\ s.step = "none" /\ ~q.err
      /\ q.state = "movie" /\ q.tracks # <<>> /\ ~file.fragmented
      /\ t = [step |-> "flushing", left |-> seek.left - 1, offset |-> to.offset, want |-> want]
      /\ r = [q EXCEPT !.rate = rate, !.trick = trick, !.pushedI = FALSE, !.flushing = TRUE]
  BY DEF AppSeek
<1>2. /\ InvOf(file, q, up, s, out) /\ IsQt(q) /\ FlagsOf(file, q, up, s) /\ TypeOf(file, q, up, s)
      /\ LiveOf(file, q, up) /\ IndexOf(file, q) /\ PlainFile(file)
  BY <1>1 DEF PushInv, InvOf, TypeOf
<1>3. t.step = "flushing" /\ t.offset = to.offset /\ t.want = want /\ IsSeek(t)
  BY <1>1 DEF IsSeek
<1>4. /\ IsQt(r) /\ r.rate = rate /\ r.trick = trick /\ r.pushedI = FALSE /\ r.flushing = TRUE
      /\ Keeps(r, q, Fields \ {"rate", "trick", "pushedI", "flushing"})
  BY <1>1, <1>2 DEF IsQt, Fields, Keeps
<1>5. q.tracks = file.tracks
  BY <1>1, <1>2 DEF IndexOf, IsIndex
<1>6. time \in Int
  <2>1. PICK k \in DOMAIN file.tracks : \E i \in 1..Count(file.tracks[k]) : time = Pts(file.tracks[k], i)
    BY DEF Times
  <2>2. file.tracks[k] \in TrackIn(file)
    BY <1>2, TracksFact
  <2> QED
    BY <1>2, <2>1, <2>2, TypedSamples DEF Pts
<1>7. /\ to.offset \in 0..file.size - 1
      /\ DOMAIN want = DOMAIN q.tracks
      /\ \A k \in DOMAIN q.tracks : SampleFrom(q.tracks[k], to.offset, TRUE) <= want[k]
  <2>1. /\ to.offset \in 0..file.size - 1
        /\ \A k \in DOMAIN q.tracks :
              SampleFrom(q.tracks[k], to.offset, TRUE)
                <= IF Sparse(q.tracks[k]) THEN PastEnd(q.tracks[k]) ELSE NeededFor(q.tracks[k], time)
    <3>1. /\ AdjustSeek(file.tracks, time, FALSE, FALSE).offset \in 0..file.size - 1
          /\ \A k \in DOMAIN file.tracks :
               SampleFrom(file.tracks[k], AdjustSeek(file.tracks, time, FALSE, FALSE).offset, TRUE)
                 <= IF Sparse(file.tracks[k]) THEN PastEnd(file.tracks[k]) ELSE NeededFor(file.tracks[k], time)
      BY <1>1, <1>2, <1>6, AdjustFact
    <3> QED
      BY <3>1, <1>5, Zenon
  <2>2. DOMAIN want = DOMAIN q.tracks
        /\ \A k \in DOMAIN q.tracks :
             want[k] = IF Sparse(q.tracks[k]) THEN PastEnd(q.tracks[k]) ELSE NeededFor(q.tracks[k], time)
    BY DEF Tracks
  <2> HIDE DEF to, want, q
  <2> QED
    BY <2>1, <2>2, Zenon
<1> HIDE DEF q, r, s, t, to, want
<1>8. TypeOf(file, r, up, t)
  <2>1. /\ r.state = q.state /\ r.needed = q.needed /\ r.offset = q.offset /\ r.todrop = q.todrop
        /\ r.adapter = q.adapter /\ r.mdatbuf = q.mdatbuf /\ r.mdatleft = q.mdatleft /\ r.run = q.run
        /\ r.busy = q.busy /\ r.err = q.err /\ r.eos = q.eos /\ r.gotMoov = q.gotMoov
        /\ r.discont = q.discont /\ r.tricking = q.tricking
    BY <1>4 DEF Keeps, Fields
  <2>2. /\ q.state \in {"initial", "header", "buffer_mdat", "movie"}
        /\ q.needed \in -1..file.size + 1 /\ q.offset \in 0..file.size /\ q.todrop \in Nat
        /\ q.adapter \in Seq(0..file.size - 1) /\ q.mdatbuf \in Seq(0..file.size - 1)
        /\ q.mdatleft \in Nat /\ q.run \in Nat
        /\ q.busy \in BOOLEAN /\ q.err \in BOOLEAN /\ q.eos \in BOOLEAN /\ q.gotMoov \in BOOLEAN
        /\ q.discont \in BOOLEAN /\ q.tricking \in BOOLEAN /\ IsUp(up)
        /\ up.pos \in 0..file.size /\ up.segment \in -1..file.size
    BY <1>2 DEF TypeOf
  <2> QED
    BY <1>2, <1>3, <1>4, <2>1, <2>2 DEF TypeOf
<1>9. FlagsOf(file, r, up, t)
  <2>1. /\ r.tricking = q.tricking /\ r.busy = q.busy /\ r.state = q.state /\ r.tracks = q.tracks
        /\ r.restore = q.restore /\ r.mdatbuf = q.mdatbuf /\ r.firstMdat = q.firstMdat
        /\ r.eos = q.eos /\ r.err = q.err
    BY <1>4 DEF Keeps, Fields
  <2>2. t.offset # NoEntry
    BY <1>3, <1>7, <1>2, AtomFact DEF NoEntry
  <2> QED
    BY <1>1, <1>2, <1>3, <1>4, <2>1, <2>2 DEF FlagsOf
<1>10. IndexOf(file, r) /\ OutOf(r, out) /\ InRow(out) /\ FirstOf(file, r)
  BY <1>2, <1>4, Speaks DEF InvOf, Keeps, Fields
<1>11. EndOf(r) /\ DoneOf(r, up, out) /\ TrickOf(r, up, out)
  BY <1>4 DEF EndOf, DoneOf, TrickOf
<1>12. CoversOf(file, r, t)
  <2>1. r.tracks = q.tracks /\ r.covers = q.covers /\ r.from = q.from
    BY <1>4 DEF Keeps, Fields
  <2>2. \A k \in DOMAIN q.covers : k \in DOMAIN q.tracks /\ q.from[k] <= q.covers[k]
    BY <1>2 DEF InvOf, CoversOf
  <2>3. t.offset \in 0..file.size
    BY <1>3, <1>7, <1>2, AtomFact
  <2> QED
    BY <1>1, <1>3, <1>7, <2>1, <2>2, <2>3 DEF CoversOf
<1>13. /\ AtomOf(file, r, up) /\ MovieOf(file, r, up) /\ AheadOf(r, up) /\ NoTracksOf(file, r)
       /\ HeadOf(file, r) /\ FragmentsOf(file, r)
  BY <1>2, <1>4, Speaks DEF LiveOf, Keeps, Fields
<1>14. LinkOf(file, r, up)
  <2>1. /\ r.adapter = q.adapter /\ r.offset = q.offset /\ r.eos = q.eos /\ r.state = q.state
        /\ r.needed = q.needed /\ r.tracks = q.tracks
    BY <1>4 DEF Keeps, Fields
  <2>2. Apart(file, q) => Apart(file, r)
    BY <1>4, <2>1 DEF Apart, SamplesBelow, Numbers, Off
  <2>3. LinkOf(file, q, up)
    BY <1>2 DEF LiveOf
  <2> QED
    BY <1>4, <2>1, <2>2, <2>3 DEF LinkOf
<1> QED
  BY <1>1, <1>8, <1>9, <1>10, <1>11, <1>12, <1>13, <1>14 DEF InvOf, LiveOf, r, t

-----------------------------------------------------------------------------
(* Runs of cells, cut in two and put together.                              *)
LEMMA RunFact ==
  ASSUME NEW S, NEW c \in Seq(S), NEW first \in Int, IsRun(c, first), NEW n \in 0..Len(c)
  PROVE  /\ SubSeq(c, n + 1, Len(c)) \in Seq(S) /\ Len(SubSeq(c, n + 1, Len(c))) = Len(c) - n
         /\ IsRun(SubSeq(c, n + 1, Len(c)), first + n)
         /\ SubSeq(c, 1, n) \in Seq(S) /\ Len(SubSeq(c, 1, n)) = n
         /\ IsRun(SubSeq(c, 1, n), first)
<1>1. Len(c) \in Nat /\ DOMAIN c = 1..Len(c) /\ \A i \in 1..Len(c) : c[i] \in S
  OBVIOUS
<1>2. n \in Nat /\ n <= Len(c)
  BY <1>1
<1> DEFINE a == SubSeq(c, n + 1, Len(c))
           b == SubSeq(c, 1, n)
<1>3. /\ a \in Seq(S) /\ Len(a) = IF n + 1 <= Len(c) THEN Len(c) - (n + 1) + 1 ELSE 0
      /\ \A i \in 1..Len(c) - (n + 1) + 1 : a[i] = c[(n + 1) + i - 1]
  <2>1. \A i \in (n + 1)..Len(c) : c[i] \in S
    BY <1>1, <1>2
  <2>2. n + 1 \in Int /\ Len(c) \in Int
    BY <1>1, <1>2
  <2> HIDE DEF a
  <2> QED
    BY <2>1, <2>2, SubSeqProperties DEF a
<1>4. /\ b \in Seq(S) /\ Len(b) = IF 1 <= n THEN n - 1 + 1 ELSE 0
      /\ \A i \in 1..n - 1 + 1 : b[i] = c[1 + i - 1]
  <2>1. \A i \in 1..n : c[i] \in S
    BY <1>1, <1>2
  <2>2. 1 \in Int /\ n \in Int
    BY <1>2
  <2> HIDE DEF b
  <2> QED
    BY <2>1, <2>2, SubSeqProperties DEF b
<1> HIDE DEF a, b
<1>5. Len(a) = Len(c) - n /\ Len(b) = n
  <2> DEFINE L == Len(c)
  <2>7. Len(a) = (IF n + 1 <= L THEN L - (n + 1) + 1 ELSE 0) /\ L \in Nat /\ n \in Nat /\ n <= L
    BY <1>1, <1>2, <1>3
  <2> HIDE DEF L
  <2>1. n + 1 <= L => Len(a) = L - n
    BY <2>7
  <2>2. ~(n + 1 <= L) => Len(a) = L - n
    BY <2>7
  <2>3. n = 0 => Len(b) = n
    BY <1>4
  <2>4. n # 0 => Len(b) = n
    BY <1>2, <1>4
  <2>5. Len(a) = Len(c) - n
    BY <2>1, <2>2 DEF L
  <2>6. Len(b) = n
    BY <2>3, <2>4
  <2> QED
    BY <2>5, <2>6
<1>6. DOMAIN a = 1..Len(c) - n /\ DOMAIN b = 1..n
  <2>1. DOMAIN a = 1..Len(a) /\ DOMAIN b = 1..Len(b)
    BY <1>3, <1>4
  <2> QED
    BY <2>1, <1>5
<1>7. \A i \in 1..Len(c) : c[i] = first + i - 1
  BY <1>1 DEF IsRun
<1>8. IsRun(a, first + n)
  <2>1. ASSUME NEW i \in 1..Len(c) - n PROVE a[i] = first + n + i - 1
    <3>1. i \in 1..Len(c) - (n + 1) + 1 /\ (n + 1) + i - 1 = n + i /\ n + i \in 1..Len(c)
      BY <1>1, <1>2
    <3>2. a[i] = c[n + i]
      BY <3>1, <1>3
    <3>3. c[n + i] = first + (n + i) - 1
      BY <3>1, <1>7
    <3> QED
      BY <3>2, <3>3, <1>2
  <2> QED
    BY <2>1, <1>6 DEF IsRun
<1>9. IsRun(b, first)
  <2>1. ASSUME NEW i \in 1..n PROVE b[i] = first + i - 1
    <3>1. i \in 1..n - 1 + 1 /\ 1 + i - 1 = i /\ i \in 1..Len(c)
      BY <1>1, <1>2
    <3> QED
      BY <3>1, <1>4, <1>7
  <2> QED
    BY <2>1, <1>6 DEF IsRun
<1> QED
  BY <1>3, <1>4, <1>5, <1>8, <1>9 DEF a, b

(* A run put behind the run it continues is a run.                          *)
LEMMA RunsJoin ==
  ASSUME NEW S, NEW c \in Seq(S), NEW d \in Seq(S), NEW first \in Int,
         IsRun(c, first), IsRun(d, first + Len(c))
  PROVE  c \o d \in Seq(S) /\ Len(c \o d) = Len(c) + Len(d) /\ IsRun(c \o d, first)
<1> DEFINE all == c \o d
<1>1. /\ Len(c) \in Nat /\ Len(d) \in Nat /\ DOMAIN c = 1..Len(c) /\ DOMAIN d = 1..Len(d)
      /\ all \in Seq(S) /\ Len(all) = Len(c) + Len(d) /\ DOMAIN all = 1..Len(c) + Len(d)
  OBVIOUS
<1>2. /\ \A i \in 1..Len(c) : all[i] = c[i]
      /\ \A i \in Len(c) + 1..Len(c) + Len(d) : all[i] = d[i - Len(c)]
  OBVIOUS
<1> HIDE DEF all
<1>3. ASSUME NEW i \in DOMAIN all PROVE all[i] = first + i - 1
  <2>1. i \in 1..Len(c) + Len(d)
    BY <1>1
  <2>2. CASE i \in 1..Len(c)
    BY <2>2, <1>1, <1>2 DEF IsRun
  <2>3. CASE i \in Len(c) + 1..Len(c) + Len(d)
    <3>1. i - Len(c) \in DOMAIN d /\ all[i] = d[i - Len(c)]
      BY <2>3, <1>1, <1>2
    <3>2. d[i - Len(c)] = first + Len(c) + (i - Len(c)) - 1
      BY <3>1 DEF IsRun
    <3> QED
      BY <3>1, <3>2, <2>1, <1>1
  <2> QED
    BY <2>1, <2>2, <2>3, <1>1
<1> QED
  BY <1>1, <1>3 DEF all, IsRun

(* A demuxer that fails: what it holds no longer matters.                   *)
LEMMA FailKeeps ==
  ASSUME NEW f, NEW q, NEW r, NEW u, NEW s, NEW o, InvOf(f, q, u, s, o), ~q.tricking, ~q.eos,
         IsQt(r), r.busy = FALSE, r.err = TRUE,
         Keeps(r, q, Fields \ {"busy", "err", "needed", "todrop", "offset", "adapter", "mdatleft"}),
         r.needed \in -1..f.size + 1, r.todrop \in Nat, r.offset \in 0..f.size,
         r.adapter \in Seq(0..f.size - 1), r.mdatleft \in Nat
  PROVE  InvOf(f, r, u, s, o)
<1>1. TypeOf(f, r, u, s)
  <2>1. /\ r.state = q.state /\ r.mdatbuf = q.mdatbuf /\ r.run = q.run /\ r.rate = q.rate
        /\ r.eos = q.eos /\ r.gotMoov = q.gotMoov /\ r.trick = q.trick /\ r.pushedI = q.pushedI
        /\ r.discont = q.discont /\ r.tricking = q.tricking /\ r.flushing = q.flushing
    BY DEF Keeps, Fields
  <2>2. /\ PlainFile(f) /\ IsUp(u) /\ IsSeek(s)
        /\ q.state \in {"initial", "header", "buffer_mdat", "movie"}
        /\ q.mdatbuf \in Seq(0..f.size - 1) /\ q.run \in Nat /\ q.rate \in {1, -1}
        /\ q.eos \in BOOLEAN /\ q.gotMoov \in BOOLEAN /\ q.trick \in BOOLEAN /\ q.pushedI \in BOOLEAN
        /\ q.discont \in BOOLEAN /\ q.tricking \in BOOLEAN /\ q.flushing \in BOOLEAN
        /\ u.pos \in 0..f.size /\ u.segment \in -1..f.size /\ s.step \in {"none", "flushing"}
    BY DEF InvOf, TypeOf
  <2> QED
    BY <2>1, <2>2 DEF TypeOf
<1>2. FlagsOf(f, r, u, s)
  <2>1. /\ r.flushing = q.flushing /\ r.tricking = q.tricking /\ r.trick = q.trick
        /\ r.state = q.state /\ r.tracks = q.tracks /\ r.restore = q.restore /\ r.mdatbuf = q.mdatbuf
        /\ r.firstMdat = q.firstMdat /\ r.eos = q.eos
    BY DEF Keeps, Fields
  <2>2. FlagsOf(f, q, u, s)
    BY DEF InvOf
  <2> QED
    BY <2>1, <2>2 DEF FlagsOf
<1>3. /\ IndexOf(f, r) /\ EndOf(r) /\ CoversOf(f, r, s) /\ OutOf(r, o) /\ InRow(o)
      /\ DoneOf(r, u, o) /\ TrickOf(r, u, o) /\ FirstOf(f, r)
  <2>1. /\ IndexOf(f, q) /\ EndOf(q) /\ CoversOf(f, q, s) /\ OutOf(q, o) /\ InRow(o)
        /\ DoneOf(q, u, o) /\ TrickOf(q, u, o) /\ FirstOf(f, q)
    BY DEF InvOf
  <2>2. \A x \in Fields \ {"busy", "err", "needed", "todrop", "offset", "adapter", "mdatleft"} : r[x] = q[x]
    BY DEF Keeps
  <2>3. /\ Keeps(r, q, {"gotMoov", "tracks", "index", "from"})
        /\ Keeps(r, q, {"eos", "trick", "flushing", "tracks", "index"})
        /\ Keeps(r, q, {"covers", "tracks", "from"})
        /\ Keeps(r, q, {"tracks", "run", "from", "index"})
        /\ Keeps(r, q, {"trick", "flushing", "state", "tracks", "from", "index", "run"})
        /\ Keeps(r, q, {"trick", "flushing", "pushedI", "tricking", "eos", "run"})
        /\ Keeps(r, q, {"firstMdat"})
    BY <2>2 DEF Keeps, Fields
  <2>4. IndexOf(f, r) /\ EndOf(r) /\ CoversOf(f, r, s) /\ OutOf(r, o)
    BY <2>1, <2>3, Speaks
  <2>5. DoneOf(r, u, o) /\ TrickOf(r, u, o) /\ FirstOf(f, r)
    BY <2>1, <2>3, Speaks
  <2> QED
    BY <2>1, <2>4, <2>5
<1> QED
  BY <1>1, <1>2, <1>3 DEF InvOf

(* Media data is kept until the header comes.                               *)
LEMMA BufferMdatKeeps == PushInv /\ BufferMdat => InvOf(file', qt', up', seek', out')
<1> SUFFICES ASSUME PushInv, BufferMdat PROVE InvOf(file', qt', up', seek', out')
  OBVIOUS
<1> DEFINE q == qt
           r == qt'
           n == q.needed
           cut == SubSeq(q.adapter, 1, q.needed)
           rest == SubSeq(q.adapter, q.needed + 1, Len(q.adapter))
           buf == q.mdatbuf \o cut
<1>1. /\ file' = file /\ up' = up /\ seek' = seek /\ out' = out
      /\ q.busy /\ n # NoEntry /\ Len(q.adapter) >= n /\ q.state = "buffer_mdat"
      /\ r = [Rescan(Flushed(q, n)) EXCEPT !.mdatbuf = q.mdatbuf \o cut, !.offset = @ + n]
  BY DEF BufferMdat, Ready, Flushed, Rescan
<1>2. /\ InvOf(file, q, up, seek, out) /\ IsQt(q) /\ LiveOf(file, q, up) /\ FlagsOf(file, q, up, seek)
      /\ TypeOf(file, q, up, seek) /\ IndexOf(file, q) /\ PlainFile(file)
  BY <1>1 DEF PushInv, InvOf, TypeOf, FlagsOf
<1>3. /\ IsQt(r) /\ r.state = "initial" /\ r.needed = Head1 /\ r.adapter = rest /\ r.mdatbuf = buf
      /\ r.offset = q.offset + n
      /\ Keeps(r, q, Fields \ {"state", "needed", "adapter", "mdatbuf", "offset"})
  BY <1>1, <1>2 DEF IsQt, Fields, Keeps, Rescan, Flushed
<1> HIDE DEF q, r, rest, cut, buf
<1>4. /\ ~q.eos /\ ~q.err /\ ~q.flushing /\ ~q.trick /\ ~q.tricking
      /\ q.tracks = <<>> /\ ~file.fragmented /\ ~Jumps(file)
  BY <1>1, <1>2 DEF FlagsOf, LiveOf, AtomOf, q
<1>5. PICK a \in Range(file.atoms) : a.first = q.offset /\ a.len = n /\ a.kind # "moov"
  BY <1>1, <1>2 DEF LiveOf, AtomOf, q
<1> HIDE DEF n
<1>6. /\ file.size \in Nat /\ n \in Nat \ {0} /\ q.offset \in Nat /\ q.offset + n <= file.size
      /\ n <= Len(q.adapter) /\ Len(q.adapter) \in Nat
  BY <1>1, <1>2, <1>5, AtomFact DEF TypeOf, q, n
<1>7. /\ q.adapter \in Seq(0..file.size - 1) /\ q.mdatbuf \in Seq(0..file.size - 1)
      /\ IsRun(q.adapter, q.offset)
  BY <1>2 DEF TypeOf, LiveOf, LinkOf
<1>8. /\ rest \in Seq(0..file.size - 1) /\ Len(rest) = Len(q.adapter) - n /\ IsRun(rest, q.offset + n)
      /\ cut \in Seq(0..file.size - 1) /\ Len(cut) = n /\ IsRun(cut, q.offset)
  <2>1. n \in 0..Len(q.adapter) /\ q.offset \in Int
    BY <1>6
  <2> QED
    BY <2>1, <1>7, RunFact DEF rest, cut, n
<1>9. up.segment = NoSegment /\ up.pos = q.offset + Len(q.adapter)
  <2>1. q.adapter # <<>>
    BY <1>6
  <2> QED
    BY <2>1, <1>1, <1>2, <1>4 DEF LiveOf, LinkOf, Apart, q
<1>10. Kept(file, q)
  BY <1>1, <1>2, <1>4 DEF LiveOf, NoTracksOf, q
<1>11. /\ buf \in Seq(0..file.size - 1) /\ Len(buf) = Len(q.mdatbuf) + n /\ IsRun(buf, q.mdatoffset)
       /\ Len(q.mdatbuf) \in Nat /\ q.mdatoffset \in Nat /\ q.mdatoffset + Len(q.mdatbuf) = q.offset
  <2>1. q.mdatoffset \in Nat
    BY <1>2, <1>10, AtomFact DEF Kept
  <2>2. IsRun(q.mdatbuf, q.mdatoffset) /\ q.mdatoffset + Len(q.mdatbuf) = q.offset /\ q.mdatoffset \in Int
    BY <2>1, <1>10 DEF Kept
  <2>3. IsRun(cut, q.mdatoffset + Len(q.mdatbuf))
    BY <2>2, <1>8
  <2>4. buf \in Seq(0..file.size - 1) /\ Len(buf) = Len(q.mdatbuf) + Len(cut) /\ IsRun(buf, q.mdatoffset)
    BY <2>2, <2>3, <1>7, <1>8, RunsJoin DEF buf
  <2> QED
    BY <2>1, <2>2, <2>4, <1>7, <1>8
<1>12. TypeOf(file, r, up, seek)
  <2>1. /\ r.todrop = q.todrop /\ r.mdatleft = q.mdatleft /\ r.run = q.run /\ r.rate = q.rate
        /\ r.busy = q.busy /\ r.err = q.err /\ r.eos = q.eos /\ r.gotMoov = q.gotMoov
        /\ r.trick = q.trick /\ r.pushedI = q.pushedI /\ r.discont = q.discont
        /\ r.tricking = q.tricking /\ r.flushing = q.flushing
    BY <1>3 DEF Keeps, Fields
  <2>2. r.adapter \in Seq(0..file.size - 1) /\ r.mdatbuf \in Seq(0..file.size - 1)
    BY <1>3, <1>8, <1>11
  <2>3. r.needed \in -1..file.size + 1 /\ r.offset \in 0..file.size
    BY <1>3, <1>6 DEF Head1
  <2> QED
    BY <1>2, <1>3, <2>1, <2>2, <2>3 DEF TypeOf
<1>13. FlagsOf(file, r, up, seek)
  <2>1. /\ r.flushing = q.flushing /\ r.tricking = q.tricking /\ r.trick = q.trick /\ r.busy = q.busy
        /\ r.tracks = q.tracks /\ r.restore = q.restore
        /\ r.firstMdat = q.firstMdat /\ r.eos = q.eos /\ r.err = q.err
    BY <1>3 DEF Keeps, Fields
  <2> QED
    BY <1>1, <1>2, <1>3, <1>4, <1>9, <2>1 DEF FlagsOf
<1>14. /\ IndexOf(file, r) /\ EndOf(r) /\ CoversOf(file, r, seek) /\ OutOf(r, out) /\ InRow(out)
       /\ TrickOf(r, up, out) /\ FirstOf(file, r)
  BY <1>2, <1>3, Speaks DEF InvOf, Keeps, Fields
<1>15. r.tracks = <<>> /\ r.firstMdat = q.firstMdat /\ r.eos = q.eos /\ r.busy = q.busy
       /\ r.mdatoffset = q.mdatoffset
  BY <1>3, <1>4 DEF Keeps, Fields
<1>16. DoneOf(r, up, out)
  BY <1>15 DEF DoneOf
<1>17. LinkOf(file, r, up)
  <2>1. up.pos = r.offset + Len(r.adapter)
    BY <1>3, <1>6, <1>8, <1>9
  <2> QED
    BY <2>1, <1>1, <1>3, <1>8, <1>9, <1>15 DEF LinkOf, q
<1>18. AtomOf(file, r, up) /\ MovieOf(file, r, up) /\ AheadOf(r, up) /\ HeadOf(file, r)
       /\ FragmentsOf(file, r)
  BY <1>3, <1>4, <1>15 DEF AtomOf, MovieOf, AheadOf, MediaAhead, HeadOf, FragmentsOf
<1>19. NoTracksOf(file, r)
  <2>1. \A m \in AtomsOf(file, "moov") : r.offset <= m.first
    <3>1. SUFFICES ASSUME NEW m \in AtomsOf(file, "moov") PROVE q.offset + n <= m.first
      BY <1>3
    <3>2. q.offset <= m.first
      BY <1>2, <1>4 DEF LiveOf, NoTracksOf
    <3>3. m \in Range(file.atoms) /\ m.kind = "moov"
      BY <1>2, AtomFact
    <3>4. m.first \in Nat /\ m.len \in Nat \ {0} /\ (a.first + a.len <= m.first \/ m.first + m.len <= a.first)
      BY <1>2, <1>5, <3>3, AtomFact
    <3> QED
      BY <3>2, <3>4, <1>5, <1>6
  <2>2. Kept(file, r)
    <3>1. q.mdatoffset + Len(buf) = q.offset + n
      BY <1>6, <1>11
    <3> QED
      BY <3>1, <1>3, <1>10, <1>11, <1>15 DEF Kept
  <2>3. r.mdatbuf # <<>>
    BY <1>3, <1>6, <1>11
  <2>4. r.firstMdat = NoEntry
    BY <1>2, <1>4, <1>15 DEF LiveOf, NoTracksOf
  <2> QED
    BY <2>1, <2>2, <2>3, <2>4, <1>4 DEF NoTracksOf
<1> QED
  BY <1>1, <1>12, <1>13, <1>14, <1>16, <1>17, <1>18, <1>19 DEF InvOf, LiveOf, r

-----------------------------------------------------------------------------
(* The head of an atom.                                                     *)

(* A demuxer that is ready and does not play yet.                           *)
LEMMA ReadyFact ==
  ASSUME PushInv, Ready, qt.state # "movie" \/ up.segment = NoSegment
  PROVE  /\ InvOf(file, qt, up, seek, out) /\ IsQt(qt) /\ TypeOf(file, qt, up, seek) /\ IndexOf(file, qt)
         /\ FlagsOf(file, qt, up, seek) /\ LiveOf(file, qt, up) /\ PlainFile(file)
         /\ qt.busy /\ ~qt.eos /\ ~qt.err /\ qt.needed # NoEntry
         /\ file.size \in Nat /\ qt.offset \in Nat /\ Len(qt.adapter) \in Nat /\ qt.needed \in Nat
         /\ qt.needed <= Len(qt.adapter) /\ IsRun(qt.adapter, qt.offset)
         /\ qt.adapter \in Seq(0..file.size - 1)
<1>1. qt.busy /\ qt.needed # NoEntry /\ qt.needed <= Len(qt.adapter) /\ InvOf(file, qt, up, seek, out)
  BY DEF Ready, PushInv
<1>2. FlagsOf(file, qt, up, seek) /\ TypeOf(file, qt, up, seek) /\ IndexOf(file, qt) /\ PlainFile(file)
  BY <1>1 DEF InvOf, TypeOf
<1>3. ~qt.eos /\ ~qt.err
  BY <1>1, <1>2 DEF FlagsOf
<1>4. LiveOf(file, qt, up)
  BY <1>1, <1>3 DEF InvOf
<1>5. file.size \in Nat
  BY <1>2, AtomFact
<1>6. /\ qt.needed \in -1..file.size + 1 /\ qt.offset \in 0..file.size
      /\ qt.adapter \in Seq(0..file.size - 1) /\ IsQt(qt)
  BY <1>2 DEF TypeOf
<1>7. qt.needed \in Nat /\ qt.offset \in Nat /\ Len(qt.adapter) \in Nat
  BY <1>1, <1>5, <1>6 DEF NoEntry
<1>8. IsRun(qt.adapter, qt.offset)
  BY <1>4 DEF LiveOf, LinkOf
<1> QED
  BY <1>1, <1>2, <1>3, <1>4, <1>5, <1>6, <1>7, <1>8

(* The atom whose head is read begins at the offset.                        *)
LEMMA HeadFact ==
  ASSUME PushInv, Ready, qt.state \in {"initial", "header"}
  PROVE  /\ qt.needed >= 1 /\ qt.adapter[1] = qt.offset
         /\ up.segment = NoSegment /\ up.pos = qt.offset + Len(qt.adapter)
         /\ MediaAhead(qt) /\ ~qt.flushing /\ ~qt.trick /\ ~qt.tricking
         /\ (qt.mdatbuf # <<>> => qt.tracks = <<>> /\ ~file.fragmented)
<1>1. /\ InvOf(file, qt, up, seek, out) /\ TypeOf(file, qt, up, seek) /\ FlagsOf(file, qt, up, seek)
      /\ LiveOf(file, qt, up) /\ PlainFile(file) /\ ~qt.eos /\ qt.state # "movie"
      /\ qt.needed \in Nat /\ qt.offset \in Nat /\ Len(qt.adapter) \in Nat
      /\ qt.needed <= Len(qt.adapter) /\ IsRun(qt.adapter, qt.offset)
      /\ qt.adapter \in Seq(0..file.size - 1)
  BY ReadyFact
<1>2. qt.needed >= 1
  <2>1. CASE qt.state = "initial"
    BY <2>1, <1>1 DEF LiveOf, AtomOf, Head1
  <2>2. CASE qt.state = "header"
    <3>1. PICK a \in Range(file.atoms) : a.len = qt.needed
      BY <2>2, <1>1 DEF LiveOf, AtomOf
    <3> QED
      BY <3>1, <1>1, AtomFact
  <2> QED
    BY <2>1, <2>2
<1>3. qt.adapter[1] = qt.offset
  <2>1. 1 \in DOMAIN qt.adapter
    BY <1>1, <1>2
  <2> QED
    BY <2>1, <1>1 DEF IsRun
<1>4. qt.adapter # <<>>
  BY <1>1, <1>2
<1>5. up.segment = NoSegment /\ up.pos = qt.offset + Len(qt.adapter)
  BY <1>1, <1>4 DEF LiveOf, LinkOf, Apart
<1>6. MediaAhead(qt)
  BY <1>1, <1>5 DEF LiveOf, AheadOf
<1>7. ~qt.flushing /\ ~qt.trick /\ ~qt.tricking
  BY <1>1 DEF FlagsOf
<1>8. qt.mdatbuf # <<>> => qt.tracks = <<>> /\ ~file.fragmented
  BY <1>1 DEF FlagsOf, LiveOf, HeadOf
<1> QED
  BY <1>2, <1>3, <1>5, <1>6, <1>7, <1>8

(* In a fragment there is a sample in the media data that comes next.       *)
LEMMA FragmentFact ==
  ASSUME NEW f, NEW q, NEW u, NEW s, PlainFile(f), f.fragmented, q.state # "movie", IndexOf(f, q), TypeOf(f, q, u, s),
         NoTracksOf(f, q), FragmentsOf(f, q), NEW a \in AtomsOf(f, "mdat"), a.first = q.offset
  PROVE  q.tracks # <<>> /\ ~NoMediaLeft(q)
<1>1. SoundFragments(f) /\ a \in Range(f.atoms) /\ a.first \in Nat
  BY AtomFact DEF PlainFile
<1>2. q.tracks # <<>>
  <2>1. PICK m \in AtomsOf(f, "moov") : m.first < a.first
    BY <1>1 DEF SoundFragments
  <2>2. m.first \in Nat
    BY AtomFact
  <2> QED
    BY <2>1, <2>2, <1>1 DEF NoTracksOf
<1>3. DOMAIN q.tracks = DOMAIN f.tracks /\ \A k \in DOMAIN q.tracks : q.tracks[k].kind = f.tracks[k].kind
  BY <1>2 DEF IndexOf, IsIndex
<1>4. PICK b \in AtomsOf(f, "moof") : \E k \in DOMAIN f.tracks :
         /\ b.first < a.first /\ IsMedia(f.tracks[k])
         /\ \E i \in DOMAIN b.adds[k] : Within(a, b.adds[k][i].off)
  BY <1>1 DEF SoundFragments
<1>5. PICK k \in DOMAIN q.tracks : 
         /\ b.first < a.first /\ IsMedia(q.tracks[k])
         /\ \E i \in DOMAIN b.adds[k] : Within(a, b.adds[k][i].off)
  BY <1>3, <1>4 DEF IsMedia, Sparse
<1>6. PICK i \in DOMAIN b.adds[k] : Within(a, b.adds[k][i].off)
  BY <1>5
<1>7. Known(q, b)
  BY <1>2, <1>5 DEF FragmentsOf
<1>8. PICK j \in Numbers(q, k) : Off(q, k, j) = b.adds[k][i].off
  BY <1>7 DEF Known
<1>9. Off(q, k, j) \in Nat /\ q.offset < Off(q, k, j) /\ j \in Nat /\ j <= Count(q.tracks[k])
  BY <1>1, <1>6, <1>8, SampleFact, AtomFact DEF Within
<1>10. ~(j < Stand(q)[k])
  <2>1. j < Stand(q)[k] => Off(q, k, j) < q.offset
    BY <1>2 DEF FragmentsOf
  <2> QED
    BY <2>1, <1>9, <1>1
<1>11. Stand(q)[k] \in Nat /\ Count(q.tracks[k]) \in Nat
  BY StandFact, SampleFact
<1>12. ~(Stand(q)[k] > Count(q.tracks[k]))
  BY <1>9, <1>10, <1>11
<1> QED
  BY <1>2, <1>5, <1>12 DEF NoMediaLeft

(* The media data can be played.                                            *)
LEMMA InitialPlays ==
  ASSUME PushInv, Ready, qt.state = "initial", NEW a \in AtomAt(qt.adapter[1]), a.kind = "mdat",
         qt.tracks # <<>>, WithNextEntry(qt).needed # NoEntry \/ ~file.fragmented,
         qt' = [WithNextEntry(qt) EXCEPT !.state = "movie", !.mdatleft = a.len],
         file' = file, up' = up, seek' = seek, out' = out
  PROVE  InvOf(file', qt', up', seek', out')
<1> DEFINE q == qt
           e == WithNextEntry(q)
           r == qt'
<1>1. /\ InvOf(file, q, up, seek, out) /\ IsQt(q) /\ TypeOf(file, q, up, seek) /\ IndexOf(file, q)
      /\ FlagsOf(file, q, up, seek) /\ LiveOf(file, q, up) /\ PlainFile(file)
      /\ q.busy /\ ~q.eos /\ ~q.err /\ file.size \in Nat /\ q.offset \in Nat
  BY ReadyFact
<1>2. /\ q.adapter[1] = q.offset /\ up.segment = NoSegment /\ up.pos = q.offset + Len(q.adapter)
      /\ MediaAhead(q) /\ ~q.flushing /\ ~q.trick /\ ~q.tricking /\ q.mdatbuf = <<>>
  BY HeadFact
<1>3. a \in Range(file.atoms) /\ a.first = q.offset /\ a \in AtomsOf(file, "mdat")
      /\ a.len \in Nat \ {0} /\ a.first + a.len <= file.size
  <2>1. a \in Range(file.atoms) /\ a.first = q.offset
    BY <1>2 DEF AtomAt
  <2> QED
    BY <2>1, <1>1, AtomFact
<1>4. q.offset \in 0..file.size
  BY <1>1 DEF TypeOf
<1>5. /\ IsQt(e) /\ Keeps(e, q, Fields \ {"index", "todrop", "needed"}) /\ e.index = Stand(q)
  BY <1>1, EntryShape
<1>6. \/ NextAt(e) /\ e.needed \in 1..file.size
      \/ e.needed = NoEntry /\ e.todrop = q.todrop /\ NoMediaLeft(e)
  BY <1>1, <1>2, <1>4, NextEntry
<1> HIDE DEF e, q
<1>7. /\ IsQt(r) /\ r.state = "movie" /\ r.mdatleft = a.len /\ Keeps(r, e, Fields \ {"state", "mdatleft"})
  BY <1>5 DEF IsQt, Fields, Keeps, e, q
<1> HIDE DEF r
<1>8. /\ r.index = Stand(q) /\ r.needed = e.needed /\ r.todrop = e.todrop
      /\ Keeps(r, q, Fields \ {"index", "todrop", "needed", "state", "mdatleft"})
  BY <1>5, <1>7 DEF Keeps, Fields
<1>9. /\ r.tracks = q.tracks /\ r.offset = q.offset /\ r.from = q.from /\ r.gotMoov = q.gotMoov
      /\ r.adapter = q.adapter /\ r.mdatbuf = q.mdatbuf /\ r.run = q.run /\ r.rate = q.rate
      /\ r.busy = q.busy /\ r.err = q.err /\ r.eos = q.eos
      /\ r.trick = q.trick /\ r.pushedI = q.pushedI /\ r.discont = q.discont
      /\ r.tricking = q.tricking /\ r.flushing = q.flushing /\ r.restore = q.restore
      /\ r.firstMdat = q.firstMdat /\ r.covers = q.covers
  BY <1>8 DEF Keeps, Fields
<1>10. Stand(q) \in [DOMAIN q.tracks -> Nat \ {0}] /\ Stand(r) = Stand(q) /\ r.index = Stand(r)
  BY <1>1, <1>8, StandFact DEF Stand
<1>11. TypeOf(file, r, up, seek)
  <2>1. r.needed \in -1..file.size + 1 /\ r.todrop \in Nat
    BY <1>1, <1>6, <1>8 DEF NextAt, NoEntry, TypeOf
  <2>2. r.mdatleft \in Nat
    BY <1>3, <1>7
  <2> QED
    BY <1>1, <1>7, <1>9, <2>1, <2>2 DEF TypeOf
<1>12. IndexOf(file, r)
  BY <1>1, <1>9, <1>10 DEF IndexOf
<1>13. FlagsOf(file, r, up, seek)
  BY <1>1, <1>2, <1>7, <1>9 DEF FlagsOf, q
<1>14. EndOf(r) /\ DoneOf(r, up, out) /\ TrickOf(r, up, out)
  <2>1. DoneOf(q, up, out)
    BY <1>1 DEF InvOf
  <2> QED
    BY <2>1, <1>1, <1>2, <1>9, <1>10 DEF EndOf, DoneOf, TrickOf
<1>15. CoversOf(file, r, seek) /\ OutOf(r, out) /\ InRow(out) /\ FirstOf(file, r)
  BY <1>1, <1>9, <1>10 DEF InvOf, CoversOf, OutOf, FirstOf, Numbers, Off
<1>16. LinkOf(file, r, up)
  <2>1. LinkOf(file, q, up)
    BY <1>1 DEF LiveOf
  <2> QED
    BY <2>1, <1>1, <1>2, <1>9 DEF LinkOf
<1>17. AtomOf(file, r, up) /\ NoTracksOf(file, r) /\ HeadOf(file, r)
  BY <1>7, <1>9 DEF AtomOf, NoTracksOf, HeadOf, q
<1>18. MovieOf(file, r, up)
  <2>1. \A k \in DOMAIN r.tracks : r.index[k] >= 1
    BY <1>8, <1>9, <1>10
  <2>2. NextAt(e) => NextAt(r)
    BY <1>5, <1>8, <1>9 DEF NextAt, Stand, Numbers, Off, Keeps, Fields
  <2>3. NoMediaLeft(e) => NoMediaLeft(r)
    BY <1>5, <1>8, <1>9 DEF NoMediaLeft, Stand, Keeps, Fields
  <2>4. file.fragmented => NextAt(r)
    BY <2>2, <1>6 DEF e, q
  <2>5. \E d \in AtomsOf(file, "mdat") :
          d.first <= r.offset /\ r.offset + r.mdatleft = d.first + d.len
    BY <1>3, <1>1, <1>7, <1>9
  <2> QED
    BY <2>1, <2>2, <2>3, <2>4, <2>5, <1>2, <1>6, <1>8, <1>9 DEF MovieOf
<1>19. AheadOf(r, up) /\ FragmentsOf(file, r)
  <2>1. FragmentsOf(file, q) /\ MediaAhead(q)
    BY <1>1, <1>2 DEF LiveOf
  <2> QED
    BY <2>1, <1>9, <1>10 DEF AheadOf, MediaAhead, FragmentsOf, Known, SamplesBelow, Numbers, Off
<1> QED
  BY <1>11, <1>12, <1>13, <1>14, <1>15, <1>16, <1>17, <1>18, <1>19 DEF InvOf, LiveOf, r

(* The atom is read as a whole.                                             *)
LEMMA InitialReads ==
  ASSUME PushInv, Ready, qt.state = "initial", NEW a \in AtomAt(qt.adapter[1]), a.kind # "mdat",
         qt.mdatbuf = <<>> \/ a.kind \in {"moov", "moof"},
         qt' = [qt EXCEPT !.needed = a.len, !.state = "header"],
         file' = file, up' = up, seek' = seek, out' = out
  PROVE  InvOf(file', qt', up', seek', out')
<1> DEFINE q == qt
           r == qt'
<1>1. /\ InvOf(file, q, up, seek, out) /\ IsQt(q) /\ TypeOf(file, q, up, seek) /\ IndexOf(file, q)
      /\ FlagsOf(file, q, up, seek) /\ LiveOf(file, q, up) /\ PlainFile(file)
      /\ q.busy /\ ~q.eos /\ ~q.err /\ file.size \in Nat /\ q.offset \in Nat
  BY ReadyFact
<1>2. /\ q.adapter[1] = q.offset /\ up.segment = NoSegment /\ up.pos = q.offset + Len(q.adapter)
      /\ MediaAhead(q) /\ ~q.flushing /\ ~q.trick /\ ~q.tricking
      /\ (q.mdatbuf # <<>> => q.tracks = <<>> /\ ~file.fragmented)
  BY HeadFact
<1>3. a \in Range(file.atoms) /\ a.first = q.offset /\ a.len \in Nat \ {0} /\ a.first + a.len <= file.size
  <2>1. a \in Range(file.atoms) /\ a.first = q.offset
    BY <1>2 DEF AtomAt
  <2> QED
    BY <2>1, <1>1, AtomFact
<1>4. q.mdatbuf = <<>> \/ a.kind = "moov"
  <2>1. CASE ~file.fragmented /\ a.kind = "moof"
    <3>1. AtomsOf(file, "moof") = {}
      BY <2>1, <1>1 DEF PlainFile, SoundFilm
    <3> QED
      BY <3>1, <2>1, <1>1, <1>3, AtomFact
  <2> QED
    BY <2>1, <1>2
<1>5. /\ IsQt(r) /\ r.state = "header" /\ r.needed = a.len /\ Keeps(r, q, Fields \ {"state", "needed"})
  BY <1>1 DEF IsQt, Fields, Keeps
<1>6. q.state = "initial"
  OBVIOUS
<1> HIDE DEF q, r
<1>7. /\ r.tracks = q.tracks /\ r.offset = q.offset /\ r.from = q.from /\ r.gotMoov = q.gotMoov
      /\ r.adapter = q.adapter /\ r.mdatbuf = q.mdatbuf /\ r.run = q.run /\ r.rate = q.rate
      /\ r.busy = q.busy /\ r.err = q.err /\ r.eos = q.eos /\ r.mdatleft = q.mdatleft
      /\ r.trick = q.trick /\ r.pushedI = q.pushedI /\ r.discont = q.discont /\ r.index = q.index
      /\ r.tricking = q.tricking /\ r.flushing = q.flushing /\ r.restore = q.restore
      /\ r.firstMdat = q.firstMdat /\ r.covers = q.covers /\ r.todrop = q.todrop
      /\ r.mdatoffset = q.mdatoffset
  BY <1>5 DEF Keeps, Fields
<1>8. TypeOf(file, r, up, seek)
  <2>1. r.needed \in -1..file.size + 1
    BY <1>1, <1>3, <1>5
  <2> QED
    BY <1>1, <1>5, <1>7, <2>1 DEF TypeOf
<1>9. FlagsOf(file, r, up, seek)
  BY <1>1, <1>2, <1>5, <1>7 DEF FlagsOf
<1>10. /\ IndexOf(file, r) /\ EndOf(r) /\ CoversOf(file, r, seek) /\ OutOf(r, out) /\ InRow(out)
       /\ TrickOf(r, up, out) /\ FirstOf(file, r) /\ FragmentsOf(file, r)
  <2>1. /\ IndexOf(file, q) /\ EndOf(q) /\ CoversOf(file, q, seek) /\ OutOf(q, out) /\ InRow(out)
        /\ TrickOf(q, up, out) /\ FirstOf(file, q) /\ FragmentsOf(file, q)
    BY <1>1 DEF InvOf, LiveOf
  <2>2. IndexOf(file, r)
    BY <2>1, <1>7 DEF IndexOf, Stand
  <2>3. CoversOf(file, r, seek) /\ EndOf(r)
    BY <2>1, <1>1, <1>7 DEF CoversOf, EndOf
  <2>4. OutOf(r, out)
    BY <2>1, <1>7 DEF OutOf, Stand, Numbers, Off
  <2>5. TrickOf(r, up, out) /\ FirstOf(file, r)
    BY <2>1, <1>7 DEF TrickOf, FirstOf
  <2>6. FragmentsOf(file, r)
    BY <2>1, <1>7 DEF FragmentsOf, Known, SamplesBelow, Stand, Numbers, Off
  <2> QED
    BY <2>1, <2>2, <2>3, <2>4, <2>5, <2>6
<1>11. DoneOf(r, up, out)
  <2>1. DoneOf(q, up, out) /\ Stand(r) = Stand(q)
    BY <1>1, <1>7 DEF InvOf, Stand
  <2> QED
    BY <2>1, <1>2, <1>7 DEF DoneOf
<1>12. LinkOf(file, r, up)
  <2>1. LinkOf(file, q, up)
    BY <1>1 DEF LiveOf
  <2> QED
    BY <2>1, <1>1, <1>2, <1>7 DEF LinkOf
<1>13. AtomOf(file, r, up) /\ MovieOf(file, r, up)
  BY <1>3, <1>4, <1>5, <1>7 DEF AtomOf, MovieOf
<1>14. AheadOf(r, up)
  BY <1>2, <1>7 DEF AheadOf, MediaAhead, Stand, Numbers, Off
<1>15. HeadOf(file, r) /\ NoTracksOf(file, r)
  <2>1. HeadOf(file, q) /\ NoTracksOf(file, q)
    BY <1>1 DEF LiveOf
  <2> QED
    BY <2>1, <1>5, <1>6, <1>7 DEF HeadOf, NoTracksOf, MdatAhead, Kept
<1> QED
  BY <1>8, <1>9, <1>10, <1>11, <1>12, <1>13, <1>14, <1>15 DEF InvOf, LiveOf, r

(* The media data comes before the header: it is jumped over or kept.       *)
LEMMA InitialBuffers ==
  ASSUME PushInv, Ready, qt.state = "initial", NEW a \in AtomAt(qt.adapter[1]),
         IF a.kind = "mdat" THEN ~(qt.tracks # <<>> /\ (WithNextEntry(qt).needed # NoEntry \/ ~file.fragmented))
         ELSE qt.mdatbuf # <<>> /\ a.kind \notin {"moov", "moof"},
         BufferData(IF a.kind = "mdat" THEN [WithNextEntry(qt) EXCEPT !.needed = Head1] ELSE qt, a),
         file' = file, seek' = seek, out' = out
  PROVE  InvOf(file', qt', up', seek', out')
<1> DEFINE q == qt
           r == qt'
           v == up'
<1>1. /\ InvOf(file, q, up, seek, out) /\ IsQt(q) /\ TypeOf(file, q, up, seek) /\ IndexOf(file, q)
      /\ FlagsOf(file, q, up, seek) /\ LiveOf(file, q, up) /\ PlainFile(file)
      /\ q.busy /\ ~q.eos /\ ~q.err /\ file.size \in Nat /\ q.offset \in Nat
  BY ReadyFact
<1>2. /\ q.adapter[1] = q.offset /\ up.segment = NoSegment /\ up.pos = q.offset + Len(q.adapter)
      /\ MediaAhead(q) /\ ~q.flushing /\ ~q.trick /\ ~q.tricking
      /\ (q.mdatbuf # <<>> => q.tracks = <<>> /\ ~file.fragmented)
  BY HeadFact
<1>3. a \in Range(file.atoms) /\ a.first = q.offset /\ a.len \in Nat \ {0} /\ a.first + a.len <= file.size
  <2>1. a \in Range(file.atoms) /\ a.first = q.offset
    BY <1>2 DEF AtomAt
  <2> QED
    BY <2>1, <1>1, AtomFact
<1>4. q.offset \in 0..file.size
  BY <1>1 DEF TypeOf
<1>5. /\ IsQt(WithNextEntry(q)) /\ Keeps(WithNextEntry(q), q, Fields \ {"index", "todrop", "needed"})
      /\ WithNextEntry(q).index = Stand(q)
  BY <1>1, EntryShape
<1>6. \/ NextAt(WithNextEntry(q)) /\ WithNextEntry(q).needed \in 1..file.size
      \/ /\ WithNextEntry(q).needed = NoEntry /\ WithNextEntry(q).todrop = q.todrop
         /\ NoMediaLeft(WithNextEntry(q))
  BY <1>1, <1>2, <1>4, NextEntry
<1>7. q.needed = Head1 /\ NoTracksOf(file, q) /\ q.state = "initial"
  BY <1>1 DEF LiveOf, AtomOf
<1>8. ~file.fragmented
  <2>1. SUFFICES ASSUME file.fragmented PROVE FALSE
    OBVIOUS
  <2>2. a.kind = "mdat" /\ a \in AtomsOf(file, "mdat")
    BY <2>1, <1>1, <1>2, <1>3, AtomFact
  <2>3. q.tracks # <<>> /\ ~NoMediaLeft(q)
    BY <2>1, <2>2, <1>1, <1>3, <1>7, FragmentFact DEF LiveOf
  <2>4. NoMediaLeft(WithNextEntry(q))
    BY <2>1, <2>2, <2>3, <1>6 DEF NoEntry
  <2>5. /\ Stand(WithNextEntry(q)) = Stand(q)
        /\ WithNextEntry(q).tracks = q.tracks
    BY <1>1, <1>5, StandFact DEF Stand, Keeps, Fields
  <2>6. NoMediaLeft(q)
    BY <2>4, <2>5 DEF NoMediaLeft
  <2> QED
    BY <2>3, <2>6
<1>9. q.tracks = <<>>
  BY <1>2, <1>8
<1> DEFINE e == WithNextEntry(q)
           p == IF a.kind = "mdat" THEN [e EXCEPT !.needed = Head1] ELSE q
           mark == IF a.kind = "mdat" /\ q.firstMdat = NoEntry THEN q.offset ELSE q.firstMdat
<1>10. IF Jumps(file)
       THEN /\ v = [up EXCEPT !.pos = p.offset + a.len, !.segment = p.offset + a.len]
            /\ r = [Rescan(FlushReset(p)) EXCEPT !.offset = p.offset + a.len,
                      !.firstMdat = IF a.kind = "mdat" /\ p.firstMdat = NoEntry THEN p.offset ELSE p.firstMdat]
       ELSE /\ v = up
            /\ r = IF Len(p.mdatbuf) + a.len > MaxBuffer THEN Failed(p)
                   ELSE [p EXCEPT !.state = "buffer_mdat", !.needed = a.len,
                           !.mdatoffset = IF p.mdatbuf = <<>> THEN p.offset ELSE @]
  BY DEF BufferData, Jumps
<1>11. p = q
  <2>1. e.todrop = q.todrop
    BY <1>6, <1>9, <1>5 DEF NextAt, Keeps, Fields
  <2>2. Stand(q) = q.index
    <3>1. q.index \in [DOMAIN q.tracks -> Nat] /\ DOMAIN q.tracks = {}
      BY <1>1, <1>9 DEF IndexOf
    <3>2. Stand(q) \in [DOMAIN q.tracks -> Nat \ {0}]
      BY <1>1, StandFact
    <3> QED
      BY <3>1, <3>2
  <2>3. CASE a.kind = "mdat"
    <3> DEFINE w == [e EXCEPT !.needed = Head1]
    <3> HIDE DEF e, q
    <3>1. IsQt(w) /\ Keeps(w, e, Fields \ {"needed"}) /\ w.needed = Head1
      BY <1>5 DEF IsQt, Fields, Keeps, e
    <3>2. Keeps(w, q, Fields)
      <4>1. \A x \in Fields \ {"index", "todrop", "needed"} : w[x] = q[x]
        BY <3>1, <1>5 DEF Keeps, e
      <4>2. w.index = q.index /\ w.todrop = q.todrop /\ w.needed = q.needed
        BY <3>1, <2>1, <2>2, <1>5, <1>7 DEF Keeps, Fields, e
      <4> QED
        BY <4>1, <4>2 DEF Keeps
    <3> HIDE DEF w
    <3>3. w = q
      BY <3>1, <3>2, <1>1 DEF IsQt, Keeps
    <3> QED
      BY <3>3, <2>3 DEF w
  <2> QED
    BY <2>3
<1>12. q.mdatbuf = <<>> => a.kind = "mdat"
  OBVIOUS
<1>13. a.kind # "moov" /\ (a.kind # "mdat" => q.mdatbuf # <<>>)
  OBVIOUS
<1> HIDE DEF p, q, e, mark
<1>14. \A m \in AtomsOf(file, "moov") : q.offset + a.len <= m.first
  <2>1. SUFFICES ASSUME NEW m \in AtomsOf(file, "moov") PROVE q.offset + a.len <= m.first
    OBVIOUS
  <2>2. q.offset <= m.first
    BY <1>7, <1>9 DEF NoTracksOf
  <2>3. m \in Range(file.atoms) /\ m.kind = "moov"
    BY <1>1, AtomFact
  <2>4. m.first \in Nat /\ m.len \in Nat \ {0} /\ (a.first + a.len <= m.first \/ m.first + m.len <= a.first)
    BY <1>1, <1>3, <1>13, <2>3, AtomFact
  <2> QED
    BY <2>2, <2>4, <1>1, <1>3
<1>15. CASE Jumps(file)
  <2> DEFINE target == q.offset + a.len
  <2>1. /\ v = [up EXCEPT !.pos = target, !.segment = target]
        /\ r = [Rescan(FlushReset(q)) EXCEPT !.offset = target, !.firstMdat = mark]
    BY <1>10, <1>11, <1>15 DEF mark
  <2>2. target \in 0..file.size /\ target \in Nat
    BY <1>1, <1>3
  <2> HIDE DEF target
  <2>3. v.pos = target /\ v.segment = target /\ IsUp(v)
    BY <2>1, <1>1 DEF TypeOf, IsUp
  <2>4. /\ IsQt(r) /\ r.state = "initial" /\ r.needed = Head1 /\ r.adapter = <<>> /\ r.offset = target
        /\ r.pushedI = FALSE /\ r.firstMdat = mark
        /\ Keeps(r, q, Fields \ {"state", "needed", "adapter", "offset", "pushedI", "firstMdat"})
    BY <2>1, <1>1 DEF IsQt, Fields, Keeps, Rescan, FlushReset
  <2> HIDE DEF r, v
  <2>5. /\ r.tracks = <<>> /\ r.from = q.from /\ r.gotMoov = q.gotMoov
        /\ r.mdatbuf = q.mdatbuf /\ r.run = q.run /\ r.rate = q.rate
        /\ r.busy = q.busy /\ r.err = q.err /\ r.eos = q.eos /\ r.mdatleft = q.mdatleft
        /\ r.trick = q.trick /\ r.discont = q.discont /\ r.index = q.index
        /\ r.tricking = q.tricking /\ r.flushing = q.flushing /\ r.restore = q.restore
        /\ r.covers = q.covers /\ r.todrop = q.todrop
    BY <2>4, <1>9 DEF Keeps, Fields
  <2>6. TypeOf(file, r, v, seek)
    <3>1. r.adapter \in Seq(0..file.size - 1) /\ r.needed \in -1..file.size + 1
      BY <2>4, <1>1 DEF Head1
    <3>2. v.pos \in 0..file.size /\ v.segment \in -1..file.size
      BY <2>2, <2>3, <1>1
    <3> QED
      BY <1>1, <2>2, <2>3, <2>4, <2>5, <3>1, <3>2 DEF TypeOf
  <2>7. FlagsOf(file, r, v, seek)
    BY <1>1, <1>2, <1>8, <2>4, <2>5 DEF FlagsOf
  <2>8. /\ IndexOf(file, r) /\ CoversOf(file, r, seek) /\ OutOf(r, out) /\ InRow(out)
    <3>1. IndexOf(file, q) /\ CoversOf(file, q, seek) /\ OutOf(q, out) /\ InRow(out)
      BY <1>1 DEF InvOf
    <3>2. IndexOf(file, r)
      BY <3>1, <2>5, <1>9 DEF IndexOf, Stand
    <3>3. CoversOf(file, r, seek)
      BY <3>1, <2>5, <1>9 DEF CoversOf
    <3>4. OutOf(r, out)
      BY <3>1, <2>5, <1>9 DEF OutOf, Stand, Numbers, Off
    <3> QED
      BY <3>1, <3>2, <3>3, <3>4
  <2>9. EndOf(r) /\ TrickOf(r, v, out) /\ DoneOf(r, v, out)
    BY <1>1, <1>2, <2>5 DEF EndOf, TrickOf, DoneOf
  <2>10. q.mdatbuf = <<>> /\ a.kind = "mdat" /\ (q.firstMdat = NoEntry => MdatAhead(file, q))
    BY <1>7, <1>8, <1>9, <1>12, <1>15 DEF NoTracksOf
  <2>11. mark # NoEntry
    BY <2>10, <1>1 DEF mark, NoEntry
  <2>12. FirstOf(file, r)
    <3>1. CASE q.firstMdat = NoEntry
      <4>1. r.firstMdat = q.offset /\ MdatAhead(file, q)
        BY <3>1, <2>4, <2>10 DEF mark
      <4> QED
        BY <4>1, <1>4 DEF FirstOf, MdatAhead
    <3>2. CASE q.firstMdat # NoEntry
      <4>1. r.firstMdat = q.firstMdat /\ FirstOf(file, q)
        BY <3>2, <2>4, <1>1 DEF mark, InvOf
      <4> QED
        BY <4>1 DEF FirstOf
    <3> QED
      BY <3>1, <3>2
  <2>13. LinkOf(file, r, v)
    <3>1. IsRun(r.adapter, r.offset)
      BY <2>4 DEF IsRun
    <3>2. v.segment # NoSegment
      BY <2>2, <2>3 DEF NoSegment
    <3> QED
      BY <3>1, <3>2, <2>3, <2>4 DEF LinkOf
  <2>14. /\ AtomOf(file, r, v) /\ MovieOf(file, r, v) /\ AheadOf(r, v) /\ HeadOf(file, r)
         /\ FragmentsOf(file, r)
    BY <2>4, <2>5 DEF AtomOf, MovieOf, AheadOf, MediaAhead, HeadOf, FragmentsOf
  <2>15. NoTracksOf(file, r)
    BY <1>8, <1>14, <1>15, <2>4, <2>5, <2>10, <2>11 DEF NoTracksOf, target
  <2> QED
    BY <2>6, <2>7, <2>8, <2>9, <2>12, <2>13, <2>14, <2>15 DEF InvOf, LiveOf, r, v
<1>16. CASE ~Jumps(file) /\ Len(q.mdatbuf) + a.len > MaxBuffer
  <2>1. v = up /\ r = Failed(q)
    BY <1>10, <1>11, <1>16
  <2>2. /\ IsQt(r) /\ r.busy = FALSE /\ r.err = TRUE /\ Keeps(r, q, Fields \ {"busy", "err"})
    BY <2>1, <1>1 DEF IsQt, Fields, Keeps, Failed
  <2> HIDE DEF r, v
  <2>3. /\ r.needed \in -1..file.size + 1 /\ r.todrop \in Nat /\ r.offset \in 0..file.size
        /\ r.adapter \in Seq(0..file.size - 1) /\ r.mdatleft \in Nat
    BY <1>1, <2>2 DEF TypeOf, Keeps, Fields
  <2>4. Keeps(r, q, Fields \ {"busy", "err", "needed", "todrop", "offset", "adapter", "mdatleft"})
    BY <2>2 DEF Keeps, Fields
  <2>5. InvOf(file, r, up, seek, out)
    BY <1>1, <1>2, <2>2, <2>3, <2>4, FailKeeps
  <2> QED
    BY <2>1, <2>5 DEF r, v
<1>17. CASE ~Jumps(file) /\ ~(Len(q.mdatbuf) + a.len > MaxBuffer)
  <2>1. v = up /\ r = [q EXCEPT !.state = "buffer_mdat", !.needed = a.len,
                           !.mdatoffset = IF q.mdatbuf = <<>> THEN q.offset ELSE @]
    BY <1>10, <1>11, <1>17
  <2>2. /\ IsQt(r) /\ r.state = "buffer_mdat" /\ r.needed = a.len
        /\ r.mdatoffset = IF q.mdatbuf = <<>> THEN q.offset ELSE q.mdatoffset
        /\ Keeps(r, q, Fields \ {"state", "needed", "mdatoffset"})
    BY <2>1, <1>1 DEF IsQt, Fields, Keeps
  <2> HIDE DEF r, v
  <2>3. /\ r.tracks = <<>> /\ r.offset = q.offset /\ r.from = q.from /\ r.gotMoov = q.gotMoov
        /\ r.adapter = q.adapter /\ r.mdatbuf = q.mdatbuf /\ r.run = q.run /\ r.rate = q.rate
        /\ r.busy = q.busy /\ r.err = q.err /\ r.eos = q.eos /\ r.mdatleft = q.mdatleft
        /\ r.trick = q.trick /\ r.pushedI = q.pushedI /\ r.discont = q.discont /\ r.index = q.index
        /\ r.tricking = q.tricking /\ r.flushing = q.flushing /\ r.restore = q.restore
        /\ r.firstMdat = q.firstMdat /\ r.covers = q.covers /\ r.todrop = q.todrop
    BY <2>2, <1>9 DEF Keeps, Fields
  <2>4. TypeOf(file, r, up, seek)
    <3>1. r.needed \in -1..file.size + 1
      BY <1>1, <1>3, <2>2
    <3> QED
      BY <1>1, <2>2, <2>3, <3>1 DEF TypeOf
  <2>5. FlagsOf(file, r, up, seek)
    BY <1>1, <1>2, <1>8, <2>2, <2>3 DEF FlagsOf
  <2>6. /\ IndexOf(file, r) /\ CoversOf(file, r, seek) /\ OutOf(r, out) /\ InRow(out)
    <3>1. IndexOf(file, q) /\ CoversOf(file, q, seek) /\ OutOf(q, out) /\ InRow(out)
      BY <1>1 DEF InvOf
    <3>2. IndexOf(file, r)
      BY <3>1, <2>3, <1>9 DEF IndexOf, Stand
    <3>3. CoversOf(file, r, seek)
      BY <3>1, <2>3, <1>9 DEF CoversOf
    <3>4. OutOf(r, out)
      BY <3>1, <2>3, <1>9 DEF OutOf, Stand, Numbers, Off
    <3> QED
      BY <3>1, <3>2, <3>3, <3>4
  <2>7. EndOf(r) /\ TrickOf(r, up, out) /\ DoneOf(r, up, out) /\ FirstOf(file, r)
    BY <1>1, <1>2, <2>3 DEF EndOf, TrickOf, DoneOf, InvOf, FirstOf
  <2>8. LinkOf(file, r, up)
    <3>1. LinkOf(file, q, up)
      BY <1>1 DEF LiveOf
    <3> QED
      BY <3>1, <1>1, <1>2, <2>3 DEF LinkOf
  <2>9. AtomOf(file, r, up)
    BY <1>3, <1>8, <1>13, <1>17, <2>2, <2>3 DEF AtomOf
  <2>10. MovieOf(file, r, up) /\ AheadOf(r, up) /\ HeadOf(file, r) /\ FragmentsOf(file, r)
    BY <2>2, <2>3 DEF MovieOf, AheadOf, MediaAhead, HeadOf, FragmentsOf
  <2>11. NoTracksOf(file, r)
    <3>1. NoTracksOf(file, q)
      BY <1>1 DEF LiveOf
    <3>2. CASE q.mdatbuf = <<>>
      <4>1. MdatAhead(file, q) /\ q.firstMdat = NoEntry /\ \A m \in AtomsOf(file, "moov") : q.offset <= m.first
        BY <3>1, <3>2, <1>7, <1>8, <1>9, <1>17 DEF NoTracksOf
      <4>2. a \in AtomsOf(file, "mdat")
        BY <3>2, <1>1, <1>3, <1>12, AtomFact
      <4>3. IsRun(r.mdatbuf, r.mdatoffset) /\ r.mdatoffset = r.offset /\ Len(r.mdatbuf) = 0
        BY <3>2, <2>2, <2>3 DEF IsRun
      <4>4. Kept(file, r)
        BY <4>1, <4>2, <4>3, <1>1, <1>3, <2>3 DEF Kept, MdatAhead
      <4> QED
        BY <4>1, <4>4, <2>2, <2>3, <1>8, <1>17 DEF NoTracksOf
    <3>3. CASE q.mdatbuf # <<>>
      <4>1. Kept(file, q) /\ q.firstMdat = NoEntry /\ \A m \in AtomsOf(file, "moov") : q.offset <= m.first
        BY <3>1, <3>3, <1>8, <1>9, <1>17 DEF NoTracksOf
      <4>2. Kept(file, r)
        BY <4>1, <3>3, <2>2, <2>3 DEF Kept
      <4> QED
        BY <4>1, <4>2, <2>2, <2>3, <1>8, <1>17 DEF NoTracksOf
    <3> QED
      BY <3>2, <3>3
  <2> QED
    BY <2>1, <2>4, <2>5, <2>6, <2>7, <2>8, <2>9, <2>10, <2>11 DEF InvOf, LiveOf, r, v
<1> QED
  BY <1>15, <1>16, <1>17

(* The head of an atom, of any kind.                                        *)
LEMMA InitialKeeps == PushInv /\ Initial => InvOf(file', qt', up', seek', out')
<1> SUFFICES ASSUME PushInv, Initial PROVE InvOf(file', qt', up', seek', out')
  OBVIOUS
<1>1. /\ Ready /\ qt.state = "initial" /\ file' = file /\ seek' = seek /\ out' = out
  BY DEF Initial
<1>2. CASE qt' = Failed(qt) /\ up' = up
  <2> DEFINE q == qt
             r == qt'
  <2>1. InvOf(file, q, up, seek, out) /\ IsQt(q) /\ TypeOf(file, q, up, seek) /\ ~q.eos
    BY <1>1, ReadyFact
  <2>2. ~q.tricking
    BY <1>1, HeadFact
  <2>3. /\ IsQt(r) /\ r.busy = FALSE /\ r.err = TRUE /\ Keeps(r, q, Fields \ {"busy", "err"})
    BY <1>2, <2>1 DEF IsQt, Fields, Keeps, Failed
  <2> HIDE DEF r, q
  <2>4. /\ r.needed \in -1..file.size + 1 /\ r.todrop \in Nat /\ r.offset \in 0..file.size
        /\ r.adapter \in Seq(0..file.size - 1) /\ r.mdatleft \in Nat
    BY <2>1, <2>3 DEF TypeOf, Keeps, Fields
  <2>5. Keeps(r, q, Fields \ {"busy", "err", "needed", "todrop", "offset", "adapter", "mdatleft"})
    BY <2>3 DEF Keeps, Fields
  <2>6. InvOf(file, r, up, seek, out)
    BY <2>1, <2>2, <2>3, <2>4, <2>5, FailKeeps
  <2> QED
    BY <2>6, <1>1, <1>2 DEF r
<1>3. ASSUME NEW a \in AtomAt(qt.adapter[1]),
             LET entry == WithNextEntry(qt)
                 plays == qt.tracks # <<>> /\ (entry.needed # NoEntry \/ ~file.fragmented)
             IN IF a.kind = "mdat" /\ plays
                THEN /\ qt' = [entry EXCEPT !.state = "movie", !.mdatleft = a.len]
                     /\ UNCHANGED up
                ELSE IF a.kind = "mdat" \/ (qt.mdatbuf # <<>> /\ a.kind \notin {"moov", "moof"})
                THEN BufferData(IF a.kind = "mdat" THEN [entry EXCEPT !.needed = Head1] ELSE qt, a)
                ELSE /\ qt' = [qt EXCEPT !.needed = a.len, !.state = "header"]
                     /\ UNCHANGED up
      PROVE  InvOf(file', qt', up', seek', out')
  <2> DEFINE plays == qt.tracks # <<>> /\ (WithNextEntry(qt).needed # NoEntry \/ ~file.fragmented)
             keeps == a.kind = "mdat" \/ (qt.mdatbuf # <<>> /\ a.kind \notin {"moov", "moof"})
  <2>1. CASE a.kind = "mdat" /\ plays
    <3>1. qt' = [WithNextEntry(qt) EXCEPT !.state = "movie", !.mdatleft = a.len] /\ up' = up
      BY <1>3, <2>1
    <3> QED
      BY <1>1, <2>1, <3>1, InitialPlays
  <2>2. CASE ~(a.kind = "mdat" /\ plays) /\ keeps
    <3>1. BufferData(IF a.kind = "mdat" THEN [WithNextEntry(qt) EXCEPT !.needed = Head1] ELSE qt, a)
      BY <1>3, <2>2
    <3> QED
      BY <1>1, <2>2, <3>1, InitialBuffers
  <2>3. CASE ~(a.kind = "mdat" /\ plays) /\ ~keeps
    <3>1. qt' = [qt EXCEPT !.needed = a.len, !.state = "header"] /\ up' = up
      BY <1>3, <2>3
    <3> QED
      BY <1>1, <2>3, <3>1, InitialReads
  <2> QED
    BY <2>1, <2>2, <2>3
<1> QED
  BY <1>2, <1>3 DEF Initial

-----------------------------------------------------------------------------
(* The media data.                                                          *)

(* The sample that is due; the demuxer and what is out once it is cut.      *)
DueAt(q, k) ==
  /\ NextAt(q) /\ k \in DOMAIN q.tracks
  /\ q.index[k] \in Numbers(q, k) /\ Off(q, k, q.index[k]) = q.offset + q.todrop
Passed(q, r, k) ==
  /\ r.tracks = q.tracks /\ r.gotMoov = q.gotMoov /\ r.from = q.from
  /\ r.index = [q.index EXCEPT ![k] = @ + 1] /\ r.offset = q.offset + q.needed
PutOut(q, o, p, k, shown) ==
  /\ shown \in BOOLEAN /\ ~q.trick => shown
  /\ p = IF ~shown \/ q.flushing THEN o
         ELSE Append(o, [track |-> k, index |-> q.index[k], cell |-> q.offset + q.todrop, run |-> q.run])
Held(q, u) ==
  /\ q.busy /\ ~q.eos /\ ~q.tricking /\ u.segment = NoSegment
  /\ ~(q.trick /\ q.pushedI /\ ~q.flushing)
Told(q, r, shown) ==
  /\ r.run = q.run /\ r.trick = q.trick /\ r.flushing = q.flushing /\ r.state = q.state
  /\ r.pushedI = (q.pushedI \/ (q.trick /\ shown))

(* Behind the sample that is due, all that is left lies further on.         *)
LEMMA CutAhead ==
  ASSUME NEW f, NEW q, NEW r, NEW k, PlainFile(f), IndexOf(f, q), q.offset \in 0..f.size,
         MediaAhead(q), \A l \in DOMAIN q.tracks : q.index[l] >= 1, DueAt(q, k), Passed(q, r, k)
  PROVE  /\ IndexOf(f, r) /\ MediaAhead(r) /\ r.offset \in 0..f.size
         /\ Stand(r) = r.index /\ Stand(q) = q.index
         /\ q.todrop \in Nat /\ q.needed = q.todrop + 1
<1>0. /\ NextAt(q) /\ k \in DOMAIN q.tracks
      /\ q.index[k] \in Numbers(q, k) /\ Off(q, k, q.index[k]) = q.offset + q.todrop
      /\ r.tracks = q.tracks /\ r.gotMoov = q.gotMoov /\ r.from = q.from
      /\ r.index = [q.index EXCEPT ![k] = @ + 1] /\ r.offset = q.offset + q.needed
  BY DEF DueAt, Passed
<1> USE <1>0
<1>1. /\ q.index \in [DOMAIN q.tracks -> Nat] /\ q.from \in [DOMAIN q.tracks -> Nat \ {0}]
      /\ \A l \in DOMAIN q.tracks : q.from[l] <= Stand(q)[l]
  BY DEF IndexOf
<1>2. Stand(q) = q.index
  BY <1>1 DEF Stand, Positioned, Unset
<1>3. /\ r.index \in [DOMAIN q.tracks -> Nat] /\ r.index[k] = q.index[k] + 1
      /\ \A l \in DOMAIN q.tracks \ {k} : r.index[l] = q.index[l]
  BY <1>1
<1>4. \A l \in DOMAIN q.tracks : r.index[l] >= 1 /\ q.index[l] <= r.index[l]
  BY <1>1, <1>3
<1>5. Stand(r) = r.index
  BY <1>3, <1>4 DEF Stand, Positioned, Unset
<1>6. q.todrop \in Nat /\ q.needed = q.todrop + 1 /\ f.size \in Nat
  BY AtomFact DEF NextAt
<1>7. IndexOf(f, r)
  <2>1. \A l \in DOMAIN q.tracks : q.from[l] <= r.index[l]
    BY <1>1, <1>2, <1>4
  <2> QED
    BY <2>1, <1>3, <1>5 DEF IndexOf
<1> DEFINE c == q.offset + q.todrop
<1>8. c \in 0..f.size - 1 /\ r.offset = c + 1
  <2>1. Off(q, k, q.index[k]) \in 0..f.size - 1
    BY SampleFact
  <2> QED
    BY <2>1, <1>6
<1>9. r.offset \in 0..f.size
  BY <1>6, <1>8
<1>10. ASSUME NEW l \in DOMAIN q.tracks, IsMedia(q.tracks[l]), NEW i \in Numbers(q, l), r.index[l] <= i
       PROVE  r.offset <= Off(q, l, i)
  <2>1. /\ Numbers(q, l) = 1..Count(q.tracks[l]) /\ Count(q.tracks[l]) \in Nat
        /\ \A j \in Numbers(q, l) : Off(q, l, j) \in 0..f.size - 1
        /\ \A j, m \in Numbers(q, l) : j < m => Off(q, l, j) < Off(q, l, m)
    BY SampleFact
  <2>2. q.index[l] \in Numbers(q, l)
    BY <1>1, <1>4, <1>10, <2>1, <1>3
  <2>3. c <= Off(q, l, q.index[l])
    BY <1>2, <1>10, <2>2 DEF NextAt
  <2>4. q.index[l] <= i
    BY <1>1, <1>3, <1>4, <1>10, <2>1
  <2>5. Off(q, l, q.index[l]) <= Off(q, l, i)
    BY <2>1, <2>2, <2>4
  <2>6. Off(q, l, i) # c
    <3>1. CASE l = k
      <4>1. q.index[k] < i
        BY <3>1, <1>1, <1>3, <1>10, <2>1
      <4> QED
        BY <3>1, <4>1, <2>1, <2>2, <1>8
    <3>2. CASE l # k
      <4>1. Off(q, k, q.index[k]) # Off(q, l, i)
        BY <3>2, <1>10, SampleFact
      <4> QED
        BY <4>1
    <3> QED
      BY <3>1, <3>2
  <2> HIDE DEF c
  <2>7. Off(q, l, i) \in Int /\ Off(q, l, q.index[l]) \in Int
    BY <2>1, <2>2
  <2> QED
    BY <1>8, <2>3, <2>5, <2>6, <2>7
<1>11. MediaAhead(r)
  BY <1>5, <1>10 DEF MediaAhead, Numbers, Off
<1> QED
  BY <1>2, <1>5, <1>6, <1>7, <1>9, <1>11

(* The samples out, with the one that is cut.                               *)
LEMMA CutOut ==
  ASSUME NEW f, NEW q, NEW r, NEW u, NEW s, NEW o, NEW p, NEW k, NEW shown \in BOOLEAN,
         TypeOf(f, q, u, s), IndexOf(f, q), OutOf(q, o), InRow(o), DoneOf(q, u, o), TrickOf(q, u, o),
         Stand(q) = q.index, Stand(r) = r.index, DueAt(q, k), Passed(q, r, k), Held(q, u),
         Told(q, r, shown), PutOut(q, o, p, k, shown)
  PROVE  OutOf(r, p) /\ InRow(p) /\ DoneOf(r, u, p) /\ TrickOf(r, u, p)
<1>0. /\ q.busy /\ ~q.eos /\ ~q.tricking /\ u.segment = NoSegment /\ ~(q.trick /\ q.pushedI /\ ~q.flushing)
      /\ (~q.trick => shown)
      /\ k \in DOMAIN q.tracks /\ q.index[k] \in Numbers(q, k) /\ Off(q, k, q.index[k]) = q.offset + q.todrop
      /\ r.tracks = q.tracks /\ r.index = [q.index EXCEPT ![k] = @ + 1]
      /\ r.from = q.from /\ r.run = q.run /\ r.trick = q.trick /\ r.flushing = q.flushing /\ r.state = q.state
      /\ r.pushedI = (q.pushedI \/ (q.trick /\ shown))
      /\ p = IF ~shown \/ q.flushing THEN o
             ELSE Append(o, [track |-> k, index |-> q.index[k], cell |-> q.offset + q.todrop, run |-> q.run])
  BY DEF DueAt, Passed, Held, Told, PutOut
<1> USE <1>0
<1>1. /\ q.index \in [DOMAIN q.tracks -> Nat] /\ q.from \in [DOMAIN q.tracks -> Nat \ {0}]
      /\ \A l \in DOMAIN q.tracks : q.from[l] <= q.index[l]
  BY DEF IndexOf
<1>2. /\ r.index[k] = q.index[k] + 1 /\ q.index[k] \in Nat
      /\ \A l \in DOMAIN q.tracks \ {k} : r.index[l] = q.index[l]
      /\ \A l \in DOMAIN q.tracks : q.index[l] <= r.index[l] /\ q.index[l] \in Nat /\ r.index[l] \in Nat
  BY <1>1
<1>3. /\ Len(o) \in Nat /\ DOMAIN o = 1..Len(o)
      /\ \A n \in DOMAIN o : /\ o[n].track \in Nat /\ o[n].index \in Nat /\ o[n].cell \in Nat /\ o[n].run \in Nat
                             /\ o[n].run <= q.run
  BY OutFact
<1>4. /\ \A n \in DOMAIN o :
           /\ o[n].track \in DOMAIN q.tracks /\ o[n].index \in Numbers(q, o[n].track)
           /\ o[n].cell = Off(q, o[n].track, o[n].index)
           /\ o[n].run = q.run =>
                q.from[o[n].track] <= o[n].index /\ o[n].index < q.index[o[n].track]
      /\ o \in Seq([track : Nat, index : Nat, cell : Nat, run : Nat])
  BY DEF OutOf
<1>5. OutOf(r, o)
  <2>1. ASSUME NEW n \in DOMAIN o, o[n].run = q.run
        PROVE  q.from[o[n].track] <= o[n].index /\ o[n].index < r.index[o[n].track]
    <3> DEFINE l == o[n].track
    <3>1. l \in DOMAIN q.tracks /\ q.from[l] <= o[n].index /\ o[n].index < q.index[l]
      BY <1>4, <2>1
    <3>2. q.index[l] <= r.index[l] /\ q.index[l] \in Nat /\ r.index[l] \in Nat /\ o[n].index \in Nat
      BY <1>2, <1>3, <2>1, <3>1
    <3> HIDE DEF l
    <3>3. q.from[l] <= o[n].index /\ o[n].index < r.index[l]
      BY <3>1, <3>2
    <3> QED
      BY <3>3 DEF l
  <2> QED
    BY <1>3, <1>4, <2>1 DEF OutOf, Numbers, Off
<1>6. CASE ~shown \/ q.flushing
  <2>1. p = o
    BY <1>6
  <2>2. DoneOf(r, u, o)
    <3>1. q.trick \/ q.flushing
      BY <1>6
    <3> QED
      BY <3>1 DEF DoneOf
  <2>3. TrickOf(r, u, o)
    <3>1. SUFFICES ASSUME q.trick, ~q.flushing, ~r.pushedI PROVE \A n \in DOMAIN o : o[n].run # q.run
      BY DEF TrickOf
    <3>2. ~q.pushedI
      BY <3>1
    <3> QED
      BY <3>1, <3>2 DEF TrickOf
  <2> QED
    BY <1>5, <2>1, <2>2, <2>3
<1>7. CASE shown /\ ~q.flushing
  <2> DEFINE last == [track |-> k, index |-> q.index[k], cell |-> q.offset + q.todrop, run |-> q.run]
             N == Len(o) + 1
  <2>1. p = Append(o, last)
    BY <1>7
  <2>2. last \in [track : Nat, index : Nat, cell : Nat, run : Nat]
    <3>1. k \in Nat
      <4>1. q.tracks \in Seq(TrackIn(f))
        BY SampleFact, <1>1 DEF TypeOf, IsIndex
      <4> QED
        BY <4>1
    <3>2. q.run \in Nat /\ PlainFile(f)
      BY DEF TypeOf
    <3>3. Off(q, k, q.index[k]) \in Nat
      <4>1. Off(q, k, q.index[k]) \in 0..f.size - 1 /\ f.size \in Nat
        BY <3>2, SampleFact, AtomFact
      <4> QED
        BY <4>1
    <3> QED
      BY <3>1, <3>2, <3>3, <1>2
  <2>3. last.track = k /\ last.index = q.index[k] /\ last.cell = Off(q, k, q.index[k]) /\ last.run = q.run
    OBVIOUS
  <2> HIDE DEF last
  <2>4. /\ p \in Seq([track : Nat, index : Nat, cell : Nat, run : Nat]) /\ Len(p) = N
        /\ DOMAIN p = 1..N /\ p[N] = last /\ \A n \in 1..Len(o) : p[n] = o[n]
    <3> DEFINE R == [track : Nat, index : Nat, cell : Nat, run : Nat]
    <3>1. o \in Seq(R) /\ last \in R
      BY <1>4, <2>2
    <3> HIDE DEF R
    <3>2. /\ p \in Seq(R) /\ Len(p) = N
          /\ DOMAIN p = 1..N /\ p[N] = last /\ \A n \in 1..Len(o) : p[n] = o[n]
      BY <3>1, <2>1
    <3> QED
      BY <3>2 DEF R
  <2>5. N \in Nat /\ Len(o) = N - 1 /\ \A n \in 1..N : n = N \/ n \in DOMAIN o
    BY <1>3
  <2>6. \A n \in DOMAIN o : n \in 1..N /\ n < N /\ p[n] = o[n]
    BY <1>3, <2>4
  <2> HIDE DEF N
  <2>7. OutOf(r, p)
    <3>1. ASSUME NEW n \in DOMAIN p
          PROVE  /\ p[n].track \in DOMAIN r.tracks /\ p[n].index \in Numbers(r, p[n].track)
                 /\ p[n].cell = Off(r, p[n].track, p[n].index) /\ p[n].run <= r.run
                 /\ p[n].run = r.run =>
                      r.from[p[n].track] <= p[n].index /\ p[n].index < Stand(r)[p[n].track]
      <4>1. CASE n = N
        <5>1. p[n] = last
          BY <4>1, <2>4
        <5>2. q.run <= q.run /\ q.from[k] <= q.index[k] /\ q.index[k] < r.index[k]
          BY <1>1, <1>2 DEF TypeOf
        <5> QED
          BY <5>1, <5>2, <2>3 DEF Numbers, Off
      <4>2. CASE n # N
        <5>1. n \in DOMAIN o /\ p[n] = o[n]
          BY <4>2, <3>1, <2>4, <2>5, <2>6
        <5> QED
          BY <5>1, <1>5 DEF OutOf
      <4> QED
        BY <4>1, <4>2
    <3> QED
      BY <3>1, <2>4 DEF OutOf
  <2>8. ASSUME NEW m \in DOMAIN o, o[m].track = k, o[m].run = q.run
        PROVE  /\ o[m].index < q.index[k]
               /\ \A i \in o[m].index..q.index[k] :
                    \E j \in m..N : p[j].track = k /\ p[j].index = i
    <3>1. ~q.trick
      <4>1. q.trick => ~q.pushedI /\ ~q.flushing
        BY <1>7
      <4> QED
        BY <4>1, <2>8 DEF TrickOf
    <3>2. o[m].index < q.index[k] /\ q.from[k] <= o[m].index /\ o[m].index \in Nat /\ q.from[k] \in Nat
      BY <1>1, <1>3, <1>4, <2>8
    <3>3. ASSUME NEW i \in o[m].index..q.index[k]
          PROVE  \E j \in m..N : p[j].track = k /\ p[j].index = i
      <4>1. CASE i = q.index[k]
        <5>1. N \in m..N /\ p[N].track = k /\ p[N].index = i
          <6>1. p[N].track = k /\ p[N].index = q.index[k]
            BY <2>3, <2>4
          <6>2. N \in m..N
            BY <2>8, <2>5, <2>6, <1>3
          <6> QED
            BY <6>1, <6>2, <4>1
        <5> QED
          BY <5>1
      <4>2. CASE i # q.index[k]
        <5>1. i \in q.from[k]..q.index[k] - 1 /\ i \in Nat
          BY <4>2, <3>2, <3>3, <1>2
        <5>2. PICK j \in DOMAIN o : o[j].track = k /\ o[j].index = i /\ o[j].run = q.run
          BY <5>1, <3>1, <1>7 DEF DoneOf
        <5>3. ~(j < m)
          <6>1. j < m => o[j].index < o[m].index
            BY <5>2, <2>8 DEF InRow
          <6> QED
            BY <6>1, <5>1, <5>2, <3>2, <3>3
        <5>4. j \in m..N
          BY <5>3, <1>3, <2>6, <2>5
        <5> QED
          BY <5>2, <5>4, <2>6
      <4> QED
        BY <4>1, <4>2
    <3> QED
      BY <3>2, <3>3
  <2>9. InRow(p)
    <3>1. SUFFICES ASSUME NEW m \in DOMAIN p, NEW n \in DOMAIN p,
                          m < n, p[m].track = p[n].track, p[m].run = p[n].run
                   PROVE  /\ p[m].index < p[n].index
                          /\ \A i \in p[m].index..p[n].index :
                               \E j \in m..n : p[j].track = p[m].track /\ p[j].index = i
      BY DEF InRow
    <3>2. m \in 1..N /\ n \in 1..N /\ m \in DOMAIN o /\ p[m] = o[m]
      BY <3>1, <2>4, <2>5, <2>6
    <3>3. CASE n = N
      <4>1. p[n].track = k /\ p[n].index = q.index[k] /\ p[n].run = q.run
        BY <3>3, <2>3, <2>4
      <4> QED
        BY <4>1, <3>1, <3>2, <3>3, <2>8
    <3>4. CASE n # N
      <4>1. n \in DOMAIN o /\ p[n] = o[n]
        BY <3>2, <3>4, <2>5, <2>6
      <4>2. /\ o[m].index < o[n].index
            /\ \A i \in o[m].index..o[n].index :
                 \E j \in m..n : o[j].track = o[m].track /\ o[j].index = i
        BY <3>1, <3>2, <4>1 DEF InRow
      <4>3. \A j \in m..n : j \in DOMAIN o /\ p[j] = o[j]
        BY <3>2, <4>1, <1>3, <2>6
      <4> QED
        BY <3>2, <4>1, <4>2, <4>3
    <3> QED
      BY <3>3, <3>4
  <2>10. DoneOf(r, u, p)
    <3>1. SUFFICES ASSUME ~q.trick, NEW l \in DOMAIN q.tracks, NEW i \in q.from[l]..r.index[l] - 1
                   PROVE  \E n \in DOMAIN p : p[n].track = l /\ p[n].index = i /\ p[n].run = q.run
      BY DEF DoneOf
    <3>2. CASE l = k /\ i = q.index[k]
      <4>1. N \in DOMAIN p /\ p[N].track = k /\ p[N].index = q.index[k] /\ p[N].run = q.run
        BY <2>3, <2>4, <2>5, <1>3
      <4> QED
        BY <4>1, <3>2
    <3>3. CASE ~(l = k /\ i = q.index[k])
      <4>1. i \in q.from[l]..q.index[l] - 1
        BY <3>1, <3>3, <1>1, <1>2
      <4>2. PICK n \in DOMAIN o : o[n].track = l /\ o[n].index = i /\ o[n].run = q.run
        BY <4>1, <3>1, <1>7 DEF DoneOf
      <4> QED
        BY <4>2, <2>4, <2>6
    <3> QED
      BY <3>2, <3>3
  <2>11. TrickOf(r, u, p)
    <3>1. q.trick => r.pushedI
      BY <1>7
    <3> QED
      BY <3>1 DEF TrickOf
  <2> QED
    BY <2>7, <2>9, <2>10, <2>11
<1> QED
  BY <1>6, <1>7

(* The rest of the demuxer after a sample.                                  *)
Goes(f, q, r) ==
  /\ IsQt(r)
  /\ Keeps(r, q, Fields \ {"adapter", "offset", "index", "discont", "pushedI", "mdatleft",
                           "needed", "todrop", "busy", "eos"})
  /\ r.adapter \in Seq(0..f.size - 1) /\ IsRun(r.adapter, q.offset + q.needed)
  /\ Len(r.adapter) = Len(q.adapter) - q.needed
  /\ r.discont \in BOOLEAN /\ (f.fragmented => q.needed <= q.mdatleft)
  /\ r.mdatleft = IF f.fragmented THEN q.mdatleft - q.needed ELSE q.mdatleft
Resumes(f, q, r) ==
  \/ /\ NextAt(r) /\ r.needed \in 1..f.size /\ r.eos = FALSE
     /\ r.busy = TRUE \/ (r.busy = FALSE /\ q.flushing)
  \/ /\ f.fragmented /\ r.needed = r.mdatleft /\ r.todrop = r.mdatleft /\ NoMediaLeft(r)
     /\ r.busy = TRUE /\ r.eos = FALSE
  \/ /\ ~f.fragmented /\ r.needed = NoEntry /\ r.todrop \in Nat /\ NoMediaLeft(r)
     /\ r.busy = FALSE /\ r.eos = TRUE

(* The invariant after a sample, whatever follows.                          *)
LEMMA CutKeeps ==
  ASSUME NEW f, NEW q, NEW r, NEW u, NEW s, NEW o, NEW p, NEW k, NEW shown \in BOOLEAN,
         InvOf(f, q, u, s, o), q.state = "movie", q.needed <= Len(q.adapter), Held(q, u),
         DueAt(q, k), Passed(q, r, k), Told(q, r, shown), PutOut(q, o, p, k, shown),
         Goes(f, q, r), Resumes(f, q, r)
  PROVE  InvOf(f, r, u, s, p)
<1>0. /\ q.busy /\ ~q.tricking /\ ~q.eos /\ u.segment = NoSegment
      /\ k \in DOMAIN q.tracks /\ q.index[k] \in Numbers(q, k) /\ Off(q, k, q.index[k]) = q.offset + q.todrop
      /\ r.index = [q.index EXCEPT ![k] = @ + 1] /\ r.offset = q.offset + q.needed
      /\ r.pushedI = (q.pushedI \/ (q.trick /\ shown))
  BY DEF DueAt, Passed, Held, Told
<1>00. /\ IsQt(r)
       /\ Keeps(r, q, Fields \ {"adapter", "offset", "index", "discont", "pushedI", "mdatleft",
                                "needed", "todrop", "busy", "eos"})
       /\ r.adapter \in Seq(0..f.size - 1) /\ IsRun(r.adapter, q.offset + q.needed)
       /\ Len(r.adapter) = Len(q.adapter) - q.needed
       /\ r.discont \in BOOLEAN
       /\ (f.fragmented => q.needed <= q.mdatleft /\ r.mdatleft = q.mdatleft - q.needed)
       /\ (~f.fragmented => r.mdatleft = q.mdatleft)
  BY DEF Goes
<1>1. /\ TypeOf(f, q, u, s) /\ IndexOf(f, q) /\ FlagsOf(f, q, u, s) /\ PlainFile(f) /\ ~q.eos /\ ~q.err
      /\ LiveOf(f, q, u) /\ OutOf(q, o) /\ InRow(o) /\ DoneOf(q, u, o) /\ TrickOf(q, u, o)
      /\ CoversOf(f, q, s) /\ FirstOf(f, q)
  BY <1>0 DEF InvOf, TypeOf, FlagsOf
<1>2. /\ r.state = q.state /\ r.err = q.err /\ r.mdatbuf = q.mdatbuf /\ r.restore = q.restore
      /\ r.firstMdat = q.firstMdat /\ r.gotMoov = q.gotMoov /\ r.tracks = q.tracks /\ r.from = q.from
      /\ r.run = q.run /\ r.trick = q.trick /\ r.rate = q.rate /\ r.tricking = q.tricking
      /\ r.flushing = q.flushing /\ r.covers = q.covers
  BY <1>00 DEF Keeps, Fields
<1>3. /\ MovieOf(f, q, u) /\ MediaAhead(q) /\ q.offset \in 0..f.size
      /\ \A l \in DOMAIN q.tracks : q.index[l] >= 1
  BY <1>0, <1>1 DEF LiveOf, MovieOf, AheadOf, TypeOf
<1>4. /\ IndexOf(f, r) /\ MediaAhead(r) /\ r.offset \in 0..f.size /\ Stand(r) = r.index /\ Stand(q) = q.index
      /\ q.todrop \in Nat /\ q.needed = q.todrop + 1
  BY <1>1, <1>2, <1>3, CutAhead
<1>5. f.size \in Nat /\ q.offset \in Nat /\ r.offset \in Nat /\ q.needed \in Nat \ {0} /\ Len(q.adapter) \in Nat
      /\ r.mdatleft \in Nat /\ q.mdatleft \in Nat
  <2>1. f.size \in Nat /\ q.mdatleft \in Nat /\ q.adapter \in Seq(0..f.size - 1)
    BY <1>1, AtomFact DEF TypeOf
  <2>2. q.offset \in Nat /\ r.offset \in Nat /\ q.needed \in Nat \ {0} /\ Len(q.adapter) \in Nat
    BY <2>1, <1>3, <1>4
  <2>3. r.mdatleft \in Nat
    <3>1. CASE f.fragmented
      BY <3>1, <2>1, <2>2, <1>00
    <3>2. CASE ~f.fragmented
      BY <3>2, <2>1, <1>00
    <3> QED
      BY <3>1, <3>2
  <2> QED
    BY <2>1, <2>2, <2>3
<1>6. OutOf(r, p) /\ InRow(p) /\ DoneOf(r, u, p) /\ TrickOf(r, u, p)
  BY <1>1, <1>2, <1>4, CutOut
<1>7. f.fragmented => \E d \in AtomsOf(f, "mdat") :
         d.first <= r.offset /\ r.offset + r.mdatleft = d.first + d.len
  <2>1. SUFFICES ASSUME f.fragmented PROVE \E d \in AtomsOf(f, "mdat") :
         d.first <= r.offset /\ r.offset + r.mdatleft = d.first + d.len
    OBVIOUS
  <2>2. PICK d \in AtomsOf(f, "mdat") : d.first <= q.offset /\ q.offset + q.mdatleft = d.first + d.len
    BY <2>1, <1>3 DEF MovieOf
  <2>3. d.first \in Nat /\ d.len \in Nat
    BY <1>1, AtomFact
  <2>4. d.first <= r.offset
    BY <2>2, <2>3, <1>0, <1>5
  <2>5. r.offset + r.mdatleft = q.offset + q.mdatleft
    BY <2>1, <1>0, <1>00, <1>5
  <2> QED
    BY <2>2, <2>4, <2>5
<1>8. r.needed \in -1..f.size + 1 /\ r.todrop \in Nat
  <2>1. CASE NextAt(r) /\ r.needed \in 1..f.size
    BY <2>1, <1>5 DEF NextAt
  <2>2. CASE f.fragmented /\ r.needed = r.mdatleft /\ r.todrop = r.mdatleft
    <3>1. PICK d \in AtomsOf(f, "mdat") : r.offset + r.mdatleft = d.first + d.len
      BY <2>2, <1>7
    <3>2. d.first + d.len <= f.size
      BY <1>1, AtomFact
    <3>3. r.mdatleft <= f.size
      BY <3>1, <3>2, <1>5
    <3> QED
      BY <2>2, <3>3, <1>5
  <2>3. CASE r.needed = NoEntry /\ r.todrop \in Nat
    BY <2>3, <1>5 DEF NoEntry
  <2> QED
    BY <2>1, <2>2, <2>3 DEF Resumes
<1>9. TypeOf(f, r, u, s)
  <2>1. r.busy \in BOOLEAN /\ r.eos \in BOOLEAN
    BY DEF Resumes
  <2>2. r.pushedI \in BOOLEAN
    BY <1>0, <1>1 DEF TypeOf
  <2> QED
    BY <1>00, <1>1, <1>2, <1>4, <1>5, <1>8, <2>1, <2>2 DEF TypeOf
<1>10. FlagsOf(f, r, u, s)
  <2>2. /\ r.eos = FALSE \/ r.busy = FALSE
        /\ r.eos \in BOOLEAN /\ r.busy \in BOOLEAN
    BY DEF Resumes
  <2> QED
    BY <2>2, <1>0, <1>1, <1>2 DEF FlagsOf
<1>11. EndOf(r)
  BY DEF EndOf, Resumes
<1>12. CoversOf(f, r, s) /\ FirstOf(f, r)
  BY <1>1, <1>2 DEF CoversOf, FirstOf
<1>13. LinkOf(f, r, u)
  <2>1. IsRun(r.adapter, r.offset)
    BY <1>0, <1>00
  <2>2. r.offset + Len(r.adapter) = q.offset + Len(q.adapter)
    BY <1>0, <1>00, <1>5
  <2>3. CASE r.eos
    BY <2>1, <2>3, <1>0 DEF LinkOf
  <2>4. CASE ~r.eos
    <3>1. u.pos = q.offset + Len(q.adapter) \/ Apart(f, q)
      BY <1>0, <1>1 DEF LiveOf, LinkOf
    <3>2. Apart(f, q) => Apart(f, r)
      <4>1. SUFFICES ASSUME Apart(f, q) PROVE Apart(f, r)
        OBVIOUS
      <4>2. SamplesBelow(r, r.offset + Len(r.adapter))
        BY <4>1, <2>2, <1>2 DEF Apart, SamplesBelow, Numbers, Off
      <4>3. ~f.fragmented /\ r.state = "movie"
        BY <4>1, <1>2 DEF Apart
      <4>4. NextAt(r) /\ r.needed \in 1..f.size /\ (r.busy \/ r.flushing)
        BY <4>3, <2>4, <1>2 DEF Resumes
      <4>5. r.needed # NoEntry
        BY <4>4, <1>5 DEF NoEntry
      <4> QED
        BY <4>2, <4>3, <4>4, <4>5 DEF Apart
    <3>3. r.busy \/ r.flushing
      BY <2>4, <1>2 DEF Resumes
    <3> QED
      BY <2>1, <2>2, <2>4, <3>1, <3>2, <3>3, <1>0 DEF LinkOf
  <2> QED
    BY <2>3, <2>4
<1>14. AtomOf(f, r, u) /\ AheadOf(r, u) /\ HeadOf(f, r) /\ NoTracksOf(f, r)
  <2>1. r.tracks # <<>>
    BY <1>0, <1>1, <1>2 DEF FlagsOf
  <2> QED
    BY <2>1, <1>2, <1>4 DEF AtomOf, AheadOf, HeadOf, NoTracksOf
<1>15. \A l \in DOMAIN q.tracks : q.index[l] <= r.index[l] /\ q.index[l] \in Nat /\ r.index[l] \in Nat
  BY <1>0, <1>1 DEF IndexOf
<1>16. MovieOf(f, r, u)
  <2>1. \A l \in DOMAIN r.tracks : r.index[l] >= 1
    BY <1>2, <1>3, <1>15
  <2>2. r.mdatbuf = <<>>
    BY <1>2, <1>3 DEF MovieOf
  <2> QED
    BY <2>1, <2>2, <1>2, <1>7 DEF MovieOf, Resumes
<1>17. FragmentsOf(f, r)
  <2>1. SUFFICES ASSUME f.fragmented, q.tracks # <<>> PROVE FragmentsOf(f, r)
    BY <1>2 DEF FragmentsOf
  <2>2. FragmentsOf(f, q)
    BY <1>1 DEF LiveOf
  <2>3. \A m \in AtomsOf(f, "moov") : m.first < r.offset
    <3>1. SUFFICES ASSUME NEW m \in AtomsOf(f, "moov") PROVE m.first < r.offset
      OBVIOUS
    <3>2. m.first < q.offset /\ m.first \in Nat
      BY <2>1, <2>2, <1>1, AtomFact DEF FragmentsOf
    <3> QED
      BY <3>2, <1>0, <1>5
  <2>4. PICK d \in AtomsOf(f, "mdat") : d.first <= q.offset /\ q.offset + q.mdatleft = d.first + d.len
    BY <2>1, <1>3 DEF MovieOf
  <2>5. d \in Range(f.atoms) /\ d.kind = "mdat" /\ d.first \in Nat /\ d.len \in Nat /\ r.offset <= d.first + d.len
    BY <2>1, <2>4, <1>0, <1>00, <1>1, <1>5, AtomFact
  <2>6. ASSUME NEW a \in AtomsOf(f, "moof")
        PROVE  IF a.first < r.offset THEN Known(r, a) ELSE SamplesBelow(r, a.first)
    <3>1. IF a.first < q.offset THEN Known(q, a) ELSE SamplesBelow(q, a.first)
      BY <2>1, <2>2 DEF FragmentsOf
    <3>2. Known(q, a) => Known(r, a)
      BY <1>2 DEF Known, Numbers, Off
    <3>3. SamplesBelow(q, a.first) => SamplesBelow(r, a.first)
      BY <1>2 DEF SamplesBelow, Numbers, Off
    <3>4. a \in Range(f.atoms) /\ a.kind = "moof" /\ a.first \in Nat /\ a.len \in Nat \ {0}
      BY <1>1, AtomFact
    <3>5. a.first + a.len <= d.first \/ d.first + d.len <= a.first
      BY <1>1, <2>5, <3>4, AtomFact
    <3>6. a.first < r.offset => a.first < q.offset
      BY <2>4, <2>5, <3>4, <3>5, <1>0, <1>5
    <3>7. a.first < q.offset => a.first < r.offset
      BY <3>4, <1>0, <1>5
    <3> QED
      BY <3>1, <3>2, <3>3, <3>6, <3>7
  <2>7. ASSUME NEW l \in DOMAIN q.tracks
        PROVE  /\ r.index[l] <= PastEnd(q.tracks[l])
               /\ \A i \in Numbers(q, l) :
                    /\ \E e \in AtomsOf(f, "mdat") : Within(e, Off(q, l, i))
                    /\ i < r.index[l] => Off(q, l, i) < r.offset
    <3>1. /\ q.index[l] <= PastEnd(q.tracks[l])
          /\ \A i \in Numbers(q, l) :
               /\ \E e \in AtomsOf(f, "mdat") : Within(e, Off(q, l, i))
               /\ i < q.index[l] => Off(q, l, i) < q.offset
      BY <2>1, <2>2, <1>4 DEF FragmentsOf
    <3>2. Numbers(q, l) = 1..Count(q.tracks[l]) /\ Count(q.tracks[l]) \in Nat
          /\ \A i \in Numbers(q, l) : Off(q, l, i) \in 0..f.size - 1
      BY <1>1, SampleFact
    <3>3. CASE l = k
      <4>1. r.index[l] = q.index[l] + 1 /\ q.index[l] \in 1..Count(q.tracks[l])
        BY <3>3, <3>2, <1>0, <1>1 DEF IndexOf
      <4>2. ASSUME NEW i \in Numbers(q, l), i < r.index[l] PROVE Off(q, l, i) < r.offset
        <5>1. CASE i = q.index[l]
          BY <5>1, <3>3, <1>0, <1>4, <1>5
        <5>2. CASE i # q.index[l]
          <6>1. i < q.index[l] /\ Off(q, l, i) \in Int
            BY <5>2, <4>1, <4>2, <3>2
          <6> QED
            BY <6>1, <3>1, <1>0, <1>5
        <5> QED
          BY <5>1, <5>2
      <4> QED
        BY <4>1, <4>2, <3>1, <3>2 DEF PastEnd
    <3>4. CASE l # k
      <4>1. r.index[l] = q.index[l]
        BY <3>4, <1>0, <1>1 DEF IndexOf
      <4>2. ASSUME NEW i \in Numbers(q, l), i < r.index[l] PROVE Off(q, l, i) < r.offset
        <5>1. Off(q, l, i) < q.offset /\ Off(q, l, i) \in Int
          BY <4>1, <4>2, <3>1, <3>2
        <5> QED
          BY <5>1, <1>0, <1>5
      <4> QED
        BY <4>1, <4>2, <3>1
    <3> QED
      BY <3>3, <3>4
  <2> QED
    BY <2>3, <2>6, <2>7, <1>2, <1>4 DEF FragmentsOf, Numbers, Off
<1> QED
  BY <1>4, <1>6, <1>9, <1>10, <1>11, <1>12, <1>13, <1>14, <1>16, <1>17, <1>4 DEF InvOf, LiveOf

-----------------------------------------------------------------------------
(* What is known when the demuxer is ready in the media data.               *)
LEMMA MovieFact ==
  ASSUME PushInv, Ready, qt.state = "movie", ~TrickNext, ~qt.tricking
  PROVE  /\ InvOf(file, qt, up, seek, out) /\ IsQt(qt) /\ TypeOf(file, qt, up, seek) /\ IndexOf(file, qt)
         /\ FlagsOf(file, qt, up, seek) /\ LiveOf(file, qt, up) /\ PlainFile(file)
         /\ file.size \in Nat /\ qt.offset \in Nat /\ Len(qt.adapter) \in Nat /\ qt.needed \in Nat
         /\ qt.todrop \in Nat /\ qt.mdatleft \in Nat
         /\ qt.needed <= Len(qt.adapter) /\ IsRun(qt.adapter, qt.offset)
         /\ qt.adapter \in Seq(0..file.size - 1) /\ ~qt.err /\ qt.tracks # <<>>
         /\ Held(qt, up) /\ MediaAhead(qt) /\ (\A k \in DOMAIN qt.tracks : qt.index[k] >= 1)
         /\ \/ NextAt(qt)
            \/ /\ file.fragmented /\ qt.needed = qt.mdatleft /\ qt.todrop = qt.mdatleft
               /\ NoMediaLeft(qt)
<1>1. up.segment = NoSegment
  BY DEF PushInv, InvOf, FlagsOf, Ready
<1>2. /\ InvOf(file, qt, up, seek, out) /\ IsQt(qt) /\ TypeOf(file, qt, up, seek) /\ IndexOf(file, qt)
      /\ FlagsOf(file, qt, up, seek) /\ LiveOf(file, qt, up) /\ PlainFile(file)
      /\ qt.busy /\ ~qt.eos /\ ~qt.err /\ qt.needed # NoEntry
      /\ file.size \in Nat /\ qt.offset \in Nat /\ Len(qt.adapter) \in Nat /\ qt.needed \in Nat
      /\ qt.needed <= Len(qt.adapter) /\ IsRun(qt.adapter, qt.offset)
      /\ qt.adapter \in Seq(0..file.size - 1)
  BY <1>1, ReadyFact
<1>3. Held(qt, up)
  BY <1>1, <1>2 DEF Held, TrickNext
<1>4. qt.tracks # <<>> /\ qt.todrop \in Nat /\ qt.mdatleft \in Nat
  BY <1>2 DEF FlagsOf, TypeOf
<1>5. MovieOf(file, qt, up) /\ AheadOf(qt, up)
  BY <1>2 DEF LiveOf
<1>6. MediaAhead(qt)
  BY <1>1, <1>5 DEF AheadOf
<1>7. /\ \A k \in DOMAIN qt.tracks : qt.index[k] >= 1
      /\ \/ NextAt(qt)
         \/ ~file.fragmented /\ qt.needed = NoEntry /\ NoMediaLeft(qt)
         \/ file.fragmented /\ qt.needed = qt.mdatleft /\ qt.todrop = qt.mdatleft /\ NoMediaLeft(qt)
  BY <1>1, <1>5 DEF MovieOf
<1> QED
  BY <1>2, <1>3, <1>4, <1>6, <1>7

(* The media data of the fragment is used up.                               *)
LEMMA EmptiedKeeps ==
  ASSUME PushInv, Ready, qt.state = "movie", ~TrickNext, ~qt.tricking, AtomUsedUp,
         qt' = Emptied(qt), file' = file, up' = up, seek' = seek, out' = out
  PROVE  InvOf(file', qt', up', seek', out')
<1> DEFINE q == qt
           r == qt'
           n == q.mdatleft
           rest == SubSeq(q.adapter, n + 1, Len(q.adapter))
<1>1. /\ InvOf(file, q, up, seek, out) /\ IsQt(q) /\ TypeOf(file, q, up, seek) /\ IndexOf(file, q)
      /\ FlagsOf(file, q, up, seek) /\ LiveOf(file, q, up) /\ PlainFile(file)
      /\ file.size \in Nat /\ q.offset \in Nat /\ Len(q.adapter) \in Nat /\ q.needed \in Nat
      /\ q.todrop \in Nat /\ q.mdatleft \in Nat
      /\ q.needed <= Len(q.adapter) /\ IsRun(q.adapter, q.offset)
      /\ q.adapter \in Seq(0..file.size - 1) /\ ~q.err /\ q.tracks # <<>>
      /\ Held(q, up) /\ MediaAhead(q)
      /\ \/ NextAt(q)
         \/ q.needed = q.mdatleft /\ q.todrop = q.mdatleft /\ NoMediaLeft(q)
  BY MovieFact
<1>2. file.fragmented /\ q.todrop >= q.mdatleft /\ q.state = "movie"
  BY DEF AtomUsedUp
<1>3. q.busy /\ ~q.eos /\ ~q.tricking /\ up.segment = NoSegment
  BY <1>1 DEF Held
<1>4. ~q.flushing /\ ~q.trick /\ q.restore = <<>> /\ q.mdatbuf = <<>> /\ q.firstMdat = NoEntry
  BY <1>1, <1>2 DEF FlagsOf
<1>5. /\ IsQt(r) /\ r.state = "initial" /\ r.needed = Head1 /\ r.adapter = rest
      /\ r.offset = q.offset + n /\ r.todrop = q.todrop - n /\ r.mdatleft = 0
      /\ Keeps(r, q, Fields \ {"state", "needed", "adapter", "offset", "todrop", "mdatleft"})
  BY <1>1, <1>4 DEF IsQt, Fields, Keeps, Emptied, Rescan, Flushed, DropData
<1> HIDE DEF q, r, rest
<1>6. n <= Len(q.adapter)
  <2>1. CASE NextAt(q)
    BY <2>1, <1>1, <1>2 DEF NextAt
  <2>2. CASE q.needed = q.mdatleft
    BY <2>2, <1>1
  <2> QED
    BY <2>1, <2>2, <1>1
<1>7. rest \in Seq(0..file.size - 1) /\ Len(rest) = Len(q.adapter) - n /\ IsRun(rest, q.offset + n)
  <2>1. n \in 0..Len(q.adapter) /\ q.offset \in Int
    BY <1>1, <1>6
  <2> QED
    BY <2>1, <1>1, RunFact DEF rest
<1>8. PICK d \in AtomsOf(file, "mdat") : d.first <= q.offset /\ q.offset + n = d.first + d.len
  BY <1>1, <1>2 DEF LiveOf, MovieOf, q
<1>9. d \in Range(file.atoms) /\ d.kind = "mdat" /\ d.first \in Nat /\ d.len \in Nat \ {0}
      /\ d.first + d.len <= file.size
  BY <1>1, AtomFact
<1>10. r.offset = d.first + d.len /\ r.offset \in 0..file.size /\ q.offset <= r.offset
  BY <1>1, <1>5, <1>8, <1>9
<1>11. /\ r.tracks = q.tracks /\ r.index = q.index /\ r.from = q.from /\ r.gotMoov = q.gotMoov
       /\ r.mdatbuf = q.mdatbuf /\ r.run = q.run /\ r.rate = q.rate /\ r.busy = q.busy /\ r.err = q.err
       /\ r.eos = q.eos /\ r.trick = q.trick /\ r.pushedI = q.pushedI /\ r.discont = q.discont
       /\ r.tricking = q.tricking /\ r.flushing = q.flushing /\ r.restore = q.restore
       /\ r.firstMdat = q.firstMdat /\ r.covers = q.covers /\ Stand(r) = Stand(q)
  BY <1>5 DEF Keeps, Fields, Stand
<1>12. TypeOf(file, r, up, seek)
  <2>1. r.todrop \in Nat /\ r.needed \in -1..file.size + 1
    BY <1>1, <1>2, <1>5 DEF Head1
  <2> QED
    BY <2>1, <1>1, <1>5, <1>7, <1>10, <1>11 DEF TypeOf
<1>13. FlagsOf(file, r, up, seek)
  BY <1>1, <1>2, <1>3, <1>4, <1>5, <1>11 DEF FlagsOf
<1>14. IndexOf(file, r) /\ EndOf(r) /\ CoversOf(file, r, seek) /\ OutOf(r, out) /\ InRow(out)
       /\ TrickOf(r, up, out) /\ FirstOf(file, r)
  <2>1. IndexOf(file, q) /\ EndOf(q) /\ CoversOf(file, q, seek) /\ OutOf(q, out) /\ InRow(out)
        /\ TrickOf(q, up, out) /\ FirstOf(file, q)
    BY <1>1 DEF InvOf
  <2>2. IndexOf(file, r)
    BY <2>1, <1>11 DEF IndexOf
  <2>3. EndOf(r)
    BY <1>3, <1>11 DEF EndOf
  <2>4. CoversOf(file, r, seek)
    BY <2>1, <1>11 DEF CoversOf
  <2>5. OutOf(r, out)
    BY <2>1, <1>11 DEF OutOf, Numbers, Off
  <2>6. TrickOf(r, up, out) /\ FirstOf(file, r)
    BY <2>1, <1>11 DEF TrickOf, FirstOf
  <2> QED
    BY <2>1, <2>2, <2>3, <2>4, <2>5, <2>6
<1>15. DoneOf(r, up, out)
  <2>1. DoneOf(q, up, out)
    BY <1>1 DEF InvOf
  <2> QED
    BY <2>1, <1>3, <1>11 DEF DoneOf
<1>16. LinkOf(file, r, up)
  <2>1. up.pos = q.offset + Len(q.adapter)
    BY <1>1, <1>2, <1>3 DEF LiveOf, LinkOf, Apart
  <2>2. up.pos = r.offset + Len(r.adapter)
    BY <2>1, <1>1, <1>5, <1>7
  <2> QED
    BY <2>2, <1>3, <1>5, <1>7, <1>11 DEF LinkOf
<1>17. MediaAhead(r)
  <2>1. SUFFICES ASSUME NEW k \in DOMAIN q.tracks, IsMedia(q.tracks[k]), NEW i \in Numbers(q, k), Stand(q)[k] <= i
                 PROVE  r.offset <= Off(q, k, i)
    BY <1>11 DEF MediaAhead, Numbers, Off
  <2>2. /\ Numbers(q, k) = 1..Count(q.tracks[k]) /\ Count(q.tracks[k]) \in Nat
        /\ \A j \in Numbers(q, k) : Off(q, k, j) \in 0..file.size - 1
        /\ \A j, m \in Numbers(q, k) : j < m => Off(q, k, j) < Off(q, k, m)
    BY <1>1, SampleFact
  <2>3. Stand(q)[k] \in Nat \ {0}
    BY <1>1, StandFact
  <2>4. Stand(q)[k] \in Numbers(q, k)
    BY <2>1, <2>2, <2>3
  <2>5. NextAt(q)
    <3>1. ~NoMediaLeft(q)
      BY <2>1, <2>2, <2>3, <2>4 DEF NoMediaLeft
    <3> QED
      BY <3>1, <1>1
  <2>6. q.offset + q.todrop <= Off(q, k, Stand(q)[k])
    BY <2>1, <2>4, <2>5 DEF NextAt
  <2>7. Off(q, k, Stand(q)[k]) <= Off(q, k, i)
    BY <2>1, <2>2, <2>3, <2>4
  <2>8. Off(q, k, i) \in Int /\ Off(q, k, Stand(q)[k]) \in Int
    BY <2>1, <2>2, <2>4
  <2> QED
    BY <2>6, <2>7, <2>8, <1>1, <1>2, <1>5
<1>18. FragmentsOf(file, r)
  <2>0. FragmentsOf(file, q)
    BY <1>1 DEF LiveOf
  <2>1. \A m \in AtomsOf(file, "moov") : m.first < r.offset
    <3>1. SUFFICES ASSUME NEW m \in AtomsOf(file, "moov") PROVE m.first < r.offset
      OBVIOUS
    <3>2. m.first < q.offset /\ m.first \in Nat
      BY <2>0, <1>1, <1>2, AtomFact DEF FragmentsOf
    <3> QED
      BY <3>2, <1>1, <1>10
  <2>2. ASSUME NEW a \in AtomsOf(file, "moof")
        PROVE  IF a.first < r.offset THEN Known(r, a) ELSE SamplesBelow(r, a.first)
    <3>1. IF a.first < q.offset THEN Known(q, a) ELSE SamplesBelow(q, a.first)
      BY <2>0, <1>1, <1>2 DEF FragmentsOf
    <3>2. Known(q, a) => Known(r, a)
      BY <1>11 DEF Known, Numbers, Off
    <3>3. SamplesBelow(q, a.first) => SamplesBelow(r, a.first)
      BY <1>11 DEF SamplesBelow, Numbers, Off
    <3>4. a \in Range(file.atoms) /\ a.kind = "moof" /\ a.first \in Nat /\ a.len \in Nat \ {0}
      BY <1>1, AtomFact
    <3>5. a.first + a.len <= d.first \/ d.first + d.len <= a.first
      BY <1>1, <1>9, <3>4, AtomFact
    <3>6. a.first < r.offset => a.first < q.offset
      BY <1>1, <1>8, <1>9, <1>10, <3>4, <3>5
    <3>7. a.first < q.offset => a.first < r.offset
      BY <3>4, <1>1, <1>10
    <3> QED
      BY <3>1, <3>2, <3>3, <3>6, <3>7
  <2>3. ASSUME NEW k \in DOMAIN q.tracks
        PROVE  /\ Stand(q)[k] <= PastEnd(q.tracks[k])
               /\ \A i \in Numbers(q, k) :
                    /\ \E e \in AtomsOf(file, "mdat") : Within(e, Off(q, k, i))
                    /\ i < Stand(q)[k] => Off(q, k, i) < r.offset
    <3>1. /\ Stand(q)[k] <= PastEnd(q.tracks[k])
          /\ \A i \in Numbers(q, k) :
                    /\ \E e \in AtomsOf(file, "mdat") : Within(e, Off(q, k, i))
                    /\ i < Stand(q)[k] => Off(q, k, i) < q.offset
      BY <2>0, <1>1, <1>2 DEF FragmentsOf
    <3>2. \A i \in Numbers(q, k) : Off(q, k, i) \in 0..file.size - 1
      BY <1>1, SampleFact
    <3>3. ASSUME NEW i \in Numbers(q, k), i < Stand(q)[k] PROVE Off(q, k, i) < r.offset
      <4>1. Off(q, k, i) \in Int /\ Off(q, k, i) < q.offset
        BY <3>1, <3>2, <3>3
      <4> QED
        BY <4>1, <1>1, <1>10
    <3> QED
      BY <3>1, <3>3
  <2> QED
    BY <2>1, <2>2, <2>3, <1>11 DEF FragmentsOf, Numbers, Off
<1>19. AtomOf(file, r, up) /\ MovieOf(file, r, up) /\ AheadOf(r, up) /\ NoTracksOf(file, r) /\ HeadOf(file, r)
  BY <1>1, <1>2, <1>5, <1>11, <1>17 DEF AtomOf, MovieOf, AheadOf, NoTracksOf, HeadOf
<1> QED
  BY <1>12, <1>13, <1>14, <1>15, <1>16, <1>18, <1>19 DEF InvOf, LiveOf, r

(* A sample is cut.                                                         *)
LEMMA CutSampleKeeps ==
  ASSUME PushInv, Ready, qt.state = "movie", ~TrickNext, ~qt.tricking, ~AtomUsedUp,
         file.fragmented => qt.needed <= qt.mdatleft,
         CutSample(IF file.fragmented THEN [qt EXCEPT !.mdatleft = @ - qt.needed] ELSE qt),
         file' = file, up' = up, seek' = seek
  PROVE  InvOf(file', qt', up', seek', out')
<1> DEFINE q == qt
           f == file
           c == IF f.fragmented THEN [q EXCEPT !.mdatleft = @ - q.needed] ELSE q
           w == DropData(c, c.todrop)
           k == CHOOSE x \in Current(w) : TRUE
           shown == Shown(w, k)
           gone == [Flushed(w, w.needed) EXCEPT !.index[k] = @ + 1,
                           !.discont = @ /\ ~shown, !.pushedI = @ \/ (w.trick /\ shown)]
           p0 == [gone EXCEPT !.offset = @ + gone.needed]
           e == WithNextEntry(p0)
           r == qt'
           first == SubSeq(q.adapter, q.todrop + 1, Len(q.adapter))
           then == SubSeq(first, 2, Len(first))
<1>1. IF Current(w) = {} \/ ~Interleaved THEN r = Failed(w) /\ out' = out
      ELSE /\ r = Advanced(gone, shown /\ w.flushing)
           /\ out' = IF ~shown \/ w.flushing THEN out
                     ELSE Append(out, [track |-> k, index |-> w.index[k],
                                           cell |-> w.adapter[w.needed], run |-> w.run])
  BY DEF CutSample
<1>2. Advanced(gone, shown /\ w.flushing) =
        IF e.needed # NoEntry THEN IF shown /\ w.flushing THEN Stopped(e) ELSE e
        ELSE IF f.fragmented THEN [e EXCEPT !.todrop = e.mdatleft, !.needed = e.mdatleft]
        ELSE [Stopped(e) EXCEPT !.eos = TRUE]
  BY DEF Advanced
<1>3. /\ InvOf(f, q, up, seek, out) /\ IsQt(q) /\ TypeOf(f, q, up, seek) /\ IndexOf(f, q)
      /\ FlagsOf(f, q, up, seek) /\ LiveOf(f, q, up) /\ PlainFile(f)
      /\ f.size \in Nat /\ q.offset \in Nat /\ Len(q.adapter) \in Nat /\ q.needed \in Nat
      /\ q.todrop \in Nat /\ q.mdatleft \in Nat
      /\ q.needed <= Len(q.adapter) /\ IsRun(q.adapter, q.offset)
      /\ q.adapter \in Seq(0..f.size - 1) /\ ~q.err /\ q.tracks # <<>>
      /\ Held(q, up) /\ MediaAhead(q) /\ (\A l \in DOMAIN q.tracks : q.index[l] >= 1)
      /\ (NextAt(q) \/ (f.fragmented /\ q.todrop = q.mdatleft))
  BY MovieFact
<1>4. NextAt(q) /\ q.state = "movie" /\ (f.fragmented => q.needed <= q.mdatleft)
  BY <1>3 DEF AtomUsedUp
<1>5. q.needed = q.todrop + 1 /\ q.offset \in 0..f.size
  BY <1>3, <1>4 DEF NextAt, TypeOf
<1>6. q.busy /\ ~q.eos /\ ~q.tricking /\ up.segment = NoSegment
  BY <1>3 DEF Held
<1>7. IsQt(c) /\ Keeps(c, q, Fields \ {"mdatleft"})
      /\ c.mdatleft = IF f.fragmented THEN q.mdatleft - q.needed ELSE q.mdatleft
  <2>1. CASE f.fragmented
    <3>1. c = [q EXCEPT !.mdatleft = @ - q.needed]
      BY <2>1
    <3> HIDE DEF c
    <3> QED
      BY <3>1, <2>1, <1>3 DEF IsQt, Fields, Keeps
  <2>2. CASE ~f.fragmented
    BY <2>2, <1>3 DEF Keeps
  <2> QED
    BY <2>1, <2>2
<1> HIDE DEF c
<1>8. c.todrop = q.todrop /\ c.adapter = q.adapter /\ c.needed = q.needed /\ c.offset = q.offset
  BY <1>7 DEF Keeps, Fields
<1>9. /\ IsQt(w) /\ w.adapter = first /\ w.needed = 1 /\ w.offset = q.offset + q.todrop /\ w.todrop = 0
      /\ Keeps(w, c, Fields \ {"adapter", "needed", "offset", "todrop"})
  <2>1. w = [Flushed(c, c.todrop) EXCEPT !.needed = @ - c.todrop, !.offset = @ + c.todrop, !.todrop = @ - c.todrop]
    BY DEF DropData
  <2>2. /\ IsQt(w) /\ w.adapter = SubSeq(c.adapter, c.todrop + 1, Len(c.adapter))
        /\ w.needed = c.needed - c.todrop
        /\ w.offset = c.offset + c.todrop /\ w.todrop = c.todrop - c.todrop
        /\ Keeps(w, c, Fields \ {"adapter", "needed", "offset", "todrop"})
    BY <2>1, <1>7 DEF IsQt, Fields, Keeps, Flushed
  <2> HIDE DEF w
  <2> QED
    BY <2>2, <1>3, <1>5, <1>8
<1> HIDE DEF w
<1>10. Keeps(w, q, Fields \ {"adapter", "needed", "offset", "todrop", "mdatleft"}) /\ w.mdatleft = c.mdatleft
  BY <1>7, <1>9 DEF Keeps, Fields
<1>11. /\ w.tracks = q.tracks /\ w.index = q.index /\ w.from = q.from /\ w.gotMoov = q.gotMoov
       /\ w.trick = q.trick /\ w.flushing = q.flushing /\ w.pushedI = q.pushedI /\ w.run = q.run
       /\ w.discont = q.discont /\ w.state = q.state /\ w.busy = q.busy /\ w.eos = q.eos /\ w.err = q.err
  BY <1>10 DEF Keeps, Fields
<1>12. /\ first \in Seq(0..f.size - 1) /\ Len(first) = Len(q.adapter) - q.todrop
       /\ IsRun(first, q.offset + q.todrop)
  <2>1. q.todrop \in 0..Len(q.adapter) /\ q.offset \in Int
    BY <1>3, <1>5
  <2> QED
    BY <2>1, <1>3, RunFact
<1> HIDE DEF first
<1>13. /\ then \in Seq(0..f.size - 1) /\ Len(then) = Len(q.adapter) - q.needed
       /\ IsRun(then, q.offset + q.needed) /\ first[1] = q.offset + q.todrop
  <2>1. 1 \in 0..Len(first) /\ q.offset + q.todrop \in Int /\ 1 \in DOMAIN first
    BY <1>3, <1>5, <1>12
  <2>2. 1 + 1 = 2
    OBVIOUS
  <2>3. /\ SubSeq(first, 1 + 1, Len(first)) \in Seq(0..f.size - 1)
        /\ Len(SubSeq(first, 1 + 1, Len(first))) = Len(first) - 1
        /\ IsRun(SubSeq(first, 1 + 1, Len(first)), q.offset + q.todrop + 1)
    BY <2>1, <1>12, RunFact
  <2>4. then = SubSeq(first, 1 + 1, Len(first))
    BY <2>2
  <2> HIDE DEF then
  <2>5. q.offset + q.todrop + 1 = q.offset + q.needed /\ Len(first) - 1 = Len(q.adapter) - q.needed
    <3>1. /\ q.offset \in Nat /\ q.todrop \in Nat /\ q.needed \in Nat /\ Len(q.adapter) \in Nat
          /\ q.needed = q.todrop + 1 /\ Len(first) = Len(q.adapter) - q.todrop
      BY <1>3, <1>5, <1>12
    <3> HIDE DEF q
    <3> QED
      BY <3>1
  <2>6. first[1] = q.offset + q.todrop
    BY <2>1, <1>12 DEF IsRun
  <2> QED
    BY <2>3, <2>4, <2>5, <2>6
<1> HIDE DEF then
<1>14. c.mdatleft \in Nat /\ q.offset + q.todrop \in 0..f.size
  <2>1. c.mdatleft \in Nat
    <3>1. CASE f.fragmented
      BY <3>1, <1>3, <1>4, <1>7
    <3>2. CASE ~f.fragmented
      BY <3>2, <1>3, <1>7
    <3> QED
      BY <3>1, <3>2
  <2>2. 1 \in DOMAIN first /\ first[1] \in 0..f.size - 1
    BY <1>12, <1>3, <1>5
  <2> QED
    BY <2>1, <2>2, <1>13, <1>3
<1>15. CASE Current(w) = {} \/ ~Interleaved
  <2>1. r = Failed(w) /\ out' = out
    BY <1>1, <1>15
  <2> HIDE DEF r
  <2>2. /\ IsQt(r) /\ r.busy = FALSE /\ r.err = TRUE /\ r.needed = 1 /\ r.todrop = 0
        /\ r.offset = q.offset + q.todrop /\ r.adapter = first /\ r.mdatleft = c.mdatleft
        /\ Keeps(r, w, Fields \ {"busy", "err"})
    BY <2>1, <1>9, <1>10 DEF IsQt, Fields, Keeps, Failed
  <2>3. Keeps(r, q, Fields \ {"busy", "err", "needed", "todrop", "offset", "adapter", "mdatleft"})
    BY <2>2, <1>10 DEF Keeps, Fields
  <2>4. r.needed \in -1..f.size + 1
    BY <2>2, <1>3
  <2>5. /\ r.todrop \in Nat /\ r.offset \in 0..f.size /\ r.adapter \in Seq(0..f.size - 1)
        /\ r.mdatleft \in Nat
    BY <2>2, <1>12, <1>14
  <2>6. InvOf(f, q, up, seek, out) /\ ~q.tricking /\ ~q.eos /\ IsQt(r) /\ r.busy = FALSE /\ r.err = TRUE
    BY <2>2, <1>3, <1>6
  <2> HIDE DEF q, f
  <2>7. InvOf(f, r, up, seek, out)
    BY <2>3, <2>4, <2>5, <2>6, FailKeeps
  <2> QED
    BY <2>1, <2>7 DEF r, f
<1>16. CASE ~(Current(w) = {} \/ ~Interleaved)
  <2> DEFINE here == {l \in Left(w) : Due(w, l).off = w.offset}
  <2>1. q.index \in [DOMAIN q.tracks -> Nat] /\ Stand(q) = q.index
    BY <1>3 DEF IndexOf, Stand, Positioned, Unset
  <2>2. \A l \in DOMAIN q.tracks : q.index[l] <= Count(q.tracks[l]) <=> q.index[l] \in Numbers(q, l)
    <3>1. SUFFICES ASSUME NEW l \in DOMAIN q.tracks
                   PROVE q.index[l] <= Count(q.tracks[l]) <=> q.index[l] \in Numbers(q, l)
      OBVIOUS
    <3>2. Count(q.tracks[l]) \in Nat /\ Numbers(q, l) = 1..Count(q.tracks[l])
      BY <1>3, SampleFact
    <3>3. q.index[l] \in Nat /\ q.index[l] >= 1
      BY <2>1, <1>3
    <3> QED
      BY <3>2, <3>3
  <2>3. here = {l \in DOMAIN q.tracks : q.index[l] \in Numbers(q, l) /\ Off(q, l, q.index[l]) = q.offset + q.todrop}
    BY <2>2, <1>9, <1>11 DEF Left, Due, Off
  <2>4. here # {}
    BY <2>1, <2>3, <1>4 DEF NextAt
  <2>5. here \subseteq Nat \ {0}
    <3>1. q.tracks \in Seq(TrackIn(f))
      BY <1>3 DEF IndexOf, IsIndex
    <3> QED
      BY <3>1, <2>3
  <2>6. Min(here) \in here
    <3>1. here \in SUBSET Int /\ \A x \in here : 0 <= x
      BY <2>5
    <3> HIDE DEF here
    <3> QED
      BY <3>1, <2>4, MinFact, 0 \in Int
  <2>7. Current(w) = {Min(here)}
    BY <2>4 DEF Current
  <2>8. k = Min(here) /\ k \in here
    BY <2>6, <2>7
  <2> HIDE DEF k, here
  <2>9. DueAt(q, k)
    BY <2>3, <2>8, <1>4 DEF DueAt
  <2>10. shown \in BOOLEAN /\ (~q.trick => shown)
    BY <1>11 DEF Shown
  <2> HIDE DEF shown
  <2>11. q.discont \in BOOLEAN /\ q.pushedI \in BOOLEAN /\ q.eos = FALSE /\ q.busy = TRUE /\ q.trick \in BOOLEAN
    BY <1>3, <1>6 DEF TypeOf
  <2>12. /\ IsQt(p0) /\ p0.adapter = then /\ p0.offset = q.offset + q.needed
         /\ p0.index = [q.index EXCEPT ![k] = @ + 1] /\ p0.discont \in BOOLEAN
         /\ p0.pushedI = (q.pushedI \/ (q.trick /\ shown)) /\ p0.mdatleft = c.mdatleft /\ p0.todrop = 0
         /\ Keeps(p0, w, Fields \ {"adapter", "offset", "index", "discont", "pushedI"})
    <3>1. /\ IsQt(gone) /\ gone.adapter = SubSeq(w.adapter, w.needed + 1, Len(w.adapter))
          /\ gone.index = [w.index EXCEPT ![k] = @ + 1] /\ gone.discont = (w.discont /\ ~shown)
          /\ gone.pushedI = (w.pushedI \/ (w.trick /\ shown))
          /\ Keeps(gone, w, Fields \ {"adapter", "index", "discont", "pushedI"})
      BY <1>9 DEF IsQt, Fields, Keeps, Flushed
    <3> HIDE DEF gone
    <3>2. gone.adapter = then
      BY <3>1, <1>9 DEF then
    <3>3. gone.offset = q.offset + q.todrop /\ gone.needed = 1 /\ gone.mdatleft = c.mdatleft /\ gone.todrop = 0
      BY <3>1, <1>9, <1>10 DEF Keeps, Fields
    <3>4. /\ IsQt(p0) /\ p0.offset = gone.offset + gone.needed
          /\ Keeps(p0, gone, Fields \ {"offset"})
      BY <3>1 DEF IsQt, Fields, Keeps
    <3> HIDE DEF p0
    <3>5. p0.offset = q.offset + q.needed
      BY <3>3, <3>4, <1>3, <1>5
    <3>6. /\ p0.adapter = gone.adapter /\ p0.index = gone.index /\ p0.discont = gone.discont
          /\ p0.pushedI = gone.pushedI /\ p0.mdatleft = gone.mdatleft /\ p0.todrop = gone.todrop
      BY <3>4 DEF Keeps, Fields
    <3>7. Keeps(p0, w, Fields \ {"adapter", "offset", "index", "discont", "pushedI"})
      BY <3>1, <3>4 DEF Keeps, Fields
    <3>8. gone.discont \in BOOLEAN
      BY <3>1
    <3> QED
      BY <3>1, <3>2, <3>3, <3>4, <3>5, <3>6, <3>7, <3>8, <1>11
  <2>13. Keeps(p0, q, Fields \ {"adapter", "offset", "index", "discont", "pushedI", "mdatleft", "needed", "todrop"})
    BY <2>12, <1>10 DEF Keeps, Fields
  <2> HIDE DEF p0, gone
  <2>14. Passed(q, p0, k)
    BY <2>12, <2>13 DEF Passed, Keeps, Fields
  <2>15. /\ IndexOf(f, p0) /\ MediaAhead(p0) /\ p0.offset \in 0..f.size /\ Stand(p0) = p0.index
    <3> HIDE DEF q
    <3> QED
      BY <2>9, <2>14, <1>3, <1>5, CutAhead
  <2>16. /\ IsQt(e) /\ Keeps(e, p0, Fields \ {"index", "todrop", "needed"}) /\ e.index = Stand(p0)
    BY <2>12, EntryShape
  <2>17. \/ NextAt(e) /\ e.needed \in 1..f.size
         \/ e.needed = NoEntry /\ e.todrop = 0 /\ NoMediaLeft(e)
    BY <2>12, <2>15, <1>3, NextEntry
  <2> HIDE DEF e
  <2>18. /\ e.index = p0.index /\ e.adapter = then /\ e.offset = q.offset + q.needed
         /\ e.discont \in BOOLEAN /\ e.pushedI = (q.pushedI \/ (q.trick /\ shown)) /\ e.mdatleft = c.mdatleft
         /\ e.busy = TRUE /\ e.eos = FALSE
         /\ Keeps(e, q, Fields \ {"adapter", "offset", "index", "discont", "pushedI", "mdatleft", "needed", "todrop"})
    <3>1. /\ e.adapter = p0.adapter /\ e.offset = p0.offset /\ e.discont = p0.discont /\ e.pushedI = p0.pushedI
          /\ e.mdatleft = p0.mdatleft /\ e.busy = p0.busy /\ e.eos = p0.eos
      BY <2>16 DEF Keeps, Fields
    <3>2. p0.busy = q.busy /\ p0.eos = q.eos
      BY <2>13 DEF Keeps, Fields
    <3>3. Keeps(e, q, Fields \ {"adapter", "offset", "index", "discont", "pushedI", "mdatleft", "needed", "todrop"})
      BY <2>16, <2>13 DEF Keeps, Fields
    <3> QED
      BY <3>1, <3>2, <3>3, <2>11, <2>12, <2>15, <2>16
  <2>19. /\ out' = IF ~shown \/ q.flushing THEN out
                   ELSE Append(out, [track |-> k, index |-> q.index[k],
                                     cell |-> q.offset + q.todrop, run |-> q.run])
         /\ r = IF e.needed # NoEntry THEN IF shown /\ q.flushing THEN Stopped(e) ELSE e
                ELSE IF f.fragmented THEN [e EXCEPT !.todrop = e.mdatleft, !.needed = e.mdatleft]
                ELSE [Stopped(e) EXCEPT !.eos = TRUE]
    BY <1>1, <1>2, <1>9, <1>11, <1>13, <1>16
  <2> HIDE DEF r
  <2>20. PutOut(q, out, out', k, shown)
    BY <2>10, <2>19 DEF PutOut
  <2>21. /\ IsQt(r) /\ Keeps(r, e, Fields \ {"busy", "eos", "needed", "todrop"})
         /\ \/ /\ r.needed = e.needed /\ r.todrop = e.todrop /\ r.eos = FALSE /\ e.needed # NoEntry
               /\ r.busy = TRUE \/ (r.busy = FALSE /\ q.flushing)
            \/ /\ f.fragmented /\ r.needed = e.mdatleft /\ r.todrop = e.mdatleft /\ e.needed = NoEntry
               /\ r.busy = TRUE /\ r.eos = FALSE
            \/ /\ ~f.fragmented /\ r.needed = e.needed /\ r.todrop = e.todrop /\ e.needed = NoEntry
               /\ r.busy = FALSE /\ r.eos = TRUE
    <3>1. CASE e.needed # NoEntry
      <4>1. CASE shown /\ q.flushing
        <5>1. r = [e EXCEPT !.busy = FALSE]
          BY <4>1, <3>1, <2>19 DEF Stopped
        <5> QED
          BY <5>1, <4>1, <3>1, <2>16, <2>18 DEF IsQt, Fields, Keeps
      <4>2. CASE ~(shown /\ q.flushing)
        <5>1. r = e
          BY <4>2, <3>1, <2>19
        <5> QED
          BY <5>1, <3>1, <2>16, <2>18 DEF Keeps
      <4> QED
        BY <4>1, <4>2
    <3>2. CASE e.needed = NoEntry /\ f.fragmented
      <4>1. r = [e EXCEPT !.todrop = e.mdatleft, !.needed = e.mdatleft]
        BY <3>2, <2>19
      <4> QED
        BY <4>1, <3>2, <2>16, <2>18 DEF IsQt, Fields, Keeps
    <3>3. CASE e.needed = NoEntry /\ ~f.fragmented
      <4>1. r = [e EXCEPT !.busy = FALSE, !.eos = TRUE]
        BY <3>3, <2>19 DEF Stopped
      <4> QED
        BY <4>1, <3>3, <2>16, <2>18 DEF IsQt, Fields, Keeps
    <3> QED
      BY <3>1, <3>2, <3>3
  <2>22. /\ r.adapter = then /\ r.offset = q.offset + q.needed /\ r.index = p0.index /\ r.discont \in BOOLEAN
         /\ r.pushedI = (q.pushedI \/ (q.trick /\ shown)) /\ r.mdatleft = c.mdatleft
         /\ r.tracks = e.tracks /\ r.index = e.index /\ r.offset = e.offset /\ r.mdatleft = e.mdatleft
    <3>1. /\ r.adapter = e.adapter /\ r.offset = e.offset /\ r.index = e.index /\ r.discont = e.discont
          /\ r.pushedI = e.pushedI /\ r.mdatleft = e.mdatleft /\ r.tracks = e.tracks
      BY <2>21 DEF Keeps, Fields
    <3> QED
      BY <3>1, <2>18
  <2>23. Keeps(r, q, Fields \ {"adapter", "offset", "index", "discont", "pushedI", "mdatleft",
                               "needed", "todrop", "busy", "eos"})
    BY <2>18, <2>21 DEF Keeps, Fields
  <2>24. Goes(f, q, r)
    BY <2>21, <2>22, <2>23, <1>4, <1>7, <1>13 DEF Goes
  <2>25. Told(q, r, shown)
    BY <2>22, <2>23 DEF Told, Keeps, Fields
  <2>26. Passed(q, r, k)
    BY <2>12, <2>22, <2>23 DEF Passed, Keeps, Fields
  <2>27. Resumes(f, q, r)
    <3>1. (r.needed = e.needed /\ r.todrop = e.todrop) /\ NextAt(e) => NextAt(r)
      BY <2>22 DEF NextAt, Stand, Numbers, Off
    <3>2. NoMediaLeft(e) => NoMediaLeft(r)
      BY <2>22 DEF NoMediaLeft, Stand
    <3>3. ~(NoEntry \in 1..f.size)
      BY <1>3 DEF NoEntry
    <3>4. CASE e.needed # NoEntry
      BY <3>1, <3>4, <2>17, <2>21 DEF Resumes
    <3>5. CASE e.needed = NoEntry
      <4>1. NoMediaLeft(r) /\ e.todrop = 0
        BY <3>2, <3>3, <3>5, <2>17
      <4> QED
        BY <4>1, <3>5, <2>21, <2>22 DEF Resumes
    <3> QED
      BY <3>4, <3>5
  <2> HIDE DEF q, f
  <2>28. InvOf(f, r, up, seek, out')
    BY <2>9, <2>10, <2>20, <2>24, <2>25, <2>26, <2>27, <1>3, <1>4, CutKeeps
  <2> QED
    BY <2>28 DEF f, r
<1> QED
  BY <1>15, <1>16

(* The media data, as a whole.                                              *)
LEMMA MovieKeeps == PushInv /\ Movie => InvOf(file', qt', up', seek', out')
<1> SUFFICES ASSUME PushInv, Movie PROVE InvOf(file', qt', up', seek', out')
  OBVIOUS
<1>1. /\ Ready /\ qt.state = "movie" /\ ~TrickNext /\ ~qt.tricking
      /\ file' = file /\ up' = up /\ seek' = seek
  BY DEF Movie
<1>2. CASE AtomUsedUp
  <2>1. qt' = Emptied(qt) /\ out' = out
    BY <1>2 DEF Movie
  <2> QED
    BY <2>1, <1>1, <1>2, EmptiedKeeps
<1>3. CASE ~AtomUsedUp /\ file.fragmented /\ qt.needed > qt.mdatleft
  <2>1. qt' = Failed(qt) /\ out' = out
    BY <1>3 DEF Movie
  <2>2. /\ InvOf(file, qt, up, seek, out) /\ IsQt(qt) /\ TypeOf(file, qt, up, seek) /\ Held(qt, up)
    BY <1>1, MovieFact
  <2>3. ~qt.tricking /\ ~qt.eos
    BY <2>2 DEF Held
  <2>4. /\ IsQt(qt') /\ qt'.busy = FALSE /\ qt'.err = TRUE /\ qt'.needed = qt.needed /\ qt'.todrop = qt.todrop
        /\ qt'.offset = qt.offset /\ qt'.adapter = qt.adapter /\ qt'.mdatleft = qt.mdatleft
        /\ Keeps(qt', qt, Fields \ {"busy", "err", "needed", "todrop", "offset", "adapter", "mdatleft"})
    BY <2>1, <2>2 DEF IsQt, Fields, Keeps, Failed
  <2>5. /\ qt'.needed \in -1..file.size + 1 /\ qt'.todrop \in Nat /\ qt'.offset \in 0..file.size
        /\ qt'.adapter \in Seq(0..file.size - 1) /\ qt'.mdatleft \in Nat
    BY <2>2, <2>4 DEF TypeOf
  <2>6. InvOf(file, qt', up, seek, out)
    BY <2>2, <2>3, <2>4, <2>5, FailKeeps
  <2> QED
    BY <2>1, <2>6, <1>1
<1>4. CASE ~AtomUsedUp /\ ~(file.fragmented /\ qt.needed > qt.mdatleft)
  <2>1. CutSample(IF file.fragmented THEN [qt EXCEPT !.mdatleft = @ - qt.needed] ELSE qt)
    BY <1>4 DEF Movie
  <2>2. file.fragmented => qt.needed <= qt.mdatleft
    <3>1. qt.needed \in Nat /\ qt.mdatleft \in Nat
      BY <1>1, MovieFact
    <3> QED
      BY <3>1, <1>4
  <2> QED
    BY <2>1, <2>2, <1>1, <1>4, CutSampleKeeps
<1> QED
  BY <1>2, <1>3, <1>4

-----------------------------------------------------------------------------
(* An atom is read: where the demuxer is, and what reading it may change.   *)
HeaderAt(f, q, u, s, o, a) ==
  /\ InvOf(f, q, u, s, o) /\ q.state = "header" /\ q.busy /\ ~q.eos /\ ~q.err
  /\ ~q.trick /\ ~q.flushing /\ ~q.tricking /\ u.segment = NoSegment
  /\ u.pos = q.offset + Len(q.adapter) /\ MediaAhead(q)
  /\ a \in Range(f.atoms) /\ a.first = q.offset /\ a.len = q.needed /\ a.kind # "mdat"
  /\ (q.mdatbuf # <<>> => a.kind = "moov" /\ q.tracks = <<>> /\ ~f.fragmented)
InMedia(f, p) ==
  \A k \in DOMAIN p.tracks : \A i \in Numbers(p, k) :
    \E d \in AtomsOf(f, "mdat") : Within(d, Off(p, k, i))
DoneBy(p, o) ==
  \A k \in DOMAIN p.tracks : \A i \in p.from[k]..Stand(p)[k] - 1 :
    \E n \in DOMAIN o : o[n].track = k /\ o[n].index = i /\ o[n].run = p.run
FragmentsPast(f, p, e) ==
  \A r : r.tracks = p.tracks /\ r.index = p.index /\ r.offset = e => FragmentsOf(f, r)
ReadOf(f, q, p, a, s, o) ==
  /\ IsQt(p) /\ Keeps(p, q, Fields \ {"gotMoov", "lastMoov", "tracks", "index", "from", "run"})
  /\ p.run \in Nat /\ p.gotMoov \in BOOLEAN /\ IndexOf(f, p) /\ CoversOf(f, p, s)
  /\ OutOf(p, o) /\ DoneBy(p, o) /\ InMedia(f, p)
  /\ IF p.tracks = <<>> THEN q.tracks = <<>> /\ a.kind # "moov"
     ELSE IF q.tracks = <<>>
     THEN p.tracks = f.tracks /\ \A k \in DOMAIN p.tracks : Stand(p)[k] = 1
     ELSE MediaAhead(p)
  /\ FragmentsPast(f, p, a.first + a.len)

(* What is known when an atom has been gathered.                            *)
LEMMA HeaderFact ==
  ASSUME PushInv, Ready, qt.state = "header", NEW a \in AtomAt(qt.adapter[1])
  PROVE  /\ HeaderAt(file, qt, up, seek, out, a) /\ IsQt(qt) /\ PlainFile(file)
         /\ TypeOf(file, qt, up, seek) /\ IndexOf(file, qt) /\ FlagsOf(file, qt, up, seek)
         /\ LiveOf(file, qt, up) /\ file.size \in Nat /\ qt.offset \in Nat /\ Len(qt.adapter) \in Nat
         /\ qt.needed \in Nat \ {0} /\ qt.needed <= Len(qt.adapter) /\ IsRun(qt.adapter, qt.offset)
         /\ qt.adapter \in Seq(0..file.size - 1)
<1>1. /\ InvOf(file, qt, up, seek, out) /\ IsQt(qt) /\ TypeOf(file, qt, up, seek) /\ IndexOf(file, qt)
      /\ FlagsOf(file, qt, up, seek) /\ LiveOf(file, qt, up) /\ PlainFile(file)
      /\ qt.busy /\ ~qt.eos /\ ~qt.err
      /\ file.size \in Nat /\ qt.offset \in Nat /\ Len(qt.adapter) \in Nat /\ qt.needed \in Nat
      /\ qt.needed <= Len(qt.adapter) /\ IsRun(qt.adapter, qt.offset)
      /\ qt.adapter \in Seq(0..file.size - 1)
  BY ReadyFact
<1>2. /\ qt.needed >= 1 /\ qt.adapter[1] = qt.offset
      /\ up.segment = NoSegment /\ up.pos = qt.offset + Len(qt.adapter)
      /\ MediaAhead(qt) /\ ~qt.flushing /\ ~qt.trick /\ ~qt.tricking
      /\ (qt.mdatbuf # <<>> => qt.tracks = <<>> /\ ~file.fragmented)
  BY HeadFact
<1>3. a \in Range(file.atoms) /\ a.first = qt.offset
  BY <1>2 DEF AtomAt
<1>4. PICK b \in Range(file.atoms) :
         /\ b.first = qt.offset /\ b.len = qt.needed
         /\ b.kind # "mdat" /\ (qt.mdatbuf = <<>> \/ b.kind = "moov")
  BY <1>1 DEF LiveOf, AtomOf
<1>5. a = b
  BY <1>1, <1>3, <1>4, AtomFact
<1>6. qt.needed \in Nat \ {0}
  BY <1>1, <1>2
<1>7. HeaderAt(file, qt, up, seek, out, a)
  BY <1>1, <1>2, <1>3, <1>4, <1>5 DEF HeaderAt
<1> QED
  BY <1>1, <1>6, <1>7

(* Another atom, or a header that is known: nothing changes.                *)
LEMMA ReadOther ==
  ASSUME NEW f, NEW q, NEW u, NEW s, NEW o, NEW a, HeaderAt(f, q, u, s, o, a),
         a.kind = "moov" => q.tracks # <<>>, ~(a.kind = "moof" /\ q.tracks # <<>> /\ f.fragmented)
  PROVE  ReadOf(f, q, q, a, s, o)
<1>1. /\ InvOf(f, q, u, s, o) /\ q.state = "header" /\ ~q.err /\ ~q.trick /\ ~q.flushing
      /\ u.segment = NoSegment /\ MediaAhead(q) /\ a \in Range(f.atoms) /\ a.first = q.offset
      /\ a.kind # "mdat"
  BY DEF HeaderAt
<1>2. /\ TypeOf(f, q, u, s) /\ PlainFile(f) /\ IndexOf(f, q) /\ CoversOf(f, q, s) /\ OutOf(q, o)
      /\ DoneOf(q, u, o) /\ LiveOf(f, q, u) /\ FragmentsOf(f, q)
  BY <1>1 DEF InvOf, LiveOf, TypeOf
<1>3. IsQt(q) /\ q.run \in Nat /\ q.gotMoov \in BOOLEAN
  BY <1>2 DEF TypeOf
<1>4. DoneBy(q, o)
  BY <1>1, <1>2 DEF DoneOf, DoneBy
<1>5. q.tracks # <<>> => InMedia(f, q)
  <2>1. SUFFICES ASSUME q.tracks # <<>> PROVE InMedia(f, q)
    OBVIOUS
  <2>2. CASE f.fragmented
    BY <2>1, <2>2, <1>2 DEF FragmentsOf, InMedia
  <2>3. CASE ~f.fragmented
    <3>1. q.tracks = f.tracks
      BY <2>1, <2>3, <1>2 DEF IndexOf, IsIndex
    <3>2. SoundFilm(f)
      BY <2>3, <1>2 DEF PlainFile
    <3> QED
      BY <3>1, <3>2 DEF SoundFilm, InMedia, Numbers, Off, Offset
  <2> QED
    BY <2>2, <2>3
<1>6. InMedia(f, q)
  BY <1>5 DEF InMedia
<1>7. FragmentsPast(f, q, a.first + a.len)
  <2>1. SUFFICES ASSUME NEW r, r.tracks = q.tracks, r.index = q.index, r.offset = a.first + a.len,
                        f.fragmented, q.tracks # <<>>
                 PROVE  FragmentsOf(f, r)
    BY DEF FragmentsPast, FragmentsOf
  <2>2. Stand(r) = Stand(q)
    BY <2>1 DEF Stand
  <2>3. a.kind # "moof" /\ a.first \in Nat /\ a.len \in Nat \ {0}
    BY <1>1, <1>2, <2>1, AtomFact
  <2>4. \A m \in AtomsOf(f, "moov") : m.first < r.offset
    <3>1. SUFFICES ASSUME NEW m \in AtomsOf(f, "moov") PROVE m.first < r.offset
      OBVIOUS
    <3>2. m.first < q.offset /\ m.first \in Nat
      BY <1>2, <2>1, AtomFact DEF FragmentsOf
    <3> QED
      BY <3>2, <1>1, <2>1, <2>3
  <2>5. ASSUME NEW b \in AtomsOf(f, "moof")
        PROVE  IF b.first < r.offset THEN Known(r, b) ELSE SamplesBelow(r, b.first)
    <3>1. IF b.first < q.offset THEN Known(q, b) ELSE SamplesBelow(q, b.first)
      BY <1>2, <2>1 DEF FragmentsOf
    <3>2. Known(q, b) => Known(r, b)
      BY <2>1 DEF Known, Numbers, Off
    <3>3. SamplesBelow(q, b.first) => SamplesBelow(r, b.first)
      BY <2>1 DEF SamplesBelow, Numbers, Off
    <3>4. b \in Range(f.atoms) /\ b.kind = "moof" /\ b.first \in Nat /\ b.len \in Nat \ {0}
      BY <1>2, AtomFact
    <3>5. b.first + b.len <= a.first \/ a.first + a.len <= b.first
      BY <1>1, <1>2, <2>3, <3>4, AtomFact
    <3>6. b.first < r.offset <=> b.first < q.offset
      BY <1>1, <2>1, <2>3, <3>4, <3>5
    <3> QED
      BY <3>1, <3>2, <3>3, <3>6
  <2>6. ASSUME NEW k \in DOMAIN q.tracks
        PROVE  /\ Stand(q)[k] <= PastEnd(q.tracks[k])
               /\ \A i \in Numbers(q, k) :
                    /\ \E d \in AtomsOf(f, "mdat") : Within(d, Off(q, k, i))
                    /\ i < Stand(q)[k] => Off(q, k, i) < r.offset
    <3>1. /\ Stand(q)[k] <= PastEnd(q.tracks[k])
          /\ \A i \in Numbers(q, k) :
                    /\ \E d \in AtomsOf(f, "mdat") : Within(d, Off(q, k, i))
                    /\ i < Stand(q)[k] => Off(q, k, i) < q.offset
      BY <1>2, <2>1 DEF FragmentsOf
    <3>2. \A i \in Numbers(q, k) : Off(q, k, i) \in 0..f.size - 1
      BY <1>2, SampleFact
    <3>3. ASSUME NEW i \in Numbers(q, k), i < Stand(q)[k] PROVE Off(q, k, i) < r.offset
      <4>1. Off(q, k, i) \in Int /\ Off(q, k, i) < q.offset
        BY <3>1, <3>2, <3>3
      <4> QED
        BY <4>1, <1>1, <2>1, <2>3
    <3> QED
      BY <3>1, <3>3
  <2> QED
    BY <2>1, <2>2, <2>4, <2>5, <2>6 DEF FragmentsOf, Numbers, Off
<1> QED
  BY <1>1, <1>2, <1>3, <1>4, <1>6, <1>7 DEF ReadOf, Keeps

(* The header.                                                              *)
LEMMA ReadMoov ==
  ASSUME NEW f, NEW q, NEW u, NEW s, NEW o, NEW a, HeaderAt(f, q, u, s, o, a),
         a.kind = "moov", NEW p, IsQt(p), p.tracks = f.tracks, p.gotMoov = TRUE,
         p.index = [k \in DOMAIN f.tracks |-> Unset], p.from = [k \in DOMAIN f.tracks |-> 1],
         p.run = q.run + 1, q.tracks = <<>>,
         Keeps(p, q, Fields \ {"gotMoov", "lastMoov", "tracks", "index", "from", "run"})
  PROVE  ReadOf(f, q, p, a, s, o)
<1>1. /\ InvOf(f, q, u, s, o) /\ a \in Range(f.atoms) /\ a.first = q.offset
  BY DEF HeaderAt
<1>2. /\ TypeOf(f, q, u, s) /\ PlainFile(f) /\ IndexOf(f, q) /\ CoversOf(f, q, s) /\ OutOf(q, o)
  BY <1>1 DEF InvOf, TypeOf
<1>3. p.run \in Nat
  BY <1>2 DEF TypeOf
<1>4. /\ f.tracks \in Seq(TrackIn(f)) /\ f.tracks # <<>>
  BY <1>2, TracksFact
<1>5. Stand(p) = [k \in DOMAIN f.tracks |-> 1]
  BY DEF Stand, Positioned, Unset
<1>6. f.fragmented => \A k \in DOMAIN f.tracks : f.tracks[k].samples = <<>>
  BY <1>2 DEF PlainFile, SoundFragments
<1>7. Ordered(Rows(f.tracks))
  <2>1. CASE f.fragmented
    BY <2>1, <1>6 DEF Ordered, Rows
  <2>2. CASE ~f.fragmented
    BY <2>2, <1>2 DEF PlainFile, SoundFilm
  <2> QED
    BY <2>1, <2>2
<1>8. IsIndex(f, f.tracks)
  BY <1>4, <1>7 DEF IsIndex
<1>9. IndexOf(f, p)
  <2>1. p.index \in [DOMAIN f.tracks -> Nat] /\ p.from \in [DOMAIN f.tracks -> Nat \ {0}]
    BY DEF Unset
  <2>2. \A k \in DOMAIN f.tracks : p.from[k] <= Stand(p)[k]
    BY <1>5
  <2> QED
    BY <2>1, <2>2, <1>4, <1>8 DEF IndexOf
<1>10. DOMAIN q.tracks = {}
  OBVIOUS
<1>11. CoversOf(f, p, s)
  <2>1. p.covers = q.covers
    BY DEF Keeps, Fields
  <2> QED
    BY <2>1, <1>2, <1>10 DEF CoversOf
<1>12. DOMAIN o = {} /\ o \in Seq([track : Nat, index : Nat, cell : Nat, run : Nat])
  BY <1>2, <1>10 DEF OutOf
<1>13. OutOf(p, o)
  BY <1>12 DEF OutOf
<1>14. DoneBy(p, o)
  BY <1>5 DEF DoneBy
<1>15. InMedia(f, p)
  <2>1. CASE f.fragmented
    BY <2>1, <1>6 DEF InMedia, Numbers
  <2>2. CASE ~f.fragmented
    BY <2>2, <1>2 DEF PlainFile, SoundFilm, InMedia, Numbers, Off, Offset
  <2> QED
    BY <2>1, <2>2
<1>16. FragmentsPast(f, p, a.first + a.len)
  <2>1. SUFFICES ASSUME NEW r, r.tracks = f.tracks, r.index = p.index, r.offset = a.first + a.len,
                        f.fragmented
                 PROVE  FragmentsOf(f, r)
    BY DEF FragmentsPast, FragmentsOf
  <2>2. Stand(r) = Stand(p)
    BY <2>1 DEF Stand
  <2>3. a \in AtomsOf(f, "moov") /\ a.first \in Nat /\ a.len \in Nat \ {0}
    BY <1>1, <1>2, AtomFact
  <2>4. ASSUME NEW m \in AtomsOf(f, "moov") PROVE m = a /\ m.first < r.offset
    <3>1. m = a
      BY <1>2, <2>3, AtomFact
    <3> QED
      BY <3>1, <2>1, <2>3
  <2>5. ASSUME NEW b \in AtomsOf(f, "moof") PROVE ~(b.first < r.offset)
    <3>1. PICK m \in AtomsOf(f, "moov") : m.first < b.first
      BY <2>1, <1>2 DEF PlainFile, SoundFragments
    <3>2. a.first < b.first
      BY <3>1, <2>4
    <3>3. b \in Range(f.atoms) /\ b.kind = "moof" /\ b.first \in Nat /\ b.len \in Nat \ {0}
      BY <1>2, AtomFact
    <3>4. b.first + b.len <= a.first \/ a.first + a.len <= b.first
      BY <1>1, <1>2, <3>3, AtomFact
    <3> QED
      BY <3>2, <3>3, <3>4, <2>1, <2>3
  <2>6. \A k \in DOMAIN r.tracks : Numbers(r, k) = {} /\ PastEnd(r.tracks[k]) = 1 /\ Stand(r)[k] = 1
    BY <1>5, <1>6, <2>1, <2>2 DEF Numbers, PastEnd, Count
  <2>7. \A b \in AtomsOf(f, "moof") : SamplesBelow(r, b.first)
    BY <2>6 DEF SamplesBelow
  <2> QED
    BY <2>4, <2>5, <2>6, <2>7 DEF FragmentsOf
<1> QED
  BY <1>3, <1>4, <1>5, <1>9, <1>11, <1>13, <1>14, <1>15, <1>16 DEF ReadOf

(* A fragment: its samples go behind those the tracks have.                 *)
LEMMA AddedFact ==
  ASSUME NEW f, NEW q, NEW a, PlainFile(f), f.fragmented, IndexOf(f, q), q.tracks # <<>>,
         a \in AtomsOf(f, "moof"), NEW p, p.tracks = Added(q.tracks, a.adds),
         NEW k \in DOMAIN q.tracks
  PROVE  /\ k \in DOMAIN a.adds /\ a.adds[k] \in Seq(SampleIn(f)) /\ Len(a.adds[k]) \in Nat
         /\ p.tracks[k] \in TrackIn(f) /\ p.tracks[k].kind = q.tracks[k].kind
         /\ Count(p.tracks[k]) = Count(q.tracks[k]) + Len(a.adds[k])
         /\ Numbers(p, k) = 1..(Count(q.tracks[k]) + Len(a.adds[k]))
         /\ \A i \in 1..Count(q.tracks[k]) : Off(p, k, i) = Off(q, k, i)
         /\ \A i \in 1..Len(a.adds[k]) :
              Off(p, k, Count(q.tracks[k]) + i) = a.adds[k][i].off /\ a.adds[k][i].off \in 0..f.size - 1
         /\ \A i \in Numbers(p, k) :
              IF i <= Count(q.tracks[k]) THEN i \in Numbers(q, k)
              ELSE i - Count(q.tracks[k]) \in DOMAIN a.adds[k]
<1> DEFINE t == q.tracks[k]
           n == Count(t)
           more == a.adds[k]
           m == Len(more)
           all == t.samples \o more
<1>1. DOMAIN q.tracks = DOMAIN f.tracks
  BY DEF IndexOf, IsIndex
<1>2. k \in DOMAIN a.adds /\ more \in Seq(SampleIn(f))
  BY <1>1 DEF PlainFile, SoundFragments
<1>3. t \in TrackIn(f)
  BY SampleFact
<1>4. /\ t.samples \in Seq(SampleIn(f)) /\ n \in Nat /\ DOMAIN t.samples = 1..n
      /\ t.edits \in Seq([time : Int, stop : Int, media : Nat]) /\ t.kind \in STRING
      /\ t = [kind |-> t.kind, samples |-> t.samples, edits |-> t.edits]
  <2>1. t.kind \in STRING
    BY <1>3 DEF TrackIn
  <2> QED
    BY <2>1, <1>3, TypedSamples
<1>5. p.tracks[k] = [t EXCEPT !.samples = all]
  BY DEF Added
<1> HIDE DEF t
<1>6. p.tracks[k] = [kind |-> t.kind, samples |-> all, edits |-> t.edits]
  BY <1>4, <1>5
<1> HIDE DEF more
<1>7. /\ all \in Seq(SampleIn(f)) /\ Len(all) = n + m /\ m \in Nat /\ DOMAIN all = 1..(n + m)
      /\ \A i \in 1..n : all[i] = t.samples[i]
      /\ \A i \in 1..m : all[n + i] = more[i]
  <2>1. n = Len(t.samples)
    BY DEF Count
  <2> DEFINE S == SampleIn(f)
  <2>2. t.samples \in Seq(S) /\ more \in Seq(S)
    BY <1>2, <1>4
  <2> HIDE DEF S, n
  <2>3. /\ all \in Seq(S) /\ Len(all) = n + m /\ m \in Nat /\ DOMAIN all = 1..(n + m)
        /\ \A i \in 1..n : all[i] = t.samples[i]
        /\ \A i \in 1..m : all[n + i] = more[i]
    BY <2>1, <2>2
  <2> QED
    BY <2>3 DEF S
<1> HIDE DEF all, n, m
<1>8. p.tracks[k] \in TrackIn(f) /\ p.tracks[k].kind = t.kind /\ p.tracks[k].samples = all
  BY <1>4, <1>6, <1>7 DEF TrackIn
<1>9. Count(p.tracks[k]) = n + m /\ Numbers(p, k) = 1..(n + m)
  BY <1>7, <1>8 DEF Count, Numbers
<1>10. \A i \in 1..n : Off(p, k, i) = Off(q, k, i)
  BY <1>7, <1>8 DEF Off, t
<1>11. ASSUME NEW i \in 1..m
       PROVE  Off(p, k, n + i) = more[i].off /\ more[i].off \in 0..f.size - 1
  <2>1. Off(p, k, n + i) = more[i].off
    BY <1>7, <1>8 DEF Off
  <2>2. more[i] \in SampleIn(f)
    BY <1>2, <1>7 DEF m
  <2> QED
    BY <2>1, <2>2 DEF SampleIn
<1>12. Numbers(q, k) = 1..n
  BY <1>4 DEF Numbers, t
<1>13. DOMAIN more = 1..m
  BY <1>2 DEF m
<1>14. \A i \in Numbers(p, k) : IF i <= n THEN i \in Numbers(q, k) ELSE i - n \in DOMAIN more
  BY <1>4, <1>7, <1>9, <1>12, <1>13
<1> QED
  BY <1>2, <1>7, <1>8, <1>9, <1>10, <1>11, <1>14 DEF n, m, more, t

(* A fragment is read.                                                      *)
LEMMA ReadMoof ==
  ASSUME NEW f, NEW q, NEW u, NEW s, NEW o, NEW a, HeaderAt(f, q, u, s, o, a),
         a.kind = "moof", q.tracks # <<>>, f.fragmented, NEW p, IsQt(p),
         p.tracks = Added(q.tracks, a.adds), Keeps(p, q, Fields \ {"tracks"})
  PROVE  ReadOf(f, q, p, a, s, o)
<1>1. /\ InvOf(f, q, u, s, o) /\ q.state = "header" /\ ~q.err /\ ~q.trick /\ ~q.flushing
      /\ u.segment = NoSegment /\ MediaAhead(q) /\ a \in Range(f.atoms) /\ a.first = q.offset
  BY DEF HeaderAt
<1>2. /\ TypeOf(f, q, u, s) /\ PlainFile(f) /\ IndexOf(f, q) /\ CoversOf(f, q, s) /\ OutOf(q, o)
      /\ DoneOf(q, u, o) /\ LiveOf(f, q, u) /\ FragmentsOf(f, q)
  BY <1>1 DEF InvOf, LiveOf, TypeOf
<1>3. p.run = q.run /\ p.gotMoov = q.gotMoov /\ p.index = q.index /\ p.from = q.from /\ p.covers = q.covers
      /\ p.offset = q.offset /\ Stand(p) = Stand(q)
  BY DEF Keeps, Fields, Stand
<1>4. p.run \in Nat /\ p.gotMoov \in BOOLEAN
  BY <1>2, <1>3 DEF TypeOf
<1>5. DOMAIN p.tracks = DOMAIN q.tracks /\ DOMAIN q.tracks = DOMAIN f.tracks
      /\ p.tracks \in Seq(TrackIn(f)) /\ p.tracks # <<>>
  <2>1. DOMAIN p.tracks = DOMAIN q.tracks
    BY DEF Added
  <2>2. q.tracks \in Seq(TrackIn(f)) /\ DOMAIN q.tracks = DOMAIN f.tracks
        /\ \A k \in DOMAIN q.tracks : p.tracks[k] \in TrackIn(f)
    <3>1. \A k \in DOMAIN q.tracks : p.tracks[k] \in TrackIn(f)
      BY <1>1, <1>2, AddedFact, AtomFact
    <3> QED
      BY <3>1, <1>2 DEF IndexOf, IsIndex
  <2>3. Len(q.tracks) \in Nat /\ DOMAIN q.tracks = 1..Len(q.tracks)
    BY <2>2
  <2>4. p.tracks = [k \in 1..Len(q.tracks) |-> p.tracks[k]]
    BY <2>1, <2>3 DEF Added
  <2>5. p.tracks \in Seq(TrackIn(f))
    <3> DEFINE S == TrackIn(f)
               g == p.tracks
               n == Len(q.tracks)
    <3>1. n \in Nat /\ g = [k \in 1..n |-> g[k]] /\ \A k \in 1..n : g[k] \in S
      BY <2>2, <2>3, <2>4
    <3> HIDE DEF S, g, n
    <3>2. g \in [1..n -> S]
      BY <3>1
    <3>3. g \in Seq(S)
      BY <3>1, <3>2, SeqDef
    <3> QED
      BY <3>3 DEF S, g
  <2>6. p.tracks # <<>>
    <3>1. DOMAIN q.tracks # {}
      BY <2>2
    <3> QED
      BY <3>1, <2>1
  <2> QED
    BY <2>1, <2>2, <2>5, <2>6
<1>6. a \in AtomsOf(f, "moof") /\ a.first \in Nat /\ a.len \in Nat \ {0}
  BY <1>1, <1>2, AtomFact
<1>7. ASSUME NEW k \in DOMAIN q.tracks
      PROVE  /\ \A i \in Numbers(q, k) : Off(q, k, i) < a.first /\ Off(q, k, i) \in Int
             /\ \A i \in DOMAIN a.adds[k] :
                  /\ a.first < a.adds[k][i].off /\ a.adds[k][i].off \in Int
                  /\ \E d \in AtomsOf(f, "mdat") : Within(d, a.adds[k][i].off)
                  /\ \A b \in AtomsOf(f, "moof") : a.first < b.first => a.adds[k][i].off < b.first
  <2>1. SamplesBelow(q, a.first)
    <3>1. ~(a.first < q.offset)
      BY <1>1, <1>6
    <3> QED
      BY <3>1, <1>2, <1>6 DEF FragmentsOf
  <2>2. \A i \in Numbers(q, k) : Off(q, k, i) \in 0..f.size - 1
    BY <1>2, SampleFact
  <2>3. \A i \in DOMAIN a.adds[k] :
                  /\ a.first < a.adds[k][i].off
                  /\ \E d \in AtomsOf(f, "mdat") : Within(d, a.adds[k][i].off)
                  /\ \A b \in AtomsOf(f, "moof") : a.first < b.first => a.adds[k][i].off < b.first
    BY <1>2, <1>5, <1>6 DEF PlainFile, SoundFragments
  <2>4. \A i \in DOMAIN a.adds[k] : a.adds[k][i].off \in Int
    <3>1. a.adds[k] \in Seq(SampleIn(f)) /\ \A i \in 1..Len(a.adds[k]) : a.adds[k][i].off \in 0..f.size - 1
      BY <1>2, <1>6, AddedFact
    <3> QED
      BY <3>1
  <2> QED
    BY <2>1, <2>2, <2>3, <2>4 DEF SamplesBelow
(* Where the samples of a track are now, the old ones and the new.          *)
<1>8. ASSUME NEW k \in DOMAIN q.tracks
      PROVE  /\ Count(q.tracks[k]) \in Nat /\ Len(a.adds[k]) \in Nat
             /\ Numbers(q, k) = 1..Count(q.tracks[k]) /\ DOMAIN a.adds[k] = 1..Len(a.adds[k])
             /\ Numbers(p, k) = 1..(Count(q.tracks[k]) + Len(a.adds[k]))
             /\ PastEnd(p.tracks[k]) = Count(q.tracks[k]) + Len(a.adds[k]) + 1
             /\ p.tracks[k].kind = q.tracks[k].kind
             /\ \A i \in Numbers(p, k) :
                  \/ i \in Numbers(q, k) /\ Off(p, k, i) = Off(q, k, i)
                  \/ /\ i > Count(q.tracks[k]) /\ i - Count(q.tracks[k]) \in DOMAIN a.adds[k]
                     /\ Off(p, k, i) = a.adds[k][i - Count(q.tracks[k])].off
             /\ \A i \in Numbers(q, k) : i \in Numbers(p, k) /\ Off(p, k, i) = Off(q, k, i)
             /\ \A i \in DOMAIN a.adds[k] :
                  /\ Count(q.tracks[k]) + i \in Numbers(p, k)
                  /\ Off(p, k, Count(q.tracks[k]) + i) = a.adds[k][i].off
  <2> DEFINE n == Count(q.tracks[k])
             m == Len(a.adds[k])
  <2>1. n \in Nat /\ Numbers(q, k) = 1..n
    BY <1>2, SampleFact
  <2>2. /\ a.adds[k] \in Seq(SampleIn(f)) /\ m \in Nat
        /\ p.tracks[k].kind = q.tracks[k].kind /\ Count(p.tracks[k]) = n + m
        /\ Numbers(p, k) = 1..(n + m)
        /\ \A i \in 1..n : Off(p, k, i) = Off(q, k, i)
        /\ \A i \in 1..m : Off(p, k, n + i) = a.adds[k][i].off
    BY <1>2, <1>6, AddedFact
  <2>3. DOMAIN a.adds[k] = 1..m
    BY <2>2
  <2>4. PastEnd(p.tracks[k]) = n + m + 1
    BY <2>2 DEF PastEnd
  <2> HIDE DEF n, m
  <2>5. ASSUME NEW i \in Numbers(p, k)
        PROVE  \/ i \in Numbers(q, k) /\ Off(p, k, i) = Off(q, k, i)
               \/ i > n /\ i - n \in DOMAIN a.adds[k] /\ Off(p, k, i) = a.adds[k][i - n].off
    <3>1. CASE i <= n
      BY <3>1, <2>1, <2>2
    <3>2. CASE ~(i <= n)
      <4>1. i - n \in 1..m /\ n + (i - n) = i /\ i > n
        BY <3>2, <2>1, <2>2
      <4> QED
        BY <4>1, <2>2, <2>3
    <3> QED
      BY <3>1, <3>2
  <2>6. \A i \in Numbers(q, k) : i \in Numbers(p, k) /\ Off(p, k, i) = Off(q, k, i)
    BY <2>1, <2>2
  <2>7. \A i \in DOMAIN a.adds[k] : n + i \in Numbers(p, k) /\ Off(p, k, n + i) = a.adds[k][i].off
    BY <2>1, <2>2, <2>3
  <2> QED
    BY <2>1, <2>2, <2>3, <2>4, <2>5, <2>6, <2>7 DEF n, m
<1>9. Ordered(Rows(p.tracks))
  <2>1. Ordered(a.adds) /\ DOMAIN a.adds = DOMAIN q.tracks
    BY <1>2, <1>5, <1>6 DEF PlainFile, SoundFragments
  <2>2. ASSUME NEW k \in DOMAIN q.tracks, NEW i \in Numbers(p, k), NEW j \in Numbers(p, k), i < j
        PROVE  Off(p, k, i) < Off(p, k, j)
    <3>1. \A x, y \in Numbers(q, k) : x < y => Off(q, k, x) < Off(q, k, y)
      BY <1>2, SampleFact
    <3>2. CASE j \in Numbers(q, k) /\ Off(p, k, j) = Off(q, k, j)
      <4>1. i \in Numbers(q, k)
        BY <3>2, <2>2, <1>8
      <4> QED
        BY <4>1, <3>1, <3>2, <2>2, <1>8
    <3>3. CASE /\ j > Count(q.tracks[k]) /\ j - Count(q.tracks[k]) \in DOMAIN a.adds[k]
               /\ Off(p, k, j) = a.adds[k][j - Count(q.tracks[k])].off
      <4>1. CASE i \in Numbers(q, k) /\ Off(p, k, i) = Off(q, k, i)
        BY <4>1, <3>3, <1>6, <1>7
      <4>2. CASE /\ i > Count(q.tracks[k]) /\ i - Count(q.tracks[k]) \in DOMAIN a.adds[k]
                 /\ Off(p, k, i) = a.adds[k][i - Count(q.tracks[k])].off
        <5>1. i - Count(q.tracks[k]) < j - Count(q.tracks[k])
          BY <2>2, <1>8
        <5> QED
          BY <5>1, <4>2, <3>3, <2>1 DEF Ordered
      <4> QED
        BY <4>1, <4>2, <1>8, <2>2
    <3> QED
      BY <3>2, <3>3, <1>8, <2>2
  <2>3. ASSUME NEW k \in DOMAIN q.tracks, NEW l \in DOMAIN q.tracks, k # l,
               NEW i \in Numbers(p, k), NEW j \in Numbers(p, l)
        PROVE  Off(p, k, i) # Off(p, l, j)
    <3>1. \A x \in Numbers(q, k), y \in Numbers(q, l) : Off(q, k, x) # Off(q, l, y)
      BY <1>2, <2>3, SampleFact
    <3>2. \A x \in DOMAIN a.adds[k], y \in DOMAIN a.adds[l] : a.adds[k][x].off # a.adds[l][y].off
      BY <2>1, <2>3 DEF Ordered
    <3>3. \/ i \in Numbers(q, k) /\ Off(p, k, i) = Off(q, k, i)
          \/ \E x \in DOMAIN a.adds[k] : Off(p, k, i) = a.adds[k][x].off
      BY <1>8
    <3>4. \/ j \in Numbers(q, l) /\ Off(p, l, j) = Off(q, l, j)
          \/ \E x \in DOMAIN a.adds[l] : Off(p, l, j) = a.adds[l][x].off
      BY <1>8
    <3>5. /\ \A x \in Numbers(q, k) : Off(q, k, x) < a.first /\ Off(q, k, x) \in Int
          /\ \A x \in DOMAIN a.adds[k] : a.first < a.adds[k][x].off /\ a.adds[k][x].off \in Int
          /\ \A x \in Numbers(q, l) : Off(q, l, x) < a.first /\ Off(q, l, x) \in Int
          /\ \A x \in DOMAIN a.adds[l] : a.first < a.adds[l][x].off /\ a.adds[l][x].off \in Int
      BY <1>7
    <3> QED
      BY <3>1, <3>2, <3>3, <3>4, <3>5, <1>6
  <2>4. DOMAIN Rows(p.tracks) = DOMAIN q.tracks /\ \A k \in DOMAIN q.tracks : Rows(p.tracks)[k] = p.tracks[k].samples
    BY <1>5 DEF Rows
  <2> QED
    BY <2>2, <2>3, <2>4 DEF Ordered, Numbers, Off
<1>10. IndexOf(f, p)
  <2>1. IsIndex(f, p.tracks)
    <3>1. \A k \in DOMAIN q.tracks : q.tracks[k].kind = f.tracks[k].kind
      BY <1>2 DEF IndexOf, IsIndex
    <3>2. \A k \in DOMAIN p.tracks : p.tracks[k].kind = f.tracks[k].kind
      BY <3>1, <1>5, <1>8
    <3> QED
      BY <3>2, <1>5, <1>9 DEF IsIndex
  <2> QED
    BY <2>1, <1>2, <1>3, <1>5 DEF IndexOf
<1>11. CoversOf(f, p, s)
  BY <1>2, <1>3, <1>5 DEF CoversOf
<1>12. OutOf(p, o)
  <2>1. ASSUME NEW n \in DOMAIN o
        PROVE  /\ o[n].track \in DOMAIN p.tracks /\ o[n].index \in Numbers(p, o[n].track)
               /\ o[n].cell = Off(p, o[n].track, o[n].index)
    <3>1. /\ o[n].track \in DOMAIN q.tracks /\ o[n].index \in Numbers(q, o[n].track)
          /\ o[n].cell = Off(q, o[n].track, o[n].index)
      BY <1>2, <2>1 DEF OutOf
    <3> QED
      BY <3>1, <1>5, <1>8
  <2> QED
    BY <2>1, <1>2, <1>3 DEF OutOf
<1>13. DoneBy(p, o)
  BY <1>1, <1>2, <1>3, <1>5 DEF DoneBy, DoneOf
<1>14. InMedia(f, q)
  BY <1>2 DEF FragmentsOf, InMedia
<1>15. InMedia(f, p)
  <2>1. SUFFICES ASSUME NEW k \in DOMAIN q.tracks, NEW i \in Numbers(p, k)
                 PROVE  \E d \in AtomsOf(f, "mdat") : Within(d, Off(p, k, i))
    BY <1>5 DEF InMedia
  <2>2. CASE i \in Numbers(q, k) /\ Off(p, k, i) = Off(q, k, i)
    BY <2>2, <1>14 DEF InMedia
  <2>3. CASE \E x \in DOMAIN a.adds[k] : Off(p, k, i) = a.adds[k][x].off
    BY <2>3, <1>7
  <2> QED
    BY <2>1, <2>2, <2>3, <1>8
<1>16. MediaAhead(p)
  <2>1. SUFFICES ASSUME NEW k \in DOMAIN q.tracks, IsMedia(q.tracks[k]), NEW i \in Numbers(p, k), Stand(q)[k] <= i
                 PROVE  q.offset <= Off(p, k, i)
    BY <1>3, <1>5, <1>8 DEF MediaAhead, IsMedia, Sparse
  <2>2. CASE i \in Numbers(q, k) /\ Off(p, k, i) = Off(q, k, i)
    BY <2>1, <2>2, <1>1 DEF MediaAhead
  <2>3. CASE \E x \in DOMAIN a.adds[k] : Off(p, k, i) = a.adds[k][x].off
    BY <2>3, <1>1, <1>6, <1>7
  <2> QED
    BY <2>1, <2>2, <2>3, <1>8
<1>17. FragmentsPast(f, p, a.first + a.len)
  <2>1. SUFFICES ASSUME NEW r, r.tracks = p.tracks, r.index = p.index, r.offset = a.first + a.len
                 PROVE  FragmentsOf(f, r)
    BY DEF FragmentsPast
  <2>2. Stand(r) = Stand(q)
    BY <2>1, <1>3 DEF Stand
  <2>3. \A m \in AtomsOf(f, "moov") : m.first < r.offset
    <3>1. SUFFICES ASSUME NEW m \in AtomsOf(f, "moov") PROVE m.first < r.offset
      OBVIOUS
    <3>2. m.first < q.offset /\ m.first \in Nat
      BY <1>2, AtomFact DEF FragmentsOf
    <3> QED
      BY <3>2, <1>1, <1>6, <2>1
  <2>4. ASSUME NEW b \in AtomsOf(f, "moof")
        PROVE  IF b.first < r.offset THEN Known(r, b) ELSE SamplesBelow(r, b.first)
    <3>1. b \in Range(f.atoms) /\ b.kind = "moof" /\ b.first \in Nat /\ b.len \in Nat \ {0}
      BY <1>2, AtomFact
    <3>2. b = a \/ b.first + b.len <= a.first \/ a.first + a.len <= b.first
      BY <1>1, <1>2, <3>1, AtomFact
    <3>3. CASE b = a
      <4>1. Known(r, a)
        <5>1. SUFFICES ASSUME NEW k \in DOMAIN q.tracks, NEW i \in DOMAIN a.adds[k]
                       PROVE  \E j \in Numbers(r, k) : Off(r, k, j) = a.adds[k][i].off
          BY <1>5, <2>1 DEF Known
        <5>2. /\ Count(q.tracks[k]) + i \in Numbers(p, k)
              /\ Off(p, k, Count(q.tracks[k]) + i) = a.adds[k][i].off
          BY <1>8
        <5>3. Numbers(r, k) = Numbers(p, k) /\ \A j : Off(r, k, j) = Off(p, k, j)
          BY <2>1 DEF Numbers, Off
        <5> QED
          BY <5>2, <5>3
      <4> QED
        BY <4>1, <3>3, <1>6, <2>1
    <3>4. CASE b.first + b.len <= a.first
      <4>1. b.first < q.offset /\ b.first < r.offset
        BY <3>1, <3>4, <1>1, <1>6, <2>1
      <4>2. Known(q, b)
        BY <4>1, <1>2 DEF FragmentsOf
      <4>3. Known(r, b)
        <5>1. SUFFICES ASSUME NEW k \in DOMAIN q.tracks, NEW i \in DOMAIN b.adds[k]
                       PROVE  \E j \in Numbers(r, k) : Off(r, k, j) = b.adds[k][i].off
          BY <1>5, <2>1 DEF Known
        <5>2. PICK j \in Numbers(q, k) : Off(q, k, j) = b.adds[k][i].off
          BY <4>2 DEF Known
        <5>3. j \in Numbers(p, k) /\ Off(p, k, j) = Off(q, k, j)
          BY <1>8
        <5> QED
          BY <5>2, <5>3, <2>1 DEF Numbers, Off
      <4> QED
        BY <4>1, <4>3
    <3>5. CASE a.first + a.len <= b.first
      <4>1. ~(b.first < r.offset) /\ a.first < b.first
        BY <3>1, <3>5, <1>6, <2>1
      <4>2. SamplesBelow(r, b.first)
        <5>1. SUFFICES ASSUME NEW k \in DOMAIN q.tracks, NEW i \in Numbers(p, k)
                       PROVE  Off(p, k, i) < b.first
          BY <1>5, <2>1 DEF SamplesBelow, Numbers, Off
        <5>2. CASE i \in Numbers(q, k) /\ Off(p, k, i) = Off(q, k, i)
          <6>1. Off(q, k, i) < a.first /\ Off(q, k, i) \in Int
            BY <5>2, <1>7
          <6> QED
            BY <6>1, <5>2, <4>1, <3>1, <1>6
        <5>3. CASE \E x \in DOMAIN a.adds[k] : Off(p, k, i) = a.adds[k][x].off
          BY <5>3, <4>1, <1>7
        <5> QED
          BY <5>1, <5>2, <5>3, <1>8
      <4> QED
        BY <4>1, <4>2
    <3> QED
      BY <3>2, <3>3, <3>4, <3>5
  <2>5. ASSUME NEW k \in DOMAIN q.tracks
        PROVE  /\ Stand(q)[k] <= PastEnd(p.tracks[k])
               /\ \A i \in Numbers(p, k) : i < Stand(q)[k] => Off(p, k, i) < r.offset
    <3>1. /\ Stand(q)[k] <= PastEnd(q.tracks[k])
          /\ \A i \in Numbers(q, k) : i < Stand(q)[k] => Off(q, k, i) < q.offset
      BY <1>2 DEF FragmentsOf
    <3>2. Stand(q)[k] \in Nat /\ Count(q.tracks[k]) \in Nat /\ Len(a.adds[k]) \in Nat
          /\ PastEnd(q.tracks[k]) = Count(q.tracks[k]) + 1
      BY <1>2, <1>8, StandFact DEF PastEnd
    <3>3. Stand(q)[k] <= PastEnd(p.tracks[k])
      BY <3>1, <3>2, <1>8
    <3>4. ASSUME NEW i \in Numbers(p, k), i < Stand(q)[k] PROVE Off(p, k, i) < r.offset
      <4>1. i \in Numbers(q, k)
        BY <3>1, <3>2, <3>4, <1>8
      <4>2. Off(p, k, i) = Off(q, k, i) /\ Off(q, k, i) < a.first /\ Off(q, k, i) \in Int
        BY <4>1, <1>7, <1>8
      <4> QED
        BY <4>2, <1>6, <2>1
    <3> QED
      BY <3>3, <3>4
  <2> QED
    BY <2>1, <2>2, <2>3, <2>4, <2>5, <1>5, <1>15 DEF FragmentsOf, InMedia, Numbers, Off
<1>18. Keeps(p, q, Fields \ {"gotMoov", "lastMoov", "tracks", "index", "from", "run"})
  BY DEF Keeps
<1> QED
  BY <1>4, <1>5, <1>10, <1>11, <1>12, <1>13, <1>15, <1>16, <1>17, <1>18 DEF ReadOf

(* Whatever atom is read, the tracks are in order afterwards.               *)
LEMMA HeaderReads ==
  ASSUME PushInv, Ready, qt.state = "header", NEW a \in AtomAt(qt.adapter[1])
  PROVE  ReadOf(file, qt, Parsed(qt, a), a, seek, out)
<1>1. /\ HeaderAt(file, qt, up, seek, out, a) /\ IsQt(qt) /\ PlainFile(file)
      /\ IndexOf(file, qt) /\ LiveOf(file, qt, up) /\ qt.offset \in Nat
  BY HeaderFact
<1>2. a \in Range(file.atoms) /\ a.first = qt.offset /\ qt.gotMoov = (qt.tracks # <<>>)
  BY <1>1 DEF HeaderAt, IndexOf
<1> DEFINE q == qt
           p == Parsed(q, a)
           changed == {"gotMoov", "lastMoov", "tracks", "index", "from", "run"}
<1>3. CASE a.kind = "moov" /\ ~KnownMoov(qt)
  <2>1. qt.tracks = <<>>
    <3>1. CASE file.fragmented
      <4>1. ~(a.first < qt.offset) /\ a \in AtomsOf(file, "moov")
        BY <1>1, <1>2, <1>3, AtomFact
      <4> QED
        BY <4>1, <3>1, <1>1 DEF LiveOf, FragmentsOf
    <3>2. CASE ~file.fragmented
      BY <3>2, <1>2, <1>3 DEF KnownMoov
    <3> QED
      BY <3>1, <3>2
  <2>2. p = [q EXCEPT !.gotMoov = TRUE, !.lastMoov = q.offset, !.tracks = file.tracks,
                      !.index = [k \in DOMAIN file.tracks |-> Unset],
                      !.from = [k \in DOMAIN file.tracks |-> 1], !.run = @ + 1]
    BY <1>3 DEF Parsed
  <2> HIDE DEF p
  <2>3. /\ IsQt(p) /\ p.tracks = file.tracks /\ p.gotMoov = TRUE
        /\ p.index = [k \in DOMAIN file.tracks |-> Unset] /\ p.from = [k \in DOMAIN file.tracks |-> 1]
        /\ p.run = q.run + 1 /\ Keeps(p, q, Fields \ changed)
    BY <2>2, <1>1 DEF IsQt, Fields, Keeps
  <2>4. ReadOf(file, q, p, a, seek, out)
    BY <2>1, <2>3, <1>1, <1>3, ReadMoov
  <2> QED
    BY <2>4 DEF p
<1>4. CASE a.kind = "moof" /\ qt.gotMoov /\ file.fragmented
  <2>1. p = [q EXCEPT !.tracks = Added(q.tracks, a.adds)]
    BY <1>4 DEF Parsed
  <2> HIDE DEF p
  <2>2. IsQt(p) /\ p.tracks = Added(q.tracks, a.adds) /\ Keeps(p, q, Fields \ {"tracks"})
    BY <2>1, <1>1 DEF IsQt, Fields, Keeps
  <2>3. ReadOf(file, q, p, a, seek, out)
    BY <2>2, <1>1, <1>2, <1>4, ReadMoof
  <2> QED
    BY <2>3 DEF p
<1>5. CASE ~(a.kind = "moov" /\ ~KnownMoov(qt)) /\ ~(a.kind = "moof" /\ qt.gotMoov /\ file.fragmented)
  <2>1. p = q
    BY <1>5 DEF Parsed
  <2>2. a.kind = "moov" => q.tracks # <<>>
    BY <1>5 DEF KnownMoov
  <2>3. ~(a.kind = "moof" /\ q.tracks # <<>> /\ file.fragmented)
    BY <1>2, <1>5
  <2>4. ReadOf(file, q, q, a, seek, out)
    BY <2>2, <2>3, <1>1, ReadOther
  <2> QED
    BY <2>1, <2>4
<1> QED
  BY <1>3, <1>4, <1>5

(* The parts of the invariant that do not depend on where reading goes on.  *)
Settled(f, p, v, r) ==
  /\ IsQt(r) /\ IsUp(v) /\ v.pos \in 0..f.size /\ v.segment \in -1..f.size
  /\ Keeps(r, p, Fields \ {"state", "needed", "todrop", "offset", "adapter", "index", "mdatleft",
                           "mdatbuf", "restore", "restoreOff", "pushedI"})
  /\ r.index = p.index \/ r.index = Stand(p)
  /\ r.state \in {"initial", "movie"} /\ r.needed \in -1..f.size + 1 /\ r.offset \in 0..f.size
  /\ r.todrop \in Nat /\ r.adapter \in Seq(0..f.size - 1) /\ r.mdatbuf \in Seq(0..f.size - 1)
  /\ r.mdatleft \in Nat /\ r.pushedI \in BOOLEAN
  /\ r.mdatbuf = p.mdatbuf \/ r.mdatbuf = <<>>
  /\ f.fragmented => r.restore = p.restore
  /\ r.state = "movie" => r.tracks # <<>> /\ v.segment = NoSegment

(* An atom that has been read leaves those parts as they should be.         *)
LEMMA HeaderRest ==
  ASSUME NEW f, NEW q, NEW u, NEW s, NEW o, NEW a, NEW p, NEW v, NEW r,
         HeaderAt(f, q, u, s, o, a), ReadOf(f, q, p, a, s, o), Settled(f, p, v, r)
  PROVE  /\ TypeOf(f, r, v, s) /\ IndexOf(f, r) /\ FlagsOf(f, r, v, s) /\ EndOf(r) /\ CoversOf(f, r, s)
         /\ OutOf(r, o) /\ InRow(o) /\ DoneOf(r, v, o) /\ TrickOf(r, v, o) /\ FirstOf(f, r)
         /\ Stand(r) = Stand(p) /\ r.tracks = p.tracks /\ ~r.eos /\ ~r.err /\ r.busy /\ ~r.flushing
         /\ r.firstMdat = q.firstMdat /\ r.mdatoffset = q.mdatoffset
<1>1. /\ InvOf(f, q, u, s, o) /\ q.busy /\ ~q.eos /\ ~q.err /\ ~q.trick /\ ~q.flushing /\ ~q.tricking
  BY DEF HeaderAt
<1>2. /\ TypeOf(f, q, u, s) /\ FlagsOf(f, q, u, s) /\ InRow(o) /\ FirstOf(f, q)
  BY <1>1 DEF InvOf
<1>3. /\ IsQt(p) /\ p.run \in Nat /\ p.gotMoov \in BOOLEAN /\ IndexOf(f, p) /\ CoversOf(f, p, s)
      /\ OutOf(p, o) /\ DoneBy(p, o)
  BY DEF ReadOf
<1>4. /\ p.mdatbuf = q.mdatbuf /\ p.rate = q.rate /\ p.busy = q.busy /\ p.err = q.err /\ p.eos = q.eos
      /\ p.trick = q.trick /\ p.discont = q.discont /\ p.tricking = q.tricking /\ p.flushing = q.flushing
      /\ p.restore = q.restore /\ p.firstMdat = q.firstMdat /\ p.mdatoffset = q.mdatoffset
  BY DEF ReadOf, Keeps, Fields
<1>5. /\ r.rate = p.rate /\ r.busy = p.busy /\ r.err = p.err /\ r.eos = p.eos
      /\ r.trick = p.trick /\ r.discont = p.discont /\ r.tricking = p.tricking /\ r.flushing = p.flushing
      /\ r.firstMdat = p.firstMdat /\ r.mdatoffset = p.mdatoffset /\ r.tracks = p.tracks
      /\ r.gotMoov = p.gotMoov /\ r.from = p.from /\ r.run = p.run /\ r.covers = p.covers
  BY DEF Settled, Keeps, Fields
<1>6. /\ IsQt(r) /\ IsUp(v) /\ v.pos \in 0..f.size /\ v.segment \in -1..f.size
      /\ (r.index = p.index \/ r.index = Stand(p))
      /\ r.state \in {"initial", "movie"} /\ r.needed \in -1..f.size + 1 /\ r.offset \in 0..f.size
      /\ r.todrop \in Nat /\ r.adapter \in Seq(0..f.size - 1) /\ r.mdatbuf \in Seq(0..f.size - 1)
      /\ r.mdatleft \in Nat /\ r.pushedI \in BOOLEAN
      /\ (r.mdatbuf = p.mdatbuf \/ r.mdatbuf = <<>>)
      /\ (f.fragmented => r.restore = p.restore)
      /\ (r.state = "movie" => r.tracks # <<>> /\ v.segment = NoSegment)
  BY DEF Settled
<1>7. Stand(r) = Stand(p) /\ r.index \in [DOMAIN r.tracks -> Nat]
  <2>1. Stand(p) \in [DOMAIN p.tracks -> Nat \ {0}] /\ Positioned(Stand(p)) = Stand(p)
    BY <1>3, StandFact
  <2>2. CASE r.index = p.index
    BY <2>2, <1>3, <1>5 DEF Stand, IndexOf
  <2>3. CASE r.index = Stand(p)
    BY <2>1, <2>3, <1>5 DEF Stand
  <2> QED
    BY <2>2, <2>3, <1>6
<1>8. IndexOf(f, r)
  BY <1>3, <1>5, <1>7 DEF IndexOf
<1>9. OutOf(r, o)
  BY <1>3, <1>5, <1>7 DEF OutOf, Numbers, Off
<1>10. CoversOf(f, r, s) /\ FirstOf(f, r)
  BY <1>2, <1>3, <1>4, <1>5 DEF CoversOf, FirstOf
<1>11. DoneOf(r, v, o)
  BY <1>3, <1>5, <1>7 DEF DoneOf, DoneBy
<1>12. TrickOf(r, v, o) /\ EndOf(r)
  BY <1>1, <1>4, <1>5 DEF TrickOf, EndOf
<1>13. TypeOf(f, r, v, s)
  BY <1>2, <1>3, <1>4, <1>5, <1>6 DEF TypeOf
<1>14. FlagsOf(f, r, v, s)
  BY <1>1, <1>2, <1>4, <1>5, <1>6 DEF FlagsOf
<1> QED
  BY <1>1, <1>2, <1>4, <1>5, <1>7, <1>8, <1>9, <1>10, <1>11, <1>12, <1>13, <1>14

(* A film of which the tracks have just been read has a sample left.        *)
LEMMA FreshFact ==
  ASSUME NEW f, PlainFile(f), ~f.fragmented, NEW p, p.tracks = f.tracks,
         \A k \in DOMAIN p.tracks : Stand(p)[k] = 1
  PROVE  /\ ~NoMediaLeft(p)
         /\ Left([p EXCEPT !.index = Positioned(@)]) # {} \/ ~IsQt(p)
<1>1. PICK k \in DOMAIN f.tracks : IsMedia(f.tracks[k])
  BY TracksFact
<1>2. f.tracks[k].samples # <<>>
  BY <1>1 DEF PlainFile, SoundFilm
<1>3. Count(f.tracks[k]) \in Nat /\ f.tracks[k].samples \in Seq(SampleIn(f))
  <2>1. f.tracks[k] \in TrackIn(f)
    BY <1>1, TracksFact
  <2> QED
    BY <2>1, TypedSamples
<1>4. 1 <= Count(f.tracks[k])
  BY <1>2, <1>3 DEF Count
<1>5. ~(1 > Count(f.tracks[k]))
  BY <1>3, <1>4
<1>6. ~NoMediaLeft(p)
  BY <1>1, <1>5 DEF NoMediaLeft
<1>7. IsQt(p) => k \in Left([p EXCEPT !.index = Positioned(@)])
  <2>1. SUFFICES ASSUME IsQt(p) PROVE k \in Left([p EXCEPT !.index = Positioned(@)])
    OBVIOUS
  <2> DEFINE w == [p EXCEPT !.index = Positioned(@)]
  <2>2. w.tracks = p.tracks /\ w.index = Stand(p)
    BY <2>1 DEF IsQt, Fields, Stand
  <2> HIDE DEF w
  <2>3. k \in Left(w)
    BY <2>2, <1>1, <1>4 DEF Left
  <2> QED
    BY <2>3 DEF w
<1> QED
  BY <1>6, <1>7

(* The media data came before the header: it goes back in front.            *)
LEMMA RestoredKeeps ==
  ASSUME NEW f, NEW q, NEW u, NEW s, NEW o, NEW a, NEW p,
         HeaderAt(f, q, u, s, o, a), ReadOf(f, q, p, a, s, o), p.mdatbuf # <<>>, p.tracks # <<>>
  PROVE  InvOf(f, Restored(p), u, s, o)
<1> DEFINE w == [p EXCEPT !.offset = p.mdatoffset, !.adapter = p.mdatbuf]
           e == WithNextEntry(w)
           r == Restored(p)
<1>1. /\ InvOf(f, q, u, s, o) /\ q.state = "header" /\ ~q.err /\ u.segment = NoSegment
      /\ a \in Range(f.atoms) /\ a.first = q.offset
      /\ (q.mdatbuf # <<>> => a.kind = "moov" /\ q.tracks = <<>> /\ ~f.fragmented)
  BY DEF HeaderAt
<1>2. /\ TypeOf(f, q, u, s) /\ PlainFile(f) /\ LiveOf(f, q, u)
  BY <1>1 DEF InvOf, TypeOf
<1>3. p.mdatbuf = q.mdatbuf /\ p.mdatoffset = q.mdatoffset /\ p.busy = q.busy /\ IsQt(p) /\ IndexOf(f, p)
      /\ InMedia(f, p)
  BY DEF ReadOf, Keeps, Fields
<1>4. q.tracks = <<>> /\ ~f.fragmented /\ a.kind = "moov" /\ q.mdatbuf # <<>>
  BY <1>1, <1>3
<1>5. p.tracks = f.tracks /\ \A k \in DOMAIN p.tracks : Stand(p)[k] = 1
  BY <1>4 DEF ReadOf
<1>6. ~Jumps(f) /\ Kept(f, q)
  BY <1>1, <1>2, <1>4 DEF LiveOf, NoTracksOf
<1>7. PICK d0 \in AtomsOf(f, "mdat") : d0.first = q.mdatoffset
  BY <1>6 DEF Kept
<1>8. /\ IsRun(q.mdatbuf, q.mdatoffset) /\ q.mdatoffset + Len(q.mdatbuf) = q.offset
      /\ \A d \in AtomsOf(f, "mdat") : q.mdatoffset <= d.first
  BY <1>6 DEF Kept
<1>9. /\ q.mdatoffset \in Nat /\ q.mdatoffset \in 0..f.size /\ f.size \in Nat /\ Len(q.mdatbuf) \in Nat \ {0}
      /\ q.mdatbuf \in Seq(0..f.size - 1) /\ q.offset \in Nat
  <2>1. d0.first \in Nat /\ d0.len \in Nat \ {0} /\ d0.first + d0.len <= f.size /\ f.size \in Nat
    BY <1>2, AtomFact
  <2>2. q.mdatbuf \in Seq(0..f.size - 1) /\ q.offset \in 0..f.size
    BY <1>2 DEF TypeOf
  <2>3. Len(q.mdatbuf) \in Nat \ {0}
    BY <2>2, <1>4
  <2> QED
    BY <2>1, <2>2, <2>3, <1>7
<1>10. /\ IsQt(w) /\ w.offset = q.mdatoffset /\ w.adapter = q.mdatbuf
       /\ Keeps(w, p, Fields \ {"offset", "adapter"})
  BY <1>3 DEF IsQt, Fields, Keeps
<1> HIDE DEF w
<1>11. /\ w.tracks = p.tracks /\ w.index = p.index /\ w.from = p.from /\ w.gotMoov = p.gotMoov
       /\ Stand(w) = Stand(p)
  BY <1>10 DEF Keeps, Fields, Stand
<1>12. IndexOf(f, w)
  BY <1>3, <1>11 DEF IndexOf
<1>13. ASSUME NEW k \in DOMAIN p.tracks, NEW i \in Numbers(p, k)
       PROVE  q.mdatoffset <= Off(p, k, i) /\ Off(p, k, i) < q.offset
  <2>1. PICK d \in AtomsOf(f, "mdat") : Within(d, Off(p, k, i))
    BY <1>3 DEF InMedia
  <2>2. q.mdatoffset <= d.first /\ d.first \in Nat /\ d.first < Off(p, k, i)
    BY <2>1, <1>2, <1>8, AtomFact DEF Within
  <2>3. Off(p, k, i) \in 0..f.size - 1
    BY <1>2, <1>3, SampleFact
  <2>4. d0.first < a.first
    BY <1>1, <1>7, <1>8, <1>9
  <2>5. a \in AtomsOf(f, "moov") /\ SoundFilm(f)
    BY <1>1, <1>2, <1>4, AtomFact DEF PlainFile
  <2>6. Offset(f.tracks[k], i) < a.first
    BY <2>4, <2>5, <1>5, <1>6, <1>7 DEF SoundFilm, Jumps, Numbers
  <2> QED
    BY <2>2, <2>3, <2>6, <1>1, <1>5, <1>9 DEF Off, Offset
<1>14. MediaAhead(w)
  BY <1>10, <1>11, <1>13 DEF MediaAhead, Numbers, Off
<1>15. IsQt(e) /\ Keeps(e, w, Fields \ {"index", "todrop", "needed"}) /\ e.index = Stand(w)
  BY <1>10, EntryShape
<1>16. e.tracks = w.tracks /\ e.offset = w.offset /\ e.adapter = w.adapter /\ Stand(e) = Stand(p)
  <2>1. Stand(e) = Stand(w)
    BY <1>12, <1>15, StandFact DEF Stand
  <2> QED
    BY <2>1, <1>11, <1>15 DEF Keeps, Fields
<1>17. NextAt(e) /\ e.needed \in 1..f.size
  <2>1. ~NoMediaLeft(e)
    BY <1>2, <1>4, <1>5, <1>11, <1>16, FreshFact
  <2>2. w.offset \in 0..f.size
    BY <1>9, <1>10
  <2> QED
    BY <2>1, <2>2, <1>2, <1>10, <1>12, <1>14, NextEntry
<1>18. r = [e EXCEPT !.state = "movie", !.mdatbuf = <<>>, !.mdatleft = Len(p.mdatbuf),
              !.restore = r.restore, !.restoreOff = r.restoreOff]
  BY <1>15 DEF Restored, IsQt, Fields, w
<1> HIDE DEF e, r
<1>19. /\ IsQt(r) /\ r.state = "movie" /\ r.mdatbuf = <<>> /\ r.mdatleft = Len(p.mdatbuf)
       /\ Keeps(r, e, Fields \ {"state", "mdatbuf", "mdatleft", "restore", "restoreOff"})
  BY <1>15, <1>18 DEF IsQt, Fields, Keeps
<1>20. /\ r.tracks = p.tracks /\ r.index = Stand(p) /\ r.offset = q.mdatoffset /\ r.adapter = q.mdatbuf
       /\ r.needed = e.needed /\ r.todrop = e.todrop /\ Stand(r) = Stand(e)
  <2>1. /\ r.tracks = e.tracks /\ r.index = e.index /\ r.offset = e.offset /\ r.adapter = e.adapter
        /\ r.needed = e.needed /\ r.todrop = e.todrop
    BY <1>19 DEF Keeps, Fields
  <2> QED
    BY <2>1, <1>10, <1>11, <1>15, <1>16 DEF Stand
<1>21. Keeps(r, p, Fields \ {"state", "needed", "todrop", "offset", "adapter", "index", "mdatleft",
                             "mdatbuf", "restore", "restoreOff", "pushedI"})
  BY <1>10, <1>15, <1>19 DEF Keeps, Fields
<1>22. r.pushedI \in BOOLEAN
  <2>1. r.pushedI = q.pushedI
    BY <1>10, <1>15, <1>19 DEF Keeps, Fields, ReadOf
  <2> QED
    BY <2>1, <1>2 DEF TypeOf
<1>23. Settled(f, p, u, r)
  <2>1. IsUp(u) /\ u.pos \in 0..f.size /\ u.segment \in -1..f.size
    BY <1>2 DEF TypeOf
  <2>2. /\ r.needed \in -1..f.size + 1 /\ r.todrop \in Nat /\ r.mdatleft \in Nat /\ r.offset \in 0..f.size
        /\ r.adapter \in Seq(0..f.size - 1) /\ r.mdatbuf \in Seq(0..f.size - 1)
    BY <1>3, <1>9, <1>17, <1>19, <1>20 DEF NextAt
  <2> QED
    BY <2>1, <2>2, <1>1, <1>4, <1>19, <1>20, <1>21, <1>22 DEF Settled
<1>24. /\ TypeOf(f, r, u, s) /\ IndexOf(f, r) /\ FlagsOf(f, r, u, s) /\ EndOf(r) /\ CoversOf(f, r, s)
       /\ OutOf(r, o) /\ InRow(o) /\ DoneOf(r, u, o) /\ TrickOf(r, u, o) /\ FirstOf(f, r)
       /\ ~r.eos /\ ~r.err /\ r.busy
  BY <1>23, HeaderRest
<1>25. r.needed # NoEntry
  BY <1>9, <1>17, <1>20 DEF NoEntry
<1>26. LinkOf(f, r, u)
  <2>1. SamplesBelow(r, r.offset + Len(r.adapter))
    BY <1>8, <1>13, <1>20 DEF SamplesBelow, Numbers, Off
  <2>2. Apart(f, r)
    BY <2>1, <1>4, <1>19, <1>24, <1>25 DEF Apart
  <2> QED
    BY <2>2, <1>1, <1>8, <1>20, <1>24 DEF LinkOf
<1>27. MovieOf(f, r, u)
  <2>1. NextAt(r)
    BY <1>16, <1>17, <1>20, <1>11, <1>10 DEF NextAt, Numbers, Off
  <2>2. \A k \in DOMAIN r.tracks : r.index[k] >= 1
    BY <1>5, <1>20
  <2> QED
    BY <2>1, <2>2, <1>4, <1>19 DEF MovieOf
<1>28. AheadOf(r, u)
  BY <1>13, <1>20 DEF AheadOf, MediaAhead, Numbers, Off
<1>29. AtomOf(f, r, u) /\ NoTracksOf(f, r) /\ HeadOf(f, r) /\ FragmentsOf(f, r)
  BY <1>4, <1>19, <1>20 DEF AtomOf, NoTracksOf, HeadOf, FragmentsOf
<1> QED
  BY <1>24, <1>26, <1>27, <1>28, <1>29 DEF InvOf, LiveOf, r

(* Back to the media data that has been jumped over.                        *)
LEMMA BackKeeps ==
  ASSUME NEW f, NEW q, NEW u, NEW s, NEW o, NEW a, NEW p, NEW v,
         HeaderAt(f, q, u, s, o, a), ReadOf(f, q, p, a, s, o), ~(p.mdatbuf # <<>> /\ p.tracks # <<>>),
         p.gotMoov, p.firstMdat # NoEntry, v = [pos |-> p.firstMdat, segment |-> p.firstMdat]
  PROVE  InvOf(f, [Rescan(FlushReset(p)) EXCEPT !.offset = p.firstMdat, !.index = Positioned(@)], v, s, o)
<1> DEFINE r == [Rescan(FlushReset(p)) EXCEPT !.offset = p.firstMdat, !.index = Positioned(@)]
<1>1. /\ InvOf(f, q, u, s, o) /\ ~q.err
  BY DEF HeaderAt
<1>2. /\ TypeOf(f, q, u, s) /\ PlainFile(f) /\ FlagsOf(f, q, u, s) /\ FirstOf(f, q)
  BY <1>1 DEF InvOf, TypeOf
<1>3. /\ p.firstMdat = q.firstMdat /\ p.mdatbuf = q.mdatbuf /\ p.todrop = q.todrop /\ p.mdatleft = q.mdatleft
      /\ IsQt(p) /\ IndexOf(f, p) /\ InMedia(f, p)
  BY DEF ReadOf, Keeps, Fields
<1>4. p.tracks # <<>> /\ p.mdatbuf = <<>>
  BY <1>3 DEF IndexOf
<1>5. ~f.fragmented /\ q.firstMdat \in 0..f.size /\ f.size \in Nat
      /\ \A d \in AtomsOf(f, "mdat") : q.firstMdat <= d.first
  BY <1>2, <1>3, AtomFact DEF FlagsOf, FirstOf
<1>6. /\ IsQt(r) /\ r.state = "initial" /\ r.needed = Head1 /\ r.adapter = <<>> /\ r.offset = q.firstMdat
      /\ r.pushedI = FALSE /\ r.index = Stand(p)
      /\ Keeps(r, p, Fields \ {"state", "needed", "adapter", "offset", "pushedI", "index"})
  BY <1>3 DEF IsQt, Fields, Keeps, Rescan, FlushReset, Stand
<1> HIDE DEF r
<1>7. r.todrop = q.todrop /\ r.mdatleft = q.mdatleft /\ r.mdatbuf = <<>> /\ r.restore = p.restore
      /\ r.tracks = p.tracks
  BY <1>3, <1>4, <1>6 DEF Keeps, Fields
<1>8. Settled(f, p, v, r)
  <2>1. IsUp(v) /\ v.pos = q.firstMdat /\ v.segment = q.firstMdat
    BY <1>3 DEF IsUp
  <2>2. v.pos \in 0..f.size /\ v.segment \in -1..f.size /\ r.needed \in -1..f.size + 1
    BY <2>1, <1>5, <1>6 DEF Head1
  <2>3. r.todrop \in Nat /\ r.mdatleft \in Nat
    BY <1>2, <1>7 DEF TypeOf
  <2>4. Keeps(r, p, Fields \ {"state", "needed", "todrop", "offset", "adapter", "index", "mdatleft",
                             "mdatbuf", "restore", "restoreOff", "pushedI"})
    BY <1>6 DEF Keeps, Fields
  <2>5. r.adapter \in Seq(0..f.size - 1) /\ r.mdatbuf \in Seq(0..f.size - 1)
    BY <1>6, <1>7
  <2> QED
    BY <2>1, <2>2, <2>3, <2>4, <2>5, <1>5, <1>6, <1>7 DEF Settled
<1>9. /\ TypeOf(f, r, v, s) /\ IndexOf(f, r) /\ FlagsOf(f, r, v, s) /\ EndOf(r) /\ CoversOf(f, r, s)
      /\ OutOf(r, o) /\ InRow(o) /\ DoneOf(r, v, o) /\ TrickOf(r, v, o) /\ FirstOf(f, r)
      /\ ~r.eos /\ ~r.err /\ r.busy /\ ~r.flushing
  BY <1>8, HeaderRest
<1>10. LinkOf(f, r, v)
  <2>1. v.pos = q.firstMdat /\ v.segment = q.firstMdat /\ v.segment # NoSegment
    BY <1>3, <1>5 DEF NoSegment
  <2>2. IsRun(r.adapter, r.offset)
    BY <1>6 DEF IsRun
  <2> QED
    BY <2>1, <2>2, <1>6, <1>9 DEF LinkOf
<1>11. MediaAhead(r)
  <2>1. SUFFICES ASSUME NEW k \in DOMAIN p.tracks, NEW i \in Numbers(p, k) PROVE q.firstMdat <= Off(p, k, i)
    BY <1>6, <1>7 DEF MediaAhead, Numbers, Off
  <2>2. PICK d \in AtomsOf(f, "mdat") : Within(d, Off(p, k, i))
    BY <1>3 DEF InMedia
  <2>3. q.firstMdat <= d.first /\ d.first \in Nat /\ d.first < Off(p, k, i)
    BY <2>2, <1>2, <1>5, AtomFact DEF Within
  <2>4. Off(p, k, i) \in 0..f.size - 1
    BY <1>2, <1>3, SampleFact
  <2> QED
    BY <2>3, <2>4, <1>5
<1>12. HeadOf(f, r)
  BY <1>5, <1>6, <1>7 DEF HeadOf, MdatAhead
<1>13. AtomOf(f, r, v) /\ MovieOf(f, r, v) /\ AheadOf(r, v) /\ NoTracksOf(f, r) /\ FragmentsOf(f, r)
  BY <1>4, <1>5, <1>6, <1>7, <1>11 DEF AtomOf, MovieOf, AheadOf, NoTracksOf, FragmentsOf
<1> QED
  BY <1>9, <1>10, <1>12, <1>13 DEF InvOf, LiveOf, r

(* On to what lies behind the atom.                                         *)
LEMMA AfterKeeps ==
  ASSUME NEW f, NEW q, NEW u, NEW s, NEW o, NEW a, NEW p,
         HeaderAt(f, q, u, s, o, a), ReadOf(f, q, p, a, s, o), ~(p.mdatbuf # <<>> /\ p.tracks # <<>>),
         ~(/\ p.gotMoov /\ p.firstMdat # NoEntry
           /\ Left([p EXCEPT !.index = Positioned(@)]) # {}),
         q.needed <= Len(q.adapter)
  PROVE  InvOf(f, [Rescan(Flushed(p, p.needed)) EXCEPT !.offset = @ + p.needed], u, s, o)
<1> DEFINE r == [Rescan(Flushed(p, p.needed)) EXCEPT !.offset = @ + p.needed]
           n == q.needed
           rest == SubSeq(q.adapter, n + 1, Len(q.adapter))
<1>1. /\ InvOf(f, q, u, s, o) /\ q.state = "header" /\ ~q.err /\ u.segment = NoSegment
      /\ u.pos = q.offset + Len(q.adapter) /\ MediaAhead(q)
      /\ a \in Range(f.atoms) /\ a.first = q.offset /\ a.len = n /\ a.kind # "mdat"
      /\ (q.mdatbuf # <<>> => a.kind = "moov" /\ q.tracks = <<>> /\ ~f.fragmented)
  BY DEF HeaderAt
<1>2. /\ TypeOf(f, q, u, s) /\ PlainFile(f) /\ FlagsOf(f, q, u, s) /\ LiveOf(f, q, u)
  BY <1>1 DEF InvOf, TypeOf
<1>3. /\ p.firstMdat = q.firstMdat /\ p.mdatbuf = q.mdatbuf /\ p.todrop = q.todrop /\ p.mdatleft = q.mdatleft
      /\ p.adapter = q.adapter /\ p.offset = q.offset /\ p.needed = q.needed /\ p.pushedI = q.pushedI
      /\ IsQt(p) /\ IndexOf(f, p) /\ InMedia(f, p) /\ FragmentsPast(f, p, a.first + a.len)
  BY DEF ReadOf, Keeps, Fields
<1>4. /\ f.size \in Nat /\ q.offset \in Nat /\ n \in Nat \ {0} /\ q.offset + n <= f.size
      /\ q.adapter \in Seq(0..f.size - 1) /\ Len(q.adapter) \in Nat /\ IsRun(q.adapter, q.offset)
  <2>1. a.first \in Nat /\ a.len \in Nat \ {0} /\ a.first + a.len <= f.size /\ f.size \in Nat
    BY <1>1, <1>2, AtomFact
  <2>2. q.adapter \in Seq(0..f.size - 1) /\ IsRun(q.adapter, q.offset)
    BY <1>2 DEF TypeOf, LiveOf, LinkOf
  <2> QED
    BY <2>1, <2>2, <1>1
<1>5. /\ IsQt(r) /\ r.state = "initial" /\ r.needed = Head1 /\ r.adapter = rest /\ r.offset = q.offset + n
      /\ Keeps(r, p, Fields \ {"state", "needed", "adapter", "offset"})
  BY <1>3 DEF IsQt, Fields, Keeps, Rescan, Flushed
<1> HIDE DEF r, rest
<1>6. rest \in Seq(0..f.size - 1) /\ Len(rest) = Len(q.adapter) - n /\ IsRun(rest, q.offset + n)
  <2>1. n \in 0..Len(q.adapter) /\ q.offset \in Int
    BY <1>4
  <2> QED
    BY <2>1, <1>4, RunFact DEF rest
<1>7. /\ r.todrop = q.todrop /\ r.mdatleft = q.mdatleft /\ r.mdatbuf = q.mdatbuf /\ r.restore = p.restore
      /\ r.tracks = p.tracks /\ r.index = p.index /\ r.pushedI = q.pushedI /\ r.gotMoov = p.gotMoov
  BY <1>3, <1>5 DEF Keeps, Fields
<1>8. Settled(f, p, u, r)
  <2>1. IsUp(u) /\ u.pos \in 0..f.size /\ u.segment \in -1..f.size
        /\ r.todrop \in Nat /\ r.mdatleft \in Nat /\ r.pushedI \in BOOLEAN /\ r.mdatbuf \in Seq(0..f.size - 1)
    BY <1>2, <1>7 DEF TypeOf
  <2>2. r.needed \in -1..f.size + 1 /\ r.offset \in 0..f.size /\ r.adapter \in Seq(0..f.size - 1)
    BY <1>4, <1>5, <1>6 DEF Head1
  <2>3. Keeps(r, p, Fields \ {"state", "needed", "todrop", "offset", "adapter", "index", "mdatleft",
                             "mdatbuf", "restore", "restoreOff", "pushedI"})
    BY <1>5 DEF Keeps, Fields
  <2> QED
    BY <2>1, <2>2, <2>3, <1>3, <1>5, <1>7 DEF Settled
<1>9. /\ TypeOf(f, r, u, s) /\ IndexOf(f, r) /\ FlagsOf(f, r, u, s) /\ EndOf(r) /\ CoversOf(f, r, s)
      /\ OutOf(r, o) /\ InRow(o) /\ DoneOf(r, u, o) /\ TrickOf(r, u, o) /\ FirstOf(f, r)
      /\ Stand(r) = Stand(p) /\ ~r.eos /\ ~r.err /\ r.busy /\ ~r.flushing /\ r.firstMdat = q.firstMdat
  BY <1>8, HeaderRest
<1>10. LinkOf(f, r, u)
  <2>1. u.pos = r.offset + Len(r.adapter)
    <3>1. /\ u.pos = q.offset + Len(q.adapter) /\ r.offset = q.offset + n /\ r.adapter = rest
          /\ Len(rest) = Len(q.adapter) - n /\ q.offset \in Nat /\ n \in Nat /\ Len(q.adapter) \in Nat
      BY <1>1, <1>4, <1>5, <1>6
    <3> HIDE DEF n
    <3> QED
      BY <3>1
  <2> QED
    BY <2>1, <1>1, <1>5, <1>6, <1>9 DEF LinkOf
(* No media data lies before the atom once it is read past.                 *)
<1>11. ASSUME MdatAhead(f, q) PROVE MdatAhead(f, r)
  <2>1. SUFFICES ASSUME NEW d \in AtomsOf(f, "mdat") PROVE q.offset + n <= d.first
    BY <1>5 DEF MdatAhead
  <2>2. d \in Range(f.atoms) /\ d.kind = "mdat" /\ d.first \in Nat /\ d.len \in Nat \ {0}
    BY <1>2, AtomFact
  <2>3. q.offset <= d.first /\ (a.first + a.len <= d.first \/ d.first + d.len <= a.first)
    BY <1>1, <1>2, <1>11, <2>2, AtomFact DEF MdatAhead
  <2> QED
    BY <2>2, <2>3, <1>1, <1>4
<1>12. ~f.fragmented => (p.tracks # <<>> => q.mdatbuf = <<>> /\ MdatAhead(f, q))
  <2>1. SUFFICES ASSUME ~f.fragmented, p.tracks # <<>> PROVE q.mdatbuf = <<>> /\ MdatAhead(f, q)
    OBVIOUS
  <2>2. q.mdatbuf = <<>>
    BY <2>1, <1>3
  <2>3. CASE q.tracks # <<>>
    BY <2>1, <2>2, <2>3, <1>1, <1>2 DEF LiveOf, HeadOf
  <2>4. CASE q.tracks = <<>>
    <3>1. p.tracks = f.tracks /\ \A k \in DOMAIN p.tracks : Stand(p)[k] = 1
      BY <2>1, <2>4 DEF ReadOf
    <3>2. Left([p EXCEPT !.index = Positioned(@)]) # {}
      BY <2>1, <3>1, <1>2, <1>3, FreshFact
    <3>3. p.gotMoov
      BY <2>1, <1>3 DEF IndexOf
    <3>4. q.firstMdat = NoEntry
      BY <3>2, <3>3, <1>3
    <3> QED
      BY <2>1, <2>2, <2>4, <3>4, <1>1, <1>2 DEF LiveOf, NoTracksOf
  <2> QED
    BY <2>3, <2>4
<1>13. MediaAhead(r)
  <2>1. SUFFICES ASSUME NEW k \in DOMAIN p.tracks, IsMedia(p.tracks[k]), NEW i \in Numbers(p, k), Stand(p)[k] <= i
                 PROVE  q.offset + n <= Off(p, k, i)
    BY <1>5, <1>7, <1>9 DEF MediaAhead, Numbers, Off
  <2>2. PICK d \in AtomsOf(f, "mdat") : Within(d, Off(p, k, i))
    BY <1>3 DEF InMedia
  <2>3. Off(p, k, i) \in Int
    <3>1. Off(p, k, i) \in 0..f.size - 1
      BY <1>2, <1>3, SampleFact
    <3> QED
      BY <3>1
  <2>4. p.tracks # <<>>
    BY <2>1
  <2>5. q.offset <= Off(p, k, i)
    <3>1. CASE q.tracks # <<>>
      <4>1. MediaAhead(p)
        BY <3>1, <2>4 DEF ReadOf
      <4> QED
        BY <4>1, <2>1, <1>3 DEF MediaAhead
    <3>2. CASE q.tracks = <<>> /\ f.fragmented
      <4>1. p.tracks = f.tracks
        BY <3>2, <2>4 DEF ReadOf
      <4>2. Numbers(p, k) = {}
        BY <4>1, <3>2, <1>2 DEF PlainFile, SoundFragments, Numbers
      <4> QED
        BY <4>2
    <3>3. CASE q.tracks = <<>> /\ ~f.fragmented
      <4>1. q.offset <= d.first /\ d.first \in Nat /\ d.first < Off(p, k, i)
        BY <3>3, <2>2, <2>4, <1>2, <1>12, AtomFact DEF MdatAhead, Within
      <4> QED
        BY <4>1, <2>3, <1>4
    <3> QED
      BY <3>1, <3>2, <3>3
  <2>6. a.first + a.len <= Off(p, k, i)
    BY <2>2, <2>3, <2>5, <1>1, <1>2, WithinFact
  <2> QED
    BY <2>6, <1>1
<1>14. HeadOf(f, r)
  BY <1>7, <1>11, <1>12 DEF HeadOf
<1>15. FragmentsOf(f, r)
  BY <1>1, <1>3, <1>5, <1>7 DEF FragmentsPast
<1>16. NoTracksOf(f, r)
  <2>1. SUFFICES ASSUME p.tracks = <<>> PROVE NoTracksOf(f, r)
    BY <1>7 DEF NoTracksOf
  <2>2. q.tracks = <<>> /\ a.kind # "moov" /\ q.mdatbuf = <<>>
    <3>1. q.tracks = <<>> /\ a.kind # "moov"
      BY <2>1 DEF ReadOf
    <3> QED
      BY <3>1, <1>1
  <2>3. \A m \in AtomsOf(f, "moov") : q.offset + n <= m.first
    <3>1. SUFFICES ASSUME NEW m \in AtomsOf(f, "moov") PROVE q.offset + n <= m.first
      OBVIOUS
    <3>2. q.offset <= m.first
      BY <2>2, <1>2 DEF LiveOf, NoTracksOf
    <3>3. m \in Range(f.atoms) /\ m.kind = "moov" /\ m.first \in Nat /\ m.len \in Nat \ {0}
      BY <1>2, AtomFact
    <3>4. a.first + a.len <= m.first \/ m.first + m.len <= a.first
      BY <2>2, <3>3, <1>1, <1>2, AtomFact
    <3> QED
      BY <3>2, <3>3, <3>4, <1>1, <1>4
  <2>4. ~f.fragmented /\ Jumps(f) => (r.firstMdat = NoEntry => MdatAhead(f, r))
    BY <2>2, <1>2, <1>9, <1>11 DEF LiveOf, NoTracksOf
  <2>5. ~f.fragmented /\ ~Jumps(f) => r.firstMdat = NoEntry /\ MdatAhead(f, r)
    BY <2>2, <1>1, <1>2, <1>9, <1>11 DEF LiveOf, NoTracksOf
  <2> QED
    BY <2>2, <2>3, <2>4, <2>5, <1>5, <1>7 DEF NoTracksOf
<1>17. AtomOf(f, r, u) /\ MovieOf(f, r, u) /\ AheadOf(r, u)
  BY <1>5, <1>13 DEF AtomOf, MovieOf, AheadOf
<1> QED
  BY <1>9, <1>10, <1>14, <1>15, <1>16, <1>17 DEF InvOf, LiveOf, r

(* An atom, as a whole.                                                     *)
LEMMA HeaderKeeps == PushInv /\ Header => InvOf(file', qt', up', seek', out')
<1> SUFFICES ASSUME PushInv, Header PROVE InvOf(file', qt', up', seek', out')
  OBVIOUS
<1>1. Ready /\ qt.state = "header" /\ file' = file /\ seek' = seek /\ out' = out
  BY DEF Header
<1>2. PICK a \in AtomAt(qt.adapter[1]) :
         LET q == Parsed(qt, a)
             after == [Rescan(Flushed(q, q.needed)) EXCEPT !.offset = @ + q.needed]
             back == q.gotMoov /\ q.firstMdat # NoEntry /\ Left([q EXCEPT !.index = Positioned(@)]) # {}
         IN IF q.mdatbuf # <<>> /\ q.tracks # <<>>
            THEN qt' = Restored(q) /\ UNCHANGED up
            ELSE IF back
            THEN /\ qt' = [Rescan(FlushReset(q)) EXCEPT
                             !.offset = q.firstMdat, !.index = Positioned(@)]
                 /\ up' = [up EXCEPT !.pos = q.firstMdat, !.segment = q.firstMdat]
            ELSE qt' = after /\ UNCHANGED up
  BY DEF Header
<1> DEFINE p == Parsed(qt, a)
           restored == p.mdatbuf # <<>> /\ p.tracks # <<>>
           back == p.gotMoov /\ p.firstMdat # NoEntry /\ Left([p EXCEPT !.index = Positioned(@)]) # {}
<1>3. IF restored THEN qt' = Restored(p) /\ up' = up
      ELSE IF back
      THEN /\ qt' = [Rescan(FlushReset(p)) EXCEPT !.offset = p.firstMdat, !.index = Positioned(@)]
           /\ up' = [up EXCEPT !.pos = p.firstMdat, !.segment = p.firstMdat]
      ELSE qt' = [Rescan(Flushed(p, p.needed)) EXCEPT !.offset = @ + p.needed] /\ up' = up
  BY <1>2
<1>4. /\ HeaderAt(file, qt, up, seek, out, a) /\ TypeOf(file, qt, up, seek) /\ qt.needed <= Len(qt.adapter)
  BY <1>1, HeaderFact
<1>5. ReadOf(file, qt, p, a, seek, out)
  BY <1>1, HeaderReads
<1> HIDE DEF p
<1>6. CASE restored
  <2>1. InvOf(file, Restored(p), up, seek, out)
    BY <1>4, <1>5, <1>6, RestoredKeeps
  <2> QED
    BY <2>1, <1>1, <1>3, <1>6
<1>7. CASE ~restored /\ back
  <2>1. IsUp(up)
    BY <1>4 DEF TypeOf
  <2>2. up' = [pos |-> p.firstMdat, segment |-> p.firstMdat]
    BY <2>1, <1>3, <1>7 DEF IsUp
  <2>3. p.gotMoov /\ p.firstMdat # NoEntry /\ ~(p.mdatbuf # <<>> /\ p.tracks # <<>>)
    BY <1>7
  <2>4. InvOf(file, [Rescan(FlushReset(p)) EXCEPT !.offset = p.firstMdat, !.index = Positioned(@)],
              up', seek, out)
    BY <2>2, <2>3, <1>4, <1>5, BackKeeps
  <2> QED
    BY <2>4, <1>1, <1>3, <1>7
<1>8. CASE ~restored /\ ~back
  <2>1. InvOf(file, [Rescan(Flushed(p, p.needed)) EXCEPT !.offset = @ + p.needed], up, seek, out)
    BY <1>4, <1>5, <1>8, AfterKeeps
  <2> QED
    BY <2>1, <1>1, <1>3, <1>8
<1> QED
  BY <1>6, <1>7, <1>8

-----------------------------------------------------------------------------
(* The invariant holds from the beginning and is kept by every step.        *)
LEMMA InitKeeps == PushInit /\ PlainFile(file) => PushInv
<1> SUFFICES ASSUME PushInit, PlainFile(file) PROVE InvOf(file, qt, up, seek, out)
  BY DEF PushInv
<1> DEFINE q == qt
<1>1. up = [pos |-> 0, segment |-> 0] /\ out = <<>>
      /\ seek.step = "none" /\ seek.offset = NoEntry /\ IsSeek(seek)
  BY DEF PushInit, IsSeek
<1>2. /\ q.state = "initial" /\ q.needed = Head1 /\ q.offset = 0 /\ q.todrop = 0
      /\ q.adapter = <<>> /\ q.busy = FALSE /\ q.err = FALSE /\ q.eos = FALSE
      /\ q.mdatleft = 0 /\ q.mdatbuf = <<>> /\ q.mdatoffset = NoEntry
      /\ q.restore = <<>> /\ q.firstMdat = NoEntry
      /\ q.gotMoov = FALSE /\ q.tracks = <<>> /\ q.index = <<>> /\ q.from = <<>> /\ q.run = 0
      /\ q.trick = FALSE /\ q.rate = 1 /\ q.pushedI = FALSE /\ q.discont = TRUE
      /\ q.tricking = FALSE /\ q.flushing = FALSE /\ q.covers = <<>>
  BY DEF PushInit
<1>3. IsQt(q)
  BY DEF PushInit, IsQt, Fields
<1> HIDE DEF q
<1>4. /\ file.size \in Nat /\ \A a \in Range(file.atoms) : a.first \in Nat
      /\ \A kind : AtomsOf(file, kind) \subseteq Range(file.atoms)
  BY AtomFact
<1>5. TypeOf(file, q, up, seek)
  <2>1. IsUp(up) /\ up.pos \in 0..file.size /\ up.segment \in -1..file.size
    BY <1>1, <1>4 DEF IsUp
  <2>2. q.needed \in -1..file.size + 1 /\ q.offset \in 0..file.size
    BY <1>2, <1>4 DEF Head1
  <2>3. /\ q.adapter \in Seq(0..file.size - 1) /\ q.mdatbuf \in Seq(0..file.size - 1)
        /\ q.todrop \in Nat /\ q.mdatleft \in Nat /\ q.run \in Nat /\ q.rate \in {1, -1}
    BY <1>2
  <2> QED
    BY <2>1, <2>2, <2>3, <1>1, <1>2, <1>3 DEF TypeOf
<1>6. IndexOf(file, q) /\ FlagsOf(file, q, up, seek) /\ EndOf(q) /\ CoversOf(file, q, seek)
  <2>1. IndexOf(file, q)
    <3>1. DOMAIN q.tracks = {} /\ q.index \in [{} -> Nat] /\ q.from \in [{} -> Nat \ {0}]
      <4>1. <<>> = [x \in {} |-> 0]
        OBVIOUS
      <4> QED
        BY <4>1, <1>2
    <3>2. q.gotMoov = (q.tracks # <<>>)
      BY <1>2
    <3>3. q.tracks = <<>>
      BY <1>2
    <3>4. q.index \in [DOMAIN q.tracks -> Nat] /\ q.from \in [DOMAIN q.tracks -> Nat \ {0}]
      BY <3>1
    <3> QED
      BY <3>1, <3>2, <3>3, <3>4 DEF IndexOf
  <2>2. FlagsOf(file, q, up, seek)
    BY <1>1, <1>2 DEF FlagsOf, NoEntry, NoSegment
  <2>3. EndOf(q) /\ CoversOf(file, q, seek)
    BY <1>1, <1>2 DEF EndOf, CoversOf
  <2> QED
    BY <2>1, <2>2, <2>3
<1>7. OutOf(q, out) /\ InRow(out) /\ DoneOf(q, up, out) /\ TrickOf(q, up, out) /\ FirstOf(file, q)
  BY <1>1, <1>2 DEF OutOf, InRow, DoneOf, TrickOf, FirstOf
<1>8. LinkOf(file, q, up)
  BY <1>1, <1>2 DEF LinkOf, IsRun, NoSegment
<1>9. AtomOf(file, q, up) /\ MovieOf(file, q, up) /\ AheadOf(q, up) /\ HeadOf(file, q)
      /\ FragmentsOf(file, q)
  BY <1>2 DEF AtomOf, MovieOf, AheadOf, MediaAhead, HeadOf, FragmentsOf
<1>10. NoTracksOf(file, q)
  <2>1. \A kind : \A m \in AtomsOf(file, kind) : q.offset <= m.first
    BY <1>2, <1>4
  <2> QED
    BY <2>1, <1>2 DEF NoTracksOf, MdatAhead
<1> QED
  BY <1>5, <1>6, <1>7, <1>8, <1>9, <1>10 DEF InvOf, LiveOf, q

(* Every step.                                                              *)
LEMMA NextKeeps == PushInv /\ [PushNext]_pushVars => PushInv'
<1> SUFFICES ASSUME PushInv, [PushNext]_pushVars PROVE InvOf(file', qt', up', seek', out')
  BY DEF PushInv
<1>1. CASE UNCHANGED pushVars
  BY <1>1 DEF PushInv, pushVars
<1>2. CASE Initial
  BY <1>2, InitialKeeps
<1>3. CASE Header
  BY <1>3, HeaderKeeps
<1>4. CASE BufferMdat
  BY <1>4, BufferMdatKeeps
<1>5. CASE Movie
  BY <1>5, MovieKeeps
<1>6. CASE TrickTest
  BY <1>6, TrickTestKeeps
<1>7. CASE TrickSeek
  BY <1>7, TrickSeekKeeps
<1>8. CASE Chain
  BY <1>8, ChainKeeps
<1>9. CASE Rest
  BY <1>9, RestKeeps
<1>10. CASE UpEos
  BY <1>10, UpEosKeeps
<1>11. CASE Segment
  BY <1>11, SegmentKeeps
<1>12. CASE FlushStop
  BY <1>12, FlushStopKeeps
<1>13. CASE \E time \in Times, trick \in BOOLEAN, rate \in {1, -1} :
              (rate = 1 \/ trick) /\ AppSeek(time, trick, rate)
  <2>1. PICK time \in Times, trick \in BOOLEAN, rate \in {1, -1} : AppSeek(time, trick, rate)
    BY <1>13
  <2> QED
    BY <2>1, AppSeekKeeps
<1> QED
  BY <1>1, <1>2, <1>3, <1>4, <1>5, <1>6, <1>7, <1>8, <1>9, <1>10, <1>11, <1>12, <1>13 DEF PushNext

(* What the invariant says of the film that comes out.                      *)
LEMMA InvPlays == PushInv => PushRight
<1> SUFFICES ASSUME PushInv PROVE PushRight
  OBVIOUS
<1> DEFINE q == qt
<1>1. /\ TypeOf(file, q, up, seek) /\ IndexOf(file, q) /\ EndOf(q) /\ CoversOf(file, q, seek)
      /\ OutOf(q, out) /\ InRow(out) /\ DoneOf(q, up, out) /\ (~q.err => LiveOf(file, q, up))
  BY DEF PushInv, InvOf
<1>2. file.size \in Nat /\ PlainFile(file)
  BY <1>1, AtomFact DEF TypeOf
<1>3. PushTypeOK
  <2>1. Range(q.adapter) \subseteq 0..file.size - 1
    <3>1. q.adapter \in Seq(0..file.size - 1)
      BY <1>1 DEF TypeOf
    <3> DEFINE S == 0..file.size - 1
               c == q.adapter
    <3>2. c \in Seq(S)
      BY <3>1
    <3> HIDE DEF S, c
    <3>3. \A i \in DOMAIN c : c[i] \in S
      BY <3>2
    <3>4. Range(c) \subseteq S
      BY <3>3 DEF Range
    <3> QED
      BY <3>4 DEF S, c
  <2>2. DOMAIN q.index = DOMAIN q.tracks
    BY <1>1 DEF IndexOf
  <2> QED
    BY <2>1, <2>2, <1>1 DEF PushTypeOK, TypeOf
<1>4. OffsetTrue
  <2>1. SUFFICES ASSUME q.adapter # <<>>, ~q.err PROVE q.adapter[1] = q.offset
    BY DEF OffsetTrue
  <2>2. IsRun(q.adapter, q.offset) /\ q.adapter \in Seq(0..file.size - 1) /\ q.offset \in Int
    BY <2>1, <1>1, <1>2 DEF LiveOf, LinkOf, TypeOf
  <2>3. 1 \in DOMAIN q.adapter
    BY <2>1, <2>2
  <2> QED
    BY <2>2, <2>3 DEF IsRun
<1>5. PushedTrue
  <2>1. \A n \in DOMAIN out : out[n].cell = Off(q, out[n].track, out[n].index)
    BY <1>1 DEF OutOf
  <2> QED
    BY <2>1 DEF PushedTrue, Range, Off, Offset
<1>6. InOrder
  BY <1>1 DEF InOrder, InRow
<1>7. NothingLost
  <2>1. SUFFICES ASSUME q.eos, ~q.trick, ~q.flushing, up.segment = NoSegment,
                        NEW k \in DOMAIN q.tracks, IsMedia(q.tracks[k]),
                        NEW i \in q.from[k]..Count(q.tracks[k])
                 PROVE  \E x \in Range(out) : x.track = k /\ x.index = i /\ x.run = q.run
    BY DEF NothingLost, Tracks
  <2>2. Stand(q)[k] > Count(q.tracks[k])
    BY <2>1, <1>1 DEF EndOf, NoMediaLeft
  <2>3. Count(q.tracks[k]) \in Nat /\ Stand(q)[k] \in Nat /\ q.from[k] \in Nat
    BY <1>1, <1>2, SampleFact, StandFact DEF IndexOf
  <2>4. i \in q.from[k]..Stand(q)[k] - 1
    BY <2>2, <2>3
  <2>5. PICK n \in DOMAIN out : out[n].track = k /\ out[n].index = i /\ out[n].run = q.run
    BY <2>1, <2>4, <1>1 DEF DoneOf
  <2> QED
    BY <2>5 DEF Range
<1>8. SeekCovers
  BY <1>1 DEF SeekCovers, CoversOf
<1> QED
  BY <1>3, <1>4, <1>5, <1>6, <1>7, <1>8 DEF PushRight, PushTrue

(* Of every file as films are written, and with every way of cutting it     *)
(* into buffers, the demuxer keeps its place, pushes the samples of the     *)
(* tracks as they are, in their order, none missing and none twice, loses   *)
(* none before the end, and starts early enough after a seek                *)
(* (gst_qtdemux_chain, qtdemux.c).                                          *)
THEOREM PushPlays ==
  ASSUME \A f \in QtFiles : PlainFile(f)
  PROVE  PushSpec => []PushRight
<1>1. PushInit => PushInv
  BY InitKeeps DEF PushInit
<1>2. PushInv /\ [PushNext]_pushVars => PushInv'
  BY NextKeeps
<1>3. PushInv => PushRight
  BY InvPlays
<1> QED
  BY <1>1, <1>2, <1>3, PTL DEF PushSpec
=============================================================================
