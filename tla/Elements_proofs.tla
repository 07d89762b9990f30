-------------------------- MODULE Elements_proofs --------------------------
(***************************************************************************)
(* Theorems about the small elements: DynAppSrc for any number of sources,  *)
(* changes and seeks, FakeAdec for any timers, buffers, flushes and clocks, *)
(* StreamIdDemux for any show and number of plays, DolbyCombiner for any    *)
(* two feeds, flushes and changes of state.                                 *)
(***************************************************************************)
EXTENDS Elements, SequenceTheorems, TLAPS

-----------------------------------------------------------------------------
(* The inductive invariant of DynAppSrc.                                    *)
GroupRecords ==
  [id : Nat, pads : Nat, blocked : BOOLEAN, inside : BOOLEAN, known : BOOLEAN,
   seen : Nat, since : Nat, eos : BOOLEAN]
SourceRecords ==
  [state : {"NULL", "READY", "PAUSED"}, step : Steps \union {"none"},
   phase : {"none", "before", "parent", "after"}, ok : BOOLEAN,
   groups : Seq(GroupRecords), n : Nat, made : Nat, turns : Nat, seeks : Nat,
   failed : BOOLEAN, strays : BOOLEAN]
Typed == source \in SourceRecords

(* A change under way began where it says and ends in the parent's order;   *)
(* only a change to PAUSED fails.                                           *)
InOrder ==
  /\ source.step = "none" <=> source.phase = "none"
  /\ source.step # "none" => source.state = From(source.step)
  /\ ~source.ok => source.step = ToPaused /\ source.phase = "after"

(* The sources have been set up for PAUSED, which is not reached yet.       *)
SettingUp == source.step = ToPaused /\ source.phase \in {"parent", "after"}

(* Pads are blocked only while they are set up.                             *)
BlockedIn(g) == g.blocked => SettingUp
HeldBriefly == \A i \in DOMAIN source.groups : BlockedIn(source.groups[i])

(* A source that plays, or is about to; and one that never has, which may   *)
(* have its pad from a change to PAUSED that failed.                        *)
PlaysIn(g, now) == g.pads > 0 /\ g.inside /\ g.seen = now - g.since
Sounding == source.state = "PAUSED" \/ SettingUp
AllSound ==
  Sounding => \A i \in DOMAIN source.groups : PlaysIn(source.groups[i], source.seeks)
FreshIn(g, now) == g.seen = 0 /\ (g.inside => g.pads > 0 /\ g.since = now)
AllFresh ==
  source.state # "PAUSED" =>
    \A i \in DOMAIN source.groups : FreshIn(source.groups[i], source.seeks)

HeldInv == Typed /\ InOrder /\ HeldBriefly
PlayInv == AllSound /\ AllFresh

-----------------------------------------------------------------------------
(* What happens to the sequence of groups.                                  *)
LEMMA MappedSeq ==
  ASSUME NEW S, NEW s \in Seq(S), NEW T, NEW f, DOMAIN f = DOMAIN s,
         f = [i \in DOMAIN s |-> f[i]], \A i \in DOMAIN s : f[i] \in T
  PROVE  f \in Seq(T)
<1>1. Len(s) \in Nat /\ DOMAIN s = 1 .. Len(s)
  BY LenProperties
<1>2. f \in [1 .. Len(s) -> T]
  BY <1>1
<1> QED
  BY <1>1, <1>2, SeqDef

LEMMA GroupsTyped ==
  ASSUME Typed
  PROVE  /\ source.groups \in Seq(GroupRecords)
         /\ Len(source.groups) \in Nat
         /\ DOMAIN source.groups = 1 .. Len(source.groups)
         /\ \A i \in DOMAIN source.groups : source.groups[i] \in GroupRecords
<1>1. source.groups \in Seq(GroupRecords)
  BY DEF Typed, SourceRecords
<1> QED
  BY <1>1, LenProperties, ElementOfSeq

(* A change of every group that keeps its type.                             *)
LEMMA Mapped ==
  ASSUME Typed, NEW f, DOMAIN f = DOMAIN source.groups, f = [i \in DOMAIN source.groups |-> f[i]],
         \A i \in DOMAIN source.groups : f[i] \in GroupRecords
  PROVE  f \in Seq(GroupRecords)
BY GroupsTyped, MappedSeq

LEMMA GhostPadTyped ==
  ASSUME NEW g \in GroupRecords, NEW now \in Nat
  PROVE  /\ GhostPad(g, now) \in GroupRecords
         /\ GhostPad(g, now).inside /\ GhostPad(g, now).seen = g.seen
         /\ (g.inside => g.pads > 0 /\ g.since = now) =>
              GhostPad(g, now).pads > 0 /\ GhostPad(g, now).since = now
<1>1. PICK n \in Nat : n = g.pads + 1
  <2>1. g.pads \in Nat
    BY DEF GroupRecords
  <2> QED
    BY <2>1
<1>2. n > 0
  BY <1>1 DEF GroupRecords
<1>3. CASE g.inside
  <2>1. GhostPad(g, now) = [g EXCEPT !.known = FALSE]
    BY <1>3 DEF GhostPad
  <2> QED
    BY <1>3, <2>1 DEF GroupRecords
<1>4. CASE ~g.inside
  <2>1. GhostPad(g, now) =
          [g EXCEPT !.pads = n, !.blocked = TRUE, !.inside = TRUE, !.known = TRUE, !.since = now]
    BY <1>1, <1>4 DEF GhostPad
  <2> QED
    BY <1>2, <2>1 DEF GroupRecords
<1> QED
  BY <1>3, <1>4

LEMMA FreedTyped ==
  ASSUME NEW g \in GroupRecords
  PROVE  /\ Freed(g) \in GroupRecords /\ ~Freed(g).blocked
         /\ Freed(g).pads = g.pads /\ Freed(g).inside = g.inside
         /\ Freed(g).seen = g.seen /\ Freed(g).since = g.since
BY DEF Freed, GroupRecords

LEMMA EndedTyped ==
  ASSUME NEW g \in GroupRecords
  PROVE  /\ AtEnd(g) \in GroupRecords
         /\ AtEnd(g).blocked = g.blocked /\ AtEnd(g).pads = g.pads
         /\ AtEnd(g).inside = g.inside /\ AtEnd(g).since = g.since
         /\ AtEnd(g).seen = g.seen
BY DEF AtEnd, GroupRecords

LEMMA RepeatedTyped ==
  ASSUME NEW g \in GroupRecords
  PROVE  /\ Repeated(g) \in GroupRecords
         /\ Repeated(g).blocked = g.blocked /\ Repeated(g).pads = g.pads
         /\ Repeated(g).inside = g.inside /\ Repeated(g).since = g.since
         /\ g.pads > 0 => Repeated(g).seen = g.seen + 1
<1>1. PICK n \in Nat : n = g.seen + 1
  <2>1. g.seen \in Nat
    BY DEF GroupRecords
  <2> QED
    BY <2>1
<1>2. CASE g.pads = 0
  BY <1>2 DEF Repeated
<1>3. CASE g.pads # 0
  <2>1. Repeated(g) = [g EXCEPT !.seen = n, !.eos = FALSE]
    BY <1>1, <1>3 DEF Repeated
  <2> QED
    BY <1>1, <2>1 DEF GroupRecords
<1> QED
  BY <1>2, <1>3

(* A step gives a source with other groups and otherwise typed fields.      *)
LEMMA NumbersTyped ==
  Typed => /\ source.seeks \in Nat /\ source.seeks + 1 \in Nat
           /\ source.made \in Nat /\ source.made + 1 \in Nat
           /\ source.n \in Nat /\ source.n + 1 \in Nat
           /\ source.turns \in Nat /\ source.turns + 1 \in Nat
<1>1. Typed => source.seeks \in Nat /\ source.made \in Nat /\ source.n \in Nat
                 /\ source.turns \in Nat
  BY DEF Typed, SourceRecords
<1> QED
  BY <1>1

LEMMA NewType == Typed /\ NewAppsrc => Typed'
<1> SUFFICES ASSUME Typed, NewAppsrc PROVE Typed'
  OBVIOUS
<1>1. PICK m \in Nat, k \in Nat, g \in Seq(GroupRecords) :
        source' = [source EXCEPT !.made = m, !.n = k, !.groups = g]
  <2>1. NewGroup(source.made + 1) \in GroupRecords
    BY NumbersTyped DEF NewGroup, GroupRecords
  <2>2. Append(source.groups, NewGroup(source.made + 1)) \in Seq(GroupRecords)
    BY <2>1, GroupsTyped
  <2> QED
    BY <2>2, NumbersTyped DEF NewAppsrc
<1> QED
  BY <1>1 DEF Typed, SourceRecords

LEMMA BeginType == ASSUME NEW step \in Steps PROVE Typed /\ Begin(step) => Typed'
<1> SUFFICES ASSUME Typed, Begin(step) PROVE Typed'
  OBVIOUS
<1>1. PICK k \in Nat :
        source' = [source EXCEPT !.step = step, !.phase = "before", !.turns = k]
  BY NumbersTyped DEF Begin
<1> QED
  BY <1>1 DEF Typed, SourceRecords

(* The groups after each of the steps that change them all.                 *)
LEMMA WithPadsGives ==
  ASSUME Typed
  PROVE  /\ WithPads(source) = [source EXCEPT !.groups = WithPads(source).groups]
         /\ WithPads(source).groups \in Seq(GroupRecords)
         /\ DOMAIN WithPads(source).groups = DOMAIN source.groups
         /\ \A i \in DOMAIN source.groups :
              WithPads(source).groups[i] = GhostPad(source.groups[i], source.seeks)
<1> DEFINE f == [i \in DOMAIN source.groups |-> GhostPad(source.groups[i], source.seeks)]
<1>1. WithPads(source) = [source EXCEPT !.groups = f]
  BY DEF WithPads
<1>2. WithPads(source).groups = f
  BY <1>1 DEF Typed, SourceRecords
<1>3. \A i \in DOMAIN source.groups : f[i] \in GroupRecords
  BY NumbersTyped, GroupsTyped, GhostPadTyped
<1>4. f \in Seq(GroupRecords)
  BY <1>3, Mapped
<1> QED
  BY <1>1, <1>2, <1>4

LEMMA UnblockedGives ==
  ASSUME Typed
  PROVE  /\ Unblocked(source) = [source EXCEPT !.groups = Unblocked(source).groups]
         /\ Unblocked(source).groups \in Seq(GroupRecords)
         /\ DOMAIN Unblocked(source).groups = DOMAIN source.groups
         /\ \A i \in DOMAIN source.groups :
              Unblocked(source).groups[i] = Freed(source.groups[i])
<1> DEFINE f == [i \in DOMAIN source.groups |-> Freed(source.groups[i])]
<1>1. Unblocked(source) = [source EXCEPT !.groups = f]
  BY DEF Unblocked
<1>2. Unblocked(source).groups = f
  BY <1>1 DEF Typed, SourceRecords
<1>3. \A i \in DOMAIN source.groups : f[i] \in GroupRecords
  BY GroupsTyped, FreedTyped
<1>4. f \in Seq(GroupRecords)
  BY <1>3, Mapped
<1> QED
  BY <1>1, <1>2, <1>4

LEMMA SoughtGives ==
  ASSUME Typed
  PROVE  /\ Sought(source) = [source EXCEPT !.seeks = source.seeks + 1,
                                            !.groups = Sought(source).groups]
         /\ Sought(source).groups \in Seq(GroupRecords)
         /\ DOMAIN Sought(source).groups = DOMAIN source.groups
         /\ \A i \in DOMAIN source.groups :
              Sought(source).groups[i] = Repeated(source.groups[i])
<1> DEFINE f == [i \in DOMAIN source.groups |-> Repeated(source.groups[i])]
<1>1. Sought(source) = [source EXCEPT !.seeks = source.seeks + 1, !.groups = f]
  BY DEF Sought
<1>2. Sought(source).groups = f
  BY <1>1 DEF Typed, SourceRecords
<1>3. \A i \in DOMAIN source.groups : f[i] \in GroupRecords
  BY GroupsTyped, RepeatedTyped
<1>4. f \in Seq(GroupRecords)
  BY <1>3, Mapped
<1> QED
  BY <1>1, <1>2, <1>4

-----------------------------------------------------------------------------
(* Each action, and what it makes of the record, for the lemmas below.      *)
LEMMA NewGives ==
  ASSUME Typed, NewAppsrc
  PROVE  /\ source.state # "PAUSED" /\ (Polite => source.step # ToPaused)
         /\ source'.state = source.state /\ source'.step = source.step
         /\ source'.phase = source.phase /\ source'.ok = source.ok
         /\ source'.seeks = source.seeks
         /\ DOMAIN source'.groups = 1 .. Len(source.groups) + 1
         /\ \A i \in DOMAIN source.groups : source'.groups[i] = source.groups[i]
         /\ source'.groups[Len(source.groups) + 1].seen = 0
         /\ ~source'.groups[Len(source.groups) + 1].inside
         /\ source'.groups[Len(source.groups) + 1].blocked = FALSE
<1>1. source' = [source EXCEPT !.made = @ + 1, !.n = @ + 1,
                    !.groups = Append(@, NewGroup(source.made + 1))]
  BY DEF NewAppsrc
<1>2. source'.groups = Append(source.groups, NewGroup(source.made + 1))
  BY <1>1 DEF Typed, SourceRecords
<1>3. NewGroup(source.made + 1) \in GroupRecords
  BY NumbersTyped DEF NewGroup, GroupRecords
<1>4. /\ DOMAIN source'.groups = 1 .. Len(source.groups) + 1
      /\ \A i \in DOMAIN source.groups : source'.groups[i] = source.groups[i]
      /\ source'.groups[Len(source.groups) + 1] = NewGroup(source.made + 1)
  BY <1>2, <1>3, GroupsTyped
<1>5. /\ source'.state = source.state /\ source'.step = source.step
      /\ source'.phase = source.phase /\ source'.ok = source.ok
      /\ source'.seeks = source.seeks
  BY <1>1 DEF Typed, SourceRecords
<1> QED
  BY <1>4, <1>5 DEF NewAppsrc, NewGroup

LEMMA EndOfStreamGives ==
  ASSUME Typed, EndOfStream
  PROVE  /\ source' = [source EXCEPT !.groups = source'.groups]
         /\ source'.groups \in Seq(GroupRecords)
         /\ DOMAIN source'.groups = DOMAIN source.groups
         /\ \A i \in DOMAIN source.groups :
              source'.groups[i] \in {source.groups[i], AtEnd(source.groups[i])}
<1>1. PICK n \in 0 .. Len(source.groups) :
        source' = [source EXCEPT !.groups =
                     [i \in DOMAIN @ |-> IF i <= n THEN AtEnd(@[i]) ELSE @[i]]]
  BY DEF EndOfStream
<1> DEFINE f == [i \in DOMAIN source.groups |->
                   IF i <= n THEN AtEnd(source.groups[i]) ELSE source.groups[i]]
<1>2. source' = [source EXCEPT !.groups = f]
  BY <1>1
<1>3. source'.groups = f
  BY <1>2 DEF Typed, SourceRecords
<1>4. \A i \in DOMAIN source.groups : f[i] \in GroupRecords
  BY GroupsTyped, EndedTyped
<1>5. f \in Seq(GroupRecords)
  BY <1>4, Mapped
<1> QED
  BY <1>2, <1>3, <1>5

(* After, for a change to PAUSED and for the others.                        *)
LEMMA AfterGives ==
  ASSUME Typed, InOrder, After
  PROVE  \E s \in SourceRecords :
           /\ source' = [s EXCEPT !.state = IF source.ok THEN Towards(source.step) ELSE @,
                                  !.ok = TRUE, !.step = "none", !.phase = "none"]
           /\ s.state = source.state /\ s.seeks = source.seeks
           /\ \/ source.step = ToPaused /\ s.groups = Unblocked(source).groups
              \/ source.step \in {ToReady, ToNull} /\ s.groups = <<>>
              \/ source.step = NullUp /\ s.groups = source.groups
<1>1. source.step \in Steps
  BY DEF Typed, SourceRecords, InOrder, After
<1>2. CASE source.step = ToPaused
  <2> DEFINE s == [Unblocked(source) EXCEPT !.failed = ~source.ok]
  <2>1. s \in SourceRecords /\ s.state = source.state /\ s.seeks = source.seeks
          /\ s.groups = Unblocked(source).groups
    BY UnblockedGives DEF Typed, SourceRecords
  <2>2. source' = Done([s EXCEPT !.state = IF source.ok THEN Towards(source.step) ELSE @,
                                 !.ok = TRUE])
    BY <1>2 DEF After, ToPaused, ToReady, ToNull, NullUp
  <2> QED
    BY <1>2, <2>1, <2>2 DEF Done
<1>3. CASE source.step \in {ToReady, ToNull}
  <2> DEFINE s == Emptied(source)
  <2>1. s \in SourceRecords /\ s.state = source.state /\ s.seeks = source.seeks
          /\ s.groups = <<>>
    BY EmptySeq DEF Emptied, Forgotten, Typed, SourceRecords
  <2>2. source' = Done([s EXCEPT !.state = IF source.ok THEN Towards(source.step) ELSE @,
                                 !.ok = TRUE])
    BY <1>3 DEF After, ToPaused, ToReady, ToNull, NullUp
  <2> QED
    BY <1>3, <2>1, <2>2 DEF Done
<1>4. CASE source.step = NullUp
  <2>1. source' = Done([source EXCEPT !.state = IF source.ok THEN Towards(source.step) ELSE @,
                                      !.ok = TRUE])
    BY <1>4 DEF After, ToPaused, ToReady, ToNull, NullUp
  <2> QED
    BY <1>4, <2>1 DEF Done, Typed
<1> QED
  BY <1>1, <1>2, <1>3, <1>4 DEF Steps

LEMMA BeforeGives ==
  ASSUME Typed, Before
  PROVE  /\ source.phase = "before"
         /\ \/ source.step # ToPaused /\ source' = [source EXCEPT !.phase = "parent"]
            \/ source.step = ToPaused
               /\ source' = [source EXCEPT !.step = "none", !.phase = "none", !.failed = TRUE]
            \/ source.step = ToPaused
               /\ source' = [source EXCEPT !.groups = WithPads(source).groups,
                                           !.phase = "parent"]
<1>1. CASE source.step # ToPaused
  BY <1>1 DEF Before
<1>2. CASE source.step = ToPaused /\ source.groups = <<>>
  BY <1>2 DEF Before, Done
<1>3. CASE source.step = ToPaused /\ source.groups # <<>>
  <2>1. source' = [WithPads(source) EXCEPT !.phase = "parent"]
    BY <1>3 DEF Before
  <2>2. PICK g \in Seq(GroupRecords) :
          WithPads(source) = [source EXCEPT !.groups = g] /\ WithPads(source).groups = g
    BY WithPadsGives
  <2>3. source' = [source EXCEPT !.groups = g, !.phase = "parent"]
    BY <2>1, <2>2 DEF Typed, SourceRecords
  <2> QED
    BY <1>3, <2>2, <2>3 DEF Before
<1> QED
  BY <1>1, <1>2, <1>3

-----------------------------------------------------------------------------
LEMMA InitHolds == SourceInit => HeldInv /\ PlayInv
BY EmptySeq DEF SourceInit, InitialSource, HeldInv, PlayInv, Typed, SourceRecords, InOrder,
  HeldBriefly, AllSound, AllFresh, Sounding, SettingUp, Steps, ToPaused, ToReady, ToNull, NullUp

LEMMA NextTyped == Typed /\ InOrder /\ SourceNext => Typed'
<1> SUFFICES ASSUME Typed, InOrder, SourceNext PROVE Typed'
  OBVIOUS
<1>1. CASE NewAppsrc
  BY <1>1, NewType
<1>2. CASE Before
  BY <1>2, BeforeGives, WithPadsGives DEF Typed, SourceRecords
<1>3. CASE Parent
  BY <1>3 DEF Parent, Typed, SourceRecords
<1>4. CASE After
  <2>1. PICK s \in SourceRecords, there \in {"NULL", "READY", "PAUSED"} :
          source' = [s EXCEPT !.state = there, !.ok = TRUE, !.step = "none", !.phase = "none"]
    <3>1. source.step \in Steps
      BY <1>4 DEF Typed, SourceRecords, InOrder, After
    <3>2. Towards(source.step) \in {"NULL", "READY", "PAUSED"}
      BY <3>1 DEF Towards, Steps, ToPaused, ToReady, ToNull, NullUp
    <3>3. \A s \in SourceRecords : s.state \in {"NULL", "READY", "PAUSED"}
      BY DEF SourceRecords
    <3> QED
      BY <1>4, <3>2, <3>3, AfterGives
  <2> QED
    BY <2>1 DEF Typed, SourceRecords
<1>5. CASE SeekSources
  BY <1>5, SoughtGives, NumbersTyped DEF SeekSources, Typed, SourceRecords
<1>6. CASE EndOfStream
  BY <1>6, EndOfStreamGives DEF Typed, SourceRecords
<1>7. ASSUME NEW step \in Steps, Begin(step) PROVE Typed'
  BY <1>7, BeginType
<1> QED
  BY <1>1, <1>2, <1>3, <1>4, <1>5, <1>6, <1>7 DEF SourceNext

LEMMA NextInOrder == Typed /\ InOrder /\ SourceNext => InOrder'
<1> SUFFICES ASSUME Typed, InOrder, SourceNext PROVE InOrder'
  OBVIOUS
<1>1. CASE NewAppsrc
  BY <1>1, NewGives DEF InOrder
<1>2. CASE Before
  <2>1. /\ source.phase = "before" /\ source'.state = source.state /\ source'.ok = source.ok
        /\ \/ source'.step = source.step /\ source'.phase = "parent"
           \/ source'.step = "none" /\ source'.phase = "none"
    BY <1>2, BeforeGives, WithPadsGives DEF Typed, SourceRecords
  <2> QED
    BY <2>1, Zenon DEF InOrder
<1>3. CASE Parent
  <2>1. PICK ok \in BOOLEAN :
          (~ok => source.step = ToPaused) /\ source' = [source EXCEPT !.phase = "after", !.ok = ok]
    BY <1>3 DEF Parent
  <2>2. /\ source'.step = source.step /\ source'.phase = "after"
        /\ source'.state = source.state /\ source'.ok = ok
    BY <2>1 DEF Typed, SourceRecords
  <2>3. source.phase = "parent"
    BY <1>3 DEF Parent
  <2> QED
    BY <2>1, <2>2, <2>3, Zenon DEF InOrder
<1>4. CASE After
  <2>1. source'.step = "none" /\ source'.phase = "none" /\ source'.ok = TRUE
    BY <1>4, AfterGives DEF SourceRecords
  <2> QED
    BY <2>1 DEF InOrder
<1>5. CASE SeekSources
  BY <1>5, SoughtGives DEF SeekSources, InOrder, Typed, SourceRecords
<1>6. CASE EndOfStream
  <2>1. /\ source'.step = source.step /\ source'.phase = source.phase
        /\ source'.state = source.state /\ source'.ok = source.ok
    BY <1>6, EndOfStreamGives DEF Typed, SourceRecords
  <2> QED
    BY <2>1, Zenon DEF InOrder
<1>7. ASSUME NEW step \in Steps, Begin(step) PROVE InOrder'
  BY <1>7 DEF Begin, InOrder, Typed, SourceRecords, Steps, ToPaused, ToReady, ToNull, NullUp
<1> QED
  BY <1>1, <1>2, <1>3, <1>4, <1>5, <1>6, <1>7 DEF SourceNext

(* Whether a source is held only matters while one is held.                 *)
LEMMA NextHeld == HeldInv /\ SourceNext => HeldBriefly'
<1> SUFFICES ASSUME HeldInv, SourceNext PROVE HeldBriefly'
  OBVIOUS
<1> USE DEF HeldInv, HeldBriefly, BlockedIn, SettingUp
<1>1. CASE NewAppsrc
  <2>1. SettingUp' = SettingUp
    BY <1>1, NewGives
  <2>2. ASSUME NEW i \in DOMAIN source'.groups, source'.groups[i].blocked PROVE SettingUp
    <3>1. i # Len(source.groups) + 1
      BY <1>1, <2>2, NewGives, Zenon
    <3>2. i \in 1 .. Len(source.groups) + 1
      BY <1>1, NewGives
    <3>3. i \in DOMAIN source.groups
      BY <3>1, <3>2, GroupsTyped
    <3> QED
      BY <1>1, <2>2, <3>3, NewGives, Zenon
  <2> QED
    BY <2>1, <2>2
<1>2. CASE Before
  BY <1>2, BeforeGives DEF Typed, SourceRecords
<1>3. CASE Parent
  BY <1>3 DEF Parent, Typed, SourceRecords
<1>4. CASE After
  <2>1. \A i \in DOMAIN Unblocked(source).groups : ~Unblocked(source).groups[i].blocked
    BY UnblockedGives, GroupsTyped DEF Freed, GroupRecords
  <2>2. PICK s \in SourceRecords :
           /\ source'.groups = s.groups
           /\ \/ source.step = ToPaused /\ s.groups = Unblocked(source).groups
              \/ source.step \in {ToReady, ToNull} /\ s.groups = <<>>
              \/ source.step = NullUp /\ s.groups = source.groups
    BY <1>4, AfterGives DEF SourceRecords
  <2> QED
    BY <2>1, <2>2 DEF ToPaused, ToReady, ToNull, NullUp
<1>5. CASE SeekSources
  <2>1. source' = Sought(source) /\ source.step = "none"
    BY <1>5 DEF SeekSources
  <2>2. ASSUME NEW i \in DOMAIN source'.groups PROVE ~source'.groups[i].blocked
    <3>1. i \in DOMAIN source.groups /\ source'.groups[i] = Repeated(source.groups[i])
      BY <2>1, SoughtGives
    <3>2. source'.groups[i].blocked = source.groups[i].blocked
      BY <3>1, GroupsTyped, RepeatedTyped
    <3> QED
      BY <2>1, <3>1, <3>2 DEF ToPaused
  <2> QED
    BY <2>2
<1>6. CASE EndOfStream
  <2>1. source'.step = source.step /\ source'.phase = source.phase
    BY <1>6, EndOfStreamGives DEF Typed, SourceRecords
  <2>2. ASSUME NEW i \in DOMAIN source'.groups
        PROVE  /\ i \in DOMAIN source.groups
               /\ source'.groups[i].blocked = source.groups[i].blocked
    <3>1. i \in DOMAIN source.groups
            /\ source'.groups[i] \in {source.groups[i], AtEnd(source.groups[i])}
      BY <1>6, EndOfStreamGives
    <3> QED
      BY <3>1, GroupsTyped, EndedTyped
  <2> QED
    BY <2>1, <2>2, Zenon
<1>7. ASSUME NEW step \in Steps, Begin(step) PROVE HeldBriefly'
  BY <1>7 DEF Begin, InOrder, Typed, SourceRecords
<1> QED
  BY <1>1, <1>2, <1>3, <1>4, <1>5, <1>6, <1>7 DEF SourceNext

-----------------------------------------------------------------------------
(* Steps that leave the groups, or all that matters of them, as they were.  *)
Alike ==
  /\ source'.seeks = source.seeks /\ source'.state = source.state
  /\ DOMAIN source'.groups = DOMAIN source.groups
  /\ \A i \in DOMAIN source.groups :
       /\ source'.groups[i].pads = source.groups[i].pads
       /\ source'.groups[i].inside = source.groups[i].inside
       /\ source'.groups[i].seen = source.groups[i].seen
       /\ source'.groups[i].since = source.groups[i].since

LEMMA AlikeKeeps ==
  ASSUME Alike, PlayInv PROVE AllFresh' /\ (Sounding => AllSound') /\ (~Sounding' => AllSound')
BY DEF Alike, PlayInv, AllFresh, FreshIn, AllSound, PlaysIn

LEMMA EndAlike == Typed /\ EndOfStream => Alike /\ Sounding' = Sounding
<1> SUFFICES ASSUME Typed, EndOfStream PROVE Alike /\ Sounding' = Sounding
  OBVIOUS
<1>1. /\ source'.step = source.step /\ source'.phase = source.phase
      /\ source'.state = source.state /\ source'.seeks = source.seeks
  BY EndOfStreamGives DEF Typed, SourceRecords
<1>2. \A i \in DOMAIN source.groups :
        source'.groups[i] \in {source.groups[i], AtEnd(source.groups[i])}
  BY EndOfStreamGives
<1> QED
  BY <1>1, <1>2, EndOfStreamGives, GroupsTyped, EndedTyped DEF Alike, Sounding, SettingUp

LEMMA ParentAlike == Typed /\ Parent => Alike /\ Sounding' = Sounding
BY DEF Parent, Alike, Sounding, SettingUp, Typed, SourceRecords

LEMMA BeginAlike ==
  ASSUME NEW step \in Steps
  PROVE  Typed /\ Begin(step) => Alike /\ (Sounding' => Sounding)
BY DEF Begin, Alike, Sounding, SettingUp, Typed, SourceRecords

(* Before: the sources get their pads, having seen no seek.                 *)
LEMMA BeforePlays == HeldInv /\ PlayInv /\ Before => PlayInv'
<1> SUFFICES ASSUME HeldInv, PlayInv, Before PROVE PlayInv'
  OBVIOUS
<1> USE DEF HeldInv
<1>1. source.step = ToPaused => source.state = "READY"
  BY BeforeGives DEF InOrder, From, ToPaused, ToReady, ToNull, NullUp
<1>2. CASE source.step # ToPaused /\ source' = [source EXCEPT !.phase = "parent"]
  <2>1. Alike /\ (Sounding' => Sounding)
    BY <1>2 DEF Alike, Sounding, SettingUp, Typed, SourceRecords
  <2> QED
    BY <2>1, AlikeKeeps DEF PlayInv
<1>3. CASE source.step = ToPaused
           /\ source' = [source EXCEPT !.step = "none", !.phase = "none", !.failed = TRUE]
  <2>1. Alike /\ (Sounding' => Sounding)
    BY <1>3 DEF Alike, Sounding, SettingUp, Typed, SourceRecords, ToPaused
  <2> QED
    BY <2>1, AlikeKeeps DEF PlayInv
<1>4. CASE source.step = ToPaused
           /\ source' = [source EXCEPT !.groups = WithPads(source).groups, !.phase = "parent"]
  <2>1. /\ source'.groups = WithPads(source).groups /\ source'.seeks = source.seeks
        /\ source'.state = source.state
    BY <1>4 DEF Typed, SourceRecords
  <2>2. ASSUME NEW i \in DOMAIN source'.groups
        PROVE  /\ PlaysIn(source'.groups[i], source.seeks)
               /\ FreshIn(source'.groups[i], source.seeks)
    <3>1. /\ i \in DOMAIN source.groups
          /\ source'.groups[i] = GhostPad(source.groups[i], source.seeks)
      BY <2>1, WithPadsGives
    <3>2. FreshIn(source.groups[i], source.seeks)
      BY <1>1, <1>4, <3>1 DEF PlayInv, AllFresh
    <3>3. source.seeks \in Nat /\ source.seeks - source.seeks = 0
      BY NumbersTyped
    <3>4. source.groups[i] \in GroupRecords
      BY <3>1, GroupsTyped
    <3>5. /\ source'.groups[i].pads > 0 /\ source'.groups[i].inside
          /\ source'.groups[i].since = source.seeks /\ source'.groups[i].seen = 0
      BY <3>1, <3>2, <3>3, <3>4, GhostPadTyped DEF FreshIn
    <3>6. source'.groups[i].seen = source.seeks - source'.groups[i].since
      BY <3>3, <3>5
    <3> QED
      BY <3>5, <3>6, Zenon DEF PlaysIn, FreshIn
  <2> QED
    BY <2>1, <2>2 DEF PlayInv, AllSound, AllFresh
<1> QED
  BY <1>2, <1>3, <1>4, BeforeGives

(* After: PAUSED is reached from a set-up only, and left without sources.   *)
LEMMA AfterPlays == HeldInv /\ PlayInv /\ After => PlayInv'
<1> SUFFICES ASSUME HeldInv, PlayInv, After PROVE PlayInv'
  OBVIOUS
<1> USE DEF HeldInv
<1>1. PICK s \in SourceRecords :
           /\ source' = [s EXCEPT !.state = IF source.ok THEN Towards(source.step) ELSE @,
                                  !.ok = TRUE, !.step = "none", !.phase = "none"]
           /\ s.state = source.state /\ s.seeks = source.seeks
           /\ \/ source.step = ToPaused /\ s.groups = Unblocked(source).groups
              \/ source.step \in {ToReady, ToNull} /\ s.groups = <<>>
              \/ source.step = NullUp /\ s.groups = source.groups
  BY AfterGives
<1>2. /\ source'.groups = s.groups /\ source'.seeks = source.seeks
      /\ source'.phase = "none" /\ source'.step = "none"
      /\ source'.state = IF source.ok THEN Towards(source.step) ELSE source.state
  BY <1>1 DEF SourceRecords
<1>3. source.state = From(source.step) /\ source.phase = "after"
  BY DEF InOrder, After
<1>4. CASE source.step = ToPaused
  <2>1. source.state = "READY" /\ SettingUp
    BY <1>3, <1>4 DEF From, SettingUp, ToPaused, ToReady, ToNull, NullUp
  <2>2. ASSUME NEW i \in DOMAIN source'.groups
        PROVE  /\ PlaysIn(source'.groups[i], source.seeks)
               /\ FreshIn(source'.groups[i], source.seeks)
    <3>1. i \in DOMAIN source.groups /\ source'.groups[i] = Freed(source.groups[i])
      BY <1>1, <1>2, <1>4, UnblockedGives DEF ToPaused, ToReady, ToNull, NullUp
    <3>2. /\ PlaysIn(source.groups[i], source.seeks)
          /\ FreshIn(source.groups[i], source.seeks)
      BY <2>1, <3>1 DEF PlayInv, AllSound, AllFresh, Sounding
    <3>3. source.groups[i] \in GroupRecords
      BY <3>1, GroupsTyped
    <3>4. /\ source'.groups[i].pads = source.groups[i].pads
          /\ source'.groups[i].inside = source.groups[i].inside
          /\ source'.groups[i].seen = source.groups[i].seen
          /\ source'.groups[i].since = source.groups[i].since
      BY <3>1, <3>3, FreedTyped
    <3> QED
      BY <3>2, <3>4, Zenon DEF PlaysIn, FreshIn
  <2> QED
    BY <1>2, <2>2 DEF PlayInv, AllSound, AllFresh
<1>5. CASE source.step \in {ToReady, ToNull}
  <2>1. source'.groups = <<>>
    BY <1>1, <1>2, <1>5 DEF ToPaused, ToReady, ToNull, NullUp
  <2> QED
    BY <2>1 DEF PlayInv, AllSound, AllFresh
<1>6. CASE source.step = NullUp
  <2>1. source'.groups = source.groups
    BY <1>1, <1>2, <1>6 DEF ToPaused, ToReady, ToNull, NullUp
  <2>2. source.state = "NULL" /\ source'.state # "PAUSED"
    BY <1>2, <1>3, <1>6 DEF From, Towards, ToPaused, ToReady, ToNull, NullUp
  <2> QED
    BY <1>2, <2>1, <2>2 DEF PlayInv, AllSound, AllFresh, Sounding, SettingUp, ToPaused
<1> QED
  BY <1>1, <1>4, <1>5, <1>6

LEMMA SeekPlays == HeldInv /\ PlayInv /\ SeekSources => PlayInv'
<1> SUFFICES ASSUME HeldInv, PlayInv, SeekSources PROVE PlayInv'
  OBVIOUS
<1> USE DEF HeldInv
<1>1. source' = Sought(source) /\ source.state = "PAUSED"
  BY DEF SeekSources
<1>2. source'.seeks = source.seeks + 1 /\ source'.state = "PAUSED"
  BY <1>1, SoughtGives DEF Typed, SourceRecords
<1>3. ASSUME NEW i \in DOMAIN source'.groups
      PROVE  PlaysIn(source'.groups[i], source.seeks + 1)
  <2>1. i \in DOMAIN source.groups /\ source'.groups[i] = Repeated(source.groups[i])
    BY <1>1, SoughtGives
  <2>2. PICK g \in GroupRecords : g = source.groups[i]
    BY <2>1, GroupsTyped
  <2>3. PlaysIn(g, source.seeks)
    BY <1>1, <2>1, <2>2 DEF PlayInv, AllSound, Sounding
  <2>4. g.seen \in Nat /\ g.since \in Nat /\ source.seeks \in Nat
    BY NumbersTyped DEF GroupRecords
  <2>5. g.seen + 1 = (source.seeks + 1) - g.since
    BY <2>3, <2>4 DEF PlaysIn
  <2>6. g.pads > 0 /\ g.inside
    BY <2>3 DEF PlaysIn
  <2>7. /\ source'.groups[i].pads = g.pads /\ source'.groups[i].inside = g.inside
        /\ source'.groups[i].since = g.since /\ source'.groups[i].seen = g.seen + 1
    BY <2>1, <2>2, <2>6, RepeatedTyped
  <2>8. /\ source'.groups[i].pads > 0 /\ source'.groups[i].inside
        /\ source'.groups[i].seen = (source.seeks + 1) - source'.groups[i].since
    BY <2>5, <2>6, <2>7
  <2> QED
    BY <2>8, Zenon DEF PlaysIn
<1> QED
  BY <1>2, <1>3 DEF PlayInv, AllSound, AllFresh

LEMMA NewPlays == Polite /\ HeldInv /\ PlayInv /\ NewAppsrc => PlayInv'
<1> SUFFICES ASSUME Polite, HeldInv, PlayInv, NewAppsrc PROVE PlayInv'
  OBVIOUS
<1> USE DEF HeldInv
<1>1. ~Sounding'
  BY NewGives DEF Sounding, SettingUp
<1>2. ASSUME NEW i \in DOMAIN source'.groups PROVE FreshIn(source'.groups[i], source.seeks)
  <2>1. CASE i = Len(source.groups) + 1
    BY <2>1, NewGives DEF FreshIn
  <2>2. CASE i # Len(source.groups) + 1
    <3>1. i \in DOMAIN source.groups
      BY <2>2, NewGives, GroupsTyped
    <3> QED
      BY <3>1, NewGives DEF PlayInv, AllFresh
  <2> QED
    BY <2>1, <2>2
<1>3. source'.seeks = source.seeks
  BY NewGives
<1> QED
  BY <1>1, <1>2, <1>3 DEF PlayInv, AllSound, AllFresh

-----------------------------------------------------------------------------
LEMMA NextHeldInv == HeldInv /\ [SourceNext]_sourceVars => HeldInv'
<1>1. HeldInv /\ UNCHANGED sourceVars => HeldInv'
  BY DEF HeldInv, Typed, InOrder, HeldBriefly, BlockedIn, SettingUp, sourceVars
<1> QED
  BY <1>1, NextTyped, NextInOrder, NextHeld DEF HeldInv

LEMMA NextPlayInv ==
  ASSUME Polite PROVE HeldInv /\ PlayInv /\ [SourceNext]_sourceVars => PlayInv'
<1> SUFFICES ASSUME HeldInv, PlayInv, [SourceNext]_sourceVars PROVE PlayInv'
  OBVIOUS
<1>1. CASE NewAppsrc
  BY <1>1, NewPlays
<1>2. CASE Before
  BY <1>2, BeforePlays
<1>3. CASE Parent
  BY <1>3, ParentAlike, AlikeKeeps DEF PlayInv, HeldInv
<1>4. CASE After
  BY <1>4, AfterPlays
<1>5. CASE SeekSources
  BY <1>5, SeekPlays
<1>6. CASE EndOfStream
  BY <1>6, EndAlike, AlikeKeeps DEF PlayInv, HeldInv
<1>7. ASSUME NEW step \in Steps, Begin(step) PROVE PlayInv'
  BY <1>7, BeginAlike, AlikeKeeps DEF PlayInv, HeldInv
<1>8. CASE UNCHANGED sourceVars
  BY <1>8 DEF PlayInv, AllSound, AllFresh, Sounding, SettingUp, sourceVars
<1> QED
  BY <1>1, <1>2, <1>3, <1>4, <1>5, <1>6, <1>7, <1>8 DEF SourceNext

(* change_state, remove_blocks: no source is left blocked when a change of  *)
(* state has ended, also when it failed, for any number of sources.         *)
THEOREM NeverLeftHeld == SourceSpec => []NothingHeld
<1>1. SourceInit => HeldInv
  BY InitHolds
<1>2. HeldInv => NothingHeld
  BY DEF HeldInv, HeldBriefly, BlockedIn, SettingUp, NothingHeld, ToPaused
<1> QED
  BY <1>1, <1>2, NextHeldInv, PTL DEF SourceSpec

(* setup_source, handle_src_event: if the application makes its sources     *)
(* before the change to PAUSED begins, each of them plays in PAUSED and has *)
(* had every seek since it was set up.                                      *)
THEOREM SourcesPlay == ASSUME Polite PROVE SourceSpec => []AllPlay
<1>1. SourceInit => HeldInv /\ PlayInv
  BY InitHolds
<1>2. HeldInv /\ PlayInv /\ [SourceNext]_sourceVars => (HeldInv /\ PlayInv)'
  BY NextHeldInv, NextPlayInv
<1>3. HeldInv /\ PlayInv => AllPlay
  BY DEF HeldInv, PlayInv, HeldBriefly, BlockedIn, SettingUp, AllSound, Sounding, PlaysIn,
    AllPlay, ToPaused
<1> QED
  BY <1>1, <1>2, <1>3, PTL DEF SourceSpec

-----------------------------------------------------------------------------
(* n_source counts the list, and no more seeks come than were asked for.    *)
Counted ==
  /\ source.n = Len(source.groups)
  /\ source.seeks \in 0 .. MaxSourceSeeks

LEMMA SameLength ==
  ASSUME Typed, NEW f \in Seq(GroupRecords), DOMAIN f = DOMAIN source.groups
  PROVE  Len(f) = Len(source.groups)
<1>1. Len(f) \in Nat /\ DOMAIN f = 1 .. Len(f)
  BY LenProperties
<1>2. Len(source.groups) \in Nat /\ DOMAIN source.groups = 1 .. Len(source.groups)
  BY GroupsTyped
<1>3. 1 .. Len(f) = 1 .. Len(source.groups)
  BY <1>1, <1>2
<1> QED
  BY <1>1, <1>2, <1>3, SMT

(* After: the list goes with its count, or keeps its length and its count.  *)
LEMMA AfterCounts ==
  ASSUME Typed, InOrder, Counted, After
  PROVE  Counted'
<1>1. source.step \in Steps
  BY DEF Typed, SourceRecords, InOrder, After
<1>2. PICK s \in SourceRecords :
        /\ source' = Done([s EXCEPT !.state = IF source.ok THEN Towards(source.step) ELSE @,
                                    !.ok = TRUE])
        /\ s.n = Len(s.groups) /\ s.seeks = source.seeks
  <2>1. CASE source.step = ToPaused
    <3> DEFINE s == [Unblocked(source) EXCEPT !.failed = ~source.ok]
    <3>1. s \in SourceRecords /\ s.seeks = source.seeks /\ s.n = source.n
            /\ s.groups = Unblocked(source).groups
      BY UnblockedGives DEF Typed, SourceRecords
    <3>2. Len(s.groups) = Len(source.groups)
      BY <3>1, UnblockedGives, SameLength
    <3>3. source' = Done([s EXCEPT !.state = IF source.ok THEN Towards(source.step) ELSE @,
                                   !.ok = TRUE])
      BY <2>1 DEF After, ToPaused, ToReady, ToNull, NullUp
    <3> QED
      BY <3>1, <3>2, <3>3 DEF Counted
  <2>2. CASE source.step \in {ToReady, ToNull}
    <3> DEFINE s == Emptied(source)
    <3>1. s \in SourceRecords /\ s.seeks = source.seeks /\ s.n = 0 /\ s.groups = <<>>
      BY EmptySeq DEF Emptied, Typed, SourceRecords
    <3>2. source' = Done([s EXCEPT !.state = IF source.ok THEN Towards(source.step) ELSE @,
                                   !.ok = TRUE])
      BY <2>2 DEF After, ToPaused, ToReady, ToNull, NullUp
    <3> QED
      BY <3>1, <3>2, EmptySeq
  <2>3. CASE source.step = NullUp
    <3>1. source' = Done([source EXCEPT
                            !.state = IF source.ok THEN Towards(source.step) ELSE @, !.ok = TRUE])
      BY <2>3 DEF After, ToPaused, ToReady, ToNull, NullUp
    <3> QED
      BY <3>1 DEF Typed, Counted
  <2> QED
    BY <1>1, <2>1, <2>2, <2>3 DEF Steps
<1>3. source'.n = s.n /\ source'.groups = s.groups /\ source'.seeks = s.seeks
  BY <1>2 DEF Done, SourceRecords
<1> QED
  BY <1>2, <1>3 DEF Counted

LEMMA NextCounted == HeldInv /\ Counted /\ [SourceNext]_sourceVars => Counted'
<1> SUFFICES ASSUME Typed, InOrder, Counted, [SourceNext]_sourceVars PROVE Counted'
  BY DEF HeldInv
<1>1. CASE NewAppsrc
  <2>1. source' = [source EXCEPT !.made = @ + 1, !.n = @ + 1,
                      !.groups = Append(@, NewGroup(source.made + 1))]
    BY <1>1 DEF NewAppsrc
  <2>2. /\ source'.groups = Append(source.groups, NewGroup(source.made + 1))
        /\ source'.n = source.n + 1 /\ source'.seeks = source.seeks
    BY <2>1 DEF Typed, SourceRecords
  <2>3. NewGroup(source.made + 1) \in GroupRecords
    BY NumbersTyped DEF NewGroup, GroupRecords
  <2>4. Len(source'.groups) = Len(source.groups) + 1
    BY <2>2, <2>3, GroupsTyped, AppendProperties
  <2> QED
    BY <2>2, <2>4 DEF Counted
<1>2. CASE Before
  <2>1. /\ source'.n = source.n /\ source'.seeks = source.seeks
        /\ source'.groups = source.groups \/ source'.groups = WithPads(source).groups
    BY <1>2, BeforeGives, WithPadsGives DEF Typed, SourceRecords
  <2>2. Len(WithPads(source).groups) = Len(source.groups)
    BY WithPadsGives, SameLength
  <2> QED
    BY <2>1, <2>2 DEF Counted
<1>3. CASE Parent
  <2>1. source'.n = source.n /\ source'.seeks = source.seeks /\ source'.groups = source.groups
    BY <1>3 DEF Parent, Typed, SourceRecords
  <2> QED
    BY <2>1 DEF Counted
<1>4. CASE After
  BY <1>4, AfterCounts
<1>5. CASE SeekSources
  <2>1. /\ source'.n = source.n /\ source'.seeks = source.seeks + 1
        /\ source'.groups = Sought(source).groups
    BY <1>5, SoughtGives DEF SeekSources, Typed, SourceRecords
  <2>2. Len(Sought(source).groups) = Len(source.groups)
    BY SoughtGives, SameLength
  <2>3. source.seeks + 1 \in 0 .. MaxSourceSeeks
    BY <1>5, NumbersTyped, SourceAssumption DEF SeekSources, Counted
  <2> QED
    BY <2>1, <2>2, <2>3 DEF Counted
<1>6. CASE EndOfStream
  <2>1. source'.n = source.n /\ source'.seeks = source.seeks
    BY <1>6, EndOfStreamGives DEF Typed, SourceRecords
  <2>2. Len(source'.groups) = Len(source.groups)
    BY <1>6, EndOfStreamGives, SameLength
  <2> QED
    BY <2>1, <2>2 DEF Counted
<1>7. ASSUME NEW step \in Steps, Begin(step) PROVE Counted'
  <2>1. source'.n = source.n /\ source'.seeks = source.seeks /\ source'.groups = source.groups
    BY <1>7 DEF Begin, Typed, SourceRecords
  <2> QED
    BY <2>1 DEF Counted
<1>8. CASE UNCHANGED sourceVars
  BY <1>8 DEF Counted, sourceVars
<1> QED
  BY <1>1, <1>2, <1>3, <1>4, <1>5, <1>6, <1>7, <1>8 DEF SourceNext

(* appsrc_list, n_source: n_source counts the sources that are in the bin,  *)
(* whatever was made and removed over the changes of state.                 *)
LEMMA SourceTypes == SourceSpec => []SourceTypeOK
<1>1. SourceInit => HeldInv /\ Counted
  <2>1. SourceInit => Counted
    BY EmptySeq, SourceAssumption DEF SourceInit, InitialSource, Counted
  <2> QED
    BY <2>1, InitHolds
<1>2. HeldInv /\ Counted /\ [SourceNext]_sourceVars => (HeldInv /\ Counted)'
  BY NextHeldInv, NextCounted
<1>3. HeldInv /\ Counted => SourceTypeOK
  BY DEF HeldInv, Typed, SourceRecords, Counted, SourceTypeOK
<1> QED
  BY <1>1, <1>2, <1>3, PTL DEF SourceSpec

-----------------------------------------------------------------------------
(* The inductive invariant of FakeAdec.                                     *)

(* Without sync-streams T never gets to the loop in which it waits.         *)
OnlyInSync == ~Sync => fake.at \in {"idle", "gap", "push"}

(* Whoever flushes, F or A, has raised the flag and not yet lowered it.     *)
FlagRaised ==
  /\ fake.inFlush \/ fake.stopping => fake.flushing
  /\ ~(fake.inFlush /\ fake.stopping)
  /\ fake.inFlush \/ fake.stopping => fake.state = "PAUSED"
  /\ fake.inFlush => ~fake.prerolled /\ ~fake.settled

(* Upstream owes a segment only while T is between two buffers, and until   *)
(* it comes nothing prerolls the sink.                                      *)
DueIsEmpty ==
  fake.due => /\ fake.at = "idle"
              /\ fake.state = "PAUSED" => ~fake.prerolled /\ ~fake.settled

(* A base time is not seen before it is there, and the one that comes       *)
(* behind a segment is new.                                                 *)
BaseAhead ==
  /\ fake.curBase <= fake.base
  /\ fake.settled => fake.base # 0
  /\ fake.settled /\ fake.needClock => fake.curBase # fake.base

Rest == NobodyLeft /\ OnlyInSync /\ FlagRaised /\ DueIsEmpty
FakeInv == FakeTypeOK /\ Rest
ClockInv == FakeInv /\ BaseAhead

(* The actions in groups: T, the timers, F and A, and the pipeline.         *)
OfT == Chain \/ GapPushed \/ PassedOn \/ WaitRunningTime \/ Leave
OfTimers == \E t \in Timers : Tick(t) \/ Look(t) \/ Ring(t)
OfEvents == SegmentEvent \/ EosEvent \/ FlushStart \/ FlushStop
OfState == Stop \/ Stopped \/ Start \/ SetActive \/ Play \/ ClockAdvances

LEMMA NextParts == FakeNext => OfT \/ OfTimers \/ OfEvents \/ OfState
BY DEF FakeNext, OfT, OfTimers, OfEvents, OfState

-----------------------------------------------------------------------------
LEMMA InitFake == FakeInit => ClockInv
BY FakeAssumption DEF FakeInit, InitialFake, ClockInv, FakeInv, Rest, FakeTypeOK, FakeRecords, NobodyLeft,
  OnlyInSync, FlagRaised, DueIsEmpty, BaseAhead, Places, NoBase, NoPts

(* The record T has in hand in its loop, and the three ways on from there.  *)
InHand == [fake EXCEPT !.exitLoop = @ \/ fake.at = "woken"]

LEMMA WaysOn ==
  WaitRunningTime =>
    /\ fake.at \in {"wait", "woken"}
    /\ \/ \E place \in {"idle", "leave"} : fake' = [InHand EXCEPT !.at = place]
       \/ /\ ~InHand.flushing
          /\ \E t \in Timers : InHand.timer[t] = "none" /\ fake' = FallAsleep(InHand, t)
BY DEF WaitRunningTime, InHand

LEMMA InHandType ==
  FakeTypeOK => InHand = [fake EXCEPT !.exitLoop = InHand.exitLoop] /\ InHand.exitLoop \in BOOLEAN
<1> SUFFICES ASSUME FakeTypeOK
             PROVE  InHand = [fake EXCEPT !.exitLoop = InHand.exitLoop] /\ InHand.exitLoop \in BOOLEAN
  OBVIOUS
<1>1. (fake.exitLoop \/ fake.at = "woken") \in BOOLEAN
  BY Zenon
<1>2. InHand.exitLoop = (fake.exitLoop \/ fake.at = "woken")
  BY DEF InHand, FakeTypeOK, FakeRecords
<1> QED
  BY <1>1, <1>2 DEF InHand, FakeTypeOK, FakeRecords

LEMMA TypeOfWait == FakeTypeOK /\ WaitRunningTime => FakeTypeOK'
<1> SUFFICES ASSUME FakeTypeOK, WaitRunningTime PROVE FakeTypeOK'
  OBVIOUS
<1>1. PICK x \in BOOLEAN : InHand = [fake EXCEPT !.exitLoop = x]
  BY InHandType
<1>2. ASSUME NEW place \in {"idle", "leave"}, fake' = [InHand EXCEPT !.at = place]
      PROVE  FakeTypeOK'
  BY <1>1, <1>2 DEF FakeTypeOK, FakeRecords, Places
<1>3. ASSUME NEW t \in Timers, fake' = FallAsleep(InHand, t)
      PROVE  FakeTypeOK'
  <2>1. fake.end \in Int
    <3>1. fake.end \in EndTimes \union {NoPts}
      BY DEF FakeTypeOK, FakeRecords
    <3>2. EndTimes \subseteq Int
      BY FakeAssumption
    <3>3. NoPts \in Int
      BY DEF NoPts
    <3> QED
      BY <3>1, <3>2, <3>3, Zenon
  <2> QED
    BY <1>1, <1>3, <2>1 DEF FallAsleep, FakeTypeOK, FakeRecords, Places
<1> QED
  BY <1>2, <1>3, WaysOn

(* The numbers, apart from the record, for the provers.                     *)
LEMMA Numbers ==
  FakeTypeOK => /\ fake.turns \in Nat /\ fake.turns + 1 \in Nat
                /\ fake.base \in Nat /\ fake.base + 1 \in Nat /\ fake.base \in Int
                /\ fake.curBase \in Int
<1> SUFFICES ASSUME FakeTypeOK
             PROVE  /\ fake.turns \in Nat /\ fake.turns + 1 \in Nat
                    /\ fake.base \in Nat /\ fake.base + 1 \in Nat /\ fake.base \in Int
                    /\ fake.curBase \in Int
  OBVIOUS
<1>1. fake.turns \in Nat
  BY DEF FakeTypeOK, FakeRecords
<1>2. fake.base \in Nat
  BY DEF FakeTypeOK, FakeRecords
<1>3. fake.curBase \in Int
  BY DEF FakeTypeOK, FakeRecords
<1> QED
  BY <1>1, <1>2, <1>3

LEMMA TypeOfT == FakeTypeOK /\ OfT => FakeTypeOK'
<1> SUFFICES ASSUME FakeTypeOK, OfT PROVE FakeTypeOK'
  OBVIOUS
<1>1. CASE Chain
  BY <1>1 DEF Chain, AfterGap, FakeTypeOK, FakeRecords, Places
<1>2. CASE GapPushed
  BY <1>2 DEF GapPushed, AfterGap, FakeTypeOK, FakeRecords, Places
<1>3. CASE PassedOn
  BY <1>3 DEF PassedOn, FakeTypeOK, FakeRecords, Places
<1>4. CASE WaitRunningTime
  BY <1>4, TypeOfWait
<1>5. CASE Leave
  BY <1>5 DEF Leave, FakeTypeOK, FakeRecords, Places
<1> QED
  BY <1>1, <1>2, <1>3, <1>4, <1>5 DEF OfT

LEMMA LookedType == ASSUME NEW f \in FakeRecords PROVE Looked(f) \in FakeRecords
<1>1. PICK c \in Int : c = f.base
  <2>1. f.base \in Nat
    BY DEF FakeRecords
  <2> QED
    BY <2>1
<1>2. CASE f.base # 0 /\ f.curBase # f.base
  <2>1. Looked(f) = [f EXCEPT !.curBase = c, !.needClock = FALSE]
    BY <1>1, <1>2 DEF Looked
  <2> QED
    BY <2>1 DEF FakeRecords
<1>3. CASE ~(f.base # 0 /\ f.curBase # f.base)
  BY <1>3 DEF Looked
<1> QED
  BY <1>2, <1>3

LEMMA TypeOfTimers == FakeTypeOK /\ OfTimers => FakeTypeOK'
<1> SUFFICES ASSUME FakeTypeOK, NEW t \in Timers, Tick(t) \/ Look(t) \/ Ring(t)
             PROVE  FakeTypeOK'
  BY DEF OfTimers
<1>1. CASE Tick(t)
  BY <1>1 DEF Tick, FakeTypeOK, FakeRecords
<1>2. CASE Look(t)
  <2>1. PICK there \in {"poll", "ring"} : fake' = [Looked(fake) EXCEPT !.timer[t] = there]
    BY <1>2 DEF Look
  <2>2. Looked(fake) \in FakeRecords
    BY LookedType DEF FakeTypeOK
  <2> QED
    BY <2>1, <2>2 DEF FakeTypeOK, FakeRecords
<1>3. CASE Ring(t)
  BY <1>3 DEF Ring, FakeTypeOK, FakeRecords, Places
<1> QED
  BY <1>1, <1>2, <1>3

LEMMA WokenType == ASSUME NEW f \in FakeRecords PROVE Woken(f) \in FakeRecords
<1>1. CASE Sync /\ f.at = "asleep"
  BY <1>1 DEF Woken, FakeRecords, Places
<1>2. CASE ~(Sync /\ f.at = "asleep")
  BY <1>2 DEF Woken
<1> QED
  BY <1>1, <1>2

LEMMA TypeOfEvents == FakeTypeOK /\ OfEvents => FakeTypeOK'
<1> SUFFICES ASSUME FakeTypeOK, OfEvents PROVE FakeTypeOK'
  OBVIOUS
<1>1. CASE SegmentEvent
  <2>1. PICK n \in Nat :
          fake' = [fake EXCEPT !.timed = TRUE, !.due = FALSE, !.needGap = TRUE,
                               !.needClock = TRUE, !.turns = n]
    BY <1>1, Numbers DEF SegmentEvent
  <2> QED
    BY <2>1 DEF FakeTypeOK, FakeRecords
<1>2. CASE EosEvent
  BY <1>2 DEF EosEvent, FakeTypeOK, FakeRecords
<1>3. CASE FlushStart
  <2>1. PICK n \in Nat :
          fake' = Woken([fake EXCEPT !.flushing = TRUE, !.eos = FALSE, !.inFlush = TRUE,
                                     !.prerolled = FALSE, !.settled = FALSE, !.turns = n])
    BY <1>3, Numbers DEF FlushStart
  <2>2. [fake EXCEPT !.flushing = TRUE, !.eos = FALSE, !.inFlush = TRUE,
                     !.prerolled = FALSE, !.settled = FALSE, !.turns = n] \in FakeRecords
    BY DEF FakeTypeOK, FakeRecords
  <2> QED
    BY <2>1, <2>2, WokenType DEF FakeTypeOK
<1>4. CASE FlushStop
  BY <1>4 DEF FlushStop, FakeTypeOK, FakeRecords
<1> QED
  BY <1>1, <1>2, <1>3, <1>4 DEF OfEvents

LEMMA TypeOfState == FakeTypeOK /\ OfState => FakeTypeOK'
<1> SUFFICES ASSUME FakeTypeOK, OfState PROVE FakeTypeOK'
  OBVIOUS
<1>1. CASE Stop
  <2>1. PICK n \in Nat :
          fake' = Woken([fake EXCEPT !.eos = TRUE, !.flushing = TRUE, !.stopping = TRUE,
                                     !.turns = n])
    BY <1>1, Numbers DEF Stop
  <2>2. [fake EXCEPT !.eos = TRUE, !.flushing = TRUE, !.stopping = TRUE,
                     !.turns = n] \in FakeRecords
    BY DEF FakeTypeOK, FakeRecords
  <2> QED
    BY <2>1, <2>2, WokenType DEF FakeTypeOK
<1>2. CASE Stopped
  BY <1>2 DEF Stopped, FakeTypeOK, FakeRecords
<1>3. CASE Start
  BY <1>3 DEF Start, FakeTypeOK, FakeRecords
<1>4. CASE SetActive
  <2>1. PICK n \in Nat, on \in BOOLEAN :
          fake' = [fake EXCEPT !.active = on, !.needGap = TRUE, !.turns = n]
    BY <1>4, Numbers DEF SetActive
  <2> QED
    BY <2>1 DEF FakeTypeOK, FakeRecords
<1>5. CASE Play
  <2>1. PICK n \in Nat : fake' = [fake EXCEPT !.base = n, !.running = 0, !.settled = TRUE]
    BY <1>5, Numbers DEF Play
  <2> QED
    BY <2>1 DEF FakeTypeOK, FakeRecords
<1>6. CASE ClockAdvances
  BY <1>6 DEF ClockAdvances, FakeTypeOK, FakeRecords
<1> QED
  BY <1>1, <1>2, <1>3, <1>4, <1>5, <1>6 DEF OfState

LEMMA NextType == FakeTypeOK /\ [FakeNext]_fakeVars => FakeTypeOK'
<1>1. FakeTypeOK /\ UNCHANGED fakeVars => FakeTypeOK'
  BY DEF FakeTypeOK, FakeRecords, fakeVars
<1> QED
  BY <1>1, NextParts, TypeOfT, TypeOfTimers, TypeOfEvents, TypeOfState

(* The record that fakeadec keeps has the fields and values of its type.    *)
THEOREM FakeTypeCorrect == FakeSpec => []FakeTypeOK
<1>1. FakeInit => FakeTypeOK
  BY InitFake DEF ClockInv, FakeInv
<1> QED
  BY <1>1, NextType, PTL DEF FakeSpec

-----------------------------------------------------------------------------

LEMMA RestOfT == FakeInv /\ OfT => Rest'
<1> SUFFICES ASSUME FakeInv, OfT PROVE Rest'
  OBVIOUS
<1> USE DEF FakeInv, Rest
<1>1. CASE Chain
  BY <1>1 DEF Chain, AfterGap, FakeTypeOK, FakeRecords, NobodyLeft,
    OnlyInSync, FlagRaised, DueIsEmpty
<1>2. CASE GapPushed
  BY <1>2 DEF GapPushed, AfterGap, FakeTypeOK, FakeRecords, NobodyLeft,
    OnlyInSync, FlagRaised, DueIsEmpty
<1>3. CASE PassedOn
  BY <1>3 DEF PassedOn, FakeTypeOK, FakeRecords, NobodyLeft,
    OnlyInSync, FlagRaised, DueIsEmpty
<1>4. CASE WaitRunningTime
  <2>1. PICK x \in BOOLEAN : InHand = [fake EXCEPT !.exitLoop = x]
    BY InHandType
  <2>2. fake.at \in {"wait", "woken"}
    BY <1>4, WaysOn
  <2>3. ASSUME NEW place \in {"idle", "leave"}, fake' = [InHand EXCEPT !.at = place]
        PROVE  Rest'
    BY <2>1, <2>2, <2>3 DEF FakeTypeOK, FakeRecords, NobodyLeft, OnlyInSync, FlagRaised,
      DueIsEmpty
  <2>4. ASSUME NEW t \in Timers, ~InHand.flushing, fake' = FallAsleep(InHand, t)
        PROVE  Rest'
    BY <2>1, <2>2, <2>4 DEF FallAsleep, FakeTypeOK, FakeRecords, NobodyLeft, OnlyInSync,
      FlagRaised, DueIsEmpty
  <2> QED
    BY <1>4, <2>3, <2>4, WaysOn
<1>5. CASE Leave
  BY <1>5 DEF Leave, FakeTypeOK, FakeRecords, NobodyLeft,
    OnlyInSync, FlagRaised, DueIsEmpty
<1> QED
  BY <1>1, <1>2, <1>3, <1>4, <1>5 DEF OfT

LEMMA RestOfEvents == FakeInv /\ OfEvents => Rest'
<1> SUFFICES ASSUME FakeInv, OfEvents PROVE Rest'
  OBVIOUS
<1> USE DEF FakeInv, Rest
<1>1. CASE SegmentEvent
  BY <1>1 DEF SegmentEvent, FakeTypeOK, FakeRecords, NobodyLeft,
    OnlyInSync, FlagRaised, DueIsEmpty
<1>2. CASE EosEvent
  BY <1>2 DEF EosEvent, FakeTypeOK, FakeRecords, NobodyLeft,
    OnlyInSync, FlagRaised, DueIsEmpty
<1>3. CASE FlushStart
  BY <1>3 DEF FlushStart, Woken, FakeTypeOK, FakeRecords, NobodyLeft,
    OnlyInSync, FlagRaised, DueIsEmpty
<1>4. CASE FlushStop
  BY <1>4 DEF FlushStop, FakeTypeOK, FakeRecords, NobodyLeft,
    OnlyInSync, FlagRaised, DueIsEmpty
<1> QED
  BY <1>1, <1>2, <1>3, <1>4 DEF OfEvents

LEMMA RestOfState == FakeInv /\ OfState => Rest'
<1> SUFFICES ASSUME FakeInv, OfState PROVE Rest'
  OBVIOUS
<1> USE DEF FakeInv, Rest
<1>1. CASE Stop
  BY <1>1 DEF Stop, Woken, FakeTypeOK, FakeRecords, NobodyLeft,
    OnlyInSync, FlagRaised, DueIsEmpty
<1>2. CASE Stopped
  BY <1>2 DEF Stopped, FakeTypeOK, FakeRecords, NobodyLeft,
    OnlyInSync, FlagRaised, DueIsEmpty
<1>3. CASE Start
  BY <1>3 DEF Start, FakeTypeOK, FakeRecords, NobodyLeft,
    OnlyInSync, FlagRaised, DueIsEmpty
<1>4. CASE SetActive
  BY <1>4 DEF SetActive, FakeTypeOK, FakeRecords, NobodyLeft,
    OnlyInSync, FlagRaised, DueIsEmpty
<1>5. CASE Play
  BY <1>5 DEF Play, FakeTypeOK, FakeRecords, NobodyLeft,
    OnlyInSync, FlagRaised, DueIsEmpty
<1>6. CASE ClockAdvances
  BY <1>6 DEF ClockAdvances, FakeTypeOK, FakeRecords, NobodyLeft,
    OnlyInSync, FlagRaised, DueIsEmpty
<1> QED
  BY <1>1, <1>2, <1>3, <1>4, <1>5, <1>6 DEF OfState

LEMMA RestOfTimers == FakeInv /\ OfTimers => Rest'
<1> SUFFICES ASSUME FakeInv, NEW t \in Timers, Tick(t) \/ Look(t) \/ Ring(t)
             PROVE  Rest'
  BY DEF OfTimers
<1> USE DEF FakeInv, Rest
<1>1. CASE Tick(t)
  BY <1>1 DEF Tick, FakeTypeOK, FakeRecords, NobodyLeft, OnlyInSync, FlagRaised, DueIsEmpty
<1>2. CASE Look(t)
  BY <1>2 DEF Look, Looked, FakeTypeOK, FakeRecords, NobodyLeft, OnlyInSync, FlagRaised,
    DueIsEmpty
<1>3. CASE Ring(t)
  BY <1>3 DEF Ring, FakeTypeOK, FakeRecords, NobodyLeft, OnlyInSync, FlagRaised, DueIsEmpty
<1> QED
  BY <1>1, <1>2, <1>3

LEMMA NextRest == FakeInv /\ [FakeNext]_fakeVars => Rest'
<1>1. FakeInv /\ UNCHANGED fakeVars => Rest'
  BY DEF FakeInv, Rest, NobodyLeft, OnlyInSync, FlagRaised, DueIsEmpty, fakeVars
<1> QED
  BY <1>1, NextParts, RestOfT, RestOfTimers, RestOfEvents, RestOfState

LEMMA AlwaysFakeInv == FakeSpec => []FakeInv
<1>1. FakeInit => FakeInv
  BY InitFake DEF ClockInv
<1>2. FakeInv /\ [FakeNext]_fakeVars => FakeInv'
  BY NextType, NextRest DEF FakeInv
<1> QED
  BY <1>1, <1>2, PTL DEF FakeSpec

(* wait_running_time, wake_up_next: T never sleeps through a flush, and     *)
(* while it sleeps a timer goes on looking, however many timers were left   *)
(* behind by earlier sleeps.                                                *)
THEOREM SomebodyWakes == FakeSpec => []NobodyLeft
<1>1. FakeInv => NobodyLeft
  BY DEF FakeInv, Rest
<1> QED
  BY <1>1, AlwaysFakeInv, PTL

(* change_state: when the parent class waits for the streaming thread, it   *)
(* is out of its sleep.                                                     *)
THEOREM StopWakes == FakeSpec => []StopReleases
<1>1. FakeInv => StopReleases
  BY DEF FakeInv, Rest, NobodyLeft, OnlyInSync, FlagRaised, StopReleases
<1> QED
  BY <1>1, AlwaysFakeInv, PTL

-----------------------------------------------------------------------------
(* The base time, when no segment comes without a flush before it.          *)
LEMMA BaseOfT == FakeInv /\ BaseAhead /\ OfT => BaseAhead'
<1> SUFFICES ASSUME FakeInv, BaseAhead, OfT PROVE BaseAhead'
  OBVIOUS
<1> USE DEF FakeInv
<1>1. CASE Chain
  BY <1>1 DEF Chain, FakeTypeOK, FakeRecords, BaseAhead
<1>2. CASE GapPushed
  BY <1>2 DEF GapPushed, FakeTypeOK, FakeRecords, BaseAhead
<1>3. CASE PassedOn
  BY <1>3 DEF PassedOn, FakeTypeOK, FakeRecords, BaseAhead
<1>4. CASE WaitRunningTime
  <2>1. PICK x \in BOOLEAN : InHand = [fake EXCEPT !.exitLoop = x]
    BY InHandType
  <2> QED
    BY <1>4, <2>1, WaysOn DEF FallAsleep, FakeTypeOK, FakeRecords, BaseAhead
<1>5. CASE Leave
  BY <1>5 DEF Leave, FakeTypeOK, FakeRecords, BaseAhead
<1> QED
  BY <1>1, <1>2, <1>3, <1>4, <1>5 DEF OfT

LEMMA BaseOfTimers == FakeInv /\ BaseAhead /\ OfTimers => BaseAhead'
<1> SUFFICES ASSUME FakeInv, BaseAhead, NEW t \in Timers, Tick(t) \/ Look(t) \/ Ring(t)
             PROVE  BaseAhead'
  BY DEF OfTimers
<1> USE DEF FakeInv
<1>1. CASE Tick(t)
  BY <1>1 DEF Tick, FakeTypeOK, FakeRecords, BaseAhead
<1>2. CASE Look(t)
  BY <1>2 DEF Look, Looked, FakeTypeOK, FakeRecords, BaseAhead
<1>3. CASE Ring(t)
  BY <1>3 DEF Ring, FakeTypeOK, FakeRecords, BaseAhead
<1> QED
  BY <1>1, <1>2, <1>3

LEMMA BaseOfEvents ==
  ASSUME ~Gapless PROVE FakeInv /\ BaseAhead /\ OfEvents => BaseAhead'
<1> SUFFICES ASSUME FakeInv, BaseAhead, OfEvents PROVE BaseAhead'
  OBVIOUS
<1> USE DEF FakeInv
<1>1. CASE SegmentEvent
  BY <1>1 DEF SegmentEvent, FakeTypeOK, FakeRecords, BaseAhead, Rest, DueIsEmpty
<1>2. CASE EosEvent
  BY <1>2 DEF EosEvent, FakeTypeOK, FakeRecords, BaseAhead
<1>3. CASE FlushStart
  BY <1>3 DEF FlushStart, Woken, FakeTypeOK, FakeRecords, BaseAhead
<1>4. CASE FlushStop
  BY <1>4 DEF FlushStop, FakeTypeOK, FakeRecords, BaseAhead
<1> QED
  BY <1>1, <1>2, <1>3, <1>4 DEF OfEvents

LEMMA BaseOfState == FakeInv /\ BaseAhead /\ OfState => BaseAhead'
<1> SUFFICES ASSUME FakeInv, BaseAhead, OfState PROVE BaseAhead'
  OBVIOUS
<1> USE DEF FakeInv
<1>1. CASE Stop
  BY <1>1 DEF Stop, Woken, FakeTypeOK, FakeRecords, BaseAhead
<1>2. CASE Stopped
  BY <1>2 DEF Stopped, FakeTypeOK, FakeRecords, BaseAhead
<1>3. CASE Start
  BY <1>3 DEF Start, FakeTypeOK, FakeRecords, BaseAhead
<1>4. CASE SetActive
  BY <1>4 DEF SetActive, FakeTypeOK, FakeRecords, BaseAhead
<1>5. CASE Play
  BY <1>5 DEF Play, FakeTypeOK, FakeRecords, BaseAhead
<1>6. CASE ClockAdvances
  BY <1>6 DEF ClockAdvances, FakeTypeOK, FakeRecords, BaseAhead
<1> QED
  BY <1>1, <1>2, <1>3, <1>4, <1>5, <1>6 DEF OfState

(* need_clock_waiting: if every segment but the first comes behind a flush, *)
(* a base time that ends the wait is there as soon as the pipeline plays    *)
(* again; without that assumption T may wait for ever.                      *)
THEOREM ClockEndsWait == ASSUME ~Gapless PROVE FakeSpec => []ClockComes
<1>1. FakeInit => ClockInv
  BY InitFake
<1>2. ClockInv /\ [FakeNext]_fakeVars => ClockInv'
  <2>1. FakeInv /\ BaseAhead /\ UNCHANGED fakeVars => BaseAhead'
    BY DEF BaseAhead, fakeVars
  <2> QED
    BY <2>1, NextParts, NextType, NextRest, BaseOfT, BaseOfTimers, BaseOfEvents, BaseOfState
    DEF ClockInv, FakeInv
<1>3. ClockInv => ClockComes
  BY DEF ClockInv, BaseAhead, ClockComes
<1> QED
  BY <1>1, <1>2, <1>3, PTL DEF FakeSpec

-----------------------------------------------------------------------------
(* StreamIdDemux.  What a router may be, whatever was sent so far.          *)
RouterFields ==
  {"show", "taken", "plays", "made", "table", "pairs", "pads", "active", "held", "stuck", "given",
   "since"}
IsRouter(r) ==
  /\ r = [x \in RouterFields |-> r[x]] /\ SoundShow(r.show)
  /\ r.taken \in 0 .. Len(r.show) /\ r.made \in Nat /\ r.table \in BOOLEAN
  /\ r.active \in 0 .. r.made /\ r.pads \subseteq 1 .. r.made
  /\ r.given \in Seq(Seq(Nat)) /\ Len(r.given) = r.made
  /\ r.stuck \in Seq(SUBSET Nat) /\ Len(r.stuck) = r.made /\ r.since \in 0 .. r.made
  /\ \A p \in r.pairs : p = [id |-> p.id, pad |-> p.pad] /\ p.pad \in r.pads
  /\ ~r.table => r.pairs = {}

(* What a pad was given, and of which streams.                              *)
ShowsId(show, n) == show[n].kind \in {"stream-start", "buffer"}
IdsIn(r, pad) == {r.show[n].id : n \in {m \in Range(r.given[pad]) : ShowsId(r.show, m)}}
StreamPads(r) == \A pad \in 1 .. r.made : \E id : IdsIn(r, pad) = {id}
PairedPads(r) ==
  /\ \A p, q \in r.pairs : p.id = q.id => p = q
  /\ r.active # NoPad => r.active \in r.pads
OwedTo(show, n, id) == show[n].kind = "eos" \/ (show[n].kind = "buffer" /\ show[n].id = id)
GivenAll(r, p) ==
  LET given == r.given[p.pad]
  IN  /\ IdsIn(r, p.pad) = {p.id}
      /\ \A i \in DOMAIN given : given[i] <= r.taken
      /\ \A i, j \in DOMAIN given : i < j => given[i] < given[j]
      /\ \A n \in given[1] .. r.taken : OwedTo(r.show, n, p.id) => n \in Range(given)

(* The active pad is that of the stream announced last in this play.        *)
Faces(r) ==
  /\ r.active = NoPad <=> LastOf(r.show, r.taken, "stream-start") = {}
  /\ \A m \in LastOf(r.show, r.taken, "stream-start") :
       /\ IdsIn(r, r.active) = {r.show[m].id}
       /\ r.table => [id |-> r.show[m].id, pad |-> r.active] \in r.pairs

(* The collection held is the one that came last, while the table is there. *)
Holds(r) ==
  r.table => r.held = {} \/ \E c \in LastOf(r.show, r.taken, "collection") : r.show[c].ids = r.held

(* A pad begins with its own STREAM_START, behind what it was made with.    *)
Inherits(r, n, first) == n < first /\ r.show[n].kind \in {"stream-start", "collection"}
Begins(r, pad) ==
  /\ 1 \in DOMAIN r.given[pad] /\ r.show[r.given[pad][1]].kind = "stream-start"
  /\ \A n \in r.stuck[pad] : Inherits(r, n, r.given[pad][1])

(* What this play did: its pads, what they were given and what went where.  *)
PadsNow(r) == r.since + 1 .. r.made
InUseNow(r) == r.active \in {NoPad} \cup PadsNow(r) /\ \A p \in r.pairs : p.pad \in PadsNow(r)
GivenInTurn(r, pad) ==
  /\ \A i \in DOMAIN r.given[pad] : r.given[pad][i] <= r.taken
  /\ \A i, j \in DOMAIN r.given[pad] : i < j => r.given[pad][i] < r.given[pad][j]
WentTo(r, n, pad) == \A x \in PadsNow(r) : n \in Range(r.given[x]) <=> x = pad
PlayHolds(r) ==
  /\ \A pad \in 1 .. r.made : Begins(r, pad)
  /\ InUseNow(r) /\ \A pad \in PadsNow(r) : GivenInTurn(r, pad)
  /\ \A n \in 1 .. r.taken : r.show[n].kind = "buffer" => \E pad \in PadsNow(r) : WentTo(r, n, pad)

RouterHolds(r) ==
  /\ IsRouter(r) /\ StreamPads(r) /\ PairedPads(r) /\ (\A p \in r.pairs : GivenAll(r, p))
  /\ Faces(r) /\ Holds(r) /\ PlayHolds(r)
RouterInv == RouterHolds(router)

-----------------------------------------------------------------------------
LEMMA AppendedFact ==
  ASSUME NEW T, NEW s \in Seq(T), NEW n \in T
  PROVE  /\ Append(s, n) \in Seq(T) /\ Range(Append(s, n)) = Range(s) \cup {n}
         /\ \A i \in DOMAIN s : Append(s, n)[i] = s[i]
         /\ Append(s, n)[Len(s) + 1] = n
         /\ DOMAIN Append(s, n) = 1 .. Len(s) + 1 /\ DOMAIN s = 1 .. Len(s) /\ Len(s) \in Nat
         /\ Len(Append(s, n)) = Len(s) + 1
<1> DEFINE t == Append(s, n)
<1>1. /\ t \in Seq(T) /\ Len(s) \in Nat /\ DOMAIN s = 1 .. Len(s) /\ DOMAIN t = 1 .. Len(s) + 1
      /\ \A i \in 1 .. Len(s) : t[i] = s[i]
  OBVIOUS
<1>2. t[Len(s) + 1] = n /\ Len(t) = Len(s) + 1
  OBVIOUS
<1> HIDE DEF t
<1>3. ASSUME NEW x PROVE x \in Range(t) <=> x \in Range(s) \cup {n}
  <2>1. ASSUME NEW i \in DOMAIN t PROVE t[i] \in Range(s) \cup {n}
    <3>1. CASE i = Len(s) + 1
      BY <3>1, <1>2
    <3>2. CASE i \in 1 .. Len(s)
      BY <3>2, <1>1 DEF Range
    <3> QED
      BY <1>1, <3>1, <3>2
  <2>2. ASSUME NEW i \in DOMAIN s PROVE s[i] \in Range(t)
    BY <1>1 DEF Range
  <2>3. n \in Range(t)
    BY <1>1, <1>2 DEF Range
  <2> QED
    BY <2>1, <2>2, <2>3 DEF Range
<1> QED
  BY <1>1, <1>2, <1>3 DEF t

(* What the show says of its next item.                                     *)
LEMMA NextItem ==
  ASSUME NEW show, SoundShow(show), NEW n \in 1 .. Len(show), Len(show) \in Nat
  PROVE  /\ \A kind : show[n].kind = kind => LastOf(show, n, kind) = {n}
         /\ \A kind : show[n].kind # kind => LastOf(show, n, kind) = LastOf(show, n - 1, kind)
  <1>1. ASSUME NEW kind, show[n].kind = kind PROVE LastOf(show, n, kind) = {n}
    <2>1. n \in LastOf(show, n, kind)
      BY <1>1 DEF LastOf
    <2>2. ASSUME NEW m \in LastOf(show, n, kind) PROVE m = n
      <3>1. m \in 1 .. n /\ \A l \in m + 1 .. n : show[l].kind # kind
        BY DEF LastOf
      <3>2. ~(m < n)
        BY <3>1, <1>1
      <3> QED
        BY <3>1, <3>2
    <2> QED
      BY <2>1, <2>2
  <1>2. ASSUME NEW kind, show[n].kind # kind PROVE LastOf(show, n, kind) = LastOf(show, n - 1, kind)
    <2>1. ASSUME NEW m PROVE m \in LastOf(show, n, kind) <=> m \in LastOf(show, n - 1, kind)
      <3>1. CASE m \in 1 .. n - 1
        <4>1. m + 1 .. n = (m + 1 .. n - 1) \cup {n}
          BY <3>1
        <4> QED
          BY <4>1, <3>1, <1>2 DEF LastOf
      <3>2. CASE m = n
        BY <3>2, <1>2 DEF LastOf
      <3>3. CASE m \notin 1 .. n
        BY <3>3 DEF LastOf
      <3> QED
        BY <3>1, <3>2, <3>3
    <2> QED
      BY <2>1
  <1> QED
    BY <1>1, <1>2

(* A pad is given the next item of the show.                                *)
OnToNext(r, q) == q.show = r.show /\ q.taken = r.taken + 1
Gets(r, q, pad) == q.given[pad] = Append(r.given[pad], q.taken)

LEMMA IdsFact ==
  ASSUME NEW r, NEW q, NEW pad, OnToNext(r, q), r.taken \in Nat, r.given[pad] \in Seq(Nat), NEW id,
         Gets(r, q, pad), IdsIn(r, pad) = {id}, ShowsId(r.show, q.taken) => r.show[q.taken].id = id
  PROVE  IdsIn(q, pad) = {id}
<1>1. Range(q.given[pad]) = Range(r.given[pad]) \cup {q.taken}
  BY AppendedFact DEF Gets, OnToNext
<1>2. PICK m \in Range(r.given[pad]) : ShowsId(r.show, m) /\ r.show[m].id = id
  BY DEF IdsIn
<1>3. \A l \in Range(r.given[pad]) : ShowsId(r.show, l) => r.show[l].id = id
  BY DEF IdsIn
<1>4. id \in IdsIn(q, pad)
  BY <1>1, <1>2 DEF IdsIn, OnToNext
<1>5. ASSUME NEW x \in IdsIn(q, pad) PROVE x = id
  BY <1>1, <1>3 DEF IdsIn, OnToNext
<1> QED
  BY <1>4, <1>5

LEMMA GivenKeeps ==
  ASSUME NEW r, NEW q, NEW p, OnToNext(r, q), r.taken \in Nat, r.given[p.pad] \in Seq(Nat), GivenAll(r, p),
         \/ q.given[p.pad] = r.given[p.pad] /\ ~OwedTo(r.show, q.taken, p.id)
         \/ Gets(r, q, p.pad) /\ (ShowsId(r.show, q.taken) => r.show[q.taken].id = p.id)
  PROVE  GivenAll(q, p)
<1> DEFINE g == r.given[p.pad]
           h == q.given[p.pad]
           n == q.taken
<1>1. /\ IdsIn(r, p.pad) = {p.id} /\ (\A i \in DOMAIN g : g[i] <= r.taken)
      /\ (\A i, j \in DOMAIN g : i < j => g[i] < g[j])
      /\ \A m \in g[1] .. r.taken : OwedTo(r.show, m, p.id) => m \in Range(g)
  BY DEF GivenAll
<1>2. q.show = r.show /\ n = r.taken + 1 /\ n \in Nat
  BY DEF OnToNext
<1>3. Len(g) \in Nat /\ DOMAIN g = 1 .. Len(g) /\ \A i \in DOMAIN g : g[i] \in Nat
  OBVIOUS
<1>4. 1 \in DOMAIN g
  <2>1. Range(g) # {}
    BY <1>1 DEF IdsIn
  <2> QED
    BY <2>1, <1>3 DEF Range
<1>5. IdsIn(q, p.pad) = {p.id}
  <2>1. CASE h = g
    BY <1>1, <1>2, <2>1 DEF IdsIn
  <2>2. CASE Gets(r, q, p.pad) /\ (ShowsId(r.show, q.taken) => r.show[q.taken].id = p.id)
    BY <1>1, <2>2, IdsFact
  <2> QED
    BY <2>1, <2>2
<1>6. CASE h = g /\ ~OwedTo(r.show, n, p.id)
  <2>1. \A i \in DOMAIN h : h[i] <= n
    BY <1>1, <1>2, <1>3, <1>6
  <2>2. \A m \in h[1] .. n : OwedTo(q.show, m, p.id) => m \in Range(h)
    BY <1>1, <1>2, <1>3, <1>4, <1>6
  <2> QED
    BY <1>1, <1>5, <1>6, <2>1, <2>2 DEF GivenAll
<1>7. CASE Gets(r, q, p.pad)
  <2>1. /\ h = Append(g, n) /\ Range(h) = Range(g) \cup {n} /\ DOMAIN h = 1 .. Len(g) + 1
        /\ (\A i \in DOMAIN g : h[i] = g[i]) /\ h[Len(g) + 1] = n
    <3> HIDE DEF g
    <3>1. g \in Seq(Nat) /\ h = Append(g, n)
      BY <1>7 DEF Gets, g
    <3> QED
      BY <3>1, <1>2, AppendedFact
  <2> HIDE DEF g, h, n
  <2>2. \A i \in DOMAIN h : h[i] <= n
    BY <1>1, <1>2, <1>3, <2>1
  <2>3. \A i, j \in DOMAIN h : i < j => h[i] < h[j]
    BY <1>1, <1>2, <1>3, <2>1
  <2>4. \A m \in h[1] .. n : OwedTo(q.show, m, p.id) => m \in Range(h)
    BY <1>1, <1>2, <1>3, <1>4, <2>1
  <2> QED
    BY <1>5, <2>2, <2>3, <2>4 DEF GivenAll, g, h, n
<1> QED
  BY <1>6, <1>7

(* A step to the next item: the show stays, each place was that of a pad.   *)
LEMMA PlainFact ==
  ASSUME NEW r, RouterHolds(r), r.taken < Len(r.show)
  PROVE  /\ Len(r.show) \in Nat /\ r.taken \in Nat /\ r.taken + 1 \in DOMAIN r.show
         /\ r.taken + 1 \in 1 .. Len(r.show) /\ r.taken + 1 \in Nat
         /\ r.given \in Seq(Seq(Nat)) /\ DOMAIN r.given = 1 .. r.made /\ r.made \in Nat
         /\ \A pad \in 1 .. r.made : r.given[pad] \in Seq(Nat)
         /\ r.since \in 0 .. r.made /\ PadsNow(r) \subseteq 1 .. r.made
<1>1. /\ IsRouter(r) /\ SoundShow(r.show) /\ r.taken \in 0 .. Len(r.show)
      /\ r.given \in Seq(Seq(Nat)) /\ Len(r.given) = r.made /\ r.made \in Nat
      /\ r.since \in 0 .. r.made
  BY DEF RouterHolds, IsRouter
<1>2. r.show \in Seq(Range(r.show))
  BY <1>1 DEF SoundShow
<1>3. Len(r.show) \in Nat /\ DOMAIN r.show = 1 .. Len(r.show)
  BY <1>2
<1>4. DOMAIN r.given = 1 .. r.made /\ \A pad \in 1 .. r.made : r.given[pad] \in Seq(Nat)
  BY <1>1
<1>5. PadsNow(r) \subseteq 1 .. r.made
  BY <1>1 DEF PadsNow
<1> QED
  BY <1>1, <1>3, <1>4, <1>5

(* What taking an item does, whatever it is: each pad is given it or not.   *)
GivesOut(r, q) ==
  \A pad \in 1 .. r.made :
     \/ q.given[pad] = r.given[pad]
     \/ Gets(r, q, pad) /\ (ShowsId(r.show, q.taken) => IdsIn(r, pad) = {r.show[q.taken].id})
FreshPad(r, q) ==
  /\ q.made = r.made + 1 /\ q.given[q.made] = <<q.taken>> /\ r.show[q.taken].kind = "stream-start"
  /\ \A n \in q.stuck[q.made] : Inherits(r, n, q.taken)
PairsGiven(r, q) ==
  \A p \in q.pairs :
     \/ p \in r.pairs /\ (OwedTo(r.show, q.taken, p.id) => Gets(r, q, p.pad))
     \/ FreshPad(r, q) /\ p.pad = q.made /\ p.id = r.show[q.taken].id

LEMMA TakeShape ==
  ASSUME NEW r, NEW q, RouterHolds(r), r.taken < Len(r.show), OnToNext(r, q), GivesOut(r, q),
         q.made = r.made \/ FreshPad(r, q)
  PROVE  /\ StreamPads(q) /\ \A pad \in 1 .. r.made : IdsIn(q, pad) = IdsIn(r, pad)
         /\ FreshPad(r, q) => IdsIn(q, q.made) = {r.show[q.taken].id}
<1>1. /\ r.taken \in Nat /\ r.made \in Nat /\ \A pad \in 1 .. r.made : r.given[pad] \in Seq(Nat)
  BY PlainFact
<1>2. ASSUME NEW pad \in 1 .. r.made
      PROVE  IdsIn(q, pad) = IdsIn(r, pad) /\ \E id : IdsIn(q, pad) = {id}
  <2>1. PICK id : IdsIn(r, pad) = {id}
    BY DEF RouterHolds, StreamPads
  <2>2. CASE q.given[pad] = r.given[pad]
    <3>1. IdsIn(q, pad) = IdsIn(r, pad)
      BY <2>2 DEF IdsIn, OnToNext
    <3> QED
      BY <2>1, <3>1
  <2>3. CASE Gets(r, q, pad) /\ (ShowsId(r.show, q.taken) => IdsIn(r, pad) = {r.show[q.taken].id})
    <3>1. ShowsId(r.show, q.taken) => r.show[q.taken].id = id
      BY <2>1, <2>3
    <3>2. IdsIn(q, pad) = {id}
      BY <1>1, <2>1, <2>3, <3>1, IdsFact
    <3> QED
      BY <2>1, <3>2
  <2> QED
    BY <2>2, <2>3 DEF GivesOut
<1>3. FreshPad(r, q) => IdsIn(q, q.made) = {r.show[q.taken].id}
  <2> SUFFICES ASSUME FreshPad(r, q) PROVE IdsIn(q, q.made) = {r.show[q.taken].id}
    OBVIOUS
  <2>1. Range(q.given[q.made]) = {q.taken}
    BY DEF FreshPad, Range
  <2> QED
    BY <2>1 DEF IdsIn, FreshPad, OnToNext, ShowsId
<1>4. StreamPads(q)
  <2> SUFFICES ASSUME NEW pad \in 1 .. q.made PROVE \E id : IdsIn(q, pad) = {id}
    BY DEF StreamPads
  <2>1. pad \in 1 .. r.made \/ (FreshPad(r, q) /\ pad = q.made)
    BY <1>1 DEF FreshPad
  <2> QED
    BY <1>2, <1>3, <2>1
<1> QED
  BY <1>2, <1>3, <1>4

(* What taking an item keeps of this play; a buffer goes to the active pad. *)
PlayGoesOn(r, q) ==
  /\ q.since = r.since /\ \A pad \in 1 .. r.made : q.stuck[pad] = r.stuck[pad]
  /\ r.show[q.taken].kind = "buffer" =>
       /\ q.made = r.made /\ r.active # NoPad /\ Gets(r, q, r.active)
       /\ \A pad \in 1 .. r.made : pad # r.active => q.given[pad] = r.given[pad]

LEMMA PlayKeeps ==
  ASSUME NEW r, NEW q, RouterHolds(r), r.taken < Len(r.show), OnToNext(r, q), GivesOut(r, q),
         q.made = r.made \/ FreshPad(r, q), PlayGoesOn(r, q), InUseNow(q)
  PROVE  PlayHolds(q)
<1>1. /\ r.taken \in Nat /\ r.made \in Nat /\ r.since \in 0 .. r.made /\ q.taken = r.taken + 1
      /\ q.show = r.show /\ PadsNow(r) \subseteq 1 .. r.made
      /\ \A pad \in 1 .. r.made : r.given[pad] \in Seq(Nat)
  BY PlainFact DEF OnToNext
<1>2. PlayHolds(r)
  BY DEF RouterHolds
<1>3. ASSUME NEW pad \in 1 .. r.made
      PROVE  \/ q.given[pad] = r.given[pad]
             \/ /\ q.given[pad] = Append(r.given[pad], q.taken)
                /\ Range(q.given[pad]) = Range(r.given[pad]) \cup {q.taken}
                /\ \A i \in DOMAIN r.given[pad] : q.given[pad][i] = r.given[pad][i]
                /\ q.given[pad][Len(r.given[pad]) + 1] = q.taken /\ Len(r.given[pad]) \in Nat
                /\ DOMAIN q.given[pad] = 1 .. Len(r.given[pad]) + 1
                /\ DOMAIN r.given[pad] = 1 .. Len(r.given[pad])
  <2> DEFINE g == r.given[pad]
  <2>1. g \in Seq(Nat) /\ q.taken \in Nat
    BY <1>1
  <2>2. q.given[pad] = g \/ q.given[pad] = Append(g, q.taken)
    BY DEF GivesOut, Gets
  <2> HIDE DEF g
  <2>3. /\ Range(Append(g, q.taken)) = Range(g) \cup {q.taken}
        /\ \A i \in DOMAIN g : Append(g, q.taken)[i] = g[i]
        /\ Append(g, q.taken)[Len(g) + 1] = q.taken
        /\ DOMAIN Append(g, q.taken) = 1 .. Len(g) + 1 /\ DOMAIN g = 1 .. Len(g) /\ Len(g) \in Nat
    BY <2>1, AppendedFact
  <2>4. CASE q.given[pad] = g
    BY <2>4 DEF g
  <2>5. CASE q.given[pad] = Append(g, q.taken)
    <3> DEFINE h == Append(g, q.taken)
    <3> HIDE DEF h
    <3>1. /\ Range(h) = Range(g) \cup {q.taken} /\ \A i \in DOMAIN g : h[i] = g[i]
          /\ h[Len(g) + 1] = q.taken
          /\ DOMAIN h = 1 .. Len(g) + 1 /\ DOMAIN g = 1 .. Len(g) /\ Len(g) \in Nat
      BY <2>3 DEF h
    <3>2. q.given[pad] = h /\ h = Append(g, q.taken)
      BY <2>5 DEF h
    <3> QED
      BY <3>1, <3>2 DEF g
  <2> QED
    BY <2>2, <2>4, <2>5
<1>4. ASSUME FreshPad(r, q)
      PROVE  /\ q.given[q.made] = <<q.taken>> /\ DOMAIN q.given[q.made] = {1}
             /\ q.given[q.made][1] = q.taken /\ Range(q.given[q.made]) = {q.taken}
  BY <1>4 DEF FreshPad, Range
<1>5. ASSUME NEW pad \in 1 .. q.made PROVE pad \in 1 .. r.made \/ (FreshPad(r, q) /\ pad = q.made)
  BY <1>1 DEF FreshPad
<1>6. ASSUME NEW pad \in PadsNow(q) PROVE pad \in PadsNow(r) \/ (FreshPad(r, q) /\ pad = q.made)
  BY <1>1 DEF FreshPad, PadsNow, PlayGoesOn
<1>7. ASSUME NEW pad \in 1 .. q.made PROVE Begins(q, pad)
  <2>1. CASE pad \in 1 .. r.made
    <3>1. Begins(r, pad) /\ q.stuck[pad] = r.stuck[pad]
      BY <1>2, <2>1 DEF PlayHolds, PlayGoesOn
    <3>2. 1 \in DOMAIN q.given[pad] /\ q.given[pad][1] = r.given[pad][1]
      BY <1>3, <2>1, <3>1 DEF Begins
    <3> QED
      BY <1>1, <3>1, <3>2 DEF Begins, Inherits
  <2>2. CASE FreshPad(r, q) /\ pad = q.made
    BY <1>1, <1>4, <2>2 DEF Begins, FreshPad, Inherits
  <2> QED
    BY <1>5, <2>1, <2>2
<1>8. ASSUME NEW pad \in PadsNow(q) PROVE GivenInTurn(q, pad)
  <2>1. CASE pad \in PadsNow(r)
    <3>1. GivenInTurn(r, pad) /\ pad \in 1 .. r.made /\ r.given[pad] \in Seq(Nat)
      BY <1>1, <1>2, <2>1 DEF PlayHolds
    <3>2. \A i \in DOMAIN r.given[pad] : r.given[pad][i] \in Nat /\ r.given[pad][i] < q.taken
      BY <1>1, <3>1 DEF GivenInTurn
    <3>3. CASE q.given[pad] = r.given[pad]
      BY <1>1, <3>1, <3>2, <3>3 DEF GivenInTurn
    <3>4. CASE q.given[pad] # r.given[pad]
      <4> DEFINE g == r.given[pad]
                 h == q.given[pad]
                 l == Len(g)
      <4>1. /\ DOMAIN g = 1 .. l /\ DOMAIN h = 1 .. l + 1 /\ l \in Nat /\ h[l + 1] = q.taken
            /\ \A i \in DOMAIN g : h[i] = g[i]
        BY <1>3, <3>1, <3>4
      <4>2. \A i \in 1 .. l : h[i] < q.taken /\ h[i] \in Nat
        BY <3>2, <4>1
      <4>3. \A i, j \in 1 .. l : i < j => h[i] < h[j]
        BY <3>1, <4>1 DEF GivenInTurn
      <4> HIDE DEF g, h, l
      <4>4. \A i \in 1 .. l + 1 : h[i] <= q.taken
        BY <1>1, <4>1, <4>2
      <4>5. \A i, j \in 1 .. l + 1 : i < j => h[i] < h[j]
        BY <4>1, <4>2, <4>3
      <4> QED
        BY <4>1, <4>4, <4>5 DEF GivenInTurn, h
    <3> QED
      BY <3>3, <3>4
  <2>2. CASE FreshPad(r, q) /\ pad = q.made
    BY <1>1, <1>4, <2>2 DEF GivenInTurn
  <2> QED
    BY <1>6, <2>1, <2>2
<1>9. ASSUME NEW n \in 1 .. q.taken, q.show[n].kind = "buffer"
      PROVE  \E pad \in PadsNow(q) : WentTo(q, n, pad)
  <2>1. CASE n = q.taken
    <3> DEFINE a == r.active
    <3>1. /\ q.made = r.made /\ a # NoPad /\ Gets(r, q, a)
          /\ \A pad \in 1 .. r.made : pad # a => q.given[pad] = r.given[pad]
      BY <1>1, <1>9, <2>1 DEF PlayGoesOn
    <3>2. PadsNow(q) = PadsNow(r) /\ a \in PadsNow(r)
      BY <1>2, <3>1 DEF PlayGoesOn, PadsNow, PlayHolds, InUseNow
    <3>3. n \in Range(q.given[a])
      BY <1>1, <2>1, <3>1, <3>2, AppendedFact DEF Gets
    <3>4. ASSUME NEW x \in PadsNow(r), x # a PROVE n \notin Range(q.given[x])
      <4>1. q.given[x] = r.given[x] /\ GivenInTurn(r, x) /\ r.given[x] \in Seq(Nat)
        BY <1>1, <1>2, <3>1, <3>4 DEF PlayHolds
      <4>2. \A i \in DOMAIN r.given[x] : r.given[x][i] \in Nat /\ r.given[x][i] <= r.taken
        BY <4>1 DEF GivenInTurn
      <4> QED
        BY <1>1, <2>1, <4>1, <4>2 DEF Range
    <3>5. WentTo(q, n, a)
      BY <3>2, <3>3, <3>4 DEF WentTo
    <3> QED
      BY <3>2, <3>5
  <2>2. CASE n # q.taken
    <3>1. n \in 1 .. r.taken /\ n # q.taken
      BY <1>1, <2>2
    <3>2. PICK pad \in PadsNow(r) : WentTo(r, n, pad)
      BY <1>1, <1>2, <1>9, <3>1 DEF PlayHolds
    <3>3. ASSUME NEW x \in PadsNow(r) PROVE n \in Range(q.given[x]) <=> n \in Range(r.given[x])
      BY <1>1, <1>3, <3>1
    <3>4. pad \in PadsNow(q) /\ (FreshPad(r, q) => pad # q.made)
      BY <1>1 DEF PadsNow, PlayGoesOn, FreshPad
    <3>5. ASSUME NEW x \in PadsNow(q) PROVE n \in Range(q.given[x]) <=> x = pad
      BY <1>4, <1>6, <3>1, <3>2, <3>3, <3>4 DEF WentTo
    <3> QED
      BY <3>4, <3>5 DEF WentTo
  <2> QED
    BY <2>1, <2>2
<1> QED
  BY <1>7, <1>8, <1>9 DEF PlayHolds

LEMMA TakeKeeps ==
  ASSUME NEW r, NEW q, RouterHolds(r), r.taken < Len(r.show), OnToNext(r, q), GivesOut(r, q),
         q.made = r.made \/ FreshPad(r, q), IsRouter(q), PairsGiven(r, q), PairedPads(q), Faces(q), Holds(q),
         PlayGoesOn(r, q), InUseNow(q)
  PROVE  RouterHolds(q)
<1>1. /\ r.taken \in Nat /\ r.made \in Nat /\ \A pad \in 1 .. r.made : r.given[pad] \in Seq(Nat)
  BY PlainFact
<1>2. /\ StreamPads(q) /\ \A pad \in 1 .. r.made : IdsIn(q, pad) = IdsIn(r, pad)
      /\ FreshPad(r, q) => IdsIn(q, q.made) = {r.show[q.taken].id}
  BY TakeShape
<1>3. ASSUME NEW p \in q.pairs PROVE GivenAll(q, p)
  <2>1. CASE p \in r.pairs /\ (OwedTo(r.show, q.taken, p.id) => Gets(r, q, p.pad))
    <3>1. p.pad \in 1 .. r.made /\ GivenAll(r, p) /\ IdsIn(r, p.pad) = {p.id}
      BY <2>1 DEF RouterHolds, IsRouter, GivenAll
    <3>2. r.given[p.pad] \in Seq(Nat)
      BY <1>1, <3>1
    <3>3. CASE q.given[p.pad] = r.given[p.pad] /\ ~OwedTo(r.show, q.taken, p.id)
      BY <1>1, <3>1, <3>2, <3>3, GivenKeeps
    <3>4. CASE Gets(r, q, p.pad)
      <4>1. ShowsId(r.show, q.taken) => r.show[q.taken].id = p.id
        <5>1. CASE q.given[p.pad] = r.given[p.pad]
          <6>1. Len(q.given[p.pad]) = Len(r.given[p.pad]) + 1 /\ Len(r.given[p.pad]) \in Nat
            BY <1>1, <3>2, <3>4, AppendedFact DEF Gets, OnToNext
          <6> QED
            BY <5>1, <6>1
        <5>2. CASE ShowsId(r.show, q.taken) => IdsIn(r, p.pad) = {r.show[q.taken].id}
          BY <3>1, <5>2
        <5> QED
          BY <3>1, <5>1, <5>2 DEF GivesOut
      <4> QED
        BY <1>1, <3>1, <3>2, <3>4, <4>1, GivenKeeps
    <3> QED
      BY <2>1, <3>1, <3>3, <3>4 DEF GivesOut
  <2>2. CASE FreshPad(r, q) /\ p.pad = q.made /\ p.id = r.show[q.taken].id
    <3>1. IdsIn(q, p.pad) = {p.id} /\ q.given[p.pad] = <<q.taken>> /\ q.taken \in Nat
      BY <1>1, <1>2, <2>2 DEF FreshPad, OnToNext
    <3>2. Range(q.given[p.pad]) = {q.taken} /\ DOMAIN q.given[p.pad] = {1} /\ q.given[p.pad][1] = q.taken
      BY <3>1 DEF Range
    <3> QED
      BY <3>1, <3>2 DEF GivenAll
  <2> QED
    BY <2>1, <2>2 DEF PairsGiven
<1>4. PlayHolds(q)
  BY PlayKeeps
<1> QED
  BY <1>2, <1>3, <1>4 DEF RouterHolds

(* The place of the next item in the show.                                  *)
LEMMA LastFact ==
  ASSUME NEW r, RouterHolds(r), r.taken < Len(r.show), NEW q, OnToNext(r, q)
  PROVE  /\ q.taken \in Nat /\ q.taken \in DOMAIN r.show /\ q.taken \in 0 .. Len(r.show) /\ q.show = r.show
         /\ SoundShow(r.show) /\ LastOf(r.show, q.taken - 1, "collection") = LastOf(r.show, r.taken, "collection")
         /\ \A kind : r.show[q.taken].kind = kind => LastOf(q.show, q.taken, kind) = {q.taken}
         /\ \A kind : r.show[q.taken].kind # kind =>
               LastOf(q.show, q.taken, kind) = LastOf(r.show, r.taken, kind)
<1> DEFINE n == r.taken + 1
<1>1. /\ Len(r.show) \in Nat /\ r.taken \in Nat /\ n \in DOMAIN r.show /\ n \in 1 .. Len(r.show) /\ n \in Nat
  BY PlainFact
<1>2. SoundShow(r.show)
  BY DEF RouterHolds, IsRouter
<1>3. q.taken = n /\ q.show = r.show /\ n - 1 = r.taken
  BY <1>1 DEF OnToNext
<1>4. /\ \A kind : r.show[n].kind = kind => LastOf(r.show, n, kind) = {n}
      /\ \A kind : r.show[n].kind # kind => LastOf(r.show, n, kind) = LastOf(r.show, n - 1, kind)
  BY <1>1, <1>2, NextItem
<1> QED
  BY <1>1, <1>2, <1>3, <1>4

(* The item goes to the active pad.                                         *)
LEMMA SentFact ==
  ASSUME NEW r, IsRouter(r), r.active # NoPad, NEW q, q = Sent(r)
  PROVE  /\ IsRouter(q) /\ q.given[r.active] = Append(r.given[r.active], r.taken)
         /\ \A pad \in 1 .. r.made : pad # r.active => q.given[pad] = r.given[pad]
         /\ q.show = r.show /\ q.taken = r.taken /\ q.made = r.made /\ q.table = r.table
         /\ q.pairs = r.pairs /\ q.pads = r.pads /\ q.active = r.active /\ q.held = r.held
         /\ r.active \in 1 .. r.made /\ q.stuck = r.stuck /\ q.since = r.since
<1> DEFINE a == r.active
           e == Append(r.given[a], r.taken)
<1>1. /\ r = [x \in RouterFields |-> r[x]] /\ r.taken \in 0 .. Len(r.show) /\ r.made \in Nat
      /\ a \in 0 .. r.made /\ r.given \in Seq(Seq(Nat)) /\ Len(r.given) = r.made /\ SoundShow(r.show)
  BY DEF IsRouter
<1>2. r.show \in Seq(Range(r.show))
  BY <1>1 DEF SoundShow
<1>3. r.taken \in Nat
  <2>1. Len(r.show) \in Nat
    BY <1>2
  <2> QED
    BY <1>1, <2>1
<1>4. a \in 1 .. r.made /\ DOMAIN r.given = 1 .. r.made
  BY <1>1 DEF NoPad
<1>5. e \in Seq(Nat)
  <2>1. r.given[a] \in Seq(Nat)
    BY <1>1, <1>4
  <2> QED
    BY <1>3, <2>1
<1>6. q = [r EXCEPT !.given = [r.given EXCEPT ![a] = e]]
  BY <1>1 DEF Sent, RouterFields
<1> HIDE DEF e
<1>7. q.given = [r.given EXCEPT ![a] = e]
  BY <1>1, <1>6 DEF RouterFields
<1>8. /\ q = [x \in RouterFields |-> q[x]] /\ q.show = r.show /\ q.taken = r.taken /\ q.made = r.made
      /\ q.table = r.table /\ q.pairs = r.pairs /\ q.pads = r.pads /\ q.active = r.active /\ q.held = r.held
      /\ q.stuck = r.stuck /\ q.since = r.since
  BY <1>1, <1>6 DEF RouterFields
<1>9. q.given \in Seq(Seq(Nat)) /\ Len(q.given) = r.made
  <2> DEFINE g == r.given
  <2>1. g \in Seq(Seq(Nat)) /\ a \in DOMAIN g /\ Len(g) = r.made
    BY <1>1, <1>4
  <2> HIDE DEF g
  <2>2. [g EXCEPT ![a] = e] \in Seq(Seq(Nat)) /\ Len([g EXCEPT ![a] = e]) = Len(g)
    BY <1>5, <2>1
  <2> QED
    BY <1>7, <2>1, <2>2 DEF g
<1>10. IsRouter(q)
  BY <1>8, <1>9 DEF IsRouter
<1>11. q.given[a] = e /\ \A pad \in 1 .. r.made : pad # a => q.given[pad] = r.given[pad]
  BY <1>4, <1>7
<1> QED
  BY <1>4, <1>8, <1>10, <1>11 DEF e

(* The next item is of the stream announced last, whose pad is active.      *)
LEMMA FacedFact ==
  ASSUME NEW r, RouterHolds(r), NEW m \in LastOf(r.show, r.taken, "stream-start")
  PROVE  /\ r.active # NoPad /\ IdsIn(r, r.active) = {r.show[m].id}
         /\ \A p \in r.pairs : p.pad = r.active <=> p.id = r.show[m].id
<1>1. /\ r.active # NoPad /\ IdsIn(r, r.active) = {r.show[m].id}
      /\ r.table => [id |-> r.show[m].id, pad |-> r.active] \in r.pairs
  BY DEF RouterHolds, Faces
<1>2. ASSUME NEW p \in r.pairs PROVE p.pad = r.active <=> p.id = r.show[m].id
  <2>1. r.table /\ IdsIn(r, p.pad) = {p.id}
    BY DEF RouterHolds, IsRouter, GivenAll
  <2>2. p.id = r.show[m].id => p.pad = r.active
    BY <1>1, <2>1 DEF RouterHolds, PairedPads
  <2> QED
    BY <1>1, <2>1, <2>2
<1> QED
  BY <1>1, <1>2

(* A buffer.                                                                *)
LEMMA BufferKeeps ==
  ASSUME NEW r, NEW q, RouterHolds(r), r.taken < Len(r.show), r.show[r.taken + 1].kind = "buffer",
         q = Sent([r EXCEPT !.taken = @ + 1])
  PROVE  RouterHolds(q)
<1> DEFINE n == r.taken + 1
           u == [r EXCEPT !.taken = n]
<1>1. IsRouter(r) /\ PairedPads(r) /\ Faces(r) /\ Holds(r)
  BY DEF RouterHolds
<1>2. /\ u = [x \in RouterFields |-> u[x]] /\ u.show = r.show /\ u.taken = n /\ u.made = r.made
      /\ u.table = r.table /\ u.pairs = r.pairs /\ u.pads = r.pads /\ u.active = r.active
      /\ u.held = r.held /\ u.given = r.given /\ u.stuck = r.stuck /\ u.since = r.since
  BY <1>1 DEF IsRouter, RouterFields
<1> HIDE DEF u
<1>3. OnToNext(r, u)
  BY <1>2 DEF OnToNext
<1>4. /\ n \in Nat /\ n \in DOMAIN r.show /\ n \in 0 .. Len(r.show) /\ SoundShow(r.show)
      /\ LastOf(r.show, n, "stream-start") = LastOf(r.show, r.taken, "stream-start")
      /\ LastOf(r.show, n, "collection") = LastOf(r.show, r.taken, "collection")
  <2>1. /\ u.taken \in Nat /\ u.taken \in DOMAIN r.show /\ u.taken \in 0 .. Len(r.show)
        /\ SoundShow(r.show)
        /\ \A kind : r.show[u.taken].kind # kind =>
              LastOf(u.show, u.taken, kind) = LastOf(r.show, r.taken, kind)
    BY <1>3, LastFact
  <2>2. r.show[n].kind = "buffer"
    OBVIOUS
  <2> HIDE DEF n
  <2>3. /\ LastOf(r.show, n, "stream-start") = LastOf(r.show, r.taken, "stream-start")
        /\ LastOf(r.show, n, "collection") = LastOf(r.show, r.taken, "collection")
    BY <1>2, <2>1, <2>2
  <2> QED
    BY <1>2, <2>1, <2>3
<1>5. PICK m \in LastOf(r.show, r.taken, "stream-start") : r.show[m].id = r.show[n].id
  BY <1>4 DEF SoundShow
<1>6. /\ r.active # NoPad /\ IdsIn(r, r.active) = {r.show[n].id}
      /\ \A p \in r.pairs : p.pad = r.active <=> p.id = r.show[n].id
  BY <1>5, FacedFact
<1>7. IsRouter(u)
  BY <1>1, <1>2, <1>4 DEF IsRouter
<1>8. /\ IsRouter(q) /\ q.given[r.active] = Append(r.given[r.active], n)
      /\ \A pad \in 1 .. r.made : pad # r.active => q.given[pad] = r.given[pad]
      /\ q.show = r.show /\ q.taken = n /\ q.made = r.made /\ q.table = r.table
      /\ q.pairs = r.pairs /\ q.pads = r.pads /\ q.active = r.active /\ q.held = r.held
      /\ r.active \in 1 .. r.made /\ q.stuck = r.stuck /\ q.since = r.since
  <2>1. q = Sent(u) /\ u.active # NoPad
    BY <1>2, <1>6 DEF u
  <2>2. /\ IsRouter(q) /\ q.given[u.active] = Append(u.given[u.active], u.taken)
        /\ \A pad \in 1 .. u.made : pad # u.active => q.given[pad] = u.given[pad]
        /\ q.show = u.show /\ q.taken = u.taken /\ q.made = u.made /\ q.table = u.table
        /\ q.pairs = u.pairs /\ q.pads = u.pads /\ q.active = u.active /\ q.held = u.held
        /\ u.active \in 1 .. u.made /\ q.stuck = u.stuck /\ q.since = u.since
    BY <1>7, <2>1, SentFact
  <2> HIDE DEF n
  <2> QED
    BY <1>2, <2>2
<1>9. OnToNext(r, q) /\ Gets(r, q, r.active)
  BY <1>8 DEF OnToNext, Gets
<1>10. GivesOut(r, q)
  BY <1>6, <1>8, <1>9 DEF GivesOut
<1>11. PairsGiven(r, q)
  BY <1>6, <1>8, <1>9 DEF PairsGiven, OwedTo
<1>12. \A pad \in 1 .. r.made : IdsIn(q, pad) = IdsIn(r, pad)
  BY <1>8, <1>9, <1>10, TakeShape
<1>13. Faces(q)
  BY <1>1, <1>4, <1>8, <1>12 DEF Faces
<1>14. Holds(q) /\ PairedPads(q)
  BY <1>1, <1>4, <1>8 DEF Holds, PairedPads
<1>15. PlayGoesOn(r, q) /\ InUseNow(q)
  BY <1>6, <1>8, <1>9 DEF PlayGoesOn, InUseNow, PadsNow, RouterHolds, PlayHolds
<1> QED
  BY <1>8, <1>9, <1>10, <1>11, <1>13, <1>14, <1>15, TakeKeeps

(* The item is taken from the show.                                         *)
LEMMA TakenFact ==
  ASSUME NEW r, RouterHolds(r), r.taken < Len(r.show), NEW u, u = [r EXCEPT !.taken = r.taken + 1]
  PROVE  /\ IsRouter(u) /\ OnToNext(r, u) /\ u.show = r.show /\ u.taken = r.taken + 1 /\ u.made = r.made
         /\ u.table = r.table /\ u.pairs = r.pairs /\ u.pads = r.pads /\ u.active = r.active
         /\ u.held = r.held /\ u.given = r.given /\ u.stuck = r.stuck /\ u.since = r.since
         /\ u.taken \in Nat
<1>1. /\ IsRouter(r) /\ r = [x \in RouterFields |-> r[x]]
  BY DEF RouterHolds, IsRouter
<1>2. r.taken + 1 \in Nat /\ r.taken + 1 \in 1 .. Len(r.show) /\ Len(r.show) \in Nat
  BY PlainFact
<1> DEFINE n == r.taken + 1
<1> HIDE DEF n
<1>3. /\ u = [x \in RouterFields |-> u[x]] /\ u.show = r.show /\ u.taken = n /\ u.made = r.made
      /\ u.table = r.table /\ u.pairs = r.pairs /\ u.pads = r.pads /\ u.active = r.active
      /\ u.held = r.held /\ u.given = r.given /\ u.stuck = r.stuck /\ u.since = r.since
  BY <1>1 DEF RouterFields, n
<1>4. n \in 0 .. Len(r.show) /\ n \in Nat
  BY <1>2 DEF n
<1>5. IsRouter(u)
  BY <1>1, <1>3, <1>4 DEF IsRouter
<1> QED
  BY <1>3, <1>4, <1>5 DEF OnToNext, n

LEMMA NextPlaces ==
  ASSUME NEW r, RouterHolds(r), r.taken < Len(r.show), NEW n, n = r.taken + 1
  PROVE  /\ \A kind \in {"stream-start", "collection"} :
              LastOf(r.show, n, kind) = IF r.show[n].kind = kind THEN {n} ELSE LastOf(r.show, r.taken, kind)
         /\ n - 1 = r.taken /\ n \in Nat /\ n \in DOMAIN r.show /\ SoundShow(r.show)
<1>1. /\ Len(r.show) \in Nat /\ r.taken \in Nat /\ n \in DOMAIN r.show /\ n \in 1 .. Len(r.show) /\ n \in Nat
  BY PlainFact
<1>2. SoundShow(r.show) /\ n - 1 = r.taken
  BY <1>1 DEF RouterHolds, IsRouter
<1>3. /\ \A kind : r.show[n].kind = kind => LastOf(r.show, n, kind) = {n}
      /\ \A kind : r.show[n].kind # kind => LastOf(r.show, n, kind) = LastOf(r.show, n - 1, kind)
  BY <1>1, <1>2, NextItem
<1> QED
  BY <1>1, <1>2, <1>3

(* A stream that has a pad is announced again.                              *)
LEMMA KnownKeeps ==
  ASSUME NEW r, NEW q, NEW u, RouterHolds(r), r.taken < Len(r.show),
         r.show[r.taken + 1].kind = "stream-start", u = [r EXCEPT !.taken = r.taken + 1],
         NEW id, id = r.show[r.taken + 1].id, PadFor(u, id) # NoPad,
         q = Sent([u EXCEPT !.active = PadFor(u, id)])
  PROVE  RouterHolds(q)
<1> DEFINE n == r.taken + 1
           known == {p \in u.pairs : p.id = id}
           pad == PadFor(u, id)
           v == [u EXCEPT !.active = pad]
<1>1. /\ IsRouter(u) /\ OnToNext(r, u) /\ u.show = r.show /\ u.taken = n /\ u.made = r.made
      /\ u.table = r.table /\ u.pairs = r.pairs /\ u.pads = r.pads /\ u.active = r.active
      /\ u.held = r.held /\ u.given = r.given /\ u.stuck = r.stuck /\ u.since = r.since /\ n \in Nat
  BY TakenFact
<1>2. \E p \in r.pairs : p.id = id /\ pad = p.pad
  <2>1. known # {}
    BY DEF PadFor
  <2>2. pad = (CHOOSE p \in known : TRUE).pad
    BY <2>1 DEF PadFor
  <2>3. (CHOOSE p \in known : TRUE) \in known
    BY <2>1
  <2> QED
    BY <1>1, <2>2, <2>3
<1>3. PICK p \in r.pairs : p.id = id /\ pad = p.pad
  BY <1>2
<1>4. /\ pad \in r.pads /\ p = [id |-> p.id, pad |-> p.pad] /\ pad \in 1 .. r.made /\ r.made \in Nat
      /\ IdsIn(r, pad) = {id}
  BY <1>3 DEF RouterHolds, IsRouter, GivenAll
<1> HIDE DEF pad, n
<1>5. /\ v = [x \in RouterFields |-> v[x]] /\ v.show = r.show /\ v.taken = n /\ v.made = r.made
      /\ v.table = r.table /\ v.pairs = r.pairs /\ v.pads = r.pads /\ v.active = pad
      /\ v.held = r.held /\ v.given = r.given /\ v.stuck = r.stuck /\ v.since = r.since
  BY <1>1 DEF IsRouter, RouterFields
<1> HIDE DEF v
<1>6. IsRouter(v) /\ v.active # NoPad
  <2>1. v.active \in 0 .. v.made /\ v.active # NoPad
    BY <1>4, <1>5 DEF NoPad
  <2> QED
    BY <1>1, <1>5, <2>1 DEF IsRouter
<1>7. q = Sent(v)
  BY DEF v, pad
<1>8. /\ IsRouter(q) /\ q.given[v.active] = Append(v.given[v.active], v.taken)
      /\ \A x \in 1 .. v.made : x # v.active => q.given[x] = v.given[x]
      /\ q.stuck = v.stuck /\ q.since = v.since
      /\ q.show = v.show /\ q.taken = v.taken /\ q.made = v.made /\ q.table = v.table
      /\ q.pairs = v.pairs /\ q.pads = v.pads /\ q.active = v.active /\ q.held = v.held
  BY <1>6, <1>7, SentFact
<1>9. /\ q.given[pad] = Append(r.given[pad], n)
      /\ \A x \in 1 .. r.made : x # pad => q.given[x] = r.given[x]
      /\ q.stuck = r.stuck /\ q.since = r.since
      /\ q.show = r.show /\ q.taken = n /\ q.made = r.made /\ q.table = r.table
      /\ q.pairs = r.pairs /\ q.pads = r.pads /\ q.active = pad /\ q.held = r.held
  BY <1>5, <1>8
<1>10. OnToNext(r, q) /\ Gets(r, q, pad)
  BY <1>9 DEF OnToNext, Gets, n
<1>11. /\ r.show[n].kind = "stream-start" /\ id = r.show[n].id
  BY DEF n
<1>12. GivesOut(r, q)
  BY <1>4, <1>9, <1>10, <1>11 DEF GivesOut
<1>13. PairsGiven(r, q)
  BY <1>9, <1>11 DEF PairsGiven, OwedTo
<1>14. \A x \in 1 .. r.made : IdsIn(q, x) = IdsIn(r, x)
  BY <1>9, <1>10, <1>12, TakeShape
<1>15. /\ \A kind \in {"stream-start", "collection"} :
           LastOf(r.show, n, kind) = IF r.show[n].kind = kind THEN {n} ELSE LastOf(r.show, r.taken, kind)
       /\ n - 1 = r.taken /\ n \in Nat /\ n \in DOMAIN r.show
  BY NextPlaces DEF n
<1>16. /\ LastOf(q.show, q.taken, "stream-start") = {n}
       /\ LastOf(q.show, q.taken, "collection") = LastOf(r.show, r.taken, "collection")
  BY <1>9, <1>11, <1>15
<1>17. Faces(q)
  <2>1. q.active # NoPad /\ IdsIn(q, q.active) = {id}
    BY <1>4, <1>9, <1>14 DEF NoPad
  <2>2. [id |-> id, pad |-> pad] \in q.pairs
    BY <1>3, <1>4, <1>9
  <2>3. LastOf(q.show, q.taken, "stream-start") = {n} /\ q.show[n].id = id
    BY <1>9, <1>11, <1>16
  <2> QED
    BY <1>9, <2>1, <2>2, <2>3 DEF Faces
<1>18. Holds(q) /\ PairedPads(q)
  <2>1. Holds(r) /\ PairedPads(r)
    BY DEF RouterHolds
  <2>2. q.active \in q.pads
    BY <1>4, <1>9
  <2>3. PairedPads(q)
    BY <1>9, <2>1, <2>2 DEF PairedPads
  <2>4. Holds(q)
    BY <1>9, <1>11, <1>16, <2>1 DEF Holds
  <2> QED
    BY <2>3, <2>4
<1>19. PlayGoesOn(r, q)
  BY <1>9, <1>11 DEF PlayGoesOn
<1>20. InUseNow(q)
  <2>1. InUseNow(r)
    BY DEF RouterHolds, PlayHolds
  <2> QED
    BY <1>3, <1>9, <2>1 DEF InUseNow, PadsNow
<1> QED
  BY <1>8, <1>9, <1>10, <1>12, <1>13, <1>17, <1>18, <1>19, <1>20, TakeKeeps

(* A stream that has none is announced: a pad is made for it.               *)
WithNew(u, id, q) ==
  /\ IsRouter(q) /\ q.show = u.show /\ q.taken = u.taken /\ q.made = u.made + 1 /\ q.table = u.table
  /\ q.given[u.made + 1] = <<u.taken>> /\ q.active = u.made + 1 /\ q.held = u.held
  /\ \A x \in 1 .. u.made : q.given[x] = u.given[x]
  /\ q.pads = u.pads \cup {u.made + 1}
  /\ q.since = u.since /\ q.stuck[u.made + 1] = Sticky(u)
  /\ \A x \in 1 .. u.made : q.stuck[x] = u.stuck[x]
  /\ u.table => q.pairs = u.pairs \cup {[id |-> id, pad |-> u.made + 1]}
  /\ ~u.table => q.pairs = u.pairs

LEMMA MadeFact ==
  ASSUME NEW u, NEW id, NEW q, IsRouter(u), u.taken \in Nat, q = Sent(Made(u, id))
  PROVE  WithNew(u, id, q)
<1> DEFINE v == Made(u, id)
           pad == u.made + 1
           g == Append(u.given, << >>)
           h == Append(u.stuck, Sticky(u))
<1>1. /\ u = [x \in RouterFields |-> u[x]] /\ u.taken \in 0 .. Len(u.show) /\ u.made \in Nat
      /\ u.given \in Seq(Seq(Nat)) /\ Len(u.given) = u.made /\ SoundShow(u.show)
      /\ u.pads \subseteq 1 .. u.made /\ u.table \in BOOLEAN /\ (~u.table => u.pairs = {})
      /\ \A p \in u.pairs : p = [id |-> p.id, pad |-> p.pad] /\ p.pad \in u.pads
      /\ u.stuck \in Seq(SUBSET Nat) /\ Len(u.stuck) = u.made /\ u.since \in 0 .. u.made
  BY DEF IsRouter
<1>2. /\ g \in Seq(Seq(Nat)) /\ Len(g) = pad /\ g[pad] = << >> /\ pad \in Nat /\ pad \in 1 .. pad
      /\ \A x \in 1 .. u.made : g[x] = u.given[x]
  <2> DEFINE s == u.given
             e == << >>
  <2>1. e \in Seq(Nat) /\ s \in Seq(Seq(Nat)) /\ Len(s) = u.made /\ u.made \in Nat
    BY <1>1
  <2>2. g = Append(s, e) /\ pad = Len(s) + 1
    BY <1>1
  <2> HIDE DEF s, e, g
  <2>3. /\ g \in Seq(Seq(Nat)) /\ (\A i \in DOMAIN s : g[i] = s[i]) /\ g[Len(s) + 1] = e
        /\ DOMAIN s = 1 .. Len(s) /\ Len(g) = Len(s) + 1
    BY <2>1, <2>2, AppendedFact
  <2> QED
    BY <2>1, <2>2, <2>3 DEF s, e
<1>3. /\ h \in Seq(SUBSET Nat) /\ Len(h) = pad /\ h[pad] = Sticky(u)
       /\ \A x \in 1 .. u.made : h[x] = u.stuck[x]
  <2> DEFINE s == u.stuck
             e == Sticky(u)
  <2>1. e \in SUBSET Nat
    BY <1>1 DEF Sticky, LastOf
  <2>2. s \in Seq(SUBSET Nat) /\ Len(s) = u.made /\ u.made \in Nat
    BY <1>1
  <2>3. h = Append(s, e) /\ pad = Len(s) + 1
    BY <1>1
  <2> HIDE DEF s, e, h
  <2>4. /\ h \in Seq(SUBSET Nat) /\ (\A i \in DOMAIN s : h[i] = s[i]) /\ h[Len(s) + 1] = e
        /\ DOMAIN s = 1 .. Len(s) /\ Len(h) = Len(s) + 1
    BY <2>1, <2>2, <2>3, AppendedFact
  <2> QED
    BY <2>2, <2>3, <2>4 DEF s, e
<1> HIDE DEF g, h
<1>4. /\ v = [x \in RouterFields |-> v[x]] /\ v.show = u.show /\ v.taken = u.taken /\ v.made = pad
      /\ v.table = u.table /\ v.pads = u.pads \cup {pad} /\ v.active = pad
      /\ v.held = u.held /\ v.given = g /\ v.stuck = h /\ v.since = u.since
      /\ v.pairs = IF u.table THEN u.pairs \cup {[id |-> id, pad |-> pad]} ELSE u.pairs
  BY <1>1 DEF Made, RouterFields, g, h
<1> HIDE DEF v
<1>5. \A p \in v.pairs : p = [id |-> p.id, pad |-> p.pad] /\ p.pad \in v.pads
  <2> SUFFICES ASSUME NEW p \in v.pairs PROVE p = [id |-> p.id, pad |-> p.pad] /\ p.pad \in v.pads
    OBVIOUS
  <2>1. CASE p \in u.pairs
    <3>1. p = [id |-> p.id, pad |-> p.pad] /\ p.pad \in u.pads
      BY <1>1, <2>1
    <3> QED
      BY <1>4, <3>1
  <2>2. CASE p = [id |-> id, pad |-> pad]
    BY <1>4, <2>2
  <2> QED
    BY <1>4, <2>1, <2>2
<1>6. /\ v.pads \subseteq 1 .. pad /\ v.active \in 0 .. pad /\ v.active # NoPad
      /\ (~v.table => v.pairs = {}) /\ v.since \in 0 .. pad
  <2>1. \A x \in u.pads \cup {pad} : x \in 1 .. pad
    <3>1. \A x \in 1 .. u.made : x \in 1 .. pad
      BY <1>1
    <3>2. pad \in 1 .. pad
      BY <1>1
    <3> HIDE DEF pad
    <3> QED
      BY <1>1, <3>1, <3>2
  <2>2. pad \in 0 .. pad /\ pad # 0 /\ u.since \in 0 .. pad
    BY <1>1
  <2> HIDE DEF pad
  <2> QED
    BY <1>1, <1>4, <2>1, <2>2 DEF NoPad
<1> HIDE DEF pad
<1>7. IsRouter(v)
  BY <1>1, <1>2, <1>4, <1>5, <1>6, <1>3 DEF IsRouter
<1>8. /\ IsRouter(q) /\ q.given[v.active] = Append(v.given[v.active], v.taken)
      /\ \A x \in 1 .. v.made : x # v.active => q.given[x] = v.given[x]
      /\ q.stuck = v.stuck /\ q.since = v.since
      /\ q.show = v.show /\ q.taken = v.taken /\ q.made = v.made /\ q.table = v.table
      /\ q.pairs = v.pairs /\ q.pads = v.pads /\ q.active = v.active /\ q.held = v.held
  <2>1. q = Sent(v)
    BY DEF v
  <2> QED
    BY <1>6, <1>7, <2>1, SentFact
<1>9. q.given[pad] = <<u.taken>>
  <2>1. q.given[pad] = Append(g[pad], u.taken)
    BY <1>4, <1>8
  <2>2. q.given[pad] = Append(<< >>, u.taken)
    BY <1>2, <2>1
  <2> QED
    BY <2>2
<1>10. \A x \in 1 .. u.made : q.given[x] = u.given[x]
  <2> SUFFICES ASSUME NEW x \in 1 .. u.made PROVE q.given[x] = u.given[x]
    OBVIOUS
  <2>1. x \in 1 .. pad /\ x # pad
    BY <1>1 DEF pad
  <2> QED
    BY <1>2, <1>4, <1>8, <2>1
<1> QED
  BY <1>4, <1>8, <1>9, <1>10, <1>3 DEF pad, WithNew

LEMMA MadeKeeps ==
  ASSUME NEW r, NEW q, NEW u, RouterHolds(r), r.taken < Len(r.show),
         r.show[r.taken + 1].kind = "stream-start", u = [r EXCEPT !.taken = r.taken + 1],
         NEW id, id = r.show[r.taken + 1].id, PadFor(u, id) = NoPad, q = Sent(Made(u, id))
  PROVE  RouterHolds(q)
<1> DEFINE n == r.taken + 1
           pad == r.made + 1
<1>1. /\ IsRouter(u) /\ OnToNext(r, u) /\ u.show = r.show /\ u.taken = n /\ u.made = r.made
      /\ u.table = r.table /\ u.pairs = r.pairs /\ u.pads = r.pads /\ u.active = r.active
      /\ u.held = r.held /\ u.given = r.given /\ u.stuck = r.stuck /\ u.since = r.since /\ n \in Nat
  BY TakenFact
<1>2. \A p \in r.pairs : p.id # id
  <2> DEFINE known == {p \in u.pairs : p.id = id}
  <2>1. CASE known # {}
    <3> DEFINE c == CHOOSE p \in known : TRUE
    <3>1. c \in known
      BY <2>1
    <3>2. c \in u.pairs /\ PadFor(u, id) = c.pad
      BY <2>1, <3>1 DEF PadFor
    <3>3. c.pad \in 1 .. u.made /\ u.made \in Nat
      BY <1>1, <3>2 DEF IsRouter
    <3> QED
      BY <3>2, <3>3 DEF NoPad
  <2> QED
    BY <1>1, <2>1
<1>3. WithNew(u, id, q)
  <2>1. IsRouter(u) /\ u.taken \in Nat
    BY <1>1
  <2> QED
    BY <2>1, MadeFact
<1> HIDE DEF n
<1>4. /\ q.show = r.show /\ q.taken = n /\ q.made = pad /\ q.table = r.table /\ q.active = pad
      /\ q.held = r.held /\ q.given[pad] = <<n>> /\ (\A x \in 1 .. r.made : q.given[x] = r.given[x])
      /\ q.pads = r.pads \cup {pad}
      /\ q.pairs = IF r.table THEN r.pairs \cup {[id |-> id, pad |-> pad]} ELSE r.pairs
  BY <1>1, <1>3 DEF WithNew
<1>5. r.show[n].kind = "stream-start" /\ id = r.show[n].id
  BY DEF n
<1>6. /\ q.since = r.since /\ q.stuck[pad] = Sticky(u)
       /\ \A x \in 1 .. r.made : q.stuck[x] = r.stuck[x]
  BY <1>1, <1>3 DEF WithNew
<1>7. OnToNext(r, q) /\ FreshPad(r, q)
  <2>1. \A x \in Sticky(u) : Inherits(r, x, n)
    BY <1>1 DEF Sticky, LastOf, Inherits
  <2> QED
    BY <1>4, <1>5, <1>6, <2>1 DEF OnToNext, FreshPad, n
<1>8. GivesOut(r, q)
  BY <1>4 DEF GivesOut
<1>9. r.table \in BOOLEAN /\ r.made \in Nat /\ (~r.table => r.pairs = {})
  BY DEF RouterHolds, IsRouter
<1>10. PairsGiven(r, q)
  <2> SUFFICES ASSUME NEW p \in q.pairs
               PROVE  \/ p \in r.pairs /\ (OwedTo(r.show, q.taken, p.id) => Gets(r, q, p.pad))
                      \/ FreshPad(r, q) /\ p.pad = q.made /\ p.id = r.show[q.taken].id
    BY DEF PairsGiven
  <2>1. CASE p \in r.pairs
    BY <1>4, <1>5, <2>1 DEF OwedTo
  <2>2. CASE p = [id |-> id, pad |-> pad]
    BY <1>4, <1>5, <1>7, <2>2
  <2> QED
    BY <1>4, <2>1, <2>2
<1>11. IdsIn(q, q.made) = {r.show[q.taken].id}
  BY <1>7, <1>8, TakeShape
<1>12. /\ \A kind \in {"stream-start", "collection"} :
           LastOf(r.show, n, kind) = IF r.show[n].kind = kind THEN {n} ELSE LastOf(r.show, r.taken, kind)
       /\ n - 1 = r.taken /\ n \in Nat /\ n \in DOMAIN r.show
  BY NextPlaces DEF n
<1>13. /\ LastOf(q.show, q.taken, "stream-start") = {n}
       /\ LastOf(q.show, q.taken, "collection") = LastOf(r.show, r.taken, "collection")
  BY <1>4, <1>5, <1>12
<1>14. Faces(q)
  <2>1. q.active # NoPad
    BY <1>4, <1>9 DEF NoPad
  <2>2. IdsIn(q, q.active) = {r.show[n].id}
    BY <1>4, <1>11
  <2>3. q.table => [id |-> q.show[n].id, pad |-> q.active] \in q.pairs
    BY <1>4, <1>5
  <2> QED
    BY <1>4, <1>13, <2>1, <2>2, <2>3 DEF Faces
<1>15. Holds(q)
  BY <1>4, <1>13 DEF Holds, RouterHolds
<1>16. PairedPads(q)
  <2>1. ASSUME NEW x \in q.pairs, NEW y \in q.pairs, x.id = y.id PROVE x = y
    <3>1. CASE x \in r.pairs /\ y \in r.pairs
      BY <2>1, <3>1 DEF RouterHolds, PairedPads
    <3>2. CASE x \notin r.pairs
      <4>1. x = [id |-> id, pad |-> pad]
        BY <1>4, <3>2
      <4> QED
        BY <1>2, <1>4, <2>1, <4>1
    <3>3. CASE y \notin r.pairs
      <4>1. y = [id |-> id, pad |-> pad]
        BY <1>4, <3>3
      <4> QED
        BY <1>2, <1>4, <2>1, <4>1
    <3> QED
      BY <3>1, <3>2, <3>3
  <2> QED
    BY <1>4, <2>1 DEF PairedPads
<1>17. PlayGoesOn(r, q)
  BY <1>4, <1>5, <1>6 DEF PlayGoesOn
<1>18. InUseNow(q)
  <2>1. InUseNow(r) /\ r.since \in 0 .. r.made
    BY DEF RouterHolds, PlayHolds, IsRouter
  <2>2. pad \in PadsNow(q) /\ PadsNow(r) \subseteq PadsNow(q)
    <3>1. \A m \in Nat : \A o \in 0 .. m : m + 1 \in o + 1 .. m + 1 /\
            \A x \in o + 1 .. m : x \in o + 1 .. m + 1
      OBVIOUS
    <3>2. PadsNow(q) = r.since + 1 .. r.made + 1 /\ PadsNow(r) = r.since + 1 .. r.made
      BY <1>4, <1>6 DEF PadsNow
    <3> QED
      BY <1>9, <2>1, <3>1, <3>2
  <2> QED
    BY <1>4, <2>1, <2>2 DEF InUseNow
<1> QED
  BY <1>3, <1>4, <1>7, <1>8, <1>10, <1>14, <1>15, <1>16, <1>17, <1>18, TakeKeeps DEF WithNew

(* A collection takes the place of another: the pads of that go, but the    *)
(* active one is not among them.                                            *)
GonePairs(r, ids) == IF r.held = ids THEN {} ELSE {p \in r.pairs : p.id \in r.held}
LEMMA NotGone ==
  ASSUME NEW r, RouterHolds(r), r.taken < Len(r.show), r.show[r.taken + 1].kind = "collection",
         r.active # NoPad, NEW p \in GonePairs(r, r.show[r.taken + 1].ids)
  PROVE  p.pad # r.active
<1> DEFINE n == r.taken + 1
<1>1. r.held # r.show[n].ids /\ p \in r.pairs /\ p.id \in r.held
  BY DEF GonePairs
<1>2. /\ \A kind \in {"stream-start", "collection"} :
           LastOf(r.show, n, kind) = IF r.show[n].kind = kind THEN {n} ELSE LastOf(r.show, r.taken, kind)
      /\ n - 1 = r.taken /\ n \in Nat /\ n \in DOMAIN r.show /\ SoundShow(r.show)
  BY NextPlaces
<1>3. r.table
  BY <1>1 DEF RouterHolds, IsRouter
<1>4. PICK m \in LastOf(r.show, r.taken, "stream-start") : TRUE
  BY DEF RouterHolds, Faces
<1>5. PICK c \in LastOf(r.show, r.taken, "collection") : r.show[c].ids = r.held
  BY <1>1, <1>3 DEF RouterHolds, Holds
<1>6. r.show[n].kind = "collection"
  OBVIOUS
<1> HIDE DEF n
<1>7. LastOf(r.show, n, "stream-start") = LastOf(r.show, r.taken, "stream-start")
  BY <1>2, <1>6
<1>8. r.show[m].id \notin r.show[c].ids
  BY <1>1, <1>2, <1>4, <1>5, <1>6, <1>7 DEF SoundShow
<1>9. p.pad = r.active <=> p.id = r.show[m].id
  BY <1>1, <1>4, FacedFact
<1> QED
  BY <1>1, <1>5, <1>8, <1>9

Replaced(r, v, ids) ==
  /\ IsRouter(v) /\ v.show = r.show /\ v.taken = r.taken + 1 /\ v.made = r.made
  /\ v.table = r.table /\ v.active = r.active /\ v.held = ids /\ v.given = r.given
  /\ v.stuck = r.stuck /\ v.since = r.since
  /\ v.pairs = r.pairs \ GonePairs(r, ids)
  /\ v.pads \subseteq r.pads /\ (r.active # NoPad => r.active \in v.pads)

LEMMA ReplacedFact ==
  ASSUME NEW r, RouterHolds(r), r.taken < Len(r.show), r.show[r.taken + 1].kind = "collection",
         NEW u, u = [r EXCEPT !.taken = r.taken + 1]
  PROVE  Replaced(r, WithCollection(u, r.show[r.taken + 1].ids), r.show[r.taken + 1].ids)
<1> DEFINE n == r.taken + 1
           ids == r.show[n].ids
           v == WithCollection(u, ids)
           gone == GonePairs(r, ids)
<1>1. /\ IsRouter(u) /\ OnToNext(r, u) /\ u.show = r.show /\ u.taken = n /\ u.made = r.made
      /\ u.table = r.table /\ u.pairs = r.pairs /\ u.pads = r.pads /\ u.active = r.active
      /\ u.held = r.held /\ u.given = r.given /\ u.stuck = r.stuck /\ u.since = r.since /\ n \in Nat
  BY TakenFact
<1>2. ASSUME r.active # NoPad, NEW p \in gone PROVE p.pad # r.active
  BY <1>2, NotGone
<1>3. r.active # NoPad => r.active \in r.pads
  BY DEF RouterHolds, PairedPads
<1>4. ASSUME NEW p \in r.pairs \ gone, NEW g \in gone PROVE p.pad # g.pad
  <2>1. p \in r.pairs /\ g \in r.pairs /\ p # g
    BY <1>4 DEF GonePairs
  <2>2. p.id # g.id
    BY <2>1 DEF RouterHolds, PairedPads
  <2>3. IdsIn(r, p.pad) = {p.id} /\ IdsIn(r, g.pad) = {g.id}
    BY <2>1 DEF RouterHolds, GivenAll
  <2> QED
    BY <2>2, <2>3
<1> HIDE DEF n, ids
<1>5. CASE r.held = ids
  <2>1. v = u /\ gone = {}
    BY <1>1, <1>5 DEF WithCollection, GonePairs
  <2> QED
    BY <1>1, <1>3, <1>5, <2>1 DEF Replaced, n, ids
<1>6. CASE r.held # ids
  <2> DEFINE pads == u.pads \ {p.pad : p \in gone}
  <2>1. v = [u EXCEPT !.held = ids, !.pairs = u.pairs \ gone, !.pads = pads]
    BY <1>1, <1>6 DEF WithCollection, GonePairs
  <2>2. u = [x \in RouterFields |-> u[x]]
    BY <1>1 DEF IsRouter
  <2> HIDE DEF gone, pads, v
  <2>3. /\ v = [x \in RouterFields |-> v[x]] /\ v.show = u.show /\ v.taken = u.taken /\ v.made = u.made
        /\ v.table = u.table /\ v.active = u.active /\ v.held = ids /\ v.given = u.given
        /\ v.pairs = u.pairs \ gone /\ v.pads = pads /\ v.stuck = u.stuck /\ v.since = u.since
    BY <2>1, <2>2 DEF RouterFields
  <2>4. pads \subseteq u.pads /\ (r.active # NoPad => r.active \in pads)
    BY <1>1, <1>2, <1>3 DEF pads
  <2>5. \A p \in v.pairs : p = [id |-> p.id, pad |-> p.pad] /\ p.pad \in pads
    <3> SUFFICES ASSUME NEW p \in v.pairs PROVE p = [id |-> p.id, pad |-> p.pad] /\ p.pad \in pads
      OBVIOUS
    <3>1. p \in r.pairs \ gone /\ p \in u.pairs
      BY <1>1, <2>3
    <3>2. p = [id |-> p.id, pad |-> p.pad] /\ p.pad \in u.pads
      BY <1>1, <3>1 DEF IsRouter
    <3>3. \A g \in gone : p.pad # g.pad
      BY <1>4, <3>1
    <3> QED
      BY <3>2, <3>3 DEF pads
  <2>6. IsRouter(v)
    BY <1>1, <2>3, <2>4, <2>5 DEF IsRouter
  <2>7. Replaced(r, v, ids)
    BY <1>1, <2>3, <2>4, <2>6 DEF Replaced, gone, n
  <2> QED
    BY <2>7 DEF n, ids, v
<1> QED
  BY <1>5, <1>6

LEMMA CollectionKeeps ==
  ASSUME NEW r, NEW q, NEW u, RouterHolds(r), r.taken < Len(r.show),
         r.show[r.taken + 1].kind = "collection", u = [r EXCEPT !.taken = r.taken + 1],
         q = Sent(WithCollection(u, r.show[r.taken + 1].ids))
  PROVE  RouterHolds(q)
<1> DEFINE n == r.taken + 1
           ids == r.show[n].ids
           v == WithCollection(u, ids)
<1>1. Replaced(r, v, ids)
  BY ReplacedFact
<1>2. q = Sent(v) /\ r.show[n].kind = "collection"
  OBVIOUS
<1>3. /\ \A kind \in {"stream-start", "collection"} :
           LastOf(r.show, n, kind) = IF r.show[n].kind = kind THEN {n} ELSE LastOf(r.show, r.taken, kind)
      /\ n - 1 = r.taken /\ n \in Nat /\ n \in DOMAIN r.show
  BY NextPlaces
<1>4. ASSUME NEW p \in GonePairs(r, ids), r.active # NoPad PROVE p.pad # r.active
  BY <1>4, NotGone
<1>5. v.taken = n
  BY <1>1 DEF Replaced
<1> HIDE DEF v, n
<1>6. /\ IsRouter(q) /\ q.show = v.show /\ q.taken = v.taken /\ q.made = v.made /\ q.table = v.table
      /\ q.pairs = v.pairs /\ q.pads = v.pads /\ q.active = v.active /\ q.held = v.held
      /\ q.stuck = v.stuck /\ q.since = v.since
      /\ \A x \in 1 .. v.made : q.given[x] = v.given[x] \/ q.given[x] = Append(v.given[x], v.taken)
  <2>1. CASE v.active = NoPad
    BY <1>1, <1>2, <2>1 DEF Sent, Replaced
  <2>2. CASE v.active # NoPad
    <3>1. IsRouter(v)
      BY <1>1 DEF Replaced
    <3> HIDE DEF ids
    <3>2. /\ IsRouter(q) /\ q.given[v.active] = Append(v.given[v.active], v.taken)
          /\ \A x \in 1 .. v.made : x # v.active => q.given[x] = v.given[x]
          /\ q.show = v.show /\ q.taken = v.taken /\ q.made = v.made /\ q.table = v.table
          /\ q.pairs = v.pairs /\ q.pads = v.pads /\ q.active = v.active /\ q.held = v.held
          /\ q.stuck = v.stuck /\ q.since = v.since
      BY <1>2, <2>2, <3>1, SentFact
    <3> QED
      BY <3>2
  <2> QED
    BY <2>1, <2>2
<1>7. /\ q.show = r.show /\ q.taken = n /\ q.made = r.made /\ q.table = r.table /\ q.active = r.active
      /\ q.held = ids /\ q.pairs = r.pairs \ GonePairs(r, ids)
      /\ (r.active # NoPad => r.active \in q.pads) /\ q.stuck = r.stuck /\ q.since = r.since
      /\ \A x \in 1 .. r.made : q.given[x] = r.given[x] \/ q.given[x] = Append(r.given[x], n)
  BY <1>1, <1>5, <1>6 DEF Replaced
<1>8. OnToNext(r, q)
  BY <1>7 DEF OnToNext, n
<1>9. GivesOut(r, q)
  BY <1>2, <1>7 DEF GivesOut, Gets, ShowsId
<1>10. PairsGiven(r, q)
  BY <1>2, <1>7 DEF PairsGiven, OwedTo
<1>11. \A x \in 1 .. r.made : IdsIn(q, x) = IdsIn(r, x)
  <2>1. q.made = r.made \/ FreshPad(r, q)
    BY <1>7
  <2> HIDE DEF ids
  <2>2. StreamPads(q) /\ (\A pad \in 1 .. r.made : IdsIn(q, pad) = IdsIn(r, pad))
    BY <1>8, <1>9, <2>1, TakeShape
  <2> QED
    BY <2>2
<1>12. /\ LastOf(q.show, q.taken, "stream-start") = LastOf(r.show, r.taken, "stream-start")
       /\ LastOf(q.show, q.taken, "collection") = {n}
  BY <1>2, <1>3, <1>7
<1>13. Faces(q)
  <2>1. Faces(r) /\ r.active \in 0 .. r.made /\ r.made \in Nat
    BY DEF RouterHolds, IsRouter
  <2>2. q.active = NoPad <=> LastOf(q.show, q.taken, "stream-start") = {}
    BY <1>7, <1>12, <2>1 DEF Faces
  <2>3. ASSUME NEW m \in LastOf(q.show, q.taken, "stream-start")
        PROVE  /\ IdsIn(q, q.active) = {q.show[m].id}
               /\ q.table => [id |-> q.show[m].id, pad |-> q.active] \in q.pairs
    <3>1. m \in LastOf(r.show, r.taken, "stream-start") /\ r.active # NoPad
      BY <1>7, <1>12, <2>2, <2>3
    <3>2. r.active \in 1 .. r.made
      BY <2>1, <3>1 DEF NoPad
    <3>3. IdsIn(q, q.active) = {r.show[m].id}
      BY <1>7, <1>11, <2>1, <3>1, <3>2 DEF Faces
    <3>4. ASSUME r.table PROVE [id |-> r.show[m].id, pad |-> r.active] \in q.pairs
      <4> DEFINE p == [id |-> r.show[m].id, pad |-> r.active]
      <4>1. p \in r.pairs /\ p.pad = r.active
        BY <2>1, <3>1, <3>4 DEF Faces
      <4> HIDE DEF p
      <4>2. p \notin GonePairs(r, ids)
        BY <1>4, <3>1, <4>1
      <4>3. p \in q.pairs
        BY <1>7, <4>1, <4>2
      <4> QED
        BY <4>3 DEF p
    <3> QED
      BY <1>7, <3>3, <3>4
  <2> QED
    BY <2>2, <2>3 DEF Faces
<1>14. Holds(q)
  BY <1>7, <1>12 DEF Holds
<1>15. PairedPads(q)
  BY <1>7 DEF PairedPads, RouterHolds
<1>16. PlayGoesOn(r, q) /\ InUseNow(q)
  BY <1>2, <1>7 DEF PlayGoesOn, InUseNow, PadsNow, RouterHolds, PlayHolds
<1> QED
  BY <1>6, <1>7, <1>8, <1>9, <1>10, <1>13, <1>14, <1>15, <1>16, TakeKeeps

(* The end of the stream goes to every pad.                                 *)
ToAll(u) ==
  [u EXCEPT !.given = [i \in DOMAIN u.given |->
     IF i \in u.pads THEN Append(u.given[i], u.taken) ELSE u.given[i]]]
LEMMA EosKeeps ==
  ASSUME NEW r, NEW q, NEW u, RouterHolds(r), r.taken < Len(r.show),
         r.show[r.taken + 1].kind = "eos", u = [r EXCEPT !.taken = r.taken + 1],
         q = ToAll(u)
  PROVE  RouterHolds(q)
<1> DEFINE n == r.taken + 1
           g == [i \in DOMAIN r.given |-> IF i \in r.pads THEN Append(r.given[i], n) ELSE r.given[i]]
<1>1. /\ IsRouter(u) /\ OnToNext(r, u) /\ u.show = r.show /\ u.taken = n /\ u.made = r.made
      /\ u.table = r.table /\ u.pairs = r.pairs /\ u.pads = r.pads /\ u.active = r.active
      /\ u.held = r.held /\ u.given = r.given /\ u.stuck = r.stuck /\ u.since = r.since /\ n \in Nat
  BY TakenFact
<1>2. q = [u EXCEPT !.given = g]
  BY <1>1 DEF ToAll
<1>3. /\ r.given \in Seq(Seq(Nat)) /\ DOMAIN r.given = 1 .. r.made /\ r.made \in Nat
      /\ \A x \in 1 .. r.made : r.given[x] \in Seq(Nat)
  BY PlainFact
<1>4. r.show[n].kind = "eos"
  OBVIOUS
<1>5. /\ \A kind \in {"stream-start", "collection"} :
           LastOf(r.show, n, kind) = IF r.show[n].kind = kind THEN {n} ELSE LastOf(r.show, r.taken, kind)
      /\ n - 1 = r.taken /\ n \in Nat /\ n \in DOMAIN r.show
  BY NextPlaces
<1> HIDE DEF n
<1>6. g \in Seq(Seq(Nat)) /\ Len(g) = r.made
  <2>1. \A x \in 1 .. r.made : Append(r.given[x], n) \in Seq(Nat)
    BY <1>1, <1>3
  <2>2. g \in [1 .. r.made -> Seq(Nat)]
    BY <1>3, <2>1
  <2> HIDE DEF g
  <2>3. g \in Seq(Seq(Nat))
    <3>1. g \in UNION {[1 .. i -> Seq(Nat)] : i \in Nat}
      BY <1>3, <2>2
    <3> QED
      BY <3>1, SeqDef
  <2>4. DOMAIN g = 1 .. r.made
    BY <2>2
  <2>5. Len(g) \in Nat /\ DOMAIN g = 1 .. Len(g)
    BY <2>3
  <2>6. Len(g) = r.made
    BY <1>3, <2>4, <2>5
  <2> QED
    BY <2>3, <2>6
<1>7. \A x \in 1 .. r.made : g[x] = IF x \in r.pads THEN Append(r.given[x], n) ELSE r.given[x]
  BY <1>3
<1> HIDE DEF g
<1>8. /\ q = [x \in RouterFields |-> q[x]] /\ q.show = r.show /\ q.taken = n /\ q.made = r.made
      /\ q.table = r.table /\ q.pairs = r.pairs /\ q.pads = r.pads /\ q.active = r.active
      /\ q.held = r.held /\ q.given = g /\ q.stuck = r.stuck /\ q.since = r.since
  BY <1>1, <1>2 DEF IsRouter, RouterFields
<1>9. IsRouter(q)
  BY <1>1, <1>6, <1>8 DEF IsRouter
<1>10. OnToNext(r, q)
  BY <1>8 DEF OnToNext, n
<1>11. GivesOut(r, q)
  BY <1>4, <1>7, <1>8 DEF GivesOut, Gets, ShowsId
<1>12. PairsGiven(r, q)
  <2>1. \A p \in r.pairs : p.pad \in r.pads /\ p.pad \in 1 .. r.made
    BY DEF RouterHolds, IsRouter
  <2> QED
    BY <1>7, <1>8, <2>1 DEF PairsGiven, Gets
<1>13. \A x \in 1 .. r.made : IdsIn(q, x) = IdsIn(r, x)
  <2>1. q.made = r.made \/ FreshPad(r, q)
    BY <1>8
  <2>2. StreamPads(q) /\ (\A pad \in 1 .. r.made : IdsIn(q, pad) = IdsIn(r, pad))
    BY <1>10, <1>11, <2>1, TakeShape
  <2> QED
    BY <2>2
<1>14. /\ LastOf(q.show, q.taken, "stream-start") = LastOf(r.show, r.taken, "stream-start")
       /\ LastOf(q.show, q.taken, "collection") = LastOf(r.show, r.taken, "collection")
  BY <1>4, <1>5, <1>8
<1>15. Faces(q)
  <2>1. Faces(r) /\ r.active \in 0 .. r.made /\ r.made \in Nat
    BY DEF RouterHolds, IsRouter
  <2>2. q.active # NoPad => IdsIn(q, q.active) = IdsIn(r, r.active)
    <3> SUFFICES ASSUME q.active # NoPad PROVE IdsIn(q, q.active) = IdsIn(r, r.active)
      OBVIOUS
    <3>1. q.active = r.active
      BY <1>8
    <3>2. r.active \in 1 .. r.made
      BY <2>1, <3>1 DEF NoPad
    <3> QED
      BY <1>13, <3>1, <3>2
  <2> QED
    <3>1. q.active = NoPad <=> LastOf(q.show, q.taken, "stream-start") = {}
      BY <1>8, <1>14, <2>1 DEF Faces
    <3>2. ASSUME NEW m \in LastOf(q.show, q.taken, "stream-start")
          PROVE  /\ IdsIn(q, q.active) = {q.show[m].id}
                 /\ q.table => [id |-> q.show[m].id, pad |-> q.active] \in q.pairs
      <4>1. m \in LastOf(r.show, r.taken, "stream-start") /\ q.active # NoPad
        BY <1>14, <3>1, <3>2
      <4>2. IdsIn(q, q.active) = {r.show[m].id}
        BY <2>1, <2>2, <4>1 DEF Faces
      <4>3. r.table => [id |-> r.show[m].id, pad |-> r.active] \in r.pairs
        BY <2>1, <4>1 DEF Faces
      <4> QED
        BY <1>8, <4>2, <4>3
    <3> QED
      BY <3>1, <3>2 DEF Faces
<1>16. Holds(q) /\ PairedPads(q)
  BY <1>8, <1>14 DEF Holds, PairedPads, RouterHolds
<1>17. PlayGoesOn(r, q) /\ InUseNow(q)
  BY <1>4, <1>8 DEF PlayGoesOn, InUseNow, PadsNow, RouterHolds, PlayHolds
<1> QED
  BY <1>8, <1>9, <1>10, <1>11, <1>12, <1>15, <1>16, <1>17, TakeKeeps

(* The element goes to READY and back.                                      *)
LEMMA ReplayKeeps ==
  ASSUME RouterHolds(router), Replay
  PROVE  RouterHolds(router')
<1> DEFINE r == router
           q == router'
<1>1. q = [r EXCEPT !.plays = r.plays + 1, !.taken = 0, !.table = FALSE, !.pairs = {}, !.pads = {},
                    !.active = NoPad, !.since = r.made]
  BY DEF Replay
<1>2. /\ r = [x \in RouterFields |-> r[x]] /\ SoundShow(r.show) /\ r.made \in Nat
      /\ r.given \in Seq(Seq(Nat)) /\ Len(r.given) = r.made /\ StreamPads(r)
      /\ r.taken \in 0 .. Len(r.show) /\ r.stuck \in Seq(SUBSET Nat) /\ Len(r.stuck) = r.made
  BY DEF RouterHolds, IsRouter
<1>3. r.show \in Seq(Range(r.show))
  BY <1>2 DEF SoundShow
<1>4. Len(r.show) \in Nat
  BY <1>3
<1> HIDE DEF r, q
<1>5. /\ q = [x \in RouterFields |-> q[x]] /\ q.show = r.show /\ q.taken = 0 /\ q.made = r.made
      /\ ~q.table /\ q.table \in BOOLEAN /\ q.pairs = {} /\ q.pads = {} /\ q.active = NoPad
      /\ q.given = r.given /\ q.stuck = r.stuck /\ q.since = r.made
  BY <1>1, <1>2 DEF RouterFields
<1>6. IsRouter(q)
  <2>1. q.taken \in 0 .. Len(q.show)
    BY <1>4, <1>5
  <2>2. q.active \in 0 .. q.made /\ q.since \in 0 .. q.made
    BY <1>2, <1>5 DEF NoPad
  <2>3. q.pads \subseteq 1 .. q.made /\ (\A p \in q.pairs : FALSE)
    BY <1>5
  <2> QED
    BY <1>2, <1>5, <2>1, <2>2, <2>3 DEF IsRouter
<1>7. \A pad : IdsIn(q, pad) = IdsIn(r, pad)
  BY <1>5 DEF IdsIn
<1>8. LastOf(q.show, q.taken, "stream-start") = {}
  BY <1>5 DEF LastOf
<1> QED
  <2>1. StreamPads(q)
    BY <1>2, <1>5, <1>7 DEF StreamPads
  <2>2. PairedPads(q) /\ (\A p \in q.pairs : GivenAll(q, p))
    BY <1>5 DEF PairedPads
  <2>3. Faces(q)
    BY <1>5, <1>8 DEF Faces
  <2>4. Holds(q)
    BY <1>5 DEF Holds
  <2>5. PlayHolds(q)
    <3>1. r.made + 1 .. r.made = {} /\ 1 .. 0 = {}
      <4> SUFFICES \A m \in Nat : (\A x : x \notin m + 1 .. m) /\ (\A x : x \notin 1 .. 0)
        BY <1>2
      <4> QED
        OBVIOUS
    <3>2. PadsNow(q) = {} /\ 1 .. q.taken = {}
      BY <1>5, <3>1 DEF PadsNow
    <3>3. \A pad \in 1 .. q.made : Begins(q, pad)
      BY <1>5 DEF RouterHolds, PlayHolds, Begins, Inherits, r
    <3> QED
      BY <1>5, <3>2, <3>3 DEF PlayHolds, InUseNow
  <2>6. RouterHolds(q)
    BY <1>6, <2>1, <2>2, <2>3, <2>4, <2>5 DEF RouterHolds
  <2> QED
    BY <2>6 DEF q

LEMMA RouterStarts ==
  ASSUME \A s \in Shows : SoundShow(s), RouterInit
  PROVE  RouterHolds(router)
<1> DEFINE r == router
<1>1. PICK s \in Shows : r = InitialRouter(s)
  BY DEF RouterInit
<1>2. SoundShow(s)
  OBVIOUS
<1>3. s \in Seq(Range(s))
  BY <1>2 DEF SoundShow
<1>4. Len(s) \in Nat
  BY <1>3
<1> HIDE DEF r
<1>5. /\ r = [x \in RouterFields |-> r[x]] /\ r.show = s /\ r.taken = 0 /\ r.made = 0 /\ r.table
      /\ r.table \in BOOLEAN /\ r.pairs = {} /\ r.pads = {} /\ r.active = NoPad /\ r.held = {}
      /\ r.given = << >> /\ r.stuck = << >> /\ r.since = 0
  BY <1>1 DEF InitialRouter, RouterFields
<1>6. /\ r.given \in Seq(Seq(Nat)) /\ Len(r.given) = 0
      /\ r.stuck \in Seq(SUBSET Nat) /\ Len(r.stuck) = 0
  <2>1. << >> \in Seq(Seq(Nat)) /\ << >> \in Seq(SUBSET Nat) /\ Len(<< >>) = 0
    BY EmptySeq
  <2> QED
    BY <1>5, <2>1
<1>7. IsRouter(r)
  <2>1. /\ r.taken \in 0 .. Len(r.show) /\ r.active \in 0 .. r.made /\ r.made \in Nat
        /\ r.since \in 0 .. r.made
    BY <1>4, <1>5 DEF NoPad
  <2>2. r.pads \subseteq 1 .. r.made /\ (\A p \in r.pairs : FALSE)
    BY <1>5
  <2> QED
    BY <1>2, <1>5, <1>6, <2>1, <2>2 DEF IsRouter
<1>8. LastOf(r.show, r.taken, "stream-start") = {}
  BY <1>5 DEF LastOf
<1>9. StreamPads(r)
  BY <1>5 DEF StreamPads
<1>10. PlayHolds(r)
  <2>1. 1 .. r.made = {} /\ PadsNow(r) = {} /\ 1 .. r.taken = {}
    BY <1>5 DEF PadsNow
  <2> QED
    BY <1>5, <2>1 DEF PlayHolds, InUseNow
<1> QED
  BY <1>5, <1>7, <1>8, <1>9, <1>10 DEF RouterHolds, PairedPads, Faces, Holds, r

LEMMA RouterSteps ==
  ASSUME RouterHolds(router), [RouterNext]_routerVars
  PROVE  RouterHolds(router')
<1> DEFINE r == router
           q == router'
           n == r.taken + 1
           u == [r EXCEPT !.taken = r.taken + 1]
<1>1. CASE Take
  <2>1. r.taken < Len(r.show)
    BY <1>1 DEF Take
  <2>2. CASE r.show[n].kind = "stream-start" /\ q = Sent(Chosen(u, r.show[n].id))
    <3>1. CASE PadFor(u, r.show[n].id) = NoPad
      <4>1. q = Sent(Made(u, r.show[n].id))
        BY <2>2, <3>1 DEF Chosen
      <4> QED
        BY <2>1, <2>2, <3>1, <4>1, MadeKeeps
    <3>2. CASE PadFor(u, r.show[n].id) # NoPad
      <4>1. q = Sent([u EXCEPT !.active = PadFor(u, r.show[n].id)])
        BY <2>2, <3>2 DEF Chosen
      <4> QED
        BY <2>1, <2>2, <3>2, <4>1, KnownKeeps
    <3> QED
      BY <3>1, <3>2
  <2>3. CASE r.show[n].kind = "collection" /\ q = Sent(WithCollection(u, r.show[n].ids))
    BY <2>1, <2>3, CollectionKeeps
  <2>4. CASE r.show[n].kind = "buffer" /\ q = Sent(u)
    BY <2>1, <2>4, BufferKeeps
  <2>5. CASE r.show[n].kind = "eos" /\ q = ToAll(u)
    BY <2>1, <2>5, EosKeeps
  <2>6. \/ r.show[n].kind = "stream-start" /\ q = Sent(Chosen(u, r.show[n].id))
        \/ r.show[n].kind = "collection" /\ q = Sent(WithCollection(u, r.show[n].ids))
        \/ r.show[n].kind = "buffer" /\ q = Sent(u)
        \/ r.show[n].kind = "eos" /\ q = ToAll(u)
    BY <1>1, Zenon DEF Take, ToAll
  <2> QED
    BY <2>2, <2>3, <2>4, <2>5, <2>6
<1>2. CASE Replay
  BY <1>2, ReplayKeeps
<1>3. CASE UNCHANGED routerVars
  BY <1>3 DEF routerVars
<1> QED
  BY <1>1, <1>2, <1>3 DEF RouterNext

LEMMA RouterSound ==
  ASSUME RouterHolds(router)
  PROVE  RouterTypeOK /\ RouterTrue
<1>1. /\ IsRouter(router) /\ StreamPads(router) /\ PairedPads(router)
      /\ (\A p \in router.pairs : GivenAll(router, p)) /\ PlayHolds(router)
  BY DEF RouterHolds
<1>2. \A pad : Ids(pad) = IdsIn(router, pad)
  BY DEF Ids, IdsIn, ShowsId, GivenTo
<1>3. RouterTypeOK
  BY <1>1 DEF RouterTypeOK, IsRouter
<1>4. OneStream
  BY <1>1, <1>2 DEF OneStream, StreamPads, PlayHolds, Begins, Inherits
<1>5. OnePad
  BY <1>1 DEF OnePad, PairedPads
<1>6. AllGiven
  BY <1>1, <1>2 DEF AllGiven, GivenAll, OwedTo, GivenTo
<1>7. Delivered
  BY <1>1 DEF Delivered, PlayHolds, GivenInTurn, WentTo, PadsNow, GivenTo
<1> QED
  BY <1>3, <1>4, <1>5, <1>6, <1>7 DEF RouterTrue

(* Whatever upstream sends, as long as it announces each stream before its  *)
(* data and takes none away that it is in the midst of, and however often   *)
(* the element goes to READY and back: no pad is given two streams' data,   *)
(* the active pad is one the element still has, and each buffer of this     *)
(* play went to one pad that was made in it, in order.  In the first play,  *)
(* where the table is there, no stream has two pads, and a pad in the table *)
(* has been given all that upstream sent of its stream since it was made    *)
(* (event, chain); after a restart every STREAM_START makes a pad.          *)
THEOREM RouterSends ==
  ASSUME \A s \in Shows : SoundShow(s)
  PROVE  RouterSpec => []RouterTrue
<1>1. RouterInit => RouterInv
  BY RouterStarts DEF RouterInv
<1>2. RouterInv /\ [RouterNext]_routerVars => RouterInv'
  BY RouterSteps DEF RouterInv
<1>3. RouterInv => RouterTrue
  BY RouterSound DEF RouterInv
<1> QED
  BY <1>1, <1>2, <1>3, PTL DEF RouterSpec

-----------------------------------------------------------------------------
(* DolbyCombiner.  What the combiner may be, whatever was brought so far.   *)
MuxFields ==
  {"mode", "flushing", "pads", "n", "state", "seg", "tags", "feeds", "told", "shown", "round", "out"}
PadFields == {"type", "caps", "holds", "eos", "blocked"}
IsPad(p) ==
  /\ p = [x \in PadFields |-> p[x]]
  /\ p.caps \in BOOLEAN /\ p.eos \in BOOLEAN /\ p.blocked \in BOOLEAN
IsSeq(s) == \E T : s \in Seq(T)
Full(m) == DOMAIN m.pads = Layers
IsMux(m) ==
  /\ m = [x \in MuxFields |-> m[x]] /\ SoundFeeds(m.feeds) /\ m.round \in Nat /\ IsSeq(m.out)
  /\ m.mode \in {"READY", "WAITING", "PAUSED"} /\ m.state \in {"NONE", "WAIT_BL", "WAIT_EL"}
  /\ DOMAIN m.pads \subseteq Layers /\ m.pads = [l \in DOMAIN m.pads |-> m.pads[l]]
  /\ \A l \in DOMAIN m.pads : IsPad(m.pads[l])
  /\ m.n \in 0 .. 2 /\ (m.n = 0 <=> DOMAIN m.pads = {}) /\ (m.n = 2 <=> Full(m))
  /\ m.told \in [Layers -> Nat] /\ m.shown \in [Layers -> Nat]

(* How far a layer is, and what its pad says of it.                         *)
AllTold(m, l) == m.told[l] = Len(m.feeds[l].events)
AllShown(m, l) == m.shown[l] = Len(m.feeds[l].frames)
FrameHeld(m, l) ==
  [layer |-> l, round |-> m.round, nth |-> m.shown[l], frame |-> m.feeds[l].frames[m.shown[l]]]
Told(m, l, kind) == \E k \in 1 .. m.told[l] : m.feeds[l].events[k].kind = kind
LayerOf(m, l) ==
  /\ m.told[l] <= Len(m.feeds[l].events) /\ m.shown[l] <= Len(m.feeds[l].frames)
  /\ m.shown[l] > 0 => AllTold(m, l)
  /\ l \notin DOMAIN m.pads \/ m.flushing # {} => m.told[l] = 0 /\ m.shown[l] = 0
PadOk(m, l, p) ==
  /\ p.type \in {"NONE", l} /\ (p.blocked => m.state = "NONE" /\ m.mode # "PAUSED")
  /\ p.holds = <<>> \/ (p.holds = <<FrameHeld(m, l)>> /\ m.shown[l] > 0)
  /\ p.eos => p.holds = <<>> /\ (l \in m.flushing \/ (AllTold(m, l) /\ AllShown(m, l)))
  /\ Told(m, l, "caps") => p.caps
  /\ m.mode # "PAUSED" => p.holds = <<>> /\ ~p.eos
  /\ ~Full(m) => p.blocked
SameTyped(m) ==
  \/ Full(m) /\ \A l \in DOMAIN m.pads : m.pads[l].type = l
  \/ \A l \in DOMAIN m.pads : m.pads[l].type = "NONE"
ModeOf(m) ==
  /\ m.mode = "PAUSED" => Full(m)
  /\ m.mode = "WAITING" => ~Full(m)
  /\ m.mode # "PAUSED" => m.state # "WAIT_EL" /\ m.flushing = {}
  /\ m.mode # "PAUSED" \/ m.state = "NONE" \/ m.flushing # {} => m.out = <<>>
  /\ ~Full(m) => m.state = "NONE"
  /\ m.flushing \subseteq DOMAIN m.pads /\ SameTyped(m)

(* What is pushed downstream: frames 1 .. s, behind a segment of the round. *)
Says(out, kind) == {i \in DOMAIN out : out[i].kind = kind}
PairOk(m, pair) ==
  /\ pair.bl.layer = "BASE" /\ pair.bl.round = m.round
  /\ pair.elOf.layer = "ENHANCE" /\ pair.elOf.round = m.round /\ pair.elOf.nth = pair.bl.nth
  /\ pair.bl.nth \in Nat /\ pair.pts = m.feeds["BASE"].frames[pair.bl.nth].pts
  /\ Whole(pair.el.pts) = m.feeds["ENHANCE"].frames[pair.bl.nth].pts
NthsBefore(out, n) == {out[j].bl.nth : j \in {j \in Says(out, "frame") : j < n}}
Segmented(m, out, n) == \E j \in Says(out, "segment") : j < n /\ out[j].round = m.round
OutOk(m, out, s) ==
  /\ \A i \in Says(out, "frame") :
       /\ PairOk(m, out[i]) /\ NthsBefore(out, i) = 1 .. out[i].bl.nth - 1 /\ Segmented(m, out, i)
  /\ NthsBefore(out, Len(out) + 1) = 1 .. s
  /\ \A i \in Says(out, "eos") : \A j \in i .. Len(out) : out[j].kind = "eos"
SegOk(m) ==
  /\ m.seg = <<>> \/ (\E x : m.seg = <<x>> /\ x.kind = "segment")
  /\ Told(m, "BASE", "segment") /\ ~Unprepared(m) =>
       (m.seg # <<>> /\ m.seg[1].round = m.round) \/ Segmented(m, m.out, Len(m.out) + 1)

(* Before the end the base layer is next and each layer has brought the     *)
(* pushed frames and the one it holds; then a layer is at its end.          *)
Over(m) == Says(m.out, "eos") # {}
Holding(m, l) == l \in DOMAIN m.pads /\ m.pads[l].holds # <<>>
CommonOf(m) ==
  IF Len(m.feeds["BASE"].frames) < Len(m.feeds["ENHANCE"].frames)
  THEN Len(m.feeds["BASE"].frames) ELSE Len(m.feeds["ENHANCE"].frames)
TurnOk(m, s) ==
  /\ Unprepared(m) => s = 0
  /\ ~Over(m) => /\ m.state = "WAIT_EL" => m.flushing # {}
                 /\ \A l \in Layers : m.shown[l] = s + (IF Holding(m, l) THEN 1 ELSE 0)
  /\ Over(m) => /\ m.mode = "PAUSED" /\ m.seg = <<>> /\ m.tags = {}
                /\ \A l \in Layers : AllTold(m, l)
                /\ Unprepared(m) \/ (s = CommonOf(m) /\ \E l \in Layers : m.pads[l].eos)

MuxPre(m) ==
  /\ IsMux(m) /\ ModeOf(m) /\ SegOk(m)
  /\ \A l \in Layers : LayerOf(m, l)
  /\ \A l \in DOMAIN m.pads : PadOk(m, l, m.pads[l])
  /\ \E s \in Nat : OutOk(m, m.out, s) /\ TurnOk(m, s)
MuxOf(m) == MuxPre(m) /\ (~Over(m) /\ m.flushing = {} => ~AllCollected(m))
MuxInv == MuxOf(mux)

-----------------------------------------------------------------------------
(* Four fragments hold a time.                                              *)
LEMMA DivFact ==
  ASSUME NEW p \in Nat \ {0}, NEW x \in Nat
  PROVE  /\ x \div p \in Nat /\ x % p \in 0 .. p - 1 /\ x = (x \div p) * p + (x % p)
         /\ \A y \in Nat : x < y * p => x \div p < y
<1>1. x \div p \in Nat /\ x % p \in 0 .. p - 1 /\ x = (x \div p) * p + (x % p)
  BY SMT
<1>2. ASSUME NEW y \in Nat, x < y * p PROVE x \div p < y
  <2> DEFINE d == x \div p
  <2>1. d \in Nat /\ d * p <= x
    BY <1>1
  <2> HIDE DEF d
  <2>2. d * p < y * p
    BY <1>2, <2>1
  <2>3. CASE d >= y
    <3>1. PICK z \in Nat : d = y + z
      BY <2>1, <2>3
    <3>2. d * p = y * p + z * p /\ z * p \in Nat
      BY <3>1
    <3> QED
      BY <2>2, <3>2
  <2> QED
    BY <2>1, <2>3 DEF d
<1> QED
  BY <1>1, <1>2

LEMMA PtsFact ==
  ASSUME NEW pts \in 0 .. PtsPart * PtsPart * PtsPart * PtsPart - 1
  PROVE  Whole(PtsUnits(pts)) = pts
<1> DEFINE p == PtsPart
           a == pts \div p
           b == a \div p
           c == b \div p
<1>1. p \in Nat \ {0}
  BY DolbyAssumption
<1>2. pts \in Nat /\ pts < (p * p * p) * p
  BY <1>1
<1> HIDE DEF p
<1>3. a \in Nat /\ pts = a * p + (pts % p) /\ a < p * p * p
  <2>1. p * p * p \in Nat
    BY <1>1
  <2> QED
    BY <1>1, <1>2, <2>1, DivFact
<1> HIDE DEF a
<1>4. b \in Nat /\ a = b * p + (a % p) /\ b < p * p
  <2>1. p * p \in Nat /\ a < (p * p) * p
    BY <1>1, <1>3
  <2> QED
    BY <1>1, <1>3, <2>1, DivFact
<1> HIDE DEF b
<1>5. c \in Nat /\ b = c * p + (b % p) /\ c < p
  BY <1>1, <1>4, DivFact
<1>6. c % p = c
  <2> HIDE DEF c
  <2> QED
    BY <1>1, <1>5, SMT
<1>7. PtsUnits(pts) = <<c, b % p, a % p, pts % p>>
  BY <1>6 DEF PtsUnits, Shifted, a, b, c, p
<1>8. Whole(PtsUnits(pts)) = ((c * p + (b % p)) * p + (a % p)) * p + (pts % p)
  <2> HIDE DEF c
  <2> QED
    BY <1>7 DEF Whole, p
<1> QED
  BY <1>3, <1>4, <1>5, <1>8

-----------------------------------------------------------------------------
(* What is pushed comes behind what was.                                    *)
LEMMA PlusFact ==
  ASSUME NEW s, IsSeq(s), NEW x
  PROVE  /\ IsSeq(Append(s, x)) /\ Len(s) \in Nat /\ Len(Append(s, x)) = Len(s) + 1
         /\ DOMAIN s = 1 .. Len(s) /\ DOMAIN Append(s, x) = 1 .. Len(s) + 1
         /\ \A i \in DOMAIN s : Append(s, x)[i] = s[i]
         /\ Append(s, x)[Len(s) + 1] = x
<1>1. PICK T : s \in Seq(T)
  BY DEF IsSeq
<1> DEFINE U == T \cup {x}
<1>2. s \in Seq(U)
  BY <1>1, SeqMonotonic
<1>3. x \in U
  OBVIOUS
<1> HIDE DEF U
<1>4. /\ Append(s, x) \in Seq(U) /\ (\A i \in DOMAIN s : Append(s, x)[i] = s[i])
      /\ Append(s, x)[Len(s) + 1] = x /\ Len(Append(s, x)) = Len(s) + 1
      /\ DOMAIN Append(s, x) = 1 .. Len(s) + 1 /\ DOMAIN s = 1 .. Len(s) /\ Len(s) \in Nat
  BY <1>2, <1>3, AppendedFact
<1> QED
  BY <1>4 DEF IsSeq

LEMMA SaysFact ==
  ASSUME NEW s, IsSeq(s), NEW x
  PROVE  /\ \A kind : x.kind # kind => Says(Append(s, x), kind) = Says(s, kind)
         /\ \A kind : x.kind = kind => Says(Append(s, x), kind) = Says(s, kind) \cup {Len(s) + 1}
<1> DEFINE t == Append(s, x)
<1>1. /\ Len(s) \in Nat /\ DOMAIN s = 1 .. Len(s) /\ DOMAIN t = 1 .. Len(s) + 1
      /\ (\A i \in DOMAIN s : t[i] = s[i]) /\ t[Len(s) + 1] = x
  BY PlusFact DEF t
<1>2. ASSUME NEW i PROVE i \in DOMAIN t <=> i \in DOMAIN s \/ i = Len(s) + 1
  BY <1>1
<1>3. Len(s) + 1 \notin DOMAIN s
  BY <1>1
<1> QED
  BY <1>1, <1>2, <1>3 DEF Says

LEMMA NthsFact ==
  ASSUME NEW s, IsSeq(s), NEW x
  PROVE  /\ \A n \in 1 .. Len(s) + 1 : NthsBefore(Append(s, x), n) = NthsBefore(s, n)
         /\ x.kind # "frame" => NthsBefore(Append(s, x), Len(Append(s, x)) + 1) = NthsBefore(s, Len(s) + 1)
         /\ x.kind = "frame" => NthsBefore(Append(s, x), Len(Append(s, x)) + 1) = NthsBefore(s, Len(s) + 1) \cup {x.bl.nth}
<1> DEFINE t == Append(s, x)
<1> DEFINE z == Len(s) + 1
<1>1. /\ Len(s) \in Nat /\ DOMAIN s = 1 .. Len(s) /\ Len(t) = z /\ z \in Nat /\ z \notin DOMAIN s
      /\ (\A i \in DOMAIN s : t[i] = s[i] /\ i \in Nat /\ i < z) /\ t[z] = x
  BY PlusFact DEF t
<1>2. /\ x.kind # "frame" => Says(t, "frame") = Says(s, "frame")
      /\ x.kind = "frame" => Says(t, "frame") = Says(s, "frame") \cup {z}
  BY SaysFact DEF t
<1>3. \A i \in Says(s, "frame") : i \in DOMAIN s /\ t[i] = s[i] /\ i \in Nat /\ i < z
  BY <1>1 DEF Says
<1> HIDE DEF z
<1>4. ASSUME NEW n \in 1 .. z PROVE NthsBefore(t, n) = NthsBefore(s, n)
  <2>1. ~(z < n) /\ n \in Nat
    BY <1>1
  <2>2. ASSUME NEW i PROVE (i \in Says(t, "frame") /\ i < n) <=> (i \in Says(s, "frame") /\ i < n)
    <3>1. CASE i = z
      BY <1>1, <2>1, <3>1
    <3>2. CASE i # z
      BY <1>2, <3>2
    <3> QED
      BY <3>1, <3>2
  <2>3. {j \in Says(t, "frame") : j < n} = {j \in Says(s, "frame") : j < n}
    BY <2>2
  <2> QED
    BY <1>3, <2>3 DEF NthsBefore
<1>5. {j \in Says(s, "frame") : j < z} = Says(s, "frame")
  BY <1>3
<1>6. {j \in Says(t, "frame") : j < z + 1} = Says(t, "frame")
  <2>1. \A j \in Says(t, "frame") : j < z + 1
    BY <1>1, <1>2, <1>3
  <2> QED
    BY <2>1
<1>7. NthsBefore(s, z) = {s[j].bl.nth : j \in Says(s, "frame")}
  BY <1>5 DEF NthsBefore
<1>8. NthsBefore(t, z + 1) = {t[j].bl.nth : j \in Says(t, "frame")}
  BY <1>6 DEF NthsBefore
<1>9. {t[j].bl.nth : j \in Says(s, "frame")} = {s[j].bl.nth : j \in Says(s, "frame")}
  BY <1>3
<1>10. x.kind # "frame" => NthsBefore(t, z + 1) = NthsBefore(s, z)
  BY <1>2, <1>7, <1>8, <1>9
<1>11. ASSUME x.kind = "frame" PROVE NthsBefore(t, z + 1) = NthsBefore(s, z) \cup {x.bl.nth}
  <2>1. {t[j].bl.nth : j \in Says(t, "frame")} = {t[j].bl.nth : j \in Says(s, "frame")} \cup {t[z].bl.nth}
    BY <1>2, <1>11
  <2> QED
    BY <1>1, <1>7, <1>8, <1>9, <2>1
<1> QED
  BY <1>1, <1>4, <1>10, <1>11 DEF z

LEMMA SegmentedFact ==
  ASSUME NEW m, NEW s, IsSeq(s), NEW x
  PROVE  /\ \A n \in 1 .. Len(s) + 1 : Segmented(m, s, n) => Segmented(m, Append(s, x), n)
         /\ Segmented(m, s, Len(s) + 1) => Segmented(m, Append(s, x), Len(Append(s, x)) + 1)
         /\ x.kind = "segment" /\ x.round = m.round => Segmented(m, Append(s, x), Len(Append(s, x)) + 1)
<1> DEFINE t == Append(s, x)
<1>1. /\ Len(s) \in Nat /\ DOMAIN s = 1 .. Len(s) /\ Len(t) = Len(s) + 1
      /\ (\A i \in DOMAIN s : t[i] = s[i]) /\ t[Len(s) + 1] = x
  BY PlusFact DEF t
<1>2. /\ \A i \in Says(s, "segment") : i \in Says(t, "segment") /\ t[i] = s[i] /\ i \in 1 .. Len(s)
      /\ x.kind = "segment" => Len(s) + 1 \in Says(t, "segment")
  BY <1>1, SaysFact DEF Says
<1>3. ASSUME NEW n \in 1 .. Len(s) + 1, Segmented(m, s, n) PROVE Segmented(m, t, n)
  BY <1>2, <1>3 DEF Segmented
<1>4. ASSUME Segmented(m, s, Len(s) + 1) PROVE Segmented(m, t, Len(t) + 1)
  <2>1. PICK j \in Says(s, "segment") : s[j].round = m.round
    BY <1>4 DEF Segmented
  <2>2. j \in Says(t, "segment") /\ t[j].round = m.round /\ j < Len(t) + 1
    BY <1>1, <1>2, <2>1
  <2> QED
    BY <2>2 DEF Segmented
<1>5. ASSUME x.kind = "segment", x.round = m.round PROVE Segmented(m, t, Len(t) + 1)
  <2>1. Len(s) + 1 \in Says(t, "segment") /\ t[Len(s) + 1].round = m.round /\ Len(s) + 1 < Len(t) + 1
    BY <1>1, <1>2, <1>5
  <2> QED
    BY <2>1 DEF Segmented
<1> QED
  BY <1>3, <1>4, <1>5

(* A frame that was there is still in place.                                *)
LEMMA FramesKeep ==
  ASSUME NEW m, NEW s, IsSeq(s), NEW k, OutOk(m, s, k), NEW x,
         NEW i \in Says(s, "frame")
  PROVE  PairOk(m, Append(s, x)[i]) /\ NthsBefore(Append(s, x), i) = 1 .. Append(s, x)[i].bl.nth - 1 /\ Segmented(m, Append(s, x), i)
<1> DEFINE t == Append(s, x)
<1>1. Len(s) \in Nat /\ DOMAIN s = 1 .. Len(s) /\ \A j \in DOMAIN s : t[j] = s[j]
  BY PlusFact DEF t
<1>2. i \in 1 .. Len(s) + 1 /\ t[i] = s[i]
  BY <1>1 DEF Says
<1>3. PairOk(m, s[i]) /\ NthsBefore(s, i) = 1 .. s[i].bl.nth - 1 /\ Segmented(m, s, i)
  BY DEF OutOk
<1>4. NthsBefore(t, i) = NthsBefore(s, i) /\ Segmented(m, t, i)
  BY <1>2, <1>3, NthsFact, SegmentedFact
<1> QED
  BY <1>2, <1>3, <1>4

LEMMA AddEvent ==
  ASSUME NEW m, NEW s, IsSeq(s), NEW k, OutOk(m, s, k), NEW x,
         Says(s, "eos") = {}, x.kind \notin {"frame", "eos"}
  PROVE  OutOk(m, Append(s, x), k) /\ Says(Append(s, x), "eos") = {} /\ IsSeq(Append(s, x))
<1> DEFINE t == Append(s, x)
<1>1. Says(t, "frame") = Says(s, "frame") /\ Says(t, "eos") = {}
  BY SaysFact DEF t
<1>2. NthsBefore(t, Len(t) + 1) = 1 .. k
  BY NthsFact DEF OutOk
<1>3. \A i \in Says(t, "frame") :
        PairOk(m, t[i]) /\ NthsBefore(t, i) = 1 .. t[i].bl.nth - 1 /\ Segmented(m, t, i)
  BY <1>1, FramesKeep
<1> QED
  BY <1>1, <1>2, <1>3, PlusFact DEF OutOk

LEMMA AddPair ==
  ASSUME NEW m, NEW s, IsSeq(s), NEW k \in Nat, OutOk(m, s, k), NEW x,
         Says(s, "eos") = {}, x.kind = "frame", PairOk(m, x), x.bl.nth = k + 1,
         Segmented(m, s, Len(s) + 1)
  PROVE  OutOk(m, Append(s, x), k + 1) /\ Says(Append(s, x), "eos") = {} /\ IsSeq(Append(s, x))
<1> DEFINE t == Append(s, x)
<1>1. Says(t, "frame") = Says(s, "frame") \cup {Len(s) + 1} /\ Says(t, "eos") = {}
  BY SaysFact DEF t
<1>2. /\ Len(s) \in Nat /\ Len(t) = Len(s) + 1 /\ t[Len(s) + 1] = x /\ Len(s) + 1 \in 1 .. Len(s) + 1
      /\ IsSeq(t)
  BY PlusFact DEF t
<1>3. NthsBefore(s, Len(s) + 1) = 1 .. k
  BY DEF OutOk
<1>4. NthsBefore(t, Len(t) + 1) = 1 .. k + 1
  <2>1. NthsBefore(t, Len(t) + 1) = (1 .. k) \cup {k + 1}
    BY <1>3, NthsFact
  <2>2. (1 .. k) \cup {k + 1} = 1 .. k + 1
    OBVIOUS
  <2> QED
    BY <2>1, <2>2
<1>5. ASSUME NEW i \in Says(t, "frame")
      PROVE  PairOk(m, t[i]) /\ NthsBefore(t, i) = 1 .. t[i].bl.nth - 1 /\ Segmented(m, t, i)
  <2>1. CASE i \in Says(s, "frame")
    BY <2>1, FramesKeep
  <2>2. CASE i = Len(s) + 1
    <3>1. NthsBefore(t, i) = 1 .. k /\ Segmented(m, t, i)
      BY <1>2, <1>3, <2>2, NthsFact, SegmentedFact
    <3>2. t[i] = x /\ k = t[i].bl.nth - 1
      BY <1>2, <2>2
    <3> QED
      BY <3>1, <3>2
  <2> QED
    BY <1>1, <2>1, <2>2
<1> QED
  BY <1>1, <1>2, <1>4, <1>5 DEF OutOk

LEMMA AddEos ==
  ASSUME NEW m, NEW s, IsSeq(s), NEW k, OutOk(m, s, k), NEW x,
         x.kind = "eos"
  PROVE  OutOk(m, Append(s, x), k) /\ Says(Append(s, x), "eos") # {} /\ IsSeq(Append(s, x))
<1> DEFINE t == Append(s, x)
<1>1. Says(t, "frame") = Says(s, "frame") /\ Says(t, "eos") = Says(s, "eos") \cup {Len(s) + 1}
  BY SaysFact DEF t
<1>2. /\ Len(s) \in Nat /\ DOMAIN s = 1 .. Len(s) /\ Len(t) = Len(s) + 1 /\ t[Len(s) + 1] = x
      /\ IsSeq(t) /\ \A i \in DOMAIN s : t[i] = s[i]
  BY PlusFact DEF t
<1>3. NthsBefore(t, Len(t) + 1) = 1 .. k
  BY NthsFact DEF OutOk
<1>4. \A i \in Says(t, "frame") :
        PairOk(m, t[i]) /\ NthsBefore(t, i) = 1 .. t[i].bl.nth - 1 /\ Segmented(m, t, i)
  BY <1>1, FramesKeep
<1>5. ASSUME NEW i \in Says(t, "eos"), NEW j \in i .. Len(t) PROVE t[j].kind = "eos"
  <2>1. CASE j = Len(s) + 1
    BY <1>2, <2>1
  <2>2. CASE i \in Says(s, "eos") /\ j # Len(s) + 1
    <3>1. i \in 1 .. Len(s)
      BY <1>2, <2>2 DEF Says
    <3>2. j \in i .. Len(s) /\ j \in DOMAIN s
      BY <1>2, <2>2, <3>1
    <3> QED
      BY <1>2, <2>2, <3>2 DEF OutOk
  <2>3. CASE i = Len(s) + 1
    BY <1>2, <2>1, <2>3
  <2> QED
    BY <1>1, <2>1, <2>2, <2>3
<1> QED
  BY <1>1, <1>2, <1>3, <1>4, <1>5 DEF OutOk

LEMMA OutSame ==
  ASSUME NEW m, NEW q, q.feeds = m.feeds, q.round = m.round, NEW s, NEW k, OutOk(m, s, k)
  PROVE  OutOk(q, s, k)
<1>1. \A x : PairOk(m, x) => PairOk(q, x)
  BY DEF PairOk
<1>2. \A n : Segmented(m, s, n) => Segmented(q, s, n)
  BY DEF Segmented
<1> QED
  BY <1>1, <1>2 DEF OutOk

LEMMA EmptyFact ==
  ASSUME NEW m
  PROVE  OutOk(m, <<>>, 0) /\ IsSeq(<<>>) /\ \A kind : Says(<<>>, kind) = {}
<1>1. \A kind : Says(<<>>, kind) = {}
  BY DEF Says
<1>2. IsSeq(<<>>)
  <2>1. <<>> \in Seq({})
    OBVIOUS
  <2> QED
    BY <2>1 DEF IsSeq
<1>3. \A n : NthsBefore(<<>>, n) = {}
  BY <1>1 DEF NthsBefore
<1>4. NthsBefore(<<>>, Len(<<>>) + 1) = 1 .. 0
  BY <1>3
<1> QED
  BY <1>1, <1>2, <1>4 DEF OutOk

(* What the layers bring, and how much of it.                               *)
LEMMA FeedFact ==
  ASSUME NEW m, MuxPre(m), NEW l \in Layers
  PROVE  /\ Len(m.feeds[l].events) \in Nat /\ DOMAIN m.feeds[l].events = 1 .. Len(m.feeds[l].events)
         /\ Len(m.feeds[l].frames) \in Nat \ {0}
         /\ \A k \in 1 .. Len(m.feeds[l].events) :
               m.feeds[l].events[k].kind \in {"caps", "segment", "tag"}
         /\ \A k \in 1 .. Len(m.feeds[l].frames) :
               m.feeds[l].frames[k].pts \in 0 .. PtsPart * PtsPart * PtsPart * PtsPart - 1
         /\ AllTold(m, l) => Told(m, l, "caps")
         /\ AllTold(m, "BASE") => Told(m, "BASE", "segment")
         /\ m.told[l] \in 0 .. Len(m.feeds[l].events) /\ m.shown[l] \in 0 .. Len(m.feeds[l].frames)
<1>1. SoundFeeds(m.feeds) /\ m.told \in [Layers -> Nat] /\ m.shown \in [Layers -> Nat] /\ LayerOf(m, l)
  BY DEF MuxPre, IsMux
<1>2. ASSUME NEW k \in Layers PROVE SoundFeed(m.feeds[k])
  BY <1>1 DEF SoundFeeds
<1>3. ASSUME NEW k \in Layers
      PROVE  Len(m.feeds[k].events) \in Nat /\ DOMAIN m.feeds[k].events = 1 .. Len(m.feeds[k].events)
  BY <1>2 DEF SoundFeed
<1>4. \A k \in 1 .. Len(m.feeds[l].events) : m.feeds[l].events[k].kind \in {"caps", "segment", "tag"}
  <2> DEFINE e == m.feeds[l].events
             T == [kind : {"caps", "segment", "tag"}]
  <2>1. e \in Seq(T)
    BY <1>2 DEF SoundFeed
  <2>2. \A x \in T : x.kind \in {"caps", "segment", "tag"}
    OBVIOUS
  <2> HIDE DEF e, T
  <2>3. \A k \in 1 .. Len(e) : e[k] \in T
    BY <2>1, ElementOfSeq
  <2> QED
    BY <2>2, <2>3 DEF e
<1>5. "BASE" \in Layers
  BY DEF Layers
<1>6. AllTold(m, "BASE") => Told(m, "BASE", "segment")
  BY <1>1, <1>3, <1>5 DEF AllTold, Told, SoundFeeds
<1>7. AllTold(m, l) => Told(m, l, "caps")
  BY <1>2, <1>3 DEF AllTold, Told, SoundFeed
<1>8. /\ Len(m.feeds[l].frames) \in Nat \ {0}
      /\ \A k \in 1 .. Len(m.feeds[l].frames) :
               m.feeds[l].frames[k].pts \in 0 .. PtsPart * PtsPart * PtsPart * PtsPart - 1
  BY <1>2 DEF SoundFeed
<1>9. m.told[l] \in 0 .. Len(m.feeds[l].events) /\ m.shown[l] \in 0 .. Len(m.feeds[l].frames)
  BY <1>1, <1>3, <1>8 DEF LayerOf
<1> QED
  BY <1>3, <1>4, <1>6, <1>7, <1>8, <1>9

(* Nothing is told the combiner but on a pad; one that stands still or      *)
(* starts over holds nothing.                                               *)
LEMMA IdleFact ==
  ASSUME NEW m, MuxPre(m), m.mode # "PAUSED"
  PROVE  /\ m.state # "WAIT_EL" /\ m.flushing = {} /\ m.out = <<>> /\ ~Over(m)
         /\ \A l \in DOMAIN m.pads : m.pads[l].holds = <<>> /\ ~m.pads[l].eos
         /\ \A l \in Layers : m.shown[l] = 0
<1>1. m.state # "WAIT_EL" /\ m.flushing = {} /\ m.out = <<>>
  BY DEF MuxPre, ModeOf
<1>2. ~Over(m)
  BY <1>1, EmptyFact DEF Over
<1>3. \A l \in DOMAIN m.pads : m.pads[l].holds = <<>> /\ ~m.pads[l].eos
  BY DEF MuxPre, PadOk
<1>4. PICK s \in Nat : OutOk(m, <<>>, s) /\ TurnOk(m, s)
  BY <1>1 DEF MuxPre
<1>5. 1 .. s = {}
  <2>1. NthsBefore(<<>>, Len(<<>>) + 1) = {}
    BY EmptyFact DEF NthsBefore
  <2> QED
    BY <1>4, <2>1 DEF OutOk
<1>6. s = 0
  BY <1>4, <1>5
<1>7. \A l \in Layers : m.shown[l] = 0
  BY <1>2, <1>3, <1>4, <1>6 DEF TurnOk, Holding
<1> QED
  BY <1>1, <1>2, <1>3, <1>7

(* Before PAUSED: pads come, and with the second the task starts.           *)
GrownPad(m, q, l) ==
  /\ IsPad(q.pads[l]) /\ (q.pads[l].blocked \/ Full(q)) /\ q.pads[l].holds = <<>> /\ ~q.pads[l].eos
  /\ q.pads[l].blocked => q.mode # "PAUSED"
  /\ IF l \in DOMAIN m.pads
     THEN /\ q.pads[l].type = m.pads[l].type /\ q.pads[l].caps = m.pads[l].caps
          /\ q.pads[l].blocked => m.pads[l].blocked
     ELSE q.pads[l].type = "NONE"
Grown(m, q) ==
  /\ q = [x \in MuxFields |-> q[x]]
  /\ DOMAIN m.pads \subseteq DOMAIN q.pads /\ DOMAIN q.pads \subseteq Layers
  /\ q.pads = [l \in DOMAIN q.pads |-> q.pads[l]]
  /\ q.n \in 0 .. 2 /\ (q.n = 0 <=> DOMAIN q.pads = {}) /\ (q.n = 2 <=> Full(q))
  /\ q.state = m.state /\ q.seg = m.seg /\ q.tags = m.tags /\ q.feeds = m.feeds
  /\ q.told = m.told /\ q.shown = m.shown /\ q.round = m.round /\ q.out = m.out
  /\ q.flushing = m.flushing
  /\ \A l \in DOMAIN q.pads : GrownPad(m, q, l)
  /\ q.mode = "READY" \/ (q.mode = "PAUSED" /\ Full(q)) \/ (q.mode = "WAITING" /\ ~Full(q))

LEMMA GrownKeeps ==
  ASSUME NEW m, MuxPre(m), m.mode # "PAUSED", NEW q, Grown(m, q)
  PROVE  MuxOf(q)
<1>1. /\ m.state # "WAIT_EL" /\ m.flushing = {} /\ m.out = <<>> /\ ~Over(m)
      /\ \A l \in Layers : m.shown[l] = 0
  BY IdleFact
<1>2. IsMux(q)
  BY DEF MuxPre, IsMux, Grown, GrownPad
<1>3. ModeOf(q) /\ (Unprepared(q) <=> Unprepared(m))
  <2>1. ModeOf(m) /\ DOMAIN m.pads \subseteq Layers
    BY DEF MuxPre, IsMux
  <2>2. /\ \A l \in DOMAIN m.pads : l \in DOMAIN q.pads /\ q.pads[l].type = m.pads[l].type
        /\ \A l \in DOMAIN q.pads : l \notin DOMAIN m.pads => q.pads[l].type = "NONE"
        /\ DOMAIN q.pads \subseteq Layers
    BY DEF Grown, GrownPad
  <2>3. CASE Full(m)
    <3>1. DOMAIN q.pads = DOMAIN m.pads /\ Full(q)
      BY <2>2, <2>3 DEF Full
    <3>2. SameTyped(q)
      BY <2>1, <2>2, <3>1 DEF ModeOf, SameTyped
    <3> QED
      BY <1>1, <2>1, <2>2, <3>1, <3>2 DEF ModeOf, Grown, Unprepared
  <2>4. CASE ~Full(m)
    <3>1. m.state = "NONE" /\ \A l \in DOMAIN q.pads : q.pads[l].type = "NONE"
      BY <2>1, <2>2, <2>4 DEF ModeOf, SameTyped
    <3> QED
      BY <1>1, <2>1, <3>1 DEF ModeOf, Grown, Unprepared, SameTyped
  <2> QED
    BY <2>3, <2>4
<1>4. SegOk(q)
  BY <1>3 DEF MuxPre, SegOk, Grown, Told, Segmented
<1>5. \A l \in Layers : LayerOf(q, l)
  BY DEF MuxPre, LayerOf, Grown, AllTold
<1>6. ASSUME NEW l \in DOMAIN q.pads PROVE PadOk(q, l, q.pads[l])
  <2>1. GrownPad(m, q, l) /\ l \in Layers
    BY <1>6 DEF Grown
  <2>2. CASE l \in DOMAIN m.pads
    <3>1. PadOk(m, l, m.pads[l])
      BY <2>2 DEF MuxPre
    <3> QED
      BY <1>1, <2>1, <2>2, <3>1 DEF PadOk, Grown, GrownPad, Told
  <2>3. CASE l \notin DOMAIN m.pads
    <3>1. m.told[l] = 0 /\ m.state = "NONE"
      BY <2>1, <2>3 DEF MuxPre, LayerOf, ModeOf, Full
    <3> QED
      BY <1>1, <2>1, <2>3, <3>1 DEF PadOk, Grown, GrownPad, Told
  <2> QED
    BY <2>2, <2>3
<1>7. OutOk(q, q.out, 0) /\ ~Over(q)
  BY <1>1, EmptyFact DEF Grown, Over
<1>8. TurnOk(q, 0)
  <2>1. \A l \in Layers : ~Holding(q, l) /\ q.shown[l] = 0
    BY <1>1 DEF Grown, GrownPad, Holding
  <2>2. q.state # "WAIT_EL" /\ q.flushing = {}
    BY <1>1 DEF Grown
  <2> QED
    BY <1>7, <2>1, <2>2 DEF TurnOk
<1>9. ~AllCollected(q)
  BY DEF AllCollected, Grown, GrownPad
<1> QED
  BY <1>2, <1>3, <1>4, <1>5, <1>6, <1>7, <1>8, <1>9 DEF MuxPre, MuxOf

LEMMA StartedFact ==
  ASSUME NEW m, MuxPre(m), m.mode # "PAUSED", NEW r, Grown(m, [r EXCEPT !.mode = "READY"]), Full(r),
         r = [x \in MuxFields |-> r[x]]
  PROVE  Grown(m, Started(r))
<1> DEFINE q == Started(r)
           o == [r EXCEPT !.mode = "READY"]
<1>1. /\ q = [x \in MuxFields |-> q[x]] /\ q.mode = "PAUSED" /\ q.n = r.n /\ q.state = r.state
      /\ q.seg = r.seg /\ q.tags = r.tags /\ q.feeds = r.feeds /\ q.told = r.told
      /\ q.shown = r.shown /\ q.round = r.round /\ q.out = r.out /\ q.flushing = r.flushing
      /\ q.pads = [l \in DOMAIN r.pads |-> [r.pads[l] EXCEPT !.blocked = FALSE]]
  BY DEF Started, MuxFields
<1>2. /\ o.n = r.n /\ o.state = r.state /\ o.pads = r.pads
      /\ o.seg = r.seg /\ o.tags = r.tags /\ o.feeds = r.feeds /\ o.told = r.told
      /\ o.shown = r.shown /\ o.round = r.round /\ o.out = r.out /\ o.flushing = r.flushing
  BY DEF MuxFields
<1>3. Grown(m, o)
  OBVIOUS
<1> HIDE DEF q, o
<1>4. ASSUME NEW l \in DOMAIN q.pads PROVE GrownPad(m, q, l)
  <2>1. GrownPad(m, o, l) /\ q.pads[l] = [r.pads[l] EXCEPT !.blocked = FALSE] /\ o.pads[l] = r.pads[l]
    BY <1>1, <1>2, <1>3, <1>4 DEF Grown
  <2>2. IsPad(r.pads[l])
    BY <2>1 DEF GrownPad
  <2>3. /\ IsPad(q.pads[l]) /\ q.pads[l].type = r.pads[l].type /\ q.pads[l].caps = r.pads[l].caps
        /\ q.pads[l].holds = r.pads[l].holds /\ q.pads[l].eos = r.pads[l].eos /\ q.pads[l].blocked = FALSE
    BY <2>1, <2>2 DEF IsPad, PadFields
  <2> QED
    BY <1>1, <2>1, <2>3 DEF GrownPad, Full
<1> QED
  BY <1>1, <1>2, <1>3, <1>4 DEF Grown, Full, q

LEMMA MuxIs ==
  ASSUME MuxInv
  PROVE  MuxPre(mux) /\ IsMux(mux) /\ mux = [x \in MuxFields |-> mux[x]]
BY DEF MuxInv, MuxOf, MuxPre, IsMux

LEMMA RequestKeeps ==
  ASSUME MuxInv, NEW layer \in Layers, RequestPad(layer)
  PROVE  MuxInv'
<1> DEFINE pads == [l \in DOMAIN mux.pads \union {layer} |->
                      IF l = layer THEN InitialPad ELSE mux.pads[l]]
           r == [mux EXCEPT !.n = @ + 1, !.pads = pads]
           o == [r EXCEPT !.mode = "READY"]
<1>1. /\ layer \notin DOMAIN mux.pads
      /\ mux' = IF r.mode = "WAITING" /\ r.n = MAX_STREAMS THEN Started(r) ELSE r
  BY DEF RequestPad
<1>2. MuxPre(mux) /\ IsMux(mux) /\ mux = [x \in MuxFields |-> mux[x]]
  BY MuxIs
<1>3. mux.mode # "PAUSED"
  BY <1>1, <1>2 DEF MuxPre, ModeOf, Full
<1>4. /\ r = [x \in MuxFields |-> r[x]] /\ r.mode = mux.mode /\ r.n = mux.n + 1 /\ r.state = mux.state
      /\ r.seg = mux.seg /\ r.tags = mux.tags /\ r.feeds = mux.feeds /\ r.told = mux.told
      /\ r.shown = mux.shown /\ r.round = mux.round /\ r.out = mux.out /\ r.pads = pads
      /\ r.flushing = mux.flushing
  BY <1>2 DEF MuxFields
<1>5. /\ o = [x \in MuxFields |-> o[x]] /\ o.mode = "READY" /\ o.n = r.n /\ o.state = r.state
      /\ o.seg = r.seg /\ o.tags = r.tags /\ o.feeds = r.feeds /\ o.told = r.told
      /\ o.shown = r.shown /\ o.round = r.round /\ o.out = r.out /\ o.pads = r.pads
      /\ o.flushing = r.flushing
  BY <1>4 DEF MuxFields
<1> HIDE DEF r, o
<1>6. /\ DOMAIN r.pads = DOMAIN mux.pads \cup {layer} /\ r.pads[layer] = InitialPad
      /\ \A l \in DOMAIN mux.pads : r.pads[l] = mux.pads[l]
      /\ r.pads = [l \in DOMAIN r.pads |-> r.pads[l]]
  BY <1>1, <1>4
<1>7. mux.n \in 0 .. 2 /\ (mux.n = 0 <=> DOMAIN mux.pads = {}) /\ (mux.n = 2 <=> Full(mux))
  BY <1>2 DEF IsMux
<1>8. r.n \in 0 .. 2 /\ (r.n = 0 <=> DOMAIN r.pads = {}) /\ (r.n = 2 <=> Full(r))
  <2>1. ~Full(mux)
    BY <1>1 DEF Full
  <2>2. DOMAIN mux.pads \subseteq Layers
    BY <1>2 DEF IsMux
  <2>3. DOMAIN mux.pads = {} => ~Full(r) /\ r.n = 1
    BY <1>4, <1>6, <1>7 DEF Full, Layers
  <2>4. DOMAIN mux.pads # {} => Full(r) /\ r.n = 2
    <3> SUFFICES ASSUME NEW l \in DOMAIN mux.pads PROVE Full(r) /\ r.n = 2
      OBVIOUS
    <3>1. r.n = 2
      BY <1>4, <1>7, <2>1
    <3>2. Layers = {l, layer}
      BY <1>1, <2>2 DEF Layers
    <3>3. DOMAIN r.pads = Layers
      BY <1>6, <2>2, <3>2
    <3> QED
      BY <3>1, <3>3 DEF Full
  <2> QED
    BY <1>6, <2>3, <2>4
<1>9. ASSUME NEW l \in DOMAIN r.pads PROVE GrownPad(mux, r, l)
  <2>1. CASE l = layer
    <3>1. IsPad(InitialPad) /\ InitialPad.blocked /\ InitialPad.holds = <<>> /\ ~InitialPad.eos
          /\ InitialPad.type = "NONE"
      BY DEF IsPad, InitialPad, PadFields
    <3> QED
      BY <1>1, <1>3, <1>4, <1>6, <2>1, <3>1 DEF GrownPad
  <2>2. CASE l \in DOMAIN mux.pads
    <3>1. IsPad(mux.pads[l]) /\ PadOk(mux, l, mux.pads[l]) /\ ~Full(mux)
      BY <1>1, <1>2, <2>2 DEF IsMux, MuxPre, Full
    <3> QED
      BY <1>3, <1>4, <1>6, <2>2, <3>1 DEF GrownPad, PadOk
  <2> QED
    BY <1>6, <2>1, <2>2
<1>10. Grown(mux, o)
  <2>1. \A l \in DOMAIN o.pads : GrownPad(mux, o, l)
    BY <1>5, <1>9 DEF GrownPad, Full
  <2>2. /\ DOMAIN mux.pads \subseteq DOMAIN o.pads /\ DOMAIN o.pads \subseteq Layers
        /\ o.pads = [l \in DOMAIN o.pads |-> o.pads[l]]
    BY <1>2, <1>5, <1>6 DEF IsMux
  <2>3. o.n \in 0 .. 2 /\ (o.n = 0 <=> DOMAIN o.pads = {}) /\ (o.n = 2 <=> Full(o))
    BY <1>5, <1>8 DEF Full
  <2> QED
    BY <1>4, <1>5, <2>1, <2>2, <2>3 DEF Grown
<1>11. CASE r.mode = "WAITING" /\ r.n = MAX_STREAMS
  <2>1. Full(r)
    BY <1>8, <1>11 DEF MAX_STREAMS
  <2>2. Grown(mux, Started(r))
    BY <1>2, <1>3, <1>4, <1>10, <2>1, StartedFact DEF o
  <2>3. MuxOf(Started(r))
    BY <1>2, <1>3, <2>2, GrownKeeps
  <2>4. mux' = Started(r)
    BY <1>1, <1>11 DEF r
  <2> QED
    BY <2>3, <2>4 DEF MuxInv
<1>12. CASE ~(r.mode = "WAITING" /\ r.n = MAX_STREAMS)
  <2>1. r.mode = "READY" \/ (r.mode = "WAITING" /\ ~Full(r))
    <3>1. r.mode \in {"READY", "WAITING"}
      BY <1>2, <1>3, <1>4 DEF IsMux
    <3> QED
      BY <1>8, <1>12, <3>1 DEF MAX_STREAMS
  <2>2. Grown(mux, r)
    BY <1>2, <1>4, <1>6, <1>8, <1>9, <2>1 DEF Grown, IsMux
  <2>3. mux' = r
    BY <1>1, <1>12 DEF r
  <2> QED
    BY <1>2, <1>3, <2>2, <2>3, GrownKeeps DEF MuxInv
<1> QED
  BY <1>11, <1>12

LEMMA ToPausedKeeps ==
  ASSUME MuxInv, ReadyToPaused
  PROVE  MuxInv'
<1>1. MuxPre(mux) /\ IsMux(mux) /\ mux = [x \in MuxFields |-> mux[x]]
  BY MuxIs
<1>2. mux.mode = "READY" /\ mux' = IF mux.n # MAX_STREAMS THEN [mux EXCEPT !.mode = "WAITING"]
                                   ELSE Started(mux)
  BY DEF ReadyToPaused
<1>3. ASSUME NEW l \in DOMAIN mux.pads PROVE GrownPad(mux, mux, l)
  BY <1>1, <1>2 DEF MuxPre, IsMux, PadOk, GrownPad
<1>4. Grown(mux, mux)
  BY <1>1, <1>2, <1>3 DEF Grown, IsMux
<1>5. CASE mux.n # MAX_STREAMS
  <2> DEFINE q == [mux EXCEPT !.mode = "WAITING"]
  <2>1. /\ q = [x \in MuxFields |-> q[x]] /\ q.mode = "WAITING" /\ q.n = mux.n /\ q.state = mux.state
        /\ q.seg = mux.seg /\ q.tags = mux.tags /\ q.feeds = mux.feeds /\ q.told = mux.told
        /\ q.shown = mux.shown /\ q.round = mux.round /\ q.out = mux.out /\ q.pads = mux.pads
        /\ q.flushing = mux.flushing
    BY <1>1 DEF MuxFields
  <2> HIDE DEF q
  <2>2. ~Full(q)
    BY <1>1, <1>5, <2>1 DEF IsMux, MAX_STREAMS, Full
  <2>3. Grown(mux, q)
    BY <1>3, <1>4, <2>1, <2>2 DEF Grown, GrownPad, Full
  <2>4. mux' = q
    BY <1>2, <1>5 DEF q
  <2> QED
    BY <1>1, <1>2, <2>3, <2>4, GrownKeeps DEF MuxInv
<1>6. CASE mux.n = MAX_STREAMS
  <2>1. Full(mux)
    BY <1>1, <1>6 DEF IsMux, MAX_STREAMS
  <2>2. [mux EXCEPT !.mode = "READY"] = mux
    BY <1>1, <1>2 DEF MuxFields
  <2>3. Grown(mux, Started(mux))
    BY <1>1, <1>2, <1>4, <2>1, <2>2, StartedFact
  <2> QED
    BY <1>1, <1>2, <1>6, <2>3, GrownKeeps DEF MuxInv
<1> QED
  BY <1>5, <1>6

(* A flush, its end on a layer, or a stop: both layers start over.          *)
StartsOver(m, q) ==
  /\ q = [x \in MuxFields |-> q[x]] /\ q.n = m.n /\ q.seg = m.seg /\ q.feeds = m.feeds
  /\ q.told \in [Layers -> Nat] /\ q.shown \in [Layers -> Nat]
  /\ \A l \in Layers : q.told[l] = 0 /\ q.shown[l] = 0
  /\ q.round \in Nat /\ q.out = <<>>
  /\ DOMAIN q.pads = Layers /\ q.pads = [l \in DOMAIN q.pads |-> q.pads[l]]
  /\ \A l \in Layers : /\ IsPad(q.pads[l]) /\ q.pads[l].holds = <<>>
                       /\ q.pads[l].type = m.pads[l].type /\ q.pads[l].caps = m.pads[l].caps
                       /\ ~q.pads[l].blocked /\ (q.pads[l].eos => l \in q.flushing)
  /\ q.flushing \subseteq Layers /\ q.state \in {"NONE", "WAIT_BL", "WAIT_EL"}
  /\ \/ q.mode = "READY" /\ q.flushing = {} /\ q.state # "WAIT_EL"
     \/ q.mode = "PAUSED" /\ (q.state = "WAIT_EL" => q.flushing # {})

LEMMA StartsOverKeeps ==
  ASSUME NEW m, MuxPre(m), Full(m), NEW q, StartsOver(m, q)
  PROVE  MuxOf(q)
<1>1. Full(q) /\ DOMAIN q.pads = Layers /\ DOMAIN m.pads = Layers
  BY DEF StartsOver, Full
<1>2. IsMux(q)
  <2>1. IsSeq(q.out)
    BY EmptyFact DEF StartsOver
  <2>2. q.n \in 0 .. 2 /\ (q.n = 0 <=> DOMAIN q.pads = {}) /\ (q.n = 2 <=> Full(q))
    BY <1>1 DEF MuxPre, IsMux, StartsOver, Full
  <2>3. SoundFeeds(q.feeds)
    BY DEF MuxPre, IsMux, StartsOver
  <2> QED
    BY <2>1, <2>2, <2>3 DEF IsMux, StartsOver
<1>3. ModeOf(q)
  <2>1. SameTyped(q)
    BY <1>1 DEF MuxPre, ModeOf, SameTyped, StartsOver
  <2> QED
    BY <1>1, <2>1 DEF ModeOf, StartsOver
<1>4. SegOk(q)
  <2>1. ~Told(q, "BASE", "segment")
    <3>1. q.told["BASE"] = 0
      BY DEF StartsOver, Layers
    <3> QED
      BY <3>1 DEF Told
  <2> QED
    BY <2>1 DEF SegOk, MuxPre, StartsOver
<1>5. ASSUME NEW l \in Layers PROVE LayerOf(q, l)
  <2>1. Len(q.feeds[l].events) \in Nat /\ Len(q.feeds[l].frames) \in Nat
    BY FeedFact DEF StartsOver
  <2>2. q.told[l] = 0 /\ q.shown[l] = 0
    BY DEF StartsOver
  <2> QED
    BY <2>1, <2>2 DEF LayerOf
<1>6. ASSUME NEW l \in DOMAIN q.pads PROVE PadOk(q, l, q.pads[l])
  <2>1. PadOk(m, l, m.pads[l]) /\ l \in Layers
    BY <1>1 DEF MuxPre
  <2>2. ~Told(q, l, "caps")
    <3>1. q.told[l] = 0
      BY <2>1 DEF StartsOver
    <3> QED
      BY <3>1 DEF Told
  <2> QED
    BY <1>1, <2>1, <2>2 DEF PadOk, StartsOver
<1>7. OutOk(q, q.out, 0) /\ ~Over(q)
  BY EmptyFact DEF Over, StartsOver
<1>8. TurnOk(q, 0)
  <2>1. \A l \in Layers : q.shown[l] = 0 + (IF Holding(q, l) THEN 1 ELSE 0)
    <3>1. \A l \in Layers : ~Holding(q, l) /\ q.shown[l] = 0
      BY DEF Holding, StartsOver
    <3> QED
      BY <3>1
  <2> QED
    BY <1>7, <2>1 DEF TurnOk, StartsOver
<1>9. q.flushing = {} => ~AllCollected(q)
  BY <1>1 DEF AllCollected, StartsOver, Layers
<1> QED
  BY <1>2, <1>3, <1>4, <1>5, <1>6, <1>7, <1>8, <1>9 DEF MuxPre, MuxOf

LEMMA RewoundFact ==
  ASSUME NEW m, MuxPre(m), Full(m)
  PROVE  LET r == Rewound(m)
         IN  /\ r = [x \in MuxFields |-> r[x]] /\ r.mode = m.mode /\ r.n = m.n /\ r.state = m.state
             /\ r.seg = m.seg /\ r.feeds = m.feeds /\ r.round \in Nat /\ r.out = <<>>
             /\ r.told \in [Layers -> Nat] /\ r.shown \in [Layers -> Nat]
             /\ \A l \in Layers : r.told[l] = 0 /\ r.shown[l] = 0
             /\ DOMAIN r.pads = Layers /\ r.pads = [l \in DOMAIN r.pads |-> r.pads[l]]
             /\ \A l \in Layers :
                  /\ IsPad(r.pads[l]) /\ r.pads[l].holds = <<>> /\ r.pads[l].type = m.pads[l].type
                  /\ r.pads[l].caps = m.pads[l].caps /\ r.pads[l].blocked = m.pads[l].blocked
<1> DEFINE r == Rewound(m)
           pads == [l \in DOMAIN m.pads |-> [m.pads[l] EXCEPT !.holds = <<>>]]
<1>1. IsMux(m) /\ m = [x \in MuxFields |-> m[x]] /\ DOMAIN m.pads = Layers
  BY DEF MuxPre, IsMux, Full
<1>2. /\ r = [x \in MuxFields |-> r[x]] /\ r.mode = m.mode /\ r.n = m.n /\ r.state = m.state
      /\ r.seg = m.seg /\ r.feeds = m.feeds /\ r.round = m.round + 1 /\ r.out = <<>>
      /\ r.told = [l \in Layers |-> 0] /\ r.shown = [l \in Layers |-> 0] /\ r.pads = pads
  BY <1>1 DEF Rewound, MuxFields
<1> HIDE DEF r
<1>3. DOMAIN pads = Layers /\ pads = [l \in DOMAIN pads |-> pads[l]]
  BY <1>1
<1>4. ASSUME NEW l \in Layers
      PROVE  /\ IsPad(pads[l]) /\ pads[l].holds = <<>> /\ pads[l].type = m.pads[l].type
             /\ pads[l].caps = m.pads[l].caps /\ pads[l].blocked = m.pads[l].blocked
  <2>1. IsPad(m.pads[l]) /\ pads[l] = [m.pads[l] EXCEPT !.holds = <<>>]
    BY <1>1 DEF IsMux
  <2> QED
    BY <2>1 DEF IsPad, PadFields
<1> HIDE DEF pads
<1>5. r.round \in Nat /\ r.told \in [Layers -> Nat] /\ r.shown \in [Layers -> Nat]
      /\ \A l \in Layers : r.told[l] = 0 /\ r.shown[l] = 0
  <2>1. r.round \in Nat
    BY <1>1, <1>2 DEF IsMux
  <2>2. r.told \in [Layers -> Nat] /\ r.shown \in [Layers -> Nat]
    BY <1>2
  <2>3. \A l \in Layers : r.told[l] = 0 /\ r.shown[l] = 0
    BY <1>2
  <2> QED
    BY <2>1, <2>2, <2>3
<1> QED
  BY <1>2, <1>3, <1>4, <1>5 DEF r

LEMMA ToReadyKeeps ==
  ASSUME MuxInv, PausedToReady
  PROVE  MuxInv'
<1> DEFINE r == Rewound(mux)
           pads == [l \in DOMAIN r.pads |-> [r.pads[l] EXCEPT !.eos = FALSE]]
<1>1. PICK state \in {"NONE"} \cup {"WAIT_BL" : l \in mux.flushing} :
        mux' = [r EXCEPT !.mode = "READY", !.state = state, !.flushing = {},
                         !.pads = [l \in DOMAIN @ |-> [@[l] EXCEPT !.eos = FALSE]]]
  BY DEF PausedToReady
<1>2. state \in {"NONE", "WAIT_BL"}
  BY <1>1
<1>3. MuxPre(mux) /\ Full(mux)
  BY MuxIs DEF PausedToReady, MuxPre, ModeOf
<1>4. /\ r = [x \in MuxFields |-> r[x]] /\ r.n = mux.n /\ r.seg = mux.seg /\ r.feeds = mux.feeds
      /\ r.round \in Nat /\ r.out = <<>>
      /\ r.told \in [Layers -> Nat] /\ r.shown \in [Layers -> Nat]
      /\ \A l \in Layers : r.told[l] = 0 /\ r.shown[l] = 0
      /\ DOMAIN r.pads = Layers
      /\ \A l \in Layers :
           /\ IsPad(r.pads[l]) /\ r.pads[l].holds = <<>> /\ r.pads[l].type = mux.pads[l].type
           /\ r.pads[l].caps = mux.pads[l].caps /\ ~r.pads[l].blocked
  <2>1. \A l \in Layers : ~mux.pads[l].blocked
    BY <1>3 DEF PausedToReady, MuxPre, PadOk, Full
  <2>2. /\ r = [x \in MuxFields |-> r[x]] /\ r.n = mux.n /\ r.seg = mux.seg /\ r.feeds = mux.feeds
        /\ r.round \in Nat /\ r.out = <<>>
        /\ r.told \in [Layers -> Nat] /\ r.shown \in [Layers -> Nat]
        /\ \A l \in Layers : r.told[l] = 0 /\ r.shown[l] = 0
        /\ DOMAIN r.pads = Layers
        /\ \A l \in Layers :
             /\ IsPad(r.pads[l]) /\ r.pads[l].holds = <<>> /\ r.pads[l].type = mux.pads[l].type
             /\ r.pads[l].caps = mux.pads[l].caps /\ r.pads[l].blocked = mux.pads[l].blocked
    BY <1>3, RewoundFact
  <2> HIDE DEF r
  <2> QED
    BY <2>1, <2>2
<1> HIDE DEF r
<1>5. /\ mux' = [x \in MuxFields |-> mux'[x]] /\ mux'.mode = "READY" /\ mux'.n = r.n /\ mux'.seg = r.seg
      /\ mux'.state = state /\ mux'.flushing = {} /\ mux'.feeds = r.feeds /\ mux'.round = r.round
      /\ mux'.out = r.out /\ mux'.told = r.told /\ mux'.shown = r.shown /\ mux'.pads = pads
  BY <1>1, <1>4 DEF MuxFields
<1>6. DOMAIN pads = Layers /\ pads = [l \in DOMAIN pads |-> pads[l]]
  BY <1>4
<1>7. ASSUME NEW l \in Layers
      PROVE  /\ IsPad(pads[l]) /\ pads[l].holds = <<>> /\ pads[l].type = mux.pads[l].type
             /\ pads[l].caps = mux.pads[l].caps /\ ~pads[l].eos /\ ~pads[l].blocked
  <2>1. IsPad(r.pads[l]) /\ pads[l] = [r.pads[l] EXCEPT !.eos = FALSE]
    BY <1>4
  <2> QED
    BY <1>4, <2>1 DEF IsPad, PadFields
<1> HIDE DEF pads
<1>8. StartsOver(mux, mux')
  BY <1>2, <1>4, <1>5, <1>6, <1>7 DEF StartsOver
<1>9. MuxOf(mux')
  BY <1>3, <1>8, StartsOverKeeps
<1> QED
  BY <1>9 DEF MuxInv

LEMMA SeekKeepsMux ==
  ASSUME MuxInv, SeekDown
  PROVE  MuxInv'
<1> DEFINE r == Rewound(mux)
<1>1. mux' = [r EXCEPT !.flushing = DOMAIN mux.pads] /\ mux.mode = "PAUSED"
  BY DEF SeekDown
<1>2. MuxPre(mux) /\ Full(mux) /\ DOMAIN mux.pads = Layers
  BY <1>1, MuxIs DEF MuxPre, ModeOf, Full
<1>3. /\ r = [x \in MuxFields |-> r[x]] /\ r.mode = mux.mode /\ r.n = mux.n /\ r.state = mux.state
      /\ r.seg = mux.seg /\ r.feeds = mux.feeds /\ r.round \in Nat /\ r.out = <<>>
      /\ r.told \in [Layers -> Nat] /\ r.shown \in [Layers -> Nat]
      /\ \A l \in Layers : r.told[l] = 0 /\ r.shown[l] = 0
      /\ DOMAIN r.pads = Layers /\ r.pads = [l \in DOMAIN r.pads |-> r.pads[l]]
      /\ \A l \in Layers :
           /\ IsPad(r.pads[l]) /\ r.pads[l].holds = <<>> /\ r.pads[l].type = mux.pads[l].type
           /\ r.pads[l].caps = mux.pads[l].caps /\ ~r.pads[l].blocked
  <2>1. \A l \in Layers : ~mux.pads[l].blocked
    BY <1>1, <1>2 DEF MuxPre, PadOk
  <2> QED
    BY <1>2, <2>1, RewoundFact
<1> HIDE DEF r
<1>4. /\ mux' = [x \in MuxFields |-> mux'[x]] /\ mux'.mode = "PAUSED" /\ mux'.n = r.n /\ mux'.seg = r.seg
      /\ mux'.state = mux.state /\ mux'.flushing = Layers /\ mux'.feeds = r.feeds
      /\ mux'.round = r.round /\ mux'.out = r.out /\ mux'.told = r.told /\ mux'.shown = r.shown
      /\ mux'.pads = r.pads
  BY <1>1, <1>2, <1>3 DEF MuxFields
<1>5. mux.state \in {"NONE", "WAIT_BL", "WAIT_EL"} /\ Layers # {}
  BY <1>2 DEF MuxPre, IsMux, Layers
<1>6. StartsOver(mux, mux')
  BY <1>3, <1>4, <1>5 DEF StartsOver
<1>7. MuxOf(mux')
  BY <1>2, <1>6, StartsOverKeeps
<1> QED
  BY <1>7 DEF MuxInv

LEMMA FlushStopKeeps ==
  ASSUME MuxInv, NEW l \in Layers, LayerFlushStop(l)
  PROVE  MuxInv'
<1> DEFINE pads == [mux.pads EXCEPT ![l].eos = FALSE]
<1>1. MuxPre(mux) /\ IsMux(mux) /\ mux = [x \in MuxFields |-> mux[x]] /\ ModeOf(mux)
  BY MuxIs DEF MuxPre
<1>2. l \in mux.flushing /\ mux' = [mux EXCEPT !.flushing = @ \ {l}, !.pads[l].eos = FALSE, !.state = "WAIT_BL"]
  BY DEF LayerFlushStop
<1>3. Full(mux) /\ DOMAIN mux.pads = Layers /\ mux.mode = "PAUSED" /\ mux.out = <<>>
  BY <1>1, <1>2 DEF ModeOf, Full
<1>4. /\ mux' = [x \in MuxFields |-> mux'[x]] /\ mux'.mode = "PAUSED" /\ mux'.n = mux.n /\ mux'.seg = mux.seg
      /\ mux'.state = "WAIT_BL" /\ mux'.flushing = mux.flushing \ {l} /\ mux'.feeds = mux.feeds
      /\ mux'.round = mux.round /\ mux'.out = <<>> /\ mux'.told = mux.told /\ mux'.shown = mux.shown
      /\ mux'.pads = pads
  BY <1>1, <1>2, <1>3 DEF MuxFields
<1>5. /\ DOMAIN pads = Layers /\ pads = [k \in DOMAIN pads |-> pads[k]]
      /\ pads[l] = [mux.pads[l] EXCEPT !.eos = FALSE]
      /\ \A k \in Layers : k # l => pads[k] = mux.pads[k]
  BY <1>1, <1>3 DEF IsMux
<1>6. \A k \in Layers : mux.told[k] = 0 /\ mux.shown[k] = 0
  BY <1>1, <1>2 DEF MuxPre, LayerOf
<1>7. ASSUME NEW k \in Layers
      PROVE  /\ IsPad(mux.pads[k]) /\ mux.pads[k].holds = <<>> /\ ~mux.pads[k].blocked
             /\ mux.pads[k].eos => k \in mux.flushing
  <2>1. PadOk(mux, k, mux.pads[k]) /\ IsPad(mux.pads[k])
    BY <1>1, <1>3 DEF MuxPre, IsMux
  <2>2. ~(mux.shown[k] > 0) /\ ~AllShown(mux, k)
    <3>1. Len(mux.feeds[k].frames) \in Nat \ {0}
      BY <1>1, FeedFact
    <3> QED
      BY <1>6, <3>1 DEF AllShown
  <2> QED
    BY <1>3, <2>1, <2>2 DEF PadOk
<1>8. ASSUME NEW k \in Layers
      PROVE  /\ IsPad(pads[k]) /\ pads[k].holds = <<>> /\ pads[k].type = mux.pads[k].type
             /\ pads[k].caps = mux.pads[k].caps /\ ~pads[k].blocked
             /\ pads[k].eos => k \in mux.flushing \ {l}
  <2>1. CASE k = l
    <3> DEFINE a == mux.pads[l]
               b == pads[l]
    <3>1. IsPad(a) /\ a.holds = <<>> /\ ~a.blocked /\ b = [a EXCEPT !.eos = FALSE]
      BY <1>5, <1>7
    <3> HIDE DEF a, b
    <3>2. IsPad(b) /\ b.holds = <<>> /\ b.type = a.type /\ b.caps = a.caps /\ b.eos = FALSE /\ ~b.blocked
      BY <3>1 DEF IsPad, PadFields
    <3> QED
      BY <2>1, <3>2 DEF a, b
  <2>2. CASE k # l
    BY <1>5, <1>7, <2>2
  <2> QED
    BY <2>1, <2>2
<1> HIDE DEF pads
<1>9. StartsOver(mux, mux')
  <2>1. mux.told \in [Layers -> Nat] /\ mux.shown \in [Layers -> Nat] /\ mux.round \in Nat
        /\ mux.flushing \subseteq Layers
    BY <1>1, <1>3 DEF IsMux, ModeOf
  <2> QED
    BY <1>4, <1>5, <1>6, <1>8, <2>1 DEF StartsOver
<1>10. MuxOf(mux')
  BY <1>1, <1>3, <1>9, StartsOverKeeps
<1> QED
  BY <1>10 DEF MuxInv

(* A layer's thread brings an event.                                        *)
Heard(m, l) == m.feeds[l].events[m.told[l] + 1]
LearnedPad(p, q) ==
  /\ IsPad(q) /\ q.type = p.type /\ q.holds = p.holds /\ q.eos = p.eos /\ q.blocked = p.blocked
  /\ p.caps => q.caps
Learned(m, q, l) ==
  /\ q = [x \in MuxFields |-> q[x]] /\ q.mode = m.mode /\ q.n = m.n /\ q.state = m.state
  /\ q.feeds = m.feeds /\ q.shown = m.shown /\ q.round = m.round /\ q.flushing = m.flushing
  /\ q.told = [m.told EXCEPT ![l] = @ + 1]
  /\ DOMAIN q.pads = DOMAIN m.pads /\ q.pads = [k \in DOMAIN q.pads |-> q.pads[k]]
  /\ \A k \in DOMAIN m.pads : LearnedPad(m.pads[k], q.pads[k])
  /\ Heard(m, l).kind = "caps" => q.pads[l].caps
  /\ q.out = m.out \/ (m.state # "NONE" /\ m.mode = "PAUSED" /\ q.out = Append(m.out, [kind |-> "caps"]))
  /\ q.seg = m.seg \/ \E x : q.seg = <<x>> /\ x.kind = "segment" /\ x.round = m.round
  /\ l = "BASE" /\ Heard(m, l).kind = "segment" /\ ~Unprepared(m) => q.seg # <<>> /\ q.seg[1].round = m.round

LEMMA LearnedKeeps ==
  ASSUME NEW m, MuxOf(m), m.flushing = {}, NEW l \in Layers, l \in DOMAIN m.pads, m.pads[l].holds = <<>>,
         m.told[l] < Len(m.feeds[l].events), NEW q, Learned(m, q, l)
  PROVE  MuxOf(q)
<1>1. /\ MuxPre(m) /\ IsMux(m) /\ m.told \in [Layers -> Nat] /\ m.shown \in [Layers -> Nat]
      /\ \A k \in Layers : Len(m.feeds[k].events) \in Nat /\ Len(m.feeds[k].frames) \in Nat
  BY FeedFact DEF MuxOf, MuxPre, IsMux
<1>2. PICK s \in Nat : OutOk(m, m.out, s) /\ TurnOk(m, s)
  BY <1>1 DEF MuxPre
<1>3. ~AllTold(m, l)
  BY <1>1 DEF AllTold
<1>4. ~Over(m) /\ m.shown[l] = 0 /\ ~m.pads[l].eos
  <2>1. m.shown[l] > 0 => AllTold(m, l)
    BY <1>1 DEF MuxPre, LayerOf
  <2>2. PadOk(m, l, m.pads[l])
    BY <1>1 DEF MuxPre
  <2> QED
    BY <1>1, <1>2, <1>3, <2>1, <2>2 DEF TurnOk, PadOk
<1>5. /\ q = [x \in MuxFields |-> q[x]] /\ q.mode = m.mode /\ q.n = m.n /\ q.state = m.state
      /\ q.feeds = m.feeds /\ q.shown = m.shown /\ q.round = m.round /\ q.flushing = {}
      /\ DOMAIN q.pads = DOMAIN m.pads /\ q.pads = [k \in DOMAIN q.pads |-> q.pads[k]]
      /\ \A k \in DOMAIN m.pads : LearnedPad(m.pads[k], q.pads[k])
  BY DEF Learned
<1>6. /\ q.told \in [Layers -> Nat] /\ q.told[l] = m.told[l] + 1
      /\ \A k \in Layers : k # l => q.told[k] = m.told[k]
  <2>1. q.told = [m.told EXCEPT ![l] = m.told[l] + 1]
    BY DEF Learned
  <2>2. m.told[l] + 1 \in Nat
    BY <1>1
  <2> QED
    BY <1>1, <2>1, <2>2
<1>7. /\ Full(q) <=> Full(m)
      /\ \A k \in DOMAIN m.pads : FrameHeld(q, k) = FrameHeld(m, k)
      /\ (Unprepared(q) <=> Unprepared(m)) /\ (SameTyped(q) <=> SameTyped(m))
  BY <1>5 DEF Full, FrameHeld, Unprepared, SameTyped, LearnedPad
<1>8. \A k \in Layers : \A kind : Told(q, k, kind) => Told(m, k, kind) \/ (k = l /\ Heard(m, l).kind = kind)
  <2> SUFFICES ASSUME NEW k \in Layers, NEW kind, Told(q, k, kind)
               PROVE  Told(m, k, kind) \/ (k = l /\ Heard(m, l).kind = kind)
    OBVIOUS
  <2>1. PICK i \in 1 .. q.told[k] : m.feeds[k].events[i].kind = kind
    BY <1>5 DEF Told
  <2>2. i \in 1 .. m.told[k] \/ (k = l /\ i = m.told[l] + 1)
    BY <1>1, <1>6
  <2> QED
    BY <2>1, <2>2 DEF Told, Heard
<1>9. IsSeq(q.out) /\ OutOk(q, q.out, s) /\ ~Over(q)
  <2>1. IsSeq(m.out) /\ Says(m.out, "eos") = {}
    BY <1>1, <1>4 DEF IsMux, Over
  <2>2. OutOk(m, q.out, s) /\ IsSeq(q.out) /\ Says(q.out, "eos") = {}
    <3>1. CASE q.out = m.out
      BY <1>2, <2>1, <3>1
    <3>2. CASE q.out = Append(m.out, [kind |-> "caps"])
      BY <1>2, <2>1, <3>2, AddEvent
    <3> QED
      BY <3>1, <3>2 DEF Learned
  <2> QED
    BY <1>5, <2>2, OutSame DEF Over
<1>10. IsMux(q)
  <2>1. \A k \in DOMAIN q.pads : IsPad(q.pads[k])
    BY <1>5 DEF LearnedPad
  <2>2. q.n \in 0 .. 2 /\ (q.n = 0 <=> DOMAIN q.pads = {}) /\ (q.n = 2 <=> Full(q))
    BY <1>1, <1>5, <1>7 DEF IsMux
  <2> QED
    BY <1>1, <1>5, <1>6, <1>9, <2>1, <2>2 DEF IsMux
<1>11. ModeOf(q)
  <2>1. ModeOf(m)
    BY <1>1 DEF MuxPre
  <2>2. q.state = "NONE" \/ q.mode # "PAUSED" => q.out = <<>>
    <3>1. CASE m.mode = "PAUSED" \/ m.state = "NONE"
      BY <1>5, <2>1, <3>1 DEF ModeOf, Learned
    <3>2. CASE m.mode # "PAUSED"
      <4>1. q.out = m.out
        BY <1>1, <3>2 DEF Learned
      <4> QED
        BY <2>1, <3>2, <4>1 DEF ModeOf
    <3> QED
      BY <3>1, <3>2
  <2> QED
    BY <1>5, <1>7, <2>1, <2>2 DEF ModeOf
<1>12. SegOk(q)
  <2>1. SegOk(m)
    BY <1>1 DEF MuxPre
  <2>2. q.seg = <<>> \/ (\E x : q.seg = <<x>> /\ x.kind = "segment")
    BY <2>1 DEF Learned, SegOk
  <2>3. ASSUME Segmented(m, m.out, Len(m.out) + 1) PROVE Segmented(q, q.out, Len(q.out) + 1)
    <3>1. Segmented(m, q.out, Len(q.out) + 1)
      <4>1. IsSeq(m.out)
        BY <1>1 DEF IsMux
      <4>2. CASE q.out = m.out
        BY <2>3, <4>2
      <4>3. CASE q.out = Append(m.out, [kind |-> "caps"])
        BY <2>3, <4>1, <4>3, SegmentedFact
      <4> QED
        BY <4>2, <4>3 DEF Learned
    <3> QED
      BY <1>5, <3>1 DEF Segmented
  <2>4. ASSUME m.seg # <<>>, m.seg[1].round = m.round PROVE q.seg # <<>> /\ q.seg[1].round = q.round
    <3>1. CASE q.seg = m.seg
      BY <1>5, <2>4, <3>1
    <3>2. CASE \E x : q.seg = <<x>> /\ x.round = m.round
      <4>1. PICK x : q.seg = <<x>> /\ x.round = m.round
        BY <3>2
      <4>2. q.round = m.round
        BY <1>5
      <4> QED
        BY <4>1, <4>2
    <3> QED
      BY <3>1, <3>2 DEF Learned
  <2>5. ASSUME Told(q, "BASE", "segment"), ~Unprepared(q)
        PROVE  (q.seg # <<>> /\ q.seg[1].round = q.round) \/ Segmented(q, q.out, Len(q.out) + 1)
    <3>1. Told(m, "BASE", "segment") \/ ("BASE" = l /\ Heard(m, l).kind = "segment")
      BY <1>8, <2>5 DEF Layers
    <3>2. CASE Told(m, "BASE", "segment")
      BY <1>7, <2>1, <2>3, <2>4, <2>5, <3>2 DEF SegOk
    <3>3. CASE "BASE" = l /\ Heard(m, l).kind = "segment"
      BY <1>5, <1>7, <2>5, <3>3 DEF Learned
    <3> QED
      BY <3>1, <3>2, <3>3
  <2> QED
    BY <2>2, <2>5 DEF SegOk
<1>13. ASSUME NEW k \in Layers PROVE LayerOf(q, k)
  <2>1. LayerOf(m, k)
    BY <1>1 DEF MuxPre
  <2>2. CASE k = l
    <3>1. q.told[l] <= Len(q.feeds[l].events) /\ q.shown[l] = 0
      BY <1>1, <1>4, <1>5, <1>6
    <3>2. 0 <= Len(q.feeds[l].frames) /\ ~(q.shown[l] > 0) /\ l \in DOMAIN q.pads /\ q.flushing = {}
      <4>1. Len(q.feeds[l].frames) \in Nat /\ l \in DOMAIN q.pads /\ q.flushing = {}
        BY <1>1, <1>5
      <4> QED
        BY <3>1, <4>1
    <3> QED
      BY <2>2, <3>1, <3>2 DEF LayerOf
  <2>3. CASE k # l
    BY <1>5, <1>6, <2>1, <2>3 DEF LayerOf, AllTold
  <2> QED
    BY <2>2, <2>3
<1>14. ASSUME NEW k \in DOMAIN q.pads PROVE PadOk(q, k, q.pads[k])
  <2>1. PadOk(m, k, m.pads[k]) /\ LearnedPad(m.pads[k], q.pads[k]) /\ k \in Layers
    BY <1>1, <1>5 DEF MuxPre, IsMux
  <2>2. q.pads[k].eos => AllTold(q, k) /\ AllShown(q, k) /\ q.pads[k].holds = <<>>
    BY <1>4, <1>5, <1>6, <2>1 DEF PadOk, LearnedPad, AllTold, AllShown
  <2>3. Told(q, k, "caps") => q.pads[k].caps
    <3>1. Told(m, k, "caps") => q.pads[k].caps
      BY <2>1 DEF PadOk, LearnedPad
    <3> QED
      BY <1>8, <2>1, <3>1 DEF Learned
  <2>4. q.pads[k].holds = <<>> \/ (q.pads[k].holds = <<FrameHeld(q, k)>> /\ q.shown[k] > 0)
    BY <1>5, <1>7, <2>1 DEF PadOk, LearnedPad
  <2> QED
    BY <1>5, <1>7, <2>1, <2>2, <2>3, <2>4 DEF PadOk, LearnedPad
<1>15. TurnOk(q, s)
  <2>1. \A k \in Layers : Holding(q, k) <=> Holding(m, k)
    BY <1>5 DEF Holding, LearnedPad
  <2> QED
    BY <1>2, <1>4, <1>5, <1>7, <1>9, <2>1 DEF TurnOk
<1>16. ~AllCollected(q)
  BY <1>4, <1>5 DEF AllCollected, MuxOf, LearnedPad
<1> QED
  BY <1>2, <1>9, <1>10, <1>11, <1>12, <1>13, <1>14, <1>15, <1>16 DEF MuxPre, MuxOf

LEMMA EventKeeps ==
  ASSUME MuxInv, NEW l \in Layers, BringEvent(l)
  PROVE  MuxInv'
<1> DEFINE m == [mux EXCEPT !.told[l] = @ + 1]
           told == [mux.told EXCEPT ![l] = @ + 1]
           item == Heard(mux, l)
<1>1. MuxPre(mux) /\ IsMux(mux) /\ mux = [x \in MuxFields |-> mux[x]]
  BY MuxIs
<1>2. /\ l \in DOMAIN mux.pads /\ mux.pads[l].holds = <<>> /\ mux.told[l] < Len(mux.feeds[l].events)
      /\ mux.flushing = {} /\ mux.told \in [Layers -> Nat]
  BY <1>1 DEF BringEvent, MayBring, IsMux
<1>3. /\ m = [x \in MuxFields |-> m[x]] /\ m.mode = mux.mode /\ m.n = mux.n /\ m.state = mux.state
      /\ m.seg = mux.seg /\ m.tags = mux.tags /\ m.feeds = mux.feeds /\ m.told = told
      /\ m.shown = mux.shown /\ m.round = mux.round /\ m.out = mux.out /\ m.pads = mux.pads
      /\ m.flushing = mux.flushing
  BY <1>1 DEF MuxFields
<1>4. m.told[l] = mux.told[l] + 1
  BY <1>2, <1>3
<1>5. \/ item.kind = "caps" /\ mux' = TakeCaps(m, l)
      \/ item.kind = "segment" /\ mux' = TakeSegment(m, l)
      \/ item.kind = "tag" /\ mux' = TakeTag(m, l)
  BY <1>4 DEF BringEvent, Heard
<1>6. \A k \in DOMAIN mux.pads : IsPad(mux.pads[k])
  BY <1>1 DEF IsMux
<1>7. mux.pads = [k \in DOMAIN mux.pads |-> mux.pads[k]]
  BY <1>1 DEF IsMux
<1>8. \A k \in DOMAIN mux.pads : LearnedPad(mux.pads[k], mux.pads[k])
  BY <1>6 DEF LearnedPad
<1> HIDE DEF m, told, item
<1>9. CASE item.kind = "caps" /\ mux' = TakeCaps(m, l)
  <2> DEFINE p == [m EXCEPT !.pads[l].caps = TRUE]
             pads == [mux.pads EXCEPT ![l].caps = TRUE]
  <2>1. /\ p = [x \in MuxFields |-> p[x]] /\ p.mode = mux.mode /\ p.n = mux.n /\ p.state = mux.state
        /\ p.seg = mux.seg /\ p.tags = mux.tags /\ p.feeds = mux.feeds /\ p.told = told
        /\ p.shown = mux.shown /\ p.round = mux.round /\ p.out = mux.out /\ p.pads = pads
        /\ p.flushing = mux.flushing
    BY <1>3 DEF MuxFields
  <2>2. /\ DOMAIN pads = DOMAIN mux.pads /\ pads = [k \in DOMAIN pads |-> pads[k]]
        /\ pads[l] = [mux.pads[l] EXCEPT !.caps = TRUE]
        /\ \A k \in DOMAIN mux.pads : k # l => pads[k] = mux.pads[k]
    BY <1>2, <1>7
  <2>3. LearnedPad(mux.pads[l], pads[l]) /\ pads[l].caps
    <3>1. IsPad(mux.pads[l])
      BY <1>2, <1>6
    <3> DEFINE a == mux.pads[l]
               b == pads[l]
    <3>2. IsPad(a) /\ b = [a EXCEPT !.caps = TRUE]
      BY <2>2, <3>1
    <3> HIDE DEF a, b
    <3>3. /\ b = [x \in PadFields |-> b[x]] /\ b.type = a.type /\ b.holds = a.holds /\ b.eos = a.eos
          /\ b.blocked = a.blocked /\ b.caps = TRUE
      BY <3>2 DEF IsPad, PadFields
    <3>4. LearnedPad(a, b) /\ b.caps
      BY <3>2, <3>3 DEF LearnedPad, IsPad
    <3> QED
      BY <3>4 DEF a, b
  <2> HIDE DEF p, pads
  <2>4. \A k \in DOMAIN mux.pads : LearnedPad(mux.pads[k], pads[k])
    <3> SUFFICES ASSUME NEW k \in DOMAIN mux.pads PROVE LearnedPad(mux.pads[k], pads[k])
      OBVIOUS
    <3>1. CASE k = l
      BY <2>3, <3>1
    <3>2. CASE k # l
      BY <1>8, <2>2, <3>2
    <3> QED
      BY <3>1, <3>2
  <2>5. item.kind # "segment"
    BY <1>9
  <2>6. CASE m.pads[l].type = "BASE" /\ m.state # "NONE"
    <3> DEFINE q == Pushed(p, [kind |-> "caps"])
    <3>1. /\ q = [x \in MuxFields |-> q[x]] /\ q.mode = mux.mode /\ q.n = mux.n /\ q.state = mux.state
          /\ q.seg = mux.seg /\ q.tags = mux.tags /\ q.feeds = mux.feeds /\ q.told = told
          /\ q.shown = mux.shown /\ q.round = mux.round /\ q.out = Append(mux.out, [kind |-> "caps"])
          /\ q.pads = pads /\ q.flushing = mux.flushing
      BY <2>1 DEF MuxFields, Pushed
    <3> HIDE DEF q
    <3>2. mux.mode = "PAUSED"
      <4>1. PadOk(mux, l, mux.pads[l]) /\ ModeOf(mux) /\ mux.state # "NONE"
        BY <1>1, <1>2, <1>3, <2>6 DEF MuxPre
      <4>2. mux.mode # "READY"
        BY <4>1 DEF PadOk, BringEvent, MayBring
      <4> QED
        BY <1>1, <4>1, <4>2 DEF ModeOf, IsMux
    <3>3. Learned(mux, q, l)
      BY <1>3, <2>2, <2>3, <2>4, <2>5, <2>6, <3>1, <3>2 DEF Learned, told, item
    <3>4. mux' = q
      BY <1>9, <2>6 DEF TakeCaps, q, p
    <3> QED
      BY <1>2, <3>3, <3>4, LearnedKeeps DEF MuxInv
  <2>7. CASE ~(m.pads[l].type = "BASE" /\ m.state # "NONE")
    <3>1. Learned(mux, p, l)
      BY <1>3, <2>1, <2>2, <2>3, <2>4, <2>5 DEF Learned, told, item
    <3>2. mux' = p
      BY <1>9, <2>7 DEF TakeCaps, p
    <3> QED
      BY <1>2, <3>1, <3>2, LearnedKeeps DEF MuxInv
  <2> QED
    BY <2>6, <2>7
<1>10. CASE item.kind = "segment" /\ mux' = TakeSegment(m, l)
  <2> DEFINE x == [kind |-> "segment", layer |-> l, round |-> m.round]
             p == [m EXCEPT !.seg = <<x>>]
  <2>1. /\ p = [y \in MuxFields |-> p[y]] /\ p.mode = mux.mode /\ p.n = mux.n /\ p.state = mux.state
        /\ p.seg = <<x>> /\ p.tags = mux.tags /\ p.feeds = mux.feeds /\ p.told = told
        /\ p.shown = mux.shown /\ p.round = mux.round /\ p.out = mux.out /\ p.pads = mux.pads
        /\ p.flushing = mux.flushing
    BY <1>3 DEF MuxFields
  <2>2. x.kind = "segment" /\ x.round = mux.round /\ <<x>> # <<>> /\ <<x>>[1] = x
    BY <1>3
  <2>3. item.kind # "caps"
    BY <1>10
  <2>4. CASE m.pads[l].type = "BASE" \/ m.state = "NONE"
    <3>1. mux' = p
      BY <1>10, <2>4 DEF TakeSegment
    <3> HIDE DEF p, x
    <3>2. Learned(mux, p, l)
      BY <1>7, <1>8, <2>1, <2>2, <2>3 DEF Learned, told, item
    <3> QED
      BY <1>2, <3>1, <3>2, LearnedKeeps DEF MuxInv
  <2>5. CASE ~(m.pads[l].type = "BASE" \/ m.state = "NONE")
    <3>1. l # "BASE" \/ Unprepared(mux)
      <4>1. PadOk(mux, l, mux.pads[l]) /\ mux.state # "NONE" /\ mux.pads[l].type # "BASE"
        BY <1>1, <1>2, <1>3, <2>5 DEF MuxPre
      <4> QED
        BY <1>2, <4>1 DEF PadOk, Unprepared
    <3>2. mux' = m
      BY <1>10, <2>5 DEF TakeSegment
    <3>3. Learned(mux, m, l)
      BY <1>3, <1>7, <1>8, <2>3, <3>1 DEF Learned, told, item
    <3> QED
      BY <1>2, <3>2, <3>3, LearnedKeeps DEF MuxInv
  <2> QED
    BY <2>4, <2>5
<1>11. CASE item.kind = "tag" /\ mux' = TakeTag(m, l)
  <2> DEFINE p == [m EXCEPT !.tags = @ \union {l}]
  <2>1. /\ p = [y \in MuxFields |-> p[y]] /\ p.mode = mux.mode /\ p.n = mux.n /\ p.state = mux.state
        /\ p.seg = mux.seg /\ p.feeds = mux.feeds /\ p.told = told
        /\ p.shown = mux.shown /\ p.round = mux.round /\ p.out = mux.out /\ p.pads = mux.pads
        /\ p.flushing = mux.flushing
    BY <1>3 DEF MuxFields
  <2>2. mux' = p
    BY <1>11 DEF TakeTag
  <2> HIDE DEF p
  <2>3. item.kind \notin {"caps", "segment"}
    BY <1>11
  <2>4. Learned(mux, p, l)
    BY <1>7, <1>8, <2>1, <2>3 DEF Learned, told, item
  <2> QED
    BY <1>2, <2>2, <2>4, LearnedKeeps DEF MuxInv
<1> QED
  BY <1>5, <1>9, <1>10, <1>11

(* A layer's thread brings a frame or its end.                              *)
BroughtPad(p, q, m, l) ==
  /\ IsPad(q) /\ q.type = p.type /\ q.caps = p.caps /\ q.blocked = p.blocked
  /\ \/ q.holds = <<FrameHeld(m, l)>> /\ q.eos = p.eos /\ m.shown[l] > 0
     \/ q.holds = <<>> /\ q.eos /\ AllShown(m, l)
Brought(m, q, l) ==
  /\ q = [x \in MuxFields |-> q[x]] /\ q.mode = m.mode /\ q.n = m.n /\ q.state = m.state
  /\ q.feeds = m.feeds /\ q.round = m.round /\ q.told = m.told /\ q.out = m.out
  /\ q.seg = m.seg /\ q.tags = m.tags /\ q.flushing = m.flushing
  /\ q.shown \in [Layers -> Nat] /\ \A k \in Layers : k # l => q.shown[k] = m.shown[k]
  /\ DOMAIN q.pads = DOMAIN m.pads /\ q.pads = [k \in DOMAIN q.pads |-> q.pads[k]]
  /\ \A k \in DOMAIN m.pads : k # l => q.pads[k] = m.pads[k]
  /\ BroughtPad(m.pads[l], q.pads[l], q, l)
  /\ q.shown[l] = m.shown[l] + Len(q.pads[l].holds) /\ q.shown[l] <= Len(m.feeds[l].frames)

LEMMA BroughtKeeps ==
  ASSUME NEW m, MuxPre(m), m.flushing = {}, NEW l \in Layers, l \in DOMAIN m.pads, m.pads[l].holds = <<>>,
         AllTold(m, l), m.pads[l].eos => AllShown(m, l), m.mode = "PAUSED",
         NEW q, Brought(m, q, l), m.pads[l].eos => q.pads[l].holds = <<>>
  PROVE  MuxPre(q)
<1>1. IsMux(m)
  BY DEF MuxPre
<1>2. PICK s \in Nat : OutOk(m, m.out, s) /\ TurnOk(m, s)
  BY DEF MuxPre
<1>3. /\ q = [x \in MuxFields |-> q[x]] /\ q.mode = m.mode /\ q.n = m.n /\ q.state = m.state
      /\ q.feeds = m.feeds /\ q.round = m.round /\ q.told = m.told /\ q.out = m.out
      /\ q.seg = m.seg /\ q.tags = m.tags /\ q.flushing = m.flushing
  BY DEF Brought
<1>4. /\ q.shown \in [Layers -> Nat] /\ \A k \in Layers : k # l => q.shown[k] = m.shown[k]
      /\ DOMAIN q.pads = DOMAIN m.pads /\ q.pads = [k \in DOMAIN q.pads |-> q.pads[k]]
      /\ \A k \in DOMAIN m.pads : k # l => q.pads[k] = m.pads[k]
      /\ BroughtPad(m.pads[l], q.pads[l], q, l)
      /\ q.shown[l] = m.shown[l] + Len(q.pads[l].holds) /\ q.shown[l] <= Len(m.feeds[l].frames)
  BY DEF Brought
<1>5. IsMux(q)
  <2>1. \A k \in DOMAIN q.pads : IsPad(q.pads[k])
    BY <1>1, <1>4 DEF IsMux, BroughtPad
  <2>2. q.n \in 0 .. 2 /\ (q.n = 0 <=> DOMAIN q.pads = {}) /\ (q.n = 2 <=> Full(q))
    BY <1>1, <1>3, <1>4 DEF IsMux, Full
  <2> QED
    BY <1>1, <1>3, <1>4, <2>1, <2>2 DEF IsMux
<1>6. ModeOf(q) /\ (Unprepared(q) <=> Unprepared(m))
  <2>1. \A k \in DOMAIN m.pads : q.pads[k].type = m.pads[k].type
    BY <1>4 DEF BroughtPad
  <2> QED
    BY <1>3, <1>4, <2>1 DEF MuxPre, ModeOf, Full, SameTyped, Unprepared
<1>7. SegOk(q)
  BY <1>3, <1>6 DEF MuxPre, SegOk, Told, Segmented
<1>8. ASSUME NEW k \in Layers PROVE LayerOf(q, k)
  <2>1. LayerOf(m, k) /\ AllTold(q, l)
    BY <1>3 DEF MuxPre, AllTold
  <2>2. CASE k = l
    BY <1>3, <1>4, <2>1, <2>2 DEF LayerOf
  <2>3. CASE k # l
    BY <1>3, <1>4, <2>1, <2>3 DEF LayerOf, AllTold
  <2> QED
    BY <2>2, <2>3
<1>9. ASSUME NEW k \in DOMAIN q.pads PROVE PadOk(q, k, q.pads[k])
  <2>1. PadOk(m, k, m.pads[k]) /\ k \in Layers
    BY <1>1, <1>4 DEF MuxPre, IsMux
  <2>2. (Full(q) <=> Full(m)) /\ (Told(q, k, "caps") <=> Told(m, k, "caps"))
        /\ (AllTold(q, k) <=> AllTold(m, k))
    BY <1>3, <1>4 DEF Full, Told, AllTold
  <2>3. CASE k = l
    <3>1. /\ q.pads[k].type = m.pads[k].type /\ q.pads[k].caps = m.pads[k].caps
          /\ q.pads[k].blocked = m.pads[k].blocked
      BY <1>4, <2>3 DEF BroughtPad
    <3>2. \/ q.pads[k].holds = <<FrameHeld(q, k)>> /\ q.shown[k] > 0 /\ q.pads[k].eos = m.pads[k].eos
          \/ q.pads[k].holds = <<>> /\ q.pads[k].eos /\ AllShown(q, k)
      BY <1>4, <2>3 DEF BroughtPad
    <3>3. q.pads[k].eos => q.pads[k].holds = <<>> /\ AllShown(q, k)
      <4>1. CASE q.pads[k].eos /\ m.pads[k].eos
        <5>1. q.pads[k].holds = <<>> /\ AllShown(m, k)
          BY <2>3, <4>1
        <5>2. q.shown[k] = m.shown[k]
          BY <1>1, <1>4, <2>3, <5>1 DEF IsMux
        <5> QED
          BY <1>3, <5>1, <5>2 DEF AllShown
      <4>2. CASE ~m.pads[k].eos
        BY <3>2, <4>2
      <4> QED
        BY <4>1, <4>2
    <3> QED
      BY <1>3, <2>1, <2>2, <2>3, <3>1, <3>2, <3>3 DEF PadOk
  <2>4. CASE k # l
    <3>1. q.pads[k] = m.pads[k] /\ FrameHeld(q, k) = FrameHeld(m, k) /\ q.shown[k] = m.shown[k]
      BY <1>3, <1>4, <2>1, <2>4 DEF FrameHeld
    <3> QED
      BY <1>3, <2>1, <2>2, <3>1 DEF PadOk, AllShown
  <2> QED
    BY <2>3, <2>4
<1>10. OutOk(q, q.out, s)
  BY <1>2, <1>3, OutSame
<1>11. TurnOk(q, s)
  <2>1. (Over(q) <=> Over(m)) /\ CommonOf(q) = CommonOf(m) /\ \A k \in Layers : AllTold(q, k) <=> AllTold(m, k)
    BY <1>3 DEF Over, CommonOf, AllTold
  <2>2. CASE Over(m)
    <3>1. CASE Unprepared(m)
      BY <1>2, <1>3, <1>6, <2>1, <2>2, <3>1 DEF TurnOk
    <3>2. CASE ~Unprepared(m)
      <4>1. PICK k \in Layers : m.pads[k].eos
        BY <1>2, <2>2, <3>2 DEF TurnOk
      <4>2. q.pads[k].eos
        BY <1>4, <4>1 DEF MuxPre, ModeOf, Full, BroughtPad
      <4> QED
        BY <1>2, <1>3, <1>6, <2>1, <2>2, <3>2, <4>1, <4>2 DEF TurnOk
    <3> QED
      BY <3>1, <3>2
  <2>3. CASE ~Over(m)
    <3>1. (q.state = "WAIT_EL" => q.flushing # {}) /\ \A k \in Layers : m.shown[k] = s + (IF Holding(m, k) THEN 1 ELSE 0)
      BY <1>2, <1>3, <2>3 DEF TurnOk
    <3>2. m.shown[l] = s
      BY <3>1 DEF Holding
    <3>3. q.shown[l] = s + (IF Holding(q, l) THEN 1 ELSE 0)
      <4>1. CASE q.pads[l].holds = <<>>
        BY <1>4, <3>2, <4>1 DEF Holding
      <4>2. CASE q.pads[l].holds = <<FrameHeld(q, l)>>
        BY <1>4, <3>2, <4>2 DEF Holding
      <4> QED
        BY <1>4, <4>1, <4>2 DEF BroughtPad
    <3>4. \A k \in Layers : k # l => q.shown[k] = s + (IF Holding(q, k) THEN 1 ELSE 0)
      BY <1>4, <3>1 DEF Holding
    <3> QED
      BY <1>2, <1>6, <2>1, <2>3, <3>1, <3>3, <3>4 DEF TurnOk
  <2> QED
    BY <2>2, <2>3
<1> QED
  BY <1>5, <1>6, <1>7, <1>8, <1>9, <1>10, <1>11 DEF MuxPre

(* A layer that may bring a frame or its end has been let through.          *)
LEMMA LetThrough ==
  ASSUME MuxInv, NEW l \in Layers, MayBring(l), ~mux.pads[l].blocked
  PROVE  /\ l \in DOMAIN mux.pads /\ mux.pads[l].holds = <<>> /\ Full(mux) /\ mux.mode = "PAUSED"
         /\ mux.flushing = {}
         /\ mux.pads[l].eos => AllShown(mux, l)
<1>1. l \in DOMAIN mux.pads /\ mux.pads[l].holds = <<>> /\ mux.mode # "READY" /\ mux.flushing = {}
  BY DEF MayBring
<1>2. PadOk(mux, l, mux.pads[l]) /\ ModeOf(mux) /\ IsMux(mux)
  BY <1>1, MuxIs DEF MuxPre
<1>3. Full(mux) /\ (mux.pads[l].eos => AllShown(mux, l))
  BY <1>1, <1>2 DEF PadOk
<1>4. mux.mode = "PAUSED"
  BY <1>1, <1>2, <1>3 DEF ModeOf, IsMux
<1> QED
  BY <1>1, <1>3, <1>4

LEMMA BroughtFact ==
  ASSUME MuxInv, NEW l \in Layers, MayBring(l), ~mux.pads[l].blocked, AllTold(mux, l),
         \/ BringFrame(l)
         \/ BringEos(l)
  PROVE  \E m : MuxPre(m) /\ m.flushing = {} /\ mux' = Checked(m)
<1>1. MuxPre(mux) /\ IsMux(mux) /\ mux = [x \in MuxFields |-> mux[x]]
  BY MuxIs
<1>2. /\ l \in DOMAIN mux.pads /\ mux.pads[l].holds = <<>> /\ Full(mux) /\ mux.mode = "PAUSED"
      /\ mux.flushing = {} /\ (mux.pads[l].eos => AllShown(mux, l))
  BY LetThrough
<1>3. /\ mux.shown \in [Layers -> Nat] /\ IsPad(mux.pads[l]) /\ Len(mux.feeds[l].frames) \in Nat
      /\ mux.pads = [k \in DOMAIN mux.pads |-> mux.pads[k]]
  BY <1>1, <1>2, FeedFact DEF IsMux
<1>4. CASE BringFrame(l)
  <2> DEFINE nth == mux.shown[l] + 1
             frame == [layer |-> l, round |-> mux.round, nth |-> nth, frame |-> mux.feeds[l].frames[nth]]
             m == [mux EXCEPT !.shown[l] = nth, !.pads[l].holds = <<frame>>]
             shown == [mux.shown EXCEPT ![l] = nth]
             pads == [mux.pads EXCEPT ![l].holds = <<frame>>]
  <2>1. mux.shown[l] < Len(mux.feeds[l].frames) /\ mux' = Checked(m)
    BY <1>4 DEF BringFrame
  <2>2. /\ m = [x \in MuxFields |-> m[x]] /\ m.mode = mux.mode /\ m.n = mux.n /\ m.state = mux.state
        /\ m.seg = mux.seg /\ m.tags = mux.tags /\ m.feeds = mux.feeds /\ m.told = mux.told
        /\ m.shown = shown /\ m.round = mux.round /\ m.out = mux.out /\ m.pads = pads
        /\ m.flushing = mux.flushing
    BY <1>1 DEF MuxFields
  <2> HIDE DEF m
  <2>3. shown \in [Layers -> Nat] /\ shown[l] = nth /\ \A k \in Layers : k # l => shown[k] = mux.shown[k]
    BY <1>3
  <2> HIDE DEF shown
  <2>4. frame = FrameHeld(m, l)
    BY <2>2, <2>3 DEF FrameHeld
  <2> HIDE DEF frame
  <2>5. /\ DOMAIN pads = DOMAIN mux.pads /\ pads = [k \in DOMAIN pads |-> pads[k]]
        /\ pads[l] = [mux.pads[l] EXCEPT !.holds = <<frame>>]
        /\ \A k \in DOMAIN mux.pads : k # l => pads[k] = mux.pads[k]
    BY <1>2, <1>3
  <2> DEFINE a == mux.pads[l]
             b == pads[l]
  <2>6. IsPad(a) /\ b = [a EXCEPT !.holds = <<frame>>]
    BY <1>3, <2>5
  <2> HIDE DEF a, b, pads
  <2>7. /\ b = [x \in PadFields |-> b[x]] /\ b.type = a.type /\ b.caps = a.caps /\ b.eos = a.eos
        /\ b.blocked = a.blocked /\ b.holds = <<frame>>
    BY <2>6 DEF IsPad, PadFields
  <2>8. nth > 0 /\ m.shown[l] = nth
    BY <1>3, <2>2, <2>3
  <2>9. BroughtPad(a, b, m, l)
    BY <2>4, <2>6, <2>7, <2>8 DEF BroughtPad, IsPad
  <2>10. Len(b.holds) = 1 /\ nth <= Len(mux.feeds[l].frames)
    <3>1. Len(b.holds) = 1
      BY <2>7
    <3>2. mux.shown[l] \in Nat
      BY <1>3
    <3> QED
      BY <1>3, <2>1, <3>1, <3>2
  <2>11. Brought(mux, m, l)
    BY <2>2, <2>3, <2>5, <2>8, <2>9, <2>10 DEF Brought, a, b
  <2>12. ~mux.pads[l].eos
    BY <1>2, <1>3, <2>1 DEF AllShown
  <2>13. MuxPre(m)
    BY <1>1, <1>2, <2>11, <2>12, BroughtKeeps
  <2> QED
    BY <1>2, <2>1, <2>2, <2>13
<1>5. CASE BringEos(l)
  <2> DEFINE m == [mux EXCEPT !.pads[l].eos = TRUE]
             pads == [mux.pads EXCEPT ![l].eos = TRUE]
  <2>1. AllShown(mux, l) /\ mux' = Checked(m)
    BY <1>5 DEF BringEos, AllShown
  <2>2. /\ m = [x \in MuxFields |-> m[x]] /\ m.mode = mux.mode /\ m.n = mux.n /\ m.state = mux.state
        /\ m.seg = mux.seg /\ m.tags = mux.tags /\ m.feeds = mux.feeds /\ m.told = mux.told
        /\ m.shown = mux.shown /\ m.round = mux.round /\ m.out = mux.out /\ m.pads = pads
        /\ m.flushing = mux.flushing
    BY <1>1 DEF MuxFields
  <2> HIDE DEF m
  <2>3. /\ DOMAIN pads = DOMAIN mux.pads /\ pads = [k \in DOMAIN pads |-> pads[k]]
        /\ pads[l] = [mux.pads[l] EXCEPT !.eos = TRUE]
        /\ \A k \in DOMAIN mux.pads : k # l => pads[k] = mux.pads[k]
    BY <1>2, <1>3
  <2> DEFINE a == mux.pads[l]
             b == pads[l]
  <2>4. IsPad(a) /\ b = [a EXCEPT !.eos = TRUE] /\ a.holds = <<>>
    BY <1>2, <1>3, <2>3
  <2> HIDE DEF a, b, pads
  <2>5. /\ b = [x \in PadFields |-> b[x]] /\ b.type = a.type /\ b.caps = a.caps /\ b.eos = TRUE
        /\ b.blocked = a.blocked /\ b.holds = <<>>
    BY <2>4 DEF IsPad, PadFields
  <2>6. AllShown(m, l)
    BY <2>1, <2>2 DEF AllShown
  <2>7. BroughtPad(a, b, m, l)
    BY <2>4, <2>5, <2>6 DEF BroughtPad, IsPad
  <2>8. m.shown[l] = mux.shown[l] + Len(b.holds) /\ m.shown[l] <= Len(mux.feeds[l].frames)
    <3>1. Len(b.holds) = 0
      BY <2>5
    <3> QED
      BY <1>3, <2>1, <2>2, <3>1 DEF AllShown
  <2>9. Brought(mux, m, l)
    BY <1>3, <2>2, <2>3, <2>7, <2>8 DEF Brought, a, b
  <2>10. m.pads[l].holds = <<>>
    BY <2>2, <2>5 DEF b
  <2>11. MuxPre(m)
    BY <1>1, <1>2, <2>9, <2>10, BroughtKeeps
  <2> QED
    BY <1>2, <2>1, <2>2, <2>11
<1> QED
  BY <1>4, <1>5

(* When all is collected, all events are told.                              *)
LEMMA CollectedFact ==
  ASSUME NEW m, MuxPre(m), m.flushing = {}, AllCollected(m)
  PROVE  /\ Full(m) /\ DOMAIN m.pads = Layers /\ m.mode = "PAUSED"
         /\ \A l \in Layers : AllTold(m, l) /\ Told(m, l, "caps") /\ m.pads[l].caps
         /\ Told(m, "BASE", "segment")
<1>1. Full(m) /\ DOMAIN m.pads = Layers /\ m.mode = "PAUSED"
  BY DEF AllCollected, MuxPre, ModeOf, Full
<1>2. ASSUME NEW l \in Layers PROVE AllTold(m, l) /\ Told(m, l, "caps") /\ m.pads[l].caps
  <2>1. PadOk(m, l, m.pads[l]) /\ LayerOf(m, l) /\ (m.pads[l].holds # <<>> \/ m.pads[l].eos)
    BY <1>1 DEF MuxPre, AllCollected
  <2>2. AllTold(m, l)
    BY <2>1 DEF PadOk, LayerOf
  <2>3. Told(m, l, "caps")
    BY <2>2, FeedFact
  <2> QED
    BY <2>1, <2>2, <2>3 DEF PadOk
<1>3. Told(m, "BASE", "segment")
  BY <1>2, FeedFact DEF Layers
<1> QED
  BY <1>1, <1>2, <1>3

(* prepare: both pads get their type.                                       *)
LEMMA PreparedKeeps ==
  ASSUME NEW m, MuxPre(m), m.flushing = {}, AllCollected(m)
  PROVE  /\ m.state # "NONE" \/ MayPrepare(m)
         /\ Prepared(m).flushing = {}
         /\ MuxPre(Prepared(m)) /\ AllCollected(Prepared(m)) /\ Prepared(m).state # "NONE"
<1>1. /\ Full(m) /\ DOMAIN m.pads = Layers /\ m.mode = "PAUSED"
      /\ \A l \in Layers : AllTold(m, l) /\ Told(m, l, "caps") /\ m.pads[l].caps
      /\ IsMux(m) /\ m = [x \in MuxFields |-> m[x]]
  BY CollectedFact DEF MuxPre, IsMux
<1>2. CASE m.state # "NONE"
  BY <1>2 DEF Prepared
<1>3. CASE m.state = "NONE"
  <2> DEFINE o == [m EXCEPT !.pads = PreparedPads(m), !.state = "WAIT_BL"]
             p == Pushed(o, [kind |-> "stream-start"])
             q == Pushed(p, [kind |-> "caps"])
  <2>1. /\ DOMAIN PreparedPads(m) = Layers
        /\ PreparedPads(m) = [l \in Layers |-> PreparedPads(m)[l]]
        /\ \A l \in Layers :
              PreparedPads(m)[l] = [m.pads[l] EXCEPT !.type = IF @ = "NONE" THEN l ELSE @]
    BY <1>1 DEF PreparedPads
  <2>2. ASSUME NEW l \in Layers
        PROVE  /\ IsPad(PreparedPads(m)[l]) /\ PreparedPads(m)[l].type = l
               /\ PreparedPads(m)[l].caps = m.pads[l].caps /\ PreparedPads(m)[l].holds = m.pads[l].holds
               /\ PreparedPads(m)[l].eos = m.pads[l].eos /\ PreparedPads(m)[l].blocked = m.pads[l].blocked
    <3> DEFINE a == m.pads[l]
               b == PreparedPads(m)[l]
    <3>1. b = [a EXCEPT !.type = IF @ = "NONE" THEN l ELSE @] /\ IsPad(a) /\ a.type \in {"NONE", l}
      BY <1>1, <2>1 DEF IsMux, MuxPre, PadOk
    <3> HIDE DEF a, b
    <3>2. /\ b = [x \in PadFields |-> b[x]] /\ b.type = l /\ b.caps = a.caps /\ b.holds = a.holds
          /\ b.eos = a.eos /\ b.blocked = a.blocked
      BY <3>1 DEF IsPad, PadFields
    <3>3. IsPad(b)
      BY <3>1, <3>2 DEF IsPad
    <3> QED
      BY <3>2, <3>3 DEF a, b
  <2>3. MayPrepare(m)
    <3>1. m.n = MAX_STREAMS
      BY <1>1 DEF IsMux, MAX_STREAMS
    <3>2. "BASE" \in DOMAIN m.pads
      BY <1>1 DEF Layers
    <3> QED
      BY <1>1, <2>2, <3>1, <3>2 DEF MayPrepare
  <2>4. m.out = <<>> /\ ~Over(m)
    <3>1. m.out = <<>>
      BY <1>3 DEF MuxPre, ModeOf
    <3> QED
      BY <3>1, EmptyFact DEF Over
  <2>5. /\ o = [x \in MuxFields |-> o[x]] /\ o.mode = m.mode /\ o.n = m.n /\ o.state = "WAIT_BL"
        /\ o.seg = m.seg /\ o.tags = m.tags /\ o.feeds = m.feeds /\ o.told = m.told
        /\ o.shown = m.shown /\ o.round = m.round /\ o.out = m.out /\ o.pads = PreparedPads(m)
        /\ o.flushing = {}
    BY <1>1 DEF MuxFields
  <2> HIDE DEF o
  <2>6. /\ q = [x \in MuxFields |-> q[x]] /\ q.mode = m.mode /\ q.n = m.n /\ q.state = "WAIT_BL"
        /\ q.seg = m.seg /\ q.tags = m.tags /\ q.feeds = m.feeds /\ q.told = m.told
        /\ q.shown = m.shown /\ q.round = m.round /\ q.pads = PreparedPads(m) /\ q.flushing = {}
        /\ q.out = Append(Append(m.out, [kind |-> "stream-start"]), [kind |-> "caps"])
    BY <2>5 DEF MuxFields, Pushed
  <2>7. q = Prepared(m)
    BY <1>3 DEF Prepared, o
  <2> HIDE DEF q
  <2>8. PICK s \in Nat : OutOk(m, m.out, s) /\ TurnOk(m, s)
    BY DEF MuxPre
  <2>9. OutOk(q, q.out, s) /\ IsSeq(q.out) /\ ~Over(q)
    <3>1. IsSeq(m.out) /\ Says(m.out, "eos") = {}
      BY <1>1, <2>4 DEF IsMux, Over
    <3> DEFINE t == Append(m.out, [kind |-> "stream-start"])
    <3>2. OutOk(m, t, s) /\ Says(t, "eos") = {} /\ IsSeq(t)
      BY <2>8, <3>1, AddEvent
    <3> HIDE DEF t
    <3>3. OutOk(m, Append(t, [kind |-> "caps"]), s) /\ Says(Append(t, [kind |-> "caps"]), "eos") = {}
          /\ IsSeq(Append(t, [kind |-> "caps"]))
      BY <3>2, AddEvent
    <3>4. q.out = Append(t, [kind |-> "caps"])
      BY <2>6 DEF t
    <3> QED
      BY <2>6, <3>3, <3>4, OutSame DEF Over
  <2>10. DOMAIN q.pads = Layers /\ q.pads = [l \in DOMAIN q.pads |-> q.pads[l]]
         /\ \A l \in DOMAIN q.pads : IsPad(q.pads[l])
    BY <2>1, <2>2, <2>6
  <2>11. IsMux(q)
    <3>1. q.n \in 0 .. 2 /\ (q.n = 0 <=> DOMAIN q.pads = {}) /\ (q.n = 2 <=> Full(q))
      BY <1>1, <2>6, <2>10 DEF IsMux, Full
    <3> QED
      BY <1>1, <2>6, <2>9, <2>10, <3>1 DEF IsMux
  <2>12. ModeOf(q) /\ ~Unprepared(q)
    <3>1. \A l \in DOMAIN q.pads : q.pads[l].type = l /\ q.pads[l].type # "NONE"
      BY <2>2, <2>6, <2>10 DEF Layers
    <3> QED
      BY <1>1, <2>6, <2>10, <3>1 DEF ModeOf, Full, SameTyped, Unprepared
  <2>13. SegOk(q)
    <3>1. SegOk(m) /\ ~Segmented(m, m.out, Len(m.out) + 1) /\ ~Unprepared(m)
      BY <1>3, <2>4, EmptyFact DEF MuxPre, Segmented, Unprepared
    <3> QED
      BY <2>6, <3>1 DEF SegOk, Told
  <2>14. ASSUME NEW l \in Layers PROVE LayerOf(q, l)
    BY <1>1, <2>6, <2>10 DEF MuxPre, LayerOf, AllTold
  <2>15. ASSUME NEW l \in DOMAIN q.pads PROVE PadOk(q, l, q.pads[l])
    <3>1. PadOk(m, l, m.pads[l]) /\ l \in Layers
      BY <1>1, <2>10 DEF MuxPre
    <3>2. FrameHeld(q, l) = FrameHeld(m, l) /\ (Told(q, l, "caps") <=> Told(m, l, "caps"))
          /\ (AllTold(q, l) <=> AllTold(m, l)) /\ (AllShown(q, l) <=> AllShown(m, l))
      BY <2>6 DEF FrameHeld, Told, AllTold, AllShown
    <3>3. /\ q.pads[l].type = l /\ q.pads[l].caps /\ q.pads[l].holds = m.pads[l].holds
          /\ q.pads[l].eos = m.pads[l].eos /\ q.pads[l].blocked = m.pads[l].blocked
      <4>1. q.pads[l] = PreparedPads(m)[l]
        BY <2>6
      <4>2. m.pads[l].caps
        BY <1>1, <3>1
      <4> QED
        BY <2>2, <3>1, <4>1, <4>2
    <3>4. q.mode = "PAUSED" /\ Full(q) /\ q.shown = m.shown
      BY <1>1, <2>6, <2>10 DEF Full
    <3> QED
      BY <1>1, <3>1, <3>2, <3>3, <3>4 DEF PadOk
  <2>16. TurnOk(q, s)
    <3>1. q.state # "WAIT_EL" /\ \A l \in Layers : Holding(q, l) <=> Holding(m, l)
      BY <1>1, <2>2, <2>6, <2>10 DEF Holding
    <3> QED
      BY <2>4, <2>6, <2>8, <2>9, <2>12, <3>1 DEF TurnOk
  <2>17. AllCollected(q)
    <3>1. \A l \in Layers : q.pads[l].holds = m.pads[l].holds /\ q.pads[l].eos = m.pads[l].eos
      BY <2>2, <2>6
    <3>2. q.mode = "PAUSED" /\ Layers # {}
      BY <1>1, <2>6 DEF Layers
    <3>3. \A l \in Layers : m.pads[l].holds # <<>> \/ m.pads[l].eos
      BY <1>1 DEF AllCollected
    <3>4. \A l \in DOMAIN q.pads : q.pads[l].holds # <<>> \/ q.pads[l].eos
      BY <2>10, <3>1, <3>3
    <3> QED
      BY <2>10, <3>2, <3>4 DEF AllCollected
  <2>18. MuxPre(q) /\ q.state # "NONE"
    BY <2>6, <2>8, <2>9, <2>11, <2>12, <2>13, <2>14, <2>15, <2>16 DEF MuxPre
  <2> QED
    BY <2>3, <2>6, <2>7, <2>17, <2>18
<1> QED
  BY <1>2, <1>3

(* collected, step 0: a segment and tags that wait go first.                *)
Resting(m, q) ==
  /\ q = [x \in MuxFields |-> q[x]] /\ q.mode = m.mode /\ q.n = m.n /\ q.state = m.state
  /\ q.feeds = m.feeds /\ q.told = m.told /\ q.shown = m.shown /\ q.round = m.round
  /\ q.pads = m.pads /\ q.flushing = m.flushing

LEMMA RestingKeeps ==
  ASSUME NEW m, MuxPre(m), m.flushing = {}, AllCollected(m), m.state # "NONE", NEW q, Resting(m, q),
         NEW x, q.out = m.out \/ (~Over(m) /\ x.kind \notin {"frame", "eos"} /\ q.out = Append(m.out, x)),
         SegOk(q), q.seg \in {<<>>, m.seg}, q.tags \in {{}, m.tags}
  PROVE  MuxPre(q) /\ q.flushing = {} /\ AllCollected(q) /\ q.state # "NONE"
<1>1. PICK s \in Nat : OutOk(m, m.out, s) /\ TurnOk(m, s)
  BY DEF MuxPre
<1>2. /\ q = [y \in MuxFields |-> q[y]] /\ q.mode = m.mode /\ q.n = m.n /\ q.state = m.state
      /\ q.feeds = m.feeds /\ q.told = m.told /\ q.shown = m.shown /\ q.round = m.round
      /\ q.pads = m.pads /\ q.flushing = {} /\ (Unprepared(q) <=> Unprepared(m))
  BY DEF Resting, Unprepared
<1>3. OutOk(q, q.out, s) /\ IsSeq(q.out) /\ (Over(q) <=> Over(m))
  <2>1. IsSeq(m.out)
    BY DEF MuxPre, IsMux
  <2>2. CASE q.out = m.out
    BY <1>1, <1>2, <2>1, <2>2, OutSame DEF Over
  <2>3. CASE ~Over(m) /\ x.kind \notin {"frame", "eos"} /\ q.out = Append(m.out, x)
    <3>1. Says(m.out, "eos") = {}
      BY <2>3 DEF Over
    <3>2. OutOk(m, q.out, s) /\ Says(q.out, "eos") = {} /\ IsSeq(q.out)
      <4> DEFINE t == Append(m.out, x)
      <4>1. OutOk(m, t, s) /\ Says(t, "eos") = {} /\ IsSeq(t)
        BY <1>1, <2>1, <2>3, <3>1, AddEvent
      <4>2. q.out = t
        BY <2>3
      <4> QED
        BY <4>1, <4>2
    <3> QED
      BY <1>2, <2>3, <3>2, OutSame DEF Over
  <2> QED
    BY <2>2, <2>3
<1>4. IsMux(q)
  BY <1>2, <1>3 DEF MuxPre, IsMux, Full
<1>5. ModeOf(q)
  <2>1. m.mode = "PAUSED" /\ ModeOf(m)
    BY DEF AllCollected, MuxPre
  <2> QED
    BY <1>2, <2>1 DEF ModeOf, Full, SameTyped
<1>6. \A l \in Layers : LayerOf(q, l)
  BY <1>2 DEF MuxPre, LayerOf, AllTold
<1>7. \A l \in DOMAIN q.pads : PadOk(q, l, q.pads[l])
  BY <1>2 DEF MuxPre, PadOk, Full, FrameHeld, Told, AllTold, AllShown
<1>8. TurnOk(q, s)
  <2>1. CommonOf(q) = CommonOf(m) /\ \A l \in Layers : (AllTold(q, l) <=> AllTold(m, l))
                                                       /\ (Holding(q, l) <=> Holding(m, l))
    BY <1>2 DEF CommonOf, AllTold, Holding
  <2>2. Over(m) => q.seg = <<>> /\ q.tags = {}
    BY <1>1 DEF TurnOk
  <2> QED
    BY <1>1, <1>2, <1>3, <2>1, <2>2 DEF TurnOk
<1>9. AllCollected(q)
  BY <1>2 DEF AllCollected
<1> QED
  BY <1>1, <1>2, <1>3, <1>4, <1>5, <1>6, <1>7, <1>8, <1>9 DEF MuxPre

LEMMA SegmentKeeps ==
  ASSUME NEW m, MuxPre(m), m.flushing = {}, AllCollected(m), m.state # "NONE"
  PROVE  /\ SegmentTold(m).flushing = {}
         /\ MuxPre(SegmentTold(m)) /\ AllCollected(SegmentTold(m)) /\ SegmentTold(m).state # "NONE"
         /\ SegmentTold(m).seg = <<>>
<1> DEFINE q == SegmentTold(m)
<1>1. SegOk(m) /\ m = [x \in MuxFields |-> m[x]] /\ IsSeq(m.out)
  BY DEF MuxPre, IsMux
<1>2. CASE m.seg = <<>>
  BY <1>2 DEF SegmentTold
<1>3. CASE m.seg # <<>>
  <2>1. PICK x : m.seg = <<x>> /\ x.kind = "segment"
    BY <1>1, <1>3 DEF SegOk
  <2>2. q = Pushed([m EXCEPT !.seg = <<>>], x)
    BY <1>3, <2>1 DEF SegmentTold
  <2>3. q.seg = <<>> /\ q.out = Append(m.out, x) /\ q.tags = m.tags /\ Resting(m, q)
    <3> DEFINE o == [m EXCEPT !.seg = <<>>]
    <3>1. /\ o = [y \in MuxFields |-> o[y]] /\ o.mode = m.mode /\ o.n = m.n /\ o.state = m.state
          /\ o.feeds = m.feeds /\ o.told = m.told /\ o.shown = m.shown /\ o.round = m.round
          /\ o.pads = m.pads /\ o.seg = <<>> /\ o.tags = m.tags /\ o.out = m.out
          /\ o.flushing = m.flushing
      BY <1>1 DEF MuxFields
    <3>2. q = [o EXCEPT !.out = Append(@, x)]
      BY <2>2 DEF Pushed
    <3> HIDE DEF o, q
    <3> QED
      BY <3>1, <3>2 DEF Resting, MuxFields
  <2> HIDE DEF q
  <2>4. ~Over(m)
    BY <1>3 DEF MuxPre, TurnOk
  <2>5. SegOk(q)
    <3>1. q.round = m.round /\ q.told = m.told /\ q.feeds = m.feeds /\ (Unprepared(q) <=> Unprepared(m))
      BY <2>3 DEF Resting, Unprepared
    <3>2. Told(m, "BASE", "segment") /\ ~Unprepared(m) => x.round = m.round \/ Segmented(m, m.out, Len(m.out) + 1)
      BY <1>1, <2>1 DEF SegOk
    <3>3. Told(m, "BASE", "segment") /\ ~Unprepared(m) => Segmented(m, q.out, Len(q.out) + 1)
      BY <1>1, <2>1, <2>3, <3>2, SegmentedFact
    <3> QED
      BY <2>3, <3>1, <3>3 DEF SegOk, Told, Segmented
  <2>6. x.kind \notin {"frame", "eos"}
    BY <2>1
  <2> QED
    BY <2>3, <2>4, <2>5, <2>6, RestingKeeps DEF q
<1> QED
  BY <1>2, <1>3

LEMMA TagsKeep ==
  ASSUME NEW m, MuxPre(m), m.flushing = {}, AllCollected(m), m.state # "NONE", m.seg = <<>>
  PROVE  /\ TagsTold(m).flushing = {}
         /\ MuxPre(TagsTold(m)) /\ AllCollected(TagsTold(m)) /\ TagsTold(m).state # "NONE"
         /\ TagsTold(m).seg = <<>> /\ TagsTold(m).tags = {}
<1> DEFINE q == TagsTold(m)
           x == [kind |-> "tag", tags |-> m.tags]
<1>1. SegOk(m) /\ m = [y \in MuxFields |-> m[y]] /\ IsSeq(m.out)
  BY DEF MuxPre, IsMux
<1>2. CASE m.tags = {}
  BY <1>2 DEF TagsTold
<1>3. CASE m.tags # {}
  <2>1. x.kind \notin {"frame", "eos"}
    OBVIOUS
  <2>2. q.seg = <<>> /\ q.out = Append(m.out, x) /\ q.tags = {} /\ Resting(m, q)
    <3> DEFINE o == [m EXCEPT !.tags = {}]
    <3>1. /\ o = [y \in MuxFields |-> o[y]] /\ o.mode = m.mode /\ o.n = m.n /\ o.state = m.state
          /\ o.feeds = m.feeds /\ o.told = m.told /\ o.shown = m.shown /\ o.round = m.round
          /\ o.pads = m.pads /\ o.seg = <<>> /\ o.tags = {} /\ o.out = m.out
          /\ o.flushing = m.flushing
      BY <1>1 DEF MuxFields
    <3>2. q = [o EXCEPT !.out = Append(@, x)]
      BY <1>3 DEF Pushed, TagsTold
    <3> HIDE DEF o, q, x
    <3> QED
      BY <3>1, <3>2 DEF Resting, MuxFields
  <2> HIDE DEF q, x
  <2>3. ~Over(m)
    BY <1>3 DEF MuxPre, TurnOk
  <2>4. SegOk(q)
    <3>1. q.round = m.round /\ q.told = m.told /\ q.feeds = m.feeds /\ (Unprepared(q) <=> Unprepared(m))
      BY <2>2 DEF Resting, Unprepared
    <3>2. Told(m, "BASE", "segment") /\ ~Unprepared(m) => Segmented(m, m.out, Len(m.out) + 1)
      BY <1>1 DEF SegOk
    <3>3. Told(m, "BASE", "segment") /\ ~Unprepared(m) => Segmented(m, q.out, Len(q.out) + 1)
      BY <1>1, <2>2, <3>2, SegmentedFact
    <3> QED
      BY <2>2, <3>1, <3>3 DEF SegOk, Told, Segmented
  <2> QED
    BY <2>1, <2>2, <2>3, <2>4, RestingKeeps DEF q
<1> QED
  BY <1>2, <1>3

(* choose_best_pad: one pad of each type, and turns.                        *)
PadsTyped(m) ==
  /\ m = [x \in MuxFields |-> m[x]] /\ DOMAIN m.pads = Layers
  /\ m.pads = [l \in DOMAIN m.pads |-> m.pads[l]]
  /\ \A l \in Layers : IsPad(m.pads[l]) /\ m.pads[l].type = l
  /\ m.state \in {"WAIT_BL", "WAIT_EL"}
Drained(m, q) ==
  /\ PadsTyped(q) /\ q.mode = m.mode /\ q.n = m.n /\ q.feeds = m.feeds /\ q.told = m.told
  /\ q.shown = m.shown /\ q.round = m.round /\ q.seg = m.seg /\ q.tags = m.tags
  /\ q.flushing = m.flushing
  /\ \A l \in Layers :
       /\ q.pads[l].caps = m.pads[l].caps /\ q.pads[l].eos = m.pads[l].eos
       /\ q.pads[l].blocked = m.pads[l].blocked /\ q.pads[l].holds \in {<<>>, m.pads[l].holds}

LEMMA TurnFact ==
  ASSUME NEW m, PadsTyped(m)
  PROVE  /\ Wanted(m) \in Layers /\ Best(m) = {Wanted(m)} /\ BestPad(m) = Wanted(m)
         /\ HasBest(m) <=> m.pads[Wanted(m)].holds # <<>>
         /\ Drained(m, Turned(m)) /\ Turned(m).out = m.out /\ Turned(m).pads = m.pads
         /\ Wanted(Turned(m)) = (IF Wanted(m) = "BASE" THEN "ENHANCE" ELSE "BASE")
<1>1. Wanted(m) \in Layers
  BY DEF Wanted, Layers
<1>2. Best(m) = {Wanted(m)}
  BY <1>1 DEF Best, PadsTyped
<1>3. BestPad(m) = Wanted(m)
  BY <1>2 DEF BestPad
<1>4. HasBest(m) <=> m.pads[Wanted(m)].holds # <<>>
  BY <1>2 DEF HasBest
<1> DEFINE q == [m EXCEPT !.state = IF @ = "WAIT_BL" THEN "WAIT_EL" ELSE "WAIT_BL"]
<1>5. q = Turned(m)
  BY <1>2 DEF Turned
<1>6. /\ q = [x \in MuxFields |-> q[x]] /\ q.mode = m.mode /\ q.n = m.n /\ q.feeds = m.feeds
      /\ q.told = m.told /\ q.shown = m.shown /\ q.round = m.round /\ q.seg = m.seg /\ q.tags = m.tags
      /\ q.pads = m.pads /\ q.out = m.out /\ q.flushing = m.flushing
      /\ q.state = IF m.state = "WAIT_BL" THEN "WAIT_EL" ELSE "WAIT_BL"
  BY DEF PadsTyped, MuxFields
<1> HIDE DEF q
<1>7. Drained(m, q)
  BY <1>6 DEF Drained, PadsTyped
<1>8. Wanted(q) = (IF Wanted(m) = "BASE" THEN "ENHANCE" ELSE "BASE")
  BY <1>6 DEF Wanted, PadsTyped
<1> QED
  BY <1>1, <1>2, <1>3, <1>4, <1>5, <1>6, <1>7, <1>8

LEMMA PopFact ==
  ASSUME NEW m, PadsTyped(m), NEW l \in Layers
  PROVE  /\ Drained(m, Popped(m, l)) /\ Popped(m, l).out = m.out /\ Popped(m, l).state = m.state
         /\ Popped(m, l).pads[l].holds = <<>>
         /\ \A k \in Layers : k # l => Popped(m, l).pads[k] = m.pads[k]
<1> DEFINE q == [m EXCEPT !.pads[l].holds = <<>>]
           pads == [m.pads EXCEPT ![l].holds = <<>>]
<1>1. /\ q = [x \in MuxFields |-> q[x]] /\ q.mode = m.mode /\ q.n = m.n /\ q.feeds = m.feeds
      /\ q.told = m.told /\ q.shown = m.shown /\ q.round = m.round /\ q.seg = m.seg /\ q.tags = m.tags
      /\ q.pads = pads /\ q.out = m.out /\ q.state = m.state /\ q.flushing = m.flushing
  BY DEF PadsTyped, MuxFields
<1>2. /\ DOMAIN pads = Layers /\ pads = [k \in DOMAIN pads |-> pads[k]]
      /\ pads[l] = [m.pads[l] EXCEPT !.holds = <<>>]
      /\ \A k \in Layers : k # l => pads[k] = m.pads[k]
  BY DEF PadsTyped
<1> DEFINE a == m.pads[l]
           b == pads[l]
<1>3. IsPad(a) /\ a.type = l /\ b = [a EXCEPT !.holds = <<>>]
  BY <1>2 DEF PadsTyped
<1> HIDE DEF a, b, q, pads
<1>4. /\ b = [x \in PadFields |-> b[x]] /\ b.type = a.type /\ b.caps = a.caps /\ b.eos = a.eos
      /\ b.blocked = a.blocked /\ b.holds = <<>>
  BY <1>3 DEF IsPad, PadFields
<1>5. IsPad(b)
  BY <1>3, <1>4 DEF IsPad
<1>6. ASSUME NEW k \in Layers
      PROVE  /\ IsPad(pads[k]) /\ pads[k].type = k
             /\ pads[k].caps = m.pads[k].caps /\ pads[k].eos = m.pads[k].eos
             /\ pads[k].blocked = m.pads[k].blocked /\ pads[k].holds \in {<<>>, m.pads[k].holds}
  <2>1. CASE k = l
    BY <1>3, <1>4, <1>5, <2>1 DEF a, b
  <2>2. CASE k # l
    <3>1. IsPad(m.pads[k]) /\ m.pads[k].type = k /\ pads[k] = m.pads[k]
      BY <1>2, <2>2 DEF PadsTyped
    <3> QED
      BY <3>1
  <2> QED
    BY <2>1, <2>2
<1>7. m.state \in {"WAIT_BL", "WAIT_EL"}
  BY DEF PadsTyped
<1>8. PadsTyped(q)
  BY <1>1, <1>2, <1>6, <1>7 DEF PadsTyped
<1>9. Drained(m, q)
  BY <1>1, <1>6, <1>8 DEF Drained
<1>10. q = Popped(m, l)
  BY DEF Popped, q
<1> QED
  BY <1>1, <1>2, <1>4, <1>9, <1>10 DEF b

LEMMA DrainedTwice ==
  ASSUME NEW m, NEW q, NEW r, Drained(m, q), Drained(q, r)
  PROVE  Drained(m, r)
BY DEF Drained

LEMMA PushFact ==
  ASSUME NEW m, NEW q, Drained(m, q), NEW x
  PROVE  Drained(m, Pushed(q, x)) /\ Pushed(q, x).out = Append(q.out, x)
         /\ Pushed(q, x).state = q.state /\ Pushed(q, x).pads = q.pads
<1> DEFINE r == [q EXCEPT !.out = Append(@, x)]
<1>1. /\ r = [y \in MuxFields |-> r[y]] /\ r.mode = q.mode /\ r.n = q.n /\ r.feeds = q.feeds
      /\ r.told = q.told /\ r.shown = q.shown /\ r.round = q.round /\ r.seg = q.seg /\ r.tags = q.tags
      /\ r.pads = q.pads /\ r.out = Append(q.out, x) /\ r.state = q.state /\ r.flushing = q.flushing
  BY DEF Drained, PadsTyped, MuxFields
<1>2. r = Pushed(q, x)
  BY DEF Pushed
<1> HIDE DEF r
<1>3. PadsTyped(r)
  BY <1>1 DEF PadsTyped, Drained
<1>4. Drained(m, r)
  BY <1>1, <1>3 DEF Drained
<1> QED
  BY <1>1, <1>2, <1>4

LEMMA DrainedKeeps ==
  ASSUME NEW m, MuxPre(m), m.flushing = {}, AllCollected(m), ~Unprepared(m), m.seg = <<>>, NEW q, Drained(m, q),
         NEW x, q.out = Append(m.out, x)
  PROVE  /\ IsSeq(q.out) => IsMux(q)
         /\ ModeOf(q) /\ SegOk(q) /\ (\A l \in Layers : LayerOf(q, l))
         /\ \A l \in DOMAIN q.pads : PadOk(q, l, q.pads[l])
<1>1. /\ PadsTyped(q) /\ q.mode = m.mode /\ q.n = m.n /\ q.feeds = m.feeds /\ q.told = m.told
      /\ q.shown = m.shown /\ q.round = m.round /\ q.seg = m.seg /\ q.tags = m.tags
      /\ DOMAIN q.pads = Layers /\ q.state \in {"WAIT_BL", "WAIT_EL"} /\ q.flushing = {}
  BY DEF Drained, PadsTyped
<1>2. /\ Full(m) /\ DOMAIN m.pads = Layers /\ m.mode = "PAUSED" /\ IsSeq(m.out)
      /\ \A l \in Layers : AllTold(m, l) /\ m.pads[l].caps
  BY CollectedFact DEF MuxPre, IsMux
<1>3. IsSeq(q.out) => IsMux(q)
  <2>1. q.n \in 0 .. 2 /\ (q.n = 0 <=> DOMAIN q.pads = {}) /\ (q.n = 2 <=> Full(q))
    BY <1>1, <1>2 DEF MuxPre, IsMux, Full
  <2>2. /\ q = [y \in MuxFields |-> q[y]] /\ q.pads = [l \in DOMAIN q.pads |-> q.pads[l]]
        /\ \A l \in DOMAIN q.pads : IsPad(q.pads[l])
    BY <1>1 DEF PadsTyped
  <2>3. SoundFeeds(q.feeds) /\ q.round \in Nat /\ q.told \in [Layers -> Nat] /\ q.shown \in [Layers -> Nat]
    BY <1>1 DEF MuxPre, IsMux
  <2> QED
    BY <1>1, <1>2, <2>1, <2>2, <2>3 DEF IsMux
<1>4. ModeOf(q)
  BY <1>1, <1>2 DEF ModeOf, Full, SameTyped, PadsTyped
<1>5. SegOk(q)
  <2>1. Segmented(m, m.out, Len(m.out) + 1)
    BY CollectedFact DEF MuxPre, SegOk
  <2>2. Segmented(m, q.out, Len(q.out) + 1)
    BY <1>2, <2>1, SegmentedFact
  <2> QED
    BY <1>1, <2>2 DEF SegOk, Segmented
<1>6. \A l \in Layers : LayerOf(q, l)
  BY <1>1, <1>2 DEF MuxPre, LayerOf, AllTold
<1>7. ASSUME NEW l \in DOMAIN q.pads PROVE PadOk(q, l, q.pads[l])
  <2>1. PadOk(m, l, m.pads[l]) /\ l \in Layers
    BY <1>1, <1>2 DEF MuxPre
  <2>2. FrameHeld(q, l) = FrameHeld(m, l) /\ (AllTold(q, l) <=> AllTold(m, l))
        /\ (AllShown(q, l) <=> AllShown(m, l)) /\ q.shown[l] = m.shown[l]
    BY <1>1 DEF FrameHeld, AllTold, AllShown
  <2>3. /\ q.pads[l].type = l /\ q.pads[l].caps /\ q.pads[l].eos = m.pads[l].eos
        /\ q.pads[l].holds \in {<<>>, m.pads[l].holds} /\ q.pads[l].blocked = m.pads[l].blocked
    BY <1>2, <2>1 DEF Drained, PadsTyped
  <2> QED
    BY <1>1, <1>2, <2>1, <2>2, <2>3 DEF PadOk, Full
<1> QED
  BY <1>3, <1>4, <1>5, <1>6, <1>7

(* collected at the end of a layer.                                         *)
LEMMA EndKeeps ==
  ASSUME NEW m, MuxPre(m), m.flushing = {}, AllCollected(m), ~Unprepared(m), m.seg = <<>>, m.tags = {}, NEW k \in Layers,
         m.pads[k].holds = <<>>, NEW q, Drained(m, q), q.out = Append(m.out, [kind |-> "eos"])
  PROVE  MuxOf(q)
<1>1. PICK s \in Nat : OutOk(m, m.out, s) /\ TurnOk(m, s)
  BY DEF MuxPre
<1>2. /\ Full(m) /\ DOMAIN m.pads = Layers /\ m.mode = "PAUSED" /\ IsSeq(m.out)
      /\ \A l \in Layers : AllTold(m, l)
  BY CollectedFact DEF MuxPre, IsMux
<1>3. /\ q.mode = m.mode /\ q.feeds = m.feeds /\ q.told = m.told /\ q.shown = m.shown
      /\ q.round = m.round /\ q.seg = m.seg /\ q.tags = m.tags /\ ~Unprepared(q)
      /\ \A l \in Layers : q.pads[l].eos = m.pads[l].eos
  BY DEF Drained, PadsTyped, Unprepared, Layers
<1>4. OutOk(q, q.out, s) /\ IsSeq(q.out) /\ Over(q)
  <2> DEFINE x == [kind |-> "eos"]
             t == Append(m.out, x)
  <2>1. OutOk(m, t, s) /\ Says(t, "eos") # {} /\ IsSeq(t)
    BY <1>1, <1>2, AddEos
  <2>2. q.out = t
    OBVIOUS
  <2> HIDE DEF t
  <2> QED
    BY <1>3, <2>1, <2>2, OutSame DEF Over
<1>5. m.pads[k].eos /\ AllShown(m, k)
  BY <1>2 DEF AllCollected, MuxPre, PadOk
<1>6. s = CommonOf(m)
  <2>1. CASE Over(m)
    BY <1>1, <2>1 DEF TurnOk
  <2>2. CASE ~Over(m)
    <3>1. \A l \in Layers : m.shown[l] = s + (IF Holding(m, l) THEN 1 ELSE 0)
      BY <1>1, <2>2 DEF TurnOk
    <3>2. s = Len(m.feeds[k].frames)
      BY <1>5, <3>1 DEF Holding, AllShown
    <3>3. ASSUME NEW l \in Layers PROVE s <= Len(m.feeds[l].frames) /\ Len(m.feeds[l].frames) \in Nat
      BY <3>1, FeedFact
    <3> QED
      BY <3>2, <3>3 DEF CommonOf, Layers
  <2> QED
    BY <2>1, <2>2
<1>7. TurnOk(q, s)
  <2>1. CommonOf(q) = CommonOf(m) /\ \A l \in Layers : AllTold(q, l)
    BY <1>2, <1>3 DEF CommonOf, AllTold
  <2> QED
    BY <1>2, <1>3, <1>4, <1>5, <1>6, <2>1 DEF TurnOk
<1>8. MuxPre(q)
  BY <1>1, <1>4, <1>7, DrainedKeeps DEF MuxPre
<1> QED
  BY <1>4, <1>8 DEF MuxOf

(* collected: a frame of each layer becomes one buffer.                     *)
LEMMA PairKeeps ==
  ASSUME NEW m, MuxPre(m), m.flushing = {}, AllCollected(m), ~Unprepared(m), m.seg = <<>>, m.tags = {}, ~Over(m),
         \A l \in Layers : m.pads[l].holds # <<>>, NEW q, Drained(m, q), q.state = "WAIT_BL",
         \A l \in Layers : q.pads[l].holds = <<>>,
         q.out = Append(m.out, Pair(m.pads["BASE"].holds[1], m.pads["ENHANCE"].holds[1]))
  PROVE  MuxOf(q)
<1> DEFINE bl == m.pads["BASE"].holds[1]
           el == m.pads["ENHANCE"].holds[1]
           pair == Pair(bl, el)
<1>1. PICK s \in Nat : OutOk(m, m.out, s) /\ TurnOk(m, s)
  BY DEF MuxPre
<1>2. /\ Full(m) /\ DOMAIN m.pads = Layers /\ m.mode = "PAUSED" /\ IsSeq(m.out)
      /\ \A l \in Layers : AllTold(m, l)
  BY CollectedFact DEF MuxPre, IsMux
<1>3. /\ q.mode = m.mode /\ q.feeds = m.feeds /\ q.told = m.told /\ q.shown = m.shown
      /\ q.round = m.round /\ DOMAIN q.pads = Layers /\ ~Unprepared(q)
      /\ \A l \in Layers : q.pads[l].eos = m.pads[l].eos
  BY DEF Drained, PadsTyped, Unprepared, Layers
<1>4. ASSUME NEW l \in Layers
      PROVE  /\ m.pads[l].holds = <<FrameHeld(m, l)>> /\ ~m.pads[l].eos
             /\ m.shown[l] = s + 1 /\ s + 1 \in 1 .. Len(m.feeds[l].frames)
  <2>1. PadOk(m, l, m.pads[l])
    BY <1>2 DEF MuxPre
  <2>2. m.shown[l] = s + 1
    BY <1>1, <1>2 DEF TurnOk, Holding
  <2>3. m.shown[l] <= Len(m.feeds[l].frames)
    BY FeedFact
  <2> QED
    BY <2>1, <2>2, <2>3, FeedFact DEF PadOk
<1>5. "BASE" \in Layers /\ "ENHANCE" \in Layers
  BY DEF Layers
<1>6. bl = FrameHeld(m, "BASE") /\ el = FrameHeld(m, "ENHANCE")
  BY <1>4, <1>5
<1> HIDE DEF bl, el
<1>7. /\ pair.kind = "frame" /\ pair.pts = bl.frame.pts /\ pair.bl = bl /\ pair.elOf = el
      /\ pair.el.pts = PtsUnits(el.frame.pts)
  BY DEF Pair, Enhanced
<1> HIDE DEF pair
<1>8. pair.kind = "frame" /\ PairOk(m, pair) /\ pair.bl.nth = s + 1
  <2>1. /\ bl.layer = "BASE" /\ bl.round = m.round /\ bl.nth = s + 1
        /\ bl.frame = m.feeds["BASE"].frames[s + 1]
        /\ el.layer = "ENHANCE" /\ el.round = m.round /\ el.nth = s + 1
        /\ el.frame = m.feeds["ENHANCE"].frames[s + 1]
    BY <1>4, <1>5, <1>6 DEF FrameHeld
  <2>2. Whole(PtsUnits(m.feeds["ENHANCE"].frames[s + 1].pts)) = m.feeds["ENHANCE"].frames[s + 1].pts
    <3>1. m.feeds["ENHANCE"].frames[s + 1].pts \in 0 .. PtsPart * PtsPart * PtsPart * PtsPart - 1
      BY <1>4, <1>5, FeedFact
    <3> QED
      BY <3>1, PtsFact
  <2> QED
    BY <1>7, <2>1, <2>2 DEF PairOk
<1>9. OutOk(q, q.out, s + 1) /\ IsSeq(q.out) /\ ~Over(q)
  <2> DEFINE t == Append(m.out, pair)
  <2>1. Segmented(m, m.out, Len(m.out) + 1)
    BY CollectedFact DEF MuxPre, SegOk
  <2>2. Says(m.out, "eos") = {}
    BY DEF Over
  <2>3. OutOk(m, t, s + 1) /\ Says(t, "eos") = {} /\ IsSeq(t)
    BY <1>1, <1>2, <1>8, <2>1, <2>2, AddPair
  <2>4. q.out = t
    BY DEF pair, bl, el
  <2> HIDE DEF t
  <2> QED
    BY <1>3, <2>3, <2>4, OutSame DEF Over
<1>10. TurnOk(q, s + 1)
  <2>1. \A l \in Layers : ~Holding(q, l) /\ q.shown[l] = s + 1
    BY <1>3, <1>4 DEF Holding
  <2> QED
    BY <1>3, <1>9, <2>1 DEF TurnOk
<1>11. MuxPre(q)
  <2>1. s + 1 \in Nat
    OBVIOUS
  <2>2. q.out = Append(m.out, pair)
    BY DEF pair, bl, el
  <2> QED
    BY <1>9, <1>10, <2>1, <2>2, DrainedKeeps DEF MuxPre
<1>12. ~AllCollected(q)
  BY <1>3, <1>4, <1>5 DEF AllCollected
<1> QED
  BY <1>11, <1>12 DEF MuxOf

LEMMA CombinedKeeps ==
  ASSUME NEW m, MuxPre(m), m.flushing = {}, AllCollected(m), ~Unprepared(m), m.state # "NONE", m.seg = <<>>, m.tags = {}
  PROVE  MuxOf(Combined(m))
<1> DEFINE w == Wanted(m)
           v == IF w = "BASE" THEN "ENHANCE" ELSE "BASE"
           p == Popped(Turned(m), w)
           t == Turned(p)
<1>1. DOMAIN m.pads = Layers /\ Full(m)
  BY CollectedFact
<1>2. PadsTyped(m)
  <2>1. \A l \in Layers : IsPad(m.pads[l]) /\ m.pads[l].type = l
    BY <1>1 DEF MuxPre, IsMux, PadOk, Unprepared
  <2> QED
    BY <1>1, <2>1 DEF MuxPre, IsMux, PadsTyped
<1>3. /\ w \in Layers /\ BestPad(m) = w /\ (HasBest(m) <=> m.pads[w].holds # <<>>)
      /\ Drained(m, Turned(m)) /\ Turned(m).out = m.out /\ Turned(m).pads = m.pads
      /\ Wanted(Turned(m)) = v
  BY <1>2, TurnFact
<1>4. PadsTyped(Turned(m))
  BY <1>3 DEF Drained
<1>5. /\ Drained(m, p) /\ p.out = m.out /\ p.state = Turned(m).state /\ p.pads[w].holds = <<>>
      /\ \A k \in Layers : k # w => p.pads[k] = m.pads[k]
  BY <1>3, <1>4, PopFact, DrainedTwice
<1>6. PadsTyped(p) /\ Wanted(p) = v /\ v \in Layers /\ v # w /\ Layers = {w, v}
  BY <1>3, <1>5 DEF Drained, Wanted, Layers
<1> HIDE DEF w
<1>7. /\ BestPad(p) = v /\ (HasBest(p) <=> m.pads[v].holds # <<>>)
      /\ Drained(p, t) /\ t.out = m.out /\ t.pads = p.pads /\ Wanted(t) = w
  <2>1. p.pads[v] = m.pads[v]
    BY <1>5, <1>6
  <2>2. w \in {"BASE", "ENHANCE"}
    BY <1>3 DEF Layers
  <2> HIDE DEF p
  <2> QED
    BY <1>5, <1>6, <2>1, <2>2, TurnFact
<1>8. CASE m.pads[w].holds = <<>>
  <2>1. Combined(m) = Pushed(Turned(m), [kind |-> "eos"])
    BY <1>3, <1>8 DEF Combined, Ended
  <2> QED
    BY <1>3, <1>8, <2>1, PushFact, EndKeeps
<1>9. CASE m.pads[w].holds # <<>>
  <2>1. Combined(m) = Second(p, m.pads[w].holds[1])
    BY <1>3, <1>9 DEF Combined
  <2>2. CASE m.pads[v].holds = <<>>
    <3>1. Combined(m) = Pushed(t, [kind |-> "eos"])
      BY <1>7, <2>1, <2>2 DEF Second, Ended
    <3>2. Drained(m, t)
      BY <1>5, <1>7, DrainedTwice
    <3> HIDE DEF t
    <3> QED
      BY <1>6, <1>7, <2>2, <3>1, <3>2, PushFact, EndKeeps
  <2>3. CASE m.pads[v].holds # <<>>
    <3> DEFINE r == Popped(t, v)
    <3>1. \A l \in Layers : m.pads[l].holds # <<>>
      BY <1>6, <1>9, <2>3
    <3>2. ~Over(m)
      <4>1. \A l \in Layers : ~m.pads[l].eos
        BY <1>1, <3>1 DEF MuxPre, PadOk
      <4> QED
        BY <4>1 DEF MuxPre, TurnOk
    <3>3. m.state = "WAIT_BL" /\ w = "BASE" /\ v = "ENHANCE"
      <4>1. m.state # "WAIT_EL"
        BY <3>2 DEF MuxPre, TurnOk
      <4>2. m.state = "WAIT_BL"
        BY <1>2, <4>1 DEF PadsTyped
      <4> QED
        BY <4>2 DEF w, Wanted
    <3>4. p.pads[v] = m.pads[v]
      BY <1>5, <1>6
    <3>5. Combined(m) = Pushed(r, Pair(m.pads["BASE"].holds[1], m.pads["ENHANCE"].holds[1]))
      BY <1>7, <2>1, <2>3, <3>3, <3>4 DEF Second
    <3>6. PadsTyped(t)
      BY <1>7 DEF Drained
    <3> HIDE DEF t
    <3>7. /\ Drained(t, r) /\ r.out = m.out /\ r.state = t.state /\ r.pads[v].holds = <<>>
          /\ r.pads[w] = p.pads[w]
      BY <1>3, <1>6, <1>7, <3>6, PopFact
    <3> HIDE DEF r
    <3>8. Drained(m, r)
      BY <1>5, <1>7, <3>7, DrainedTwice
    <3>9. r.state = "WAIT_BL" /\ \A l \in Layers : r.pads[l].holds = <<>>
      <4>1. r.state = "WAIT_BL"
        BY <1>7, <3>3, <3>6, <3>7 DEF Wanted, PadsTyped
      <4> QED
        BY <1>5, <1>6, <3>7, <4>1
    <3> QED
      BY <3>1, <3>2, <3>5, <3>7, <3>8, <3>9, PushFact, PairKeeps
  <2> QED
    BY <2>2, <2>3
<1> QED
  BY <1>8, <1>9

(* collected where prepare was skipped: no pad is of a type, so it ends.    *)
LEMMA UnpreparedEnds ==
  ASSUME NEW m, MuxPre(m), m.flushing = {}, AllCollected(m), Unprepared(m), m.seg = <<>>, m.tags = {}
  PROVE  MuxOf(Combined(m))
<1> DEFINE x == [kind |-> "eos"]
           q == Pushed(m, x)
<1>1. PICK s \in Nat : OutOk(m, m.out, s) /\ TurnOk(m, s)
  BY DEF MuxPre
<1>2. /\ Full(m) /\ m.mode = "PAUSED" /\ IsSeq(m.out) /\ m = [y \in MuxFields |-> m[y]]
      /\ ModeOf(m) /\ m.state # "NONE" /\ \A l \in Layers : AllTold(m, l)
  BY CollectedFact DEF MuxPre, IsMux, Unprepared
<1>3. \A l \in DOMAIN m.pads : m.pads[l].type = "NONE"
  <2>1. PICK l \in DOMAIN m.pads : m.pads[l].type = "NONE"
    BY DEF Unprepared
  <2>2. l # "NONE"
    BY <1>2 DEF Full, Layers
  <2> QED
    BY <1>2, <2>1, <2>2 DEF ModeOf, SameTyped
<1>4. Best(m) = {} /\ ~HasBest(m)
  <2>1. Wanted(m) # "NONE"
    BY DEF Wanted
  <2> QED
    BY <1>3, <2>1 DEF Best, HasBest
<1>5. Combined(m) = q
  BY <1>4 DEF Combined, Turned, Ended
<1>6. /\ q = [y \in MuxFields |-> q[y]] /\ q.mode = m.mode /\ q.n = m.n /\ q.state = m.state
      /\ q.seg = <<>> /\ q.tags = {} /\ q.feeds = m.feeds /\ q.told = m.told /\ q.shown = m.shown
      /\ q.round = m.round /\ q.pads = m.pads /\ q.flushing = {} /\ q.out = Append(m.out, x)
  BY <1>2 DEF Pushed, MuxFields
<1> HIDE DEF q
<1>7. OutOk(q, q.out, s) /\ IsSeq(q.out) /\ Over(q)
  <2> DEFINE t == Append(m.out, x)
  <2>1. OutOk(m, t, s) /\ Says(t, "eos") # {} /\ IsSeq(t)
    BY <1>1, <1>2, AddEos
  <2>2. q.out = t
    BY <1>6
  <2> HIDE DEF t
  <2> QED
    BY <1>6, <2>1, <2>2, OutSame DEF Over
<1> HIDE DEF x
<1>8. Unprepared(q) /\ (Full(q) <=> Full(m)) /\ (SameTyped(q) <=> SameTyped(m))
  BY <1>6 DEF Unprepared, Full, SameTyped
<1>9. IsMux(q) /\ ModeOf(q) /\ SegOk(q)
  <2>1. IsMux(q)
    BY <1>6, <1>7, <1>8 DEF MuxPre, IsMux
  <2>2. ModeOf(q)
    BY <1>2, <1>6, <1>8 DEF ModeOf
  <2> QED
    BY <1>6, <1>8, <2>1, <2>2 DEF SegOk
<1>10. \A l \in Layers : LayerOf(q, l)
  BY <1>6 DEF MuxPre, LayerOf, AllTold
<1>11. \A l \in DOMAIN q.pads : PadOk(q, l, q.pads[l])
  BY <1>6, <1>8 DEF MuxPre, PadOk, FrameHeld, Told, AllTold, AllShown
<1>12. TurnOk(q, s)
  <2>1. s = 0 /\ \A l \in Layers : AllTold(q, l)
    BY <1>1, <1>2, <1>6 DEF TurnOk, AllTold
  <2> QED
    BY <1>2, <1>6, <1>7, <1>8, <2>1 DEF TurnOk
<1> QED
  BY <1>5, <1>7, <1>9, <1>10, <1>11, <1>12 DEF MuxPre, MuxOf

LEMMA CheckedKeeps ==
  ASSUME NEW m, MuxPre(m), m.flushing = {}
  PROVE  MuxOf(Checked(m))
<1>1. CASE ~AllCollected(m)
  BY <1>1 DEF Checked, MuxOf
<1>2. CASE AllCollected(m)
  <2> DEFINE p == Prepared(m)
             s == SegmentTold(p)
             t == TagsTold(s)
  <2>1. (m.state # "NONE" \/ MayPrepare(m)) /\ MuxPre(p) /\ p.flushing = {} /\ AllCollected(p) /\ p.state # "NONE"
    BY <1>2, PreparedKeeps
  <2>2. Checked(m) = Combined(t)
    BY <1>2, <2>1 DEF Checked, Collected, Announced
  <2> HIDE DEF p
  <2>3. MuxPre(s) /\ s.flushing = {} /\ AllCollected(s) /\ s.state # "NONE" /\ s.seg = <<>>
    BY <2>1, SegmentKeeps
  <2> HIDE DEF s
  <2>4. MuxPre(t) /\ t.flushing = {} /\ AllCollected(t) /\ t.state # "NONE" /\ t.seg = <<>> /\ t.tags = {}
    BY <2>3, TagsKeep
  <2> HIDE DEF t
  <2> QED
    BY <2>2, <2>4, CombinedKeeps, UnpreparedEnds
<1> QED
  BY <1>1, <1>2

LEMMA MuxStart ==
  ASSUME \A feeds \in LayerFeeds : SoundFeeds(feeds), MuxInit
  PROVE  MuxInv
<1>1. PICK feeds \in LayerFeeds : mux = InitialMux(feeds)
  BY DEF MuxInit
<1>2. /\ mux = [x \in MuxFields |-> mux[x]] /\ mux.mode = "READY" /\ mux.n = 0 /\ mux.state = "NONE"
      /\ mux.seg = <<>> /\ mux.tags = {} /\ mux.flushing = {} /\ mux.feeds = feeds /\ mux.round = 0 /\ mux.out = <<>>
      /\ mux.told = [l \in Layers |-> 0] /\ mux.shown = [l \in Layers |-> 0]
      /\ mux.pads = [l \in {} |-> InitialPad]
  BY <1>1 DEF InitialMux, MuxFields
<1>3. DOMAIN mux.pads = {} /\ ~Full(mux) /\ mux.pads = [l \in DOMAIN mux.pads |-> mux.pads[l]]
  BY <1>2 DEF Full, Layers
<1>4. SoundFeeds(mux.feeds)
  BY <1>1, <1>2
<1>5. IsMux(mux)
  <2>1. mux.told \in [Layers -> Nat] /\ mux.shown \in [Layers -> Nat]
    BY <1>2
  <2>2. IsSeq(mux.out)
    BY <1>2, EmptyFact
  <2> QED
    BY <1>2, <1>3, <1>4, <2>1, <2>2 DEF IsMux
<1>6. ASSUME NEW l \in Layers PROVE mux.told[l] = 0 /\ mux.shown[l] = 0 /\ LayerOf(mux, l)
  <2>1. Len(mux.feeds[l].events) \in Nat /\ Len(mux.feeds[l].frames) \in Nat
    BY <1>4 DEF SoundFeeds, SoundFeed
  <2>2. mux.told[l] = 0 /\ mux.shown[l] = 0
    BY <1>2
  <2> QED
    BY <2>1, <2>2 DEF LayerOf
<1>7. SegOk(mux) /\ ModeOf(mux)
  <2>1. ~Told(mux, "BASE", "segment")
    BY <1>6 DEF Told, Layers
  <2> QED
    BY <1>2, <1>3, <2>1 DEF SegOk, ModeOf, SameTyped
<1>8. OutOk(mux, mux.out, 0) /\ ~Over(mux)
  BY <1>2, EmptyFact DEF Over
<1>9. TurnOk(mux, 0)
  BY <1>2, <1>3, <1>6, <1>8 DEF TurnOk, Holding, Unprepared
<1>10. ~AllCollected(mux)
  BY <1>3 DEF AllCollected
<1> QED
  BY <1>3, <1>5, <1>6, <1>7, <1>8, <1>9, <1>10 DEF MuxInv, MuxOf, MuxPre

LEMMA MuxStep ==
  ASSUME MuxInv, [MuxNext]_muxVars
  PROVE  MuxInv'
<1>1. CASE UNCHANGED muxVars
  BY <1>1 DEF muxVars, MuxInv
<1>2. CASE ReadyToPaused
  BY <1>2, ToPausedKeeps
<1>3. CASE PausedToReady
  BY <1>3, ToReadyKeeps
<1>4. CASE SeekDown
  BY <1>4, SeekKeepsMux
<1>5. ASSUME NEW l \in Layers, RequestPad(l) PROVE MuxInv'
  BY <1>5, RequestKeeps
<1>6. ASSUME NEW l \in Layers, BringEvent(l) PROVE MuxInv'
  BY <1>6, EventKeeps
<1>7. ASSUME NEW l \in Layers, LayerFlushStop(l) PROVE MuxInv'
  BY <1>7, FlushStopKeeps
<1>8. ASSUME NEW l \in Layers, BringFrame(l) \/ BringEos(l) PROVE MuxInv'
  <2>1. MayBring(l) /\ ~mux.pads[l].blocked /\ AllTold(mux, l)
    BY <1>8 DEF BringFrame, BringEos, AllTold
  <2>2. PICK m : MuxPre(m) /\ m.flushing = {} /\ mux' = Checked(m)
    BY <1>8, <2>1, BroughtFact
  <2> QED
    BY <2>2, CheckedKeeps DEF MuxInv
<1> QED
  BY <1>1, <1>2, <1>3, <1>4, <1>5, <1>6, <1>7, <1>8 DEF MuxNext

LEMMA MuxShows ==
  ASSUME MuxInv
  PROVE  MuxTypeOK /\ DolbyTrue
<1>1. MuxPre(mux) /\ (~Over(mux) /\ mux.flushing = {} => ~AllCollected(mux)) /\ mux.feeds = mux.feeds
  BY DEF MuxInv, MuxOf
<1>2. PICK s \in Nat : OutOk(mux, mux.out, s) /\ TurnOk(mux, s)
  BY <1>1 DEF MuxPre
<1>3. IsSeq(mux.out) /\ Len(mux.out) \in Nat /\ DOMAIN mux.out = 1 .. Len(mux.out)
  BY <1>1, PlusFact DEF MuxPre, IsMux
<1>4. \A kind : OutOf(kind) = Says(mux.out, kind)
  BY DEF OutOf, Says
<1>5. PairsMatch
  <2> SUFFICES ASSUME NEW i \in OutOf("frame")
               PROVE  /\ mux.out[i].bl.layer = "BASE" /\ mux.out[i].bl.round = mux.round
                      /\ mux.out[i].elOf.layer = "ENHANCE" /\ mux.out[i].elOf.round = mux.round
                      /\ mux.out[i].elOf.nth = mux.out[i].bl.nth
                      /\ {mux.out[j].bl.nth : j \in {j \in OutOf("frame") : j < i}}
                           = 1 .. mux.out[i].bl.nth - 1
                      /\ mux.out[i].pts = Frames("BASE")[mux.out[i].bl.nth].pts
                      /\ Whole(mux.out[i].el.pts) = Frames("ENHANCE")[mux.out[i].bl.nth].pts
    BY DEF PairsMatch
  <2>1. PairOk(mux, mux.out[i]) /\ NthsBefore(mux.out, i) = 1 .. mux.out[i].bl.nth - 1
    BY <1>2, <1>4 DEF OutOk
  <2> QED
    BY <1>4, <2>1 DEF PairOk, NthsBefore, Frames
<1>6. WellFramed
  <2>1. ASSUME NEW i \in OutOf("frame")
        PROVE  \E j \in OutOf("segment") : j < i /\ mux.out[j].round = mux.round
    BY <1>2, <1>4 DEF OutOk, Segmented
  <2>2. ASSUME NEW i \in OutOf("eos"), ~Unprepared(mux)
        PROVE  {mux.out[j].bl.nth : j \in OutOf("frame")} = 1 .. Common
    <3>1. Over(mux)
      BY <1>4 DEF Over
    <3>2. s = Common
      BY <1>2, <2>2, <3>1 DEF TurnOk, CommonOf, Common, Frames
    <3>3. {j \in Says(mux.out, "frame") : j < Len(mux.out) + 1} = OutOf("frame")
      BY <1>3, <1>4 DEF Says
    <3> QED
      BY <1>2, <3>2, <3>3 DEF OutOk, NthsBefore
  <2>3. ASSUME NEW i \in OutOf("eos"), NEW j \in i .. Len(mux.out) PROVE mux.out[j].kind = "eos"
    BY <1>2, <1>4 DEF OutOk
  <2>4. ASSUME Unprepared(mux) PROVE OutOf("frame") = {}
    <3>1. s = 0
      BY <1>2, <2>4 DEF TurnOk
    <3>2. {j \in Says(mux.out, "frame") : j < Len(mux.out) + 1} = OutOf("frame")
      BY <1>3, <1>4 DEF Says
    <3>3. 1 .. s = {}
      BY <3>1
    <3>4. {mux.out[j].bl.nth : j \in OutOf("frame")} = {}
      BY <1>2, <3>2, <3>3 DEF OutOk, NthsBefore
    <3> QED
      BY <3>4
  <2> QED
    BY <2>1, <2>2, <2>3, <2>4 DEF WellFramed
<1>7. NobodyWaits
  <2> SUFFICES ASSUME mux.mode = "PAUSED", mux.flushing = {},
                      \A l \in DOMAIN mux.pads : mux.pads[l].eos \/ mux.pads[l].holds # <<>>
               PROVE  OutOf("eos") # {}
    BY DEF NobodyWaits
  <2>1. DOMAIN mux.pads # {}
    BY <1>1 DEF MuxPre, ModeOf, Full, Layers
  <2>2. AllCollected(mux)
    BY <2>1 DEF AllCollected
  <2> QED
    BY <1>1, <1>4, <2>2 DEF Over
<1>8. MuxTypeOK
  BY <1>1 DEF MuxTypeOK, MuxPre, IsMux, ModeOf, Full, MAX_STREAMS
<1> QED
  BY <1>5, <1>6, <1>7, <1>8 DEF DolbyTrue

(* Whatever two feeds the demuxer sends, as long as each layer is announced *)
(* and the base layer has its segment before the frames, in any order of    *)
(* the threads, over seeks at any time, each layer's FLUSH_STOP on its own, *)
(* and restarts: the buffers pushed are the first base frames, each once    *)
(* and in order, with the enhancement of the same number, both from after   *)
(* the last flush, its time read back from the four fragments; a segment of *)
(* that round comes before them; and the two threads never wait on each     *)
(* other (collected, choose_best_pad, process_buffer, sink_event).  EOS     *)
(* comes behind all that both layers have, with one exception, which        *)
(* WellFramed states: a FLUSH_STOP before the first pair puts the state to  *)
(* WAIT_BL (860), prepare is skipped (678), no pad gets a type; then no     *)
(* pair is ever pushed and EOS goes out at the first callback (740, 762).   *)
THEOREM DolbyPairs ==
  ASSUME \A feeds \in LayerFeeds : SoundFeeds(feeds)
  PROVE  MuxSpec => []DolbyTrue
<1>1. MuxInit => MuxInv
  BY MuxStart
<1>2. MuxInv /\ [MuxNext]_muxVars => MuxInv'
  BY MuxStep
<1>3. MuxInv => DolbyTrue
  BY MuxShows
<1> QED
  BY <1>1, <1>2, <1>3, PTL DEF MuxSpec

(* The four elements together, each for every value of its constants: what  *)
(* upstream sends is announced before its data, the application makes its   *)
(* sources before the change to PAUSED, and a SEGMENT follows a flush.  The *)
(* combiner's part has the exception of WellFramed: a FLUSH_STOP before the *)
(* first pair.                                                              *)
THEOREM ElementsHold ==
  ASSUME \A feeds \in LayerFeeds : SoundFeeds(feeds), \A s \in Shows : SoundShow(s),
         Polite, ~Gapless
  PROVE  MuxSpec /\ RouterSpec /\ SourceSpec /\ FakeSpec => []ElementsRight
<1>1. MuxSpec => [](MuxTypeOK /\ DolbyTrue)
  <2>1. MuxInit => MuxInv
    BY MuxStart
  <2>2. MuxInv /\ [MuxNext]_muxVars => MuxInv'
    BY MuxStep
  <2>3. MuxInv => MuxTypeOK /\ DolbyTrue
    BY MuxShows
  <2> QED
    BY <2>1, <2>2, <2>3, PTL DEF MuxSpec
<1>2. RouterSpec => [](RouterTypeOK /\ RouterTrue)
  <2>1. RouterInit => RouterInv
    BY RouterStarts DEF RouterInv
  <2>2. RouterInv /\ [RouterNext]_routerVars => RouterInv'
    BY RouterSteps DEF RouterInv
  <2>3. RouterInv => RouterTypeOK /\ RouterTrue
    BY RouterSound DEF RouterInv
  <2> QED
    BY <2>1, <2>2, <2>3, PTL DEF RouterSpec
<1>3. SourceSpec => [](SourceTypeOK /\ SourcesTrue)
  <2>1. AllPlay /\ NothingHeld => SourcesTrue
    BY DEF SourcesTrue
  <2> QED
    BY <2>1, SourceTypes, SourcesPlay, NeverLeftHeld, PTL
<1>4. FakeSpec => [](FakeTypeOK /\ FakeTrue)
  <2>1. NobodyLeft /\ StopReleases /\ ClockComes => FakeTrue
    BY DEF FakeTrue
  <2> QED
    BY <2>1, FakeTypeCorrect, SomebodyWakes, StopWakes, ClockEndsWait, PTL
<1>5. (MuxTypeOK /\ DolbyTrue) /\ (RouterTypeOK /\ RouterTrue)
        /\ (SourceTypeOK /\ SourcesTrue) /\ (FakeTypeOK /\ FakeTrue) => ElementsRight
  BY DEF ElementsRight
<1> QED
  BY <1>1, <1>2, <1>3, <1>4, <1>5, PTL
=============================================================================
