-------------------------- MODULE DecProxy_proofs --------------------------
(***************************************************************************)
(* Theorems about DecProxy for any number of requests, flushes and items.  *)
(***************************************************************************)
EXTENDS DecProxy, TLAPS

-----------------------------------------------------------------------------
(* The inductive invariant about the decoder.                               *)

(* The states are known together, before anything is switched; a pending    *)
(* request has left its wish.                                               *)
Known ==
  /\ current = "UNKNOWN" <=> nextState = "UNKNOWN"
  /\ at = "announce" \/ hook # "none" => current # "UNKNOWN"
  /\ \A t \in {"T", "A"} : switch[t] \notin {"off", "event"} => current # "UNKNOWN"
  /\ pendingSwitch \/ switch["A"] # "off" => active # "UNKNOWN"

(* Who owns the lock between two steps, and where T is when it switches     *)
(* or runs the hook.                                                        *)
LockOwners ==
  /\ hook \in {"T", "A"} <=> hookAt # "none"
  /\ hookAt \in {"flag", "done"} => lock = hook
  /\ at \in {"flag", "done"} => lock = "T"
  /\ switch["T"] # "off" => at = "held"
  /\ hook = "T" => at = "hook" \/ (at = "held" /\ switch["T"] = "hook")

(* A thread is about to add the hook, or the hook has not begun its work.   *)
Adds == \E t \in {"T", "A"} : switch[t] = "add"
Unbegun == hook # "none" /\ hookAt \in {"none", "begin", "flag"}

(* At most one change is on its way, and while it is there is something     *)
(* to replace.                                                              *)
OneChange ==
  /\ ~(switch["T"] = "add" /\ switch["A"] = "add")
  /\ Adds => hook = "none"
  /\ hook # "stays"
  /\ Adds \/ Unbegun => current # nextState /\ OldThere

(* A change that is decided on is on its way, is made or has failed.        *)
Progress ==
  /\ current # nextState /\ ~Failed => Adds \/ Unbegun
  /\ hookAt = "done" => current = nextState \/ Failed
  /\ hookAt = "failed" => Failed
  /\ Failed => nextState = "DECODER"

DecInv == /\ TypeOK /\ Known /\ LockOwners /\ OneDecoder /\ OneChange
          /\ Progress /\ DecoderFed


(* TypeOK, for the provers: its Boolean variables and the others.           *)
BoolType ==
  /\ puppet \in BOOLEAN /\ decoder \in BOOLEAN /\ pendingSwitch \in BOOLEAN
  /\ blocked \in BOOLEAN /\ eventProbe \in BOOLEAN
  /\ seenBuffer \in BOOLEAN /\ bufferProbe \in BOOLEAN
  /\ eatenStart \in BOOLEAN /\ eatenStop \in BOOLEAN
  /\ sending \in BOOLEAN /\ waiting \in BOOLEAN /\ changing \in BOOLEAN
  /\ sinkFlushing \in BOOLEAN /\ frontFlushing \in BOOLEAN

RestType ==
  /\ lock \in {"free", "T", "A"}
  /\ current \in States /\ nextState \in States /\ pendingState \in States
  /\ active \in States
  /\ frontProbes \subseteq {"T", "A"}
  /\ hook \in {"none", "deferred", "stays", "T", "A"} /\ hookAt \in HookPositions
  /\ at \in Positions /\ item \in Items /\ sent \in Sticky \cup {"data"}
  /\ switch \in [{"T", "A"} -> SwitchPositions]
  /\ request \in [{"T", "A"} -> {"PUPPET", "DECODER"}]
  /\ flushAt \in FlushPositions
  /\ requests \in Nat /\ flushes \in Nat /\ items \in Nat

LEMMA TypeParts == TypeOK <=> BoolType /\ RestType
BY DEF TypeOK, BoolType, RestType

LEMMA InitDec == Init => DecInv
<1> SUFFICES ASSUME Init PROVE DecInv
  OBVIOUS
<1>1. BoolType
  BY Zenon DEF Init, BoolType
<1>2. RestType
  BY DEF Init, RestType, States, Items, Sticky, Positions, HookPositions,
  SwitchPositions, FlushPositions
<1>3. TypeOK
  BY <1>1, <1>2, TypeParts
<1>4. Known /\ LockOwners /\ OneDecoder /\ OneChange /\ Progress /\ DecoderFed
  BY DEF Init, Known, LockOwners, OneDecoder, OneChange, Progress, DecoderFed,
  Adds, Unbegun, Failed, OldThere
<1> QED
  BY <1>3, <1>4 DEF DecInv

LEMMA NextType == TypeOK /\ Known /\ LockOwners /\ [Next]_vars => TypeOK'
<1> SUFFICES ASSUME TypeOK, Known, LockOwners, [Next]_vars PROVE TypeOK'
  OBVIOUS
<1>1. CASE Arrive
  BY <1>1 DEF Arrive, decoderVars, requestVars, probeVars, hookVars, seenVars,
  waitVars, padVars, NextItems, After, Sticky, TypeOK, Known, LockOwners,
  States, Items, Positions, HookPositions, SwitchPositions, FlushPositions
<1>2. CASE BufferProbe
  <2>1. BoolType'
    BY <1>2, TypeParts, Zenon DEF BufferProbe, decoderVars, requestVars,
    probeVars, hookVars, padVars, itemVars, SeeBuffer, BoolType
  <2>2. RestType'
    BY <1>2, TypeParts DEF BufferProbe, decoderVars, requestVars, probeVars,
    hookVars, padVars, itemVars, SeeBuffer, Known, LockOwners, RestType,
    States, Items, Sticky, Positions, HookPositions, SwitchPositions,
    FlushPositions
  <2> QED
    BY <2>1, <2>2, Zenon DEF TypeOK, BoolType, RestType
<1>3. CASE EventBegin
  BY <1>3 DEF EventBegin, decoderVars, requestVars, probeVars, hookVars,
  seenVars, waitVars, padVars, itemVars, TypeOK, Known, LockOwners, States,
  Items, Sticky, Positions, HookPositions, SwitchPositions, FlushPositions
<1>4. CASE EventFlag
  BY <1>4 DEF EventFlag, decoderVars, requestVars, probeVars, hookVars,
  seenVars, padVars, itemVars, FlushLockFree, Sticky, TypeOK, Known,
  LockOwners, States, Items, Positions, HookPositions, SwitchPositions,
  FlushPositions
<1>5. CASE EventGap
  <2>1. BoolType'
    BY <1>5, TypeParts, Zenon DEF EventGap, decoderVars, requestVars,
    probeVars, hookVars, padVars, itemVars, SeeBuffer, BoolType
  <2>2. RestType'
    BY <1>5, TypeParts DEF EventGap, decoderVars, requestVars, probeVars,
    hookVars, padVars, itemVars, SeeBuffer, Known, LockOwners, RestType,
    States, Items, Sticky, Positions, HookPositions, SwitchPositions,
    FlushPositions
  <2> QED
    BY <2>1, <2>2, Zenon DEF TypeOK, BoolType, RestType
<1>6. CASE EnterFront
  BY <1>6 DEF EnterFront, decoderVars, requestVars, probeVars, hookVars,
  seenVars, waitVars, padVars, itemVars, TypeOK, Known, LockOwners, States,
  Items, Sticky, Positions, HookPositions, SwitchPositions, FlushPositions
<1>7. CASE PassOpen
  BY <1>7 DEF PassOpen, decoderVars, requestVars, probeVars, hookVars,
  seenVars, waitVars, padVars, itemVars, PadOpen, TypeOK, Known, LockOwners,
  States, Items, Sticky, Positions, HookPositions, SwitchPositions,
  FlushPositions
<1>8. CASE Analyze
  <2>1. BoolType'
    BY <1>8, TypeParts, Zenon DEF Analyze, decoderVars, requestVars,
    probeVars, hookVars, seenVars, waitVars, padVars, itemVars, BoolType
  <2>2. at' \in {"held", "return", "push"}
    <3>1. Verdict \in {"held", "return", "push", ""}
      BY Zenon DEF Verdict
    <3> QED
      BY <1>8, <3>1 DEF Analyze
  <2>3. UNCHANGED <<lock, decoderVars, requestVars, probeVars, hookVars, item,
                    sent, items, switch, flushAt, flushes>>
    BY <1>8 DEF Analyze, itemVars
  <2>4. RestType
    BY TypeParts
  <2>5. RestType'
    BY <2>2, <2>3, <2>4 DEF decoderVars, requestVars, probeVars, hookVars,
    RestType, Positions
  <2> QED
    BY <2>1, <2>5, Zenon DEF TypeOK, BoolType, RestType
<1>9. CASE MakePuppet
  BY <1>9 DEF MakePuppet, requestVars, probeVars, hookVars, seenVars,
  waitVars, padVars, itemVars, PadOpen, Verdict, TypeOK, Known, LockOwners,
  States, Items, Sticky, Positions, HookPositions, SwitchPositions,
  FlushPositions
<1>10. CASE Announced
  <2>1. BoolType'
    BY <1>10, TypeParts, Zenon DEF Announced, decoderVars, probeVars,
    hookVars, seenVars, waitVars, padVars, itemVars, Pends, BoolType
  <2>2. RestType'
    BY <1>10, TypeParts DEF Announced, decoderVars, probeVars, hookVars,
    seenVars, waitVars, padVars, itemVars, Pends, Known, LockOwners, RestType,
    States, Items, Sticky, Positions, HookPositions, SwitchPositions,
    FlushPositions
  <2> QED
    BY <2>1, <2>2, Zenon DEF TypeOK, BoolType, RestType
<1>11. CASE Released
  BY <1>11 DEF Released, decoderVars, requestVars, probeVars, hookVars,
  seenVars, waitVars, padVars, itemVars, TypeOK, Known, LockOwners, States,
  Items, Sticky, Positions, HookPositions, SwitchPositions, FlushPositions
<1>12. CASE Pushed
  BY <1>12 DEF Pushed, decoderVars, requestVars, probeVars, hookVars,
  seenVars, waitVars, padVars, itemVars, TypeOK, Known, LockOwners, States,
  Items, Sticky, Positions, HookPositions, SwitchPositions, FlushPositions
<1>13. CASE Return
  BY <1>13 DEF Return, decoderVars, requestVars, probeVars, hookVars,
  seenVars, waitVars, padVars, itemVars, TypeOK, Known, LockOwners, States,
  Items, Sticky, Positions, HookPositions, SwitchPositions, FlushPositions
<1>14. CASE EventDone
  BY <1>14 DEF EventDone, decoderVars, requestVars, probeVars, hookVars,
  seenVars, padVars, itemVars, FlushLockFree, Signal, WakeFlush, TypeOK,
  Known, LockOwners, States, Items, Sticky, Positions, HookPositions,
  SwitchPositions, FlushPositions
<1>15. CASE Request
  BY <1>15 DEF Request, decoderVars, probeVars, hookVars, seenVars, waitVars,
  padVars, itemVars, TypeOK, Known, LockOwners, States, Items, Sticky,
  Positions, HookPositions, SwitchPositions, FlushPositions
<1>16. CASE RequestBegin
  BY <1>16 DEF RequestBegin, decoderVars, probeVars, hookVars, seenVars,
  waitVars, padVars, itemVars, TypeOK, Known, LockOwners, States, Items,
  Sticky, Positions, HookPositions, SwitchPositions, FlushPositions
<1>17. ASSUME NEW t \in {"T", "A"}, SwitchBegin(t) PROVE TypeOK'
  <2>1. BoolType'
    BY <1>17, TypeParts, Zenon DEF SwitchBegin, requestVars, hookVars,
    seenVars, waitVars, padVars, itemVars, Changing, BoolType
  <2>2. RestType'
    BY <1>17, TypeParts DEF SwitchBegin, requestVars, hookVars, seenVars,
    waitVars, padVars, itemVars, Changing, Known, LockOwners, RestType,
    States, Items, Sticky, Positions, HookPositions, SwitchPositions,
    FlushPositions
  <2> QED
    BY <2>1, <2>2, Zenon DEF TypeOK, BoolType, RestType
<1>18. ASSUME NEW t \in {"T", "A"}, SwitchAddHook(t) PROVE TypeOK'
  BY <1>18 DEF SwitchAddHook, decoderVars, requestVars, probeVars, seenVars,
  waitVars, padVars, itemVars, TypeOK, Known, LockOwners, States, Items,
  Sticky, Positions, HookPositions, SwitchPositions, FlushPositions
<1>19. ASSUME NEW t \in {"T", "A"}, SwitchEnd(t) PROVE TypeOK'
  <2>1. BoolType'
    BY <1>19, TypeParts, Zenon DEF SwitchEnd, decoderVars, requestVars,
    hookVars, seenVars, waitVars, padVars, itemVars, BoolType
  <2>2. RestType'
    BY <1>19, TypeParts DEF SwitchEnd, decoderVars, requestVars, hookVars,
    seenVars, waitVars, padVars, itemVars, Known, LockOwners, RestType,
    States, Items, Sticky, Positions, HookPositions, SwitchPositions,
    FlushPositions
  <2> QED
    BY <2>1, <2>2, Zenon DEF TypeOK, BoolType, RestType
<1>20. CASE HookBegin
  <2>1. BoolType'
    BY <1>20, TypeParts, SMT DEF HookBegin, decoderVars, requestVars,
    probeVars, seenVars, waitVars, padVars, itemVars, OldThere, HookReturns,
    BoolType
  <2>2. RestType'
    BY <1>20, TypeParts DEF HookBegin, decoderVars, requestVars, probeVars,
    seenVars, waitVars, padVars, itemVars, OldThere, HookReturns, Known,
    LockOwners, RestType, States, Items, Sticky, Positions, HookPositions,
    SwitchPositions, FlushPositions
  <2> QED
    BY <2>1, <2>2, Zenon DEF TypeOK, BoolType, RestType
<1>21. CASE Reconfigure
  <2>1. BoolType'
    BY <1>21, TypeParts, Zenon DEF Reconfigure, requestVars, seenVars,
    padVars, itemVars, FlushLockFree, Replace, Arrived, BoolType
  <2>2. RestType'
    BY <1>21, TypeParts DEF Reconfigure, requestVars, seenVars, padVars,
    itemVars, FlushLockFree, Replace, Arrived, Known, LockOwners, RestType,
    States, Items, Sticky, Positions, HookPositions, SwitchPositions,
    FlushPositions
  <2> QED
    BY <2>1, <2>2, Zenon DEF TypeOK, BoolType, RestType
<1>22. CASE ReconfigureFails
  <2>1. BoolType'
    BY <1>22, TypeParts, Zenon DEF ReconfigureFails, requestVars, seenVars,
    padVars, itemVars, FlushLockFree, BoolType
  <2>2. RestType'
    BY <1>22, TypeParts DEF ReconfigureFails, requestVars, seenVars, padVars,
    itemVars, FlushLockFree, Known, LockOwners, RestType, States, Items,
    Sticky, Positions, HookPositions, SwitchPositions, FlushPositions
  <2> QED
    BY <2>1, <2>2, Zenon DEF TypeOK, BoolType, RestType
<1>23. CASE ErrorPosted
  <2>1. BoolType'
    BY <1>23, TypeParts, SMT DEF ErrorPosted, decoderVars, requestVars,
    probeVars, seenVars, waitVars, padVars, itemVars, BoolType
  <2>2. RestType'
    BY <1>23, TypeParts DEF ErrorPosted, decoderVars, requestVars, probeVars,
    seenVars, waitVars, padVars, itemVars, Known, LockOwners, RestType,
    States, Items, Sticky, Positions, HookPositions, SwitchPositions,
    FlushPositions
  <2> QED
    BY <2>1, <2>2, Zenon DEF TypeOK, BoolType, RestType
<1>24. CASE WarningPosted
  <2>1. BoolType'
    BY <1>24, TypeParts, Zenon DEF WarningPosted, requestVars, seenVars,
    waitVars, padVars, itemVars, Replace, Arrived, BoolType
  <2>2. RestType'
    BY <1>24, TypeParts DEF WarningPosted, requestVars, seenVars, waitVars,
    padVars, itemVars, Replace, Arrived, LockOwners, RestType, States,
    HookPositions
  <2> QED
    BY <2>1, <2>2, Zenon DEF TypeOK, BoolType, RestType
<1>25. CASE HookDone
  <2>1. BoolType'
    BY <1>25, TypeParts, Zenon DEF HookDone, decoderVars, requestVars,
    probeVars, seenVars, padVars, itemVars, FlushLockFree, Signal,
    HookReturns, HookSignal, BoolType
  <2>2. RestType'
    BY <1>25, TypeParts DEF HookDone, decoderVars, requestVars, probeVars,
    seenVars, padVars, itemVars, FlushLockFree, Signal, HookReturns,
    HookSignal, Known, LockOwners, RestType, States, Items, Sticky, Positions,
    HookPositions, SwitchPositions, FlushPositions
  <2> QED
    BY <2>1, <2>2, Zenon DEF TypeOK, BoolType, RestType
<1>26. CASE FlushStart
  BY <1>26 DEF FlushStart, decoderVars, requestVars, probeVars, hookVars,
  seenVars, waitVars, itemVars, TypeOK, Known, LockOwners, States, Items,
  Sticky, Positions, HookPositions, SwitchPositions, FlushPositions
<1>27. CASE StartEaten
  <2>1. BoolType'
    BY <1>27, TypeParts, Zenon DEF StartEaten, decoderVars, requestVars,
    hookVars, padVars, itemVars, OpenFront, EatStart, EatsStart, BoolType
  <2>2. RestType'
    BY <1>27, TypeParts DEF StartEaten, decoderVars, requestVars, hookVars,
    padVars, itemVars, OpenFront, EatStart, EatsStart, Known, LockOwners,
    RestType, States, Items, Sticky, Positions, HookPositions,
    SwitchPositions, FlushPositions
  <2> QED
    BY <2>1, <2>2, Zenon DEF TypeOK, BoolType, RestType
<1>28. CASE Woken
  BY <1>28 DEF Woken, decoderVars, requestVars, probeVars, hookVars, seenVars,
  waitVars, padVars, itemVars, TypeOK, Known, LockOwners, States, Items,
  Sticky, Positions, HookPositions, SwitchPositions, FlushPositions
<1>29. CASE Relocked
  <2>1. BoolType'
    BY <1>29, TypeParts, Zenon DEF Relocked, decoderVars, requestVars,
    hookVars, padVars, itemVars, OpenFront, EatStart, BoolType
  <2>2. RestType'
    BY <1>29, TypeParts DEF Relocked, decoderVars, requestVars, hookVars,
    padVars, itemVars, OpenFront, EatStart, Known, LockOwners, RestType,
    States, Items, Sticky, Positions, HookPositions, SwitchPositions,
    FlushPositions
  <2> QED
    BY <2>1, <2>2, Zenon DEF TypeOK, BoolType, RestType
<1>30. CASE StartForwarded
  BY <1>30 DEF StartForwarded, decoderVars, requestVars, probeVars, hookVars,
  seenVars, waitVars, padVars, itemVars, EatsStart, TypeOK, Known, LockOwners,
  States, Items, Sticky, Positions, HookPositions, SwitchPositions,
  FlushPositions
<1>31. CASE FrontFlushes
  BY <1>31 DEF FrontFlushes, decoderVars, requestVars, probeVars, hookVars,
  seenVars, waitVars, itemVars, TypeOK, Known, LockOwners, States, Items,
  Sticky, Positions, HookPositions, SwitchPositions, FlushPositions
<1>32. CASE FlushStop
  <2>1. BoolType'
    BY <1>32, TypeParts, Zenon DEF FlushStop, decoderVars, requestVars,
    probeVars, hookVars, seenVars, waitVars, BoolType
  <2>2. RestType'
    BY <1>32, TypeParts DEF FlushStop, decoderVars, requestVars, probeVars,
    hookVars, seenVars, waitVars, Known, LockOwners, RestType, States, Items,
    Sticky, Positions, HookPositions, SwitchPositions, FlushPositions
  <2> QED
    BY <2>1, <2>2, Zenon DEF TypeOK, BoolType, RestType
<1>33. CASE StopEaten
  <2>1. BoolType'
    BY <1>33, TypeParts, Zenon DEF StopEaten, decoderVars, requestVars,
    hookVars, waitVars, padVars, itemVars, Eats, Reblock, LetEventsPass,
    BoolType
  <2>2. RestType'
    BY <1>33, TypeParts DEF StopEaten, decoderVars, requestVars, hookVars,
    waitVars, padVars, itemVars, Eats, Reblock, LetEventsPass, Known,
    LockOwners, RestType, States, Items, Sticky, Positions, HookPositions,
    SwitchPositions, FlushPositions
  <2> QED
    BY <2>1, <2>2, Zenon DEF TypeOK, BoolType, RestType
<1>34. CASE StopForwarded
  BY <1>34 DEF StopForwarded, decoderVars, requestVars, probeVars, hookVars,
  seenVars, waitVars, padVars, itemVars, Eats, TypeOK, Known, LockOwners,
  States, Items, Sticky, Positions, HookPositions, SwitchPositions,
  FlushPositions
<1>35. CASE FrontResumes
  <2>1. BoolType'
    BY <1>35, TypeParts, Zenon DEF FrontResumes, decoderVars, requestVars,
    probeVars, hookVars, seenVars, waitVars, itemVars, BoolType
  <2>2. RestType'
    BY <1>35, TypeParts DEF FrontResumes, decoderVars, requestVars, probeVars,
    hookVars, seenVars, waitVars, itemVars, Known, LockOwners, RestType,
    States, Items, Sticky, Positions, HookPositions, SwitchPositions,
    FlushPositions
  <2> QED
    BY <2>1, <2>2, Zenon DEF TypeOK, BoolType, RestType
<1>36. CASE UNCHANGED vars
  BY <1>36 DEF vars, decoderVars, requestVars, probeVars, hookVars, seenVars,
  waitVars, padVars, itemVars, TypeOK, Known, LockOwners, States, Items,
  Sticky, Positions, HookPositions, SwitchPositions, FlushPositions
<1> QED
  BY <1>1, <1>2, <1>3, <1>4, <1>5, <1>6, <1>7, <1>8, <1>9, <1>10, <1>11,
  <1>12, <1>13, <1>14, <1>15, <1>16, <1>17, <1>18, <1>19, <1>20, <1>21, <1>22,
  <1>23, <1>24, <1>25, <1>26, <1>27, <1>28, <1>29, <1>30, <1>31, <1>32, <1>33, <1>34,
  <1>35, <1>36 DEF Next, Upstream, Switching, Hook, Flusher

LEMMA NextDec == DecInv /\ [Next]_vars => DecInv'
<1> SUFFICES ASSUME DecInv, [Next]_vars PROVE DecInv'
  OBVIOUS
<1>0. TypeOK'
  BY NextType DEF DecInv
<1>1. CASE Arrive
  BY <1>0, <1>1 DEF Arrive, decoderVars, requestVars, probeVars, hookVars, seenVars,
  waitVars, padVars, NextItems, After, Sticky, DecInv, Known, LockOwners,
  OneDecoder, OneChange, Progress, DecoderFed, Adds, Unbegun, Failed,
  OldThere, TypeOK, States, HookPositions, SwitchPositions
<1>2. CASE BufferProbe
  BY <1>0, <1>2 DEF BufferProbe, decoderVars, requestVars, probeVars, hookVars,
  padVars, itemVars, SeeBuffer, DecInv, Known, LockOwners, OneDecoder,
  OneChange, Progress, DecoderFed, Adds, Unbegun, Failed, OldThere, TypeOK,
  States, HookPositions, SwitchPositions
<1>3. CASE EventBegin
  BY <1>0, <1>3 DEF EventBegin, decoderVars, requestVars, probeVars, hookVars,
  seenVars, waitVars, padVars, itemVars, DecInv, Known, LockOwners,
  OneDecoder, OneChange, Progress, DecoderFed, Adds, Unbegun, Failed,
  OldThere, TypeOK, States, HookPositions, SwitchPositions
<1>4. CASE EventFlag
  BY <1>0, <1>4 DEF EventFlag, decoderVars, requestVars, probeVars, hookVars,
  seenVars, padVars, itemVars, FlushLockFree, Sticky, DecInv, Known,
  LockOwners, OneDecoder, OneChange, Progress, DecoderFed, Adds, Unbegun,
  Failed, OldThere, TypeOK, States, HookPositions, SwitchPositions
<1>5. CASE EventGap
  BY <1>0, <1>5 DEF EventGap, decoderVars, requestVars, probeVars, hookVars,
  padVars, itemVars, SeeBuffer, DecInv, Known, LockOwners, OneDecoder,
  OneChange, Progress, DecoderFed, Adds, Unbegun, Failed, OldThere, TypeOK,
  States, HookPositions, SwitchPositions
<1>6. CASE EnterFront
  BY <1>0, <1>6 DEF EnterFront, decoderVars, requestVars, probeVars, hookVars,
  seenVars, waitVars, padVars, itemVars, DecInv, Known, LockOwners,
  OneDecoder, OneChange, Progress, DecoderFed, Adds, Unbegun, Failed,
  OldThere, TypeOK, States, HookPositions, SwitchPositions
<1>7. CASE PassOpen
  BY <1>0, <1>7 DEF PassOpen, decoderVars, requestVars, probeVars, hookVars,
  seenVars, waitVars, padVars, itemVars, PadOpen, DecInv, Known, LockOwners,
  OneDecoder, OneChange, Progress, DecoderFed, Adds, Unbegun, Failed,
  OldThere, TypeOK, States, HookPositions, SwitchPositions
<1>8. CASE Analyze
  BY <1>0, <1>8 DEF Analyze, decoderVars, requestVars, probeVars, hookVars,
  seenVars, waitVars, padVars, itemVars, PadOpen, Verdict, DecInv, Known,
  LockOwners, OneDecoder, OneChange, Progress, DecoderFed, Adds, Unbegun,
  Failed, OldThere, TypeOK, States, HookPositions, SwitchPositions
<1>9. CASE MakePuppet
  BY <1>0, <1>9 DEF MakePuppet, requestVars, probeVars, hookVars, seenVars,
  waitVars, padVars, itemVars, PadOpen, Verdict, DecInv, Known, LockOwners,
  OneDecoder, OneChange, Progress, DecoderFed, Adds, Unbegun, Failed,
  OldThere, TypeOK, States, HookPositions, SwitchPositions
<1>10. CASE Announced
  BY <1>0, <1>10 DEF Announced, decoderVars, probeVars, hookVars, seenVars,
  waitVars, padVars, itemVars, Pends, DecInv, Known, LockOwners, OneDecoder,
  OneChange, Progress, DecoderFed, Adds, Unbegun, Failed, OldThere, TypeOK,
  States, HookPositions, SwitchPositions
<1>11. CASE Released
  BY <1>0, <1>11 DEF Released, decoderVars, requestVars, probeVars, hookVars,
  seenVars, waitVars, padVars, itemVars, DecInv, Known, LockOwners,
  OneDecoder, OneChange, Progress, DecoderFed, Adds, Unbegun, Failed,
  OldThere, TypeOK, States, HookPositions, SwitchPositions
<1>12. CASE Pushed
  BY <1>0, <1>12 DEF Pushed, decoderVars, requestVars, probeVars, hookVars,
  seenVars, waitVars, padVars, itemVars, DecInv, Known, LockOwners,
  OneDecoder, OneChange, Progress, DecoderFed, Adds, Unbegun, Failed,
  OldThere, TypeOK, States, HookPositions, SwitchPositions
<1>13. CASE Return
  BY <1>0, <1>13 DEF Return, decoderVars, requestVars, probeVars, hookVars,
  seenVars, waitVars, padVars, itemVars, DecInv, Known, LockOwners,
  OneDecoder, OneChange, Progress, DecoderFed, Adds, Unbegun, Failed,
  OldThere, TypeOK, States, HookPositions, SwitchPositions
<1>14. CASE EventDone
  BY <1>0, <1>14 DEF EventDone, decoderVars, requestVars, probeVars, hookVars,
  seenVars, padVars, itemVars, FlushLockFree, Signal, WakeFlush, DecInv,
  Known, LockOwners, OneDecoder, OneChange, Progress, DecoderFed, Adds,
  Unbegun, Failed, OldThere, TypeOK, States, HookPositions, SwitchPositions
<1>15. CASE Request
  BY <1>0, <1>15 DEF Request, decoderVars, probeVars, hookVars, seenVars, waitVars,
  padVars, itemVars, DecInv, Known, LockOwners, OneDecoder, OneChange,
  Progress, DecoderFed, Adds, Unbegun, Failed, OldThere, TypeOK, States,
  HookPositions, SwitchPositions
<1>16. CASE RequestBegin
  BY <1>0, <1>16 DEF RequestBegin, decoderVars, probeVars, hookVars, seenVars,
  waitVars, padVars, itemVars, DecInv, Known, LockOwners, OneDecoder,
  OneChange, Progress, DecoderFed, Adds, Unbegun, Failed, OldThere, TypeOK,
  States, HookPositions, SwitchPositions
<1>17. ASSUME NEW t \in {"T", "A"}, SwitchBegin(t) PROVE DecInv'
  BY <1>0, <1>17 DEF SwitchBegin, requestVars, hookVars, seenVars, waitVars,
  padVars, itemVars, Changing, DecInv, Known, LockOwners, OneDecoder,
  OneChange, Progress, DecoderFed, Adds, Unbegun, Failed, OldThere, TypeOK,
  States, HookPositions, SwitchPositions
<1>18. ASSUME NEW t \in {"T", "A"}, SwitchAddHook(t) PROVE DecInv'
  BY <1>0, <1>18 DEF SwitchAddHook, decoderVars, requestVars, probeVars, seenVars,
  waitVars, padVars, itemVars, DecInv, Known, LockOwners, OneDecoder,
  OneChange, Progress, DecoderFed, Adds, Unbegun, Failed, OldThere, TypeOK,
  States, HookPositions, SwitchPositions
<1>19. ASSUME NEW t \in {"T", "A"}, SwitchEnd(t) PROVE DecInv'
  BY <1>0, <1>19 DEF SwitchEnd, decoderVars, requestVars, hookVars, seenVars,
  waitVars, padVars, itemVars, DecInv, Known, LockOwners, OneDecoder,
  OneChange, Progress, DecoderFed, Adds, Unbegun, Failed, OldThere, TypeOK,
  States, HookPositions, SwitchPositions
<1>20. CASE HookBegin
  BY <1>0, <1>20 DEF HookBegin, decoderVars, requestVars, probeVars, seenVars,
  waitVars, padVars, itemVars, OldThere, HookReturns, DecInv, Known,
  LockOwners, OneDecoder, OneChange, Progress, DecoderFed, Adds, Unbegun,
  Failed, TypeOK, States, HookPositions, SwitchPositions
<1>21. CASE Reconfigure
  BY <1>0, <1>21 DEF Reconfigure, requestVars, seenVars, padVars, itemVars,
  FlushLockFree, Replace, Arrived, DecInv, Known, LockOwners, OneDecoder,
  OneChange, Progress, DecoderFed, Adds, Unbegun, Failed, OldThere, TypeOK,
  States, HookPositions, SwitchPositions
<1>22. CASE ReconfigureFails
  BY <1>0, <1>22 DEF ReconfigureFails, requestVars, seenVars, padVars, itemVars,
  FlushLockFree, DecInv, Known, LockOwners, OneDecoder, OneChange, Progress,
  DecoderFed, Adds, Unbegun, Failed, OldThere, TypeOK, States, HookPositions,
  SwitchPositions
<1>23. CASE ErrorPosted
  BY <1>0, <1>23 DEF ErrorPosted, decoderVars, requestVars, probeVars, seenVars,
  waitVars, padVars, itemVars, DecInv, Known, LockOwners, OneDecoder,
  OneChange, Progress, DecoderFed, Adds, Unbegun, Failed, OldThere, TypeOK,
  States, HookPositions, SwitchPositions
<1>24. CASE WarningPosted
  BY <1>0, <1>24 DEF WarningPosted, requestVars, seenVars, waitVars, padVars,
  itemVars, Replace, Arrived, DecInv, Known, LockOwners, OneDecoder,
  OneChange, Progress, DecoderFed, Adds, Unbegun, Failed, OldThere, TypeOK,
  States, HookPositions, SwitchPositions
<1>25. CASE HookDone
  BY <1>0, <1>25 DEF HookDone, decoderVars, requestVars, probeVars, seenVars,
  padVars, itemVars, FlushLockFree, Signal, HookReturns, HookSignal, DecInv,
  Known, LockOwners, OneDecoder, OneChange, Progress, DecoderFed, Adds,
  Unbegun, Failed, OldThere, TypeOK, States, HookPositions, SwitchPositions
<1>26. CASE FlushStart
  BY <1>0, <1>26 DEF FlushStart, decoderVars, requestVars, probeVars, hookVars,
  seenVars, waitVars, itemVars, DecInv, Known, LockOwners, OneDecoder,
  OneChange, Progress, DecoderFed, Adds, Unbegun, Failed, OldThere, TypeOK,
  States, HookPositions, SwitchPositions
<1>27. CASE StartEaten
  BY <1>0, <1>27 DEF StartEaten, decoderVars, requestVars, hookVars, padVars,
  itemVars, OpenFront, EatStart, EatsStart, DecInv, Known, LockOwners,
  OneDecoder, OneChange, Progress, DecoderFed, Adds, Unbegun, Failed,
  OldThere, TypeOK, States, HookPositions, SwitchPositions
<1>28. CASE Woken
  BY <1>0, <1>28 DEF Woken, decoderVars, requestVars, probeVars, hookVars, seenVars,
  waitVars, padVars, itemVars, DecInv, Known, LockOwners, OneDecoder,
  OneChange, Progress, DecoderFed, Adds, Unbegun, Failed, OldThere, TypeOK,
  States, HookPositions, SwitchPositions
<1>29. CASE Relocked
  BY <1>0, <1>29 DEF Relocked, decoderVars, requestVars, hookVars, padVars,
  itemVars, OpenFront, EatStart, DecInv, Known, LockOwners, OneDecoder,
  OneChange, Progress, DecoderFed, Adds, Unbegun, Failed, OldThere, TypeOK,
  States, HookPositions, SwitchPositions
<1>30. CASE StartForwarded
  BY <1>0, <1>30 DEF StartForwarded, decoderVars, requestVars, probeVars, hookVars,
  seenVars, waitVars, padVars, itemVars, EatsStart, DecInv, Known, LockOwners,
  OneDecoder, OneChange, Progress, DecoderFed, Adds, Unbegun, Failed,
  OldThere, TypeOK, States, HookPositions, SwitchPositions
<1>31. CASE FrontFlushes
  BY <1>0, <1>31 DEF FrontFlushes, decoderVars, requestVars, probeVars, hookVars,
  seenVars, waitVars, itemVars, DecInv, Known, LockOwners, OneDecoder,
  OneChange, Progress, DecoderFed, Adds, Unbegun, Failed, OldThere, TypeOK,
  States, HookPositions, SwitchPositions
<1>32. CASE FlushStop
  BY <1>0, <1>32 DEF FlushStop, decoderVars, requestVars, probeVars, hookVars,
  seenVars, waitVars, DecInv, Known, LockOwners, OneDecoder, OneChange,
  Progress, DecoderFed, Adds, Unbegun, Failed, OldThere, TypeOK, States,
  HookPositions, SwitchPositions
<1>33. CASE StopEaten
  BY <1>0, <1>33 DEF StopEaten, decoderVars, requestVars, hookVars, waitVars,
  padVars, itemVars, Eats, Reblock, LetEventsPass, DecInv, Known, LockOwners,
  OneDecoder, OneChange, Progress, DecoderFed, Adds, Unbegun, Failed,
  OldThere, TypeOK, States, HookPositions, SwitchPositions
<1>34. CASE StopForwarded
  BY <1>0, <1>34 DEF StopForwarded, decoderVars, requestVars, probeVars, hookVars,
  seenVars, waitVars, padVars, itemVars, Eats, DecInv, Known, LockOwners,
  OneDecoder, OneChange, Progress, DecoderFed, Adds, Unbegun, Failed,
  OldThere, TypeOK, States, HookPositions, SwitchPositions
<1>35. CASE FrontResumes
  BY <1>0, <1>35 DEF FrontResumes, decoderVars, requestVars, probeVars, hookVars,
  seenVars, waitVars, itemVars, DecInv, Known, LockOwners, OneDecoder,
  OneChange, Progress, DecoderFed, Adds, Unbegun, Failed, OldThere, TypeOK,
  States, HookPositions, SwitchPositions
<1>36. CASE UNCHANGED vars
  BY <1>0, <1>36 DEF vars, decoderVars, requestVars, probeVars, hookVars, seenVars,
  waitVars, padVars, itemVars, DecInv, Known, LockOwners, OneDecoder,
  OneChange, Progress, DecoderFed, Adds, Unbegun, Failed, OldThere, TypeOK,
  States, HookPositions, SwitchPositions
<1> QED
  BY <1>1, <1>2, <1>3, <1>4, <1>5, <1>6, <1>7, <1>8, <1>9, <1>10, <1>11,
  <1>12, <1>13, <1>14, <1>15, <1>16, <1>17, <1>18, <1>19, <1>20, <1>21, <1>22,
  <1>23, <1>24, <1>25, <1>26, <1>27, <1>28, <1>29, <1>30, <1>31, <1>32, <1>33, <1>34,
  <1>35, <1>36 DEF Next, Upstream, Switching, Hook, Flusher

(* The invariant of the decoder holds always.                               *)
LEMMA DecAlways == Spec => []DecInv
<1>1. Init => DecInv
  BY InitDec
<1>2. DecInv /\ [Next]_vars => DecInv'
  BY NextDec
<1> QED
  BY <1>1, <1>2, PTL DEF Spec

(* Every variable of the threads keeps to its type.                         *)
THEOREM DecTypeCorrect == Spec => []TypeOK
<1>1. DecInv => TypeOK
  BY DEF DecInv
<1> QED
  BY <1>1, DecAlways, PTL

(* Never both a puppet and a decoder, and the one that the state names      *)
(* unless the decoder could not be found.                                   *)
THEOREM DecOneDecoder == Spec => []OneDecoder
<1>1. DecInv => OneDecoder
  BY DEF DecInv
<1> QED
  BY <1>1, DecAlways, PTL

(* The hook for the idle pad never has to return PASS.                      *)
THEOREM DecHookFindsWork == Spec => []HookFindsWork
<1>1. DecInv => HookFindsWork
  BY DEF DecInv, OneChange, Unbegun, HookFindsWork
<1> QED
  BY <1>1, DecAlways, PTL

(* A state that was decided on is reached unless its change fails.          *)
THEOREM DecNextIsReached == Spec => []NextIsReached
<1>1. DecInv => NextIsReached
  BY DEF DecInv, Progress, Adds, Unbegun, NextIsReached, SwitchesDone
<1> QED
  BY <1>1, DecAlways, PTL

(* The front of a decoder is never blocked.                                 *)
THEOREM DecDecoderFed == Spec => []DecoderFed
<1>1. DecInv => DecoderFed
  BY DEF DecInv
<1> QED
  BY <1>1, DecAlways, PTL

-----------------------------------------------------------------------------
(* The inductive invariant about flushing.                                  *)

(* FLUSH_START waits for an event of T before the first buffer, or for a    *)
(* hook that is still to signal.                                            *)
Waits ==
  /\ sending => ~seenBuffer /\ item \in Sticky
                /\ at \in {"sink", "src", "announce", "held", "push", "hook",
                           "return", "done"}
  /\ changing => hookAt \in {"failed", "done"}
  /\ flushAt = "wait" => changing \/ (sending /\ waiting)
  /\ at = "probe" => item = "buffer"
  /\ at = "gap" => item = "gap"
  /\ at = "flag" => ~seenBuffer /\ lock = "T"
  /\ at \in {"event", "flag", "gap", "done"} => item # "buffer"

(* A flush is eaten as a whole or forwarded as a whole.                     *)
Paired ==
  /\ eatenStart => flushAt \in {"started", "stop"}
  /\ flushAt = "forwardStart" => seenBuffer /\ ~eatenStart
  /\ frontFlushing => /\ seenBuffer /\ ~eatenStart
                      /\ flushAt \in {"started", "stop", "forwardStop"}

FlushInv == Waits /\ Paired

LEMMA InitFlush == Init => FlushInv
BY DEF Init, FlushInv, Waits, Paired, Sticky

LEMMA NextFlush == FlushInv /\ DecInv /\ [Next]_vars => FlushInv'
<1> SUFFICES ASSUME FlushInv, DecInv, [Next]_vars PROVE FlushInv'
  OBVIOUS
<1>1. CASE Arrive
  BY <1>1 DEF Arrive, decoderVars, requestVars, probeVars, hookVars, seenVars,
  waitVars, padVars, NextItems, After, Sticky, FlushInv, Waits, Paired,
  DecInv, LockOwners, OneChange, Adds, TypeOK, Items, HookPositions,
  SwitchPositions
<1>2. CASE BufferProbe
  BY <1>2 DEF BufferProbe, decoderVars, requestVars, probeVars, hookVars,
  padVars, itemVars, SeeBuffer, FlushInv, Waits, Paired, DecInv, LockOwners,
  OneChange, Adds, TypeOK, Sticky, Items, HookPositions, SwitchPositions
<1>3. CASE EventBegin
  BY <1>3 DEF EventBegin, decoderVars, requestVars, probeVars, hookVars,
  seenVars, waitVars, padVars, itemVars, FlushInv, Waits, Paired, DecInv,
  LockOwners, OneChange, Adds, TypeOK, Sticky, Items, HookPositions,
  SwitchPositions
<1>4. CASE EventFlag
  BY <1>4 DEF EventFlag, decoderVars, requestVars, probeVars, hookVars,
  seenVars, padVars, itemVars, FlushLockFree, Sticky, FlushInv, Waits, Paired,
  DecInv, LockOwners, OneChange, Adds, TypeOK, Items, HookPositions,
  SwitchPositions
<1>5. CASE EventGap
  BY <1>5 DEF EventGap, decoderVars, requestVars, probeVars, hookVars,
  padVars, itemVars, SeeBuffer, FlushInv, Waits, Paired, DecInv, LockOwners,
  OneChange, Adds, TypeOK, Sticky, Items, HookPositions, SwitchPositions
<1>6. CASE EnterFront
  BY <1>6 DEF EnterFront, decoderVars, requestVars, probeVars, hookVars,
  seenVars, waitVars, padVars, itemVars, FlushInv, Waits, Paired, DecInv,
  LockOwners, OneChange, Adds, TypeOK, Sticky, Items, HookPositions,
  SwitchPositions
<1>7. CASE PassOpen
  BY <1>7 DEF PassOpen, decoderVars, requestVars, probeVars, hookVars,
  seenVars, waitVars, padVars, itemVars, PadOpen, FlushInv, Waits, Paired,
  DecInv, LockOwners, OneChange, Adds, TypeOK, Sticky, Items, HookPositions,
  SwitchPositions
<1>8. CASE Analyze
  BY <1>8 DEF Analyze, decoderVars, requestVars, probeVars, hookVars,
  seenVars, waitVars, padVars, itemVars, PadOpen, Verdict, FlushInv, Waits,
  Paired, DecInv, LockOwners, OneChange, Adds, TypeOK, Sticky, Items,
  HookPositions, SwitchPositions
<1>9. CASE MakePuppet
  BY <1>9 DEF MakePuppet, requestVars, probeVars, hookVars, seenVars,
  waitVars, padVars, itemVars, PadOpen, Verdict, FlushInv, Waits, Paired,
  DecInv, LockOwners, OneChange, Adds, TypeOK, Sticky, Items, HookPositions,
  SwitchPositions
<1>10. CASE Announced
  BY <1>10 DEF Announced, decoderVars, probeVars, hookVars, seenVars,
  waitVars, padVars, itemVars, Pends, FlushInv, Waits, Paired, DecInv,
  LockOwners, OneChange, Adds, TypeOK, Sticky, Items, HookPositions,
  SwitchPositions
<1>11. CASE Released
  BY <1>11 DEF Released, decoderVars, requestVars, probeVars, hookVars,
  seenVars, waitVars, padVars, itemVars, FlushInv, Waits, Paired, DecInv,
  LockOwners, OneChange, Adds, TypeOK, Sticky, Items, HookPositions,
  SwitchPositions
<1>12. CASE Pushed
  BY <1>12 DEF Pushed, decoderVars, requestVars, probeVars, hookVars,
  seenVars, waitVars, padVars, itemVars, FlushInv, Waits, Paired, DecInv,
  LockOwners, OneChange, Adds, TypeOK, Sticky, Items, HookPositions,
  SwitchPositions
<1>13. CASE Return
  BY <1>13 DEF Return, decoderVars, requestVars, probeVars, hookVars,
  seenVars, waitVars, padVars, itemVars, FlushInv, Waits, Paired, DecInv,
  LockOwners, OneChange, Adds, TypeOK, Sticky, Items, HookPositions,
  SwitchPositions
<1>14. CASE EventDone
  BY <1>14 DEF EventDone, decoderVars, requestVars, probeVars, hookVars,
  seenVars, padVars, itemVars, FlushLockFree, Signal, WakeFlush, FlushInv,
  Waits, Paired, DecInv, LockOwners, OneChange, Adds, TypeOK, Sticky, Items,
  HookPositions, SwitchPositions
<1>15. CASE Request
  BY <1>15 DEF Request, decoderVars, probeVars, hookVars, seenVars, waitVars,
  padVars, itemVars, FlushInv, Waits, Paired, DecInv, LockOwners, OneChange,
  Adds, TypeOK, Sticky, Items, HookPositions, SwitchPositions
<1>16. CASE RequestBegin
  BY <1>16 DEF RequestBegin, decoderVars, probeVars, hookVars, seenVars,
  waitVars, padVars, itemVars, FlushInv, Waits, Paired, DecInv, LockOwners,
  OneChange, Adds, TypeOK, Sticky, Items, HookPositions, SwitchPositions
<1>17. ASSUME NEW t \in {"T", "A"}, SwitchBegin(t) PROVE FlushInv'
  BY <1>17 DEF SwitchBegin, requestVars, hookVars, seenVars, waitVars,
  padVars, itemVars, Changing, FlushInv, Waits, Paired, DecInv, LockOwners,
  OneChange, Adds, TypeOK, Sticky, Items, HookPositions, SwitchPositions
<1>18. ASSUME NEW t \in {"T", "A"}, SwitchAddHook(t) PROVE FlushInv'
  BY <1>18 DEF SwitchAddHook, decoderVars, requestVars, probeVars, seenVars,
  waitVars, padVars, itemVars, FlushInv, Waits, Paired, DecInv, LockOwners,
  OneChange, Adds, TypeOK, Sticky, Items, HookPositions, SwitchPositions
<1>19. ASSUME NEW t \in {"T", "A"}, SwitchEnd(t) PROVE FlushInv'
  BY <1>19 DEF SwitchEnd, decoderVars, requestVars, hookVars, seenVars,
  waitVars, padVars, itemVars, FlushInv, Waits, Paired, DecInv, LockOwners,
  OneChange, Adds, TypeOK, Sticky, Items, HookPositions, SwitchPositions
<1>20. CASE HookBegin
  BY <1>20 DEF HookBegin, decoderVars, requestVars, probeVars, seenVars,
  waitVars, padVars, itemVars, OldThere, HookReturns, FlushInv, Waits, Paired,
  DecInv, LockOwners, OneChange, Adds, TypeOK, Sticky, Items, HookPositions,
  SwitchPositions
<1>21. CASE Reconfigure
  BY <1>21 DEF Reconfigure, requestVars, seenVars, padVars, itemVars,
  FlushLockFree, Replace, Arrived, FlushInv, Waits, Paired, DecInv,
  LockOwners, OneChange, Adds, TypeOK, Sticky, Items, HookPositions,
  SwitchPositions
<1>22. CASE ReconfigureFails
  BY <1>22 DEF ReconfigureFails, requestVars, seenVars, padVars, itemVars,
  FlushLockFree, FlushInv, Waits, Paired, DecInv, LockOwners, OneChange, Adds,
  TypeOK, Sticky, Items, HookPositions, SwitchPositions
<1>23. CASE ErrorPosted
  BY <1>23 DEF ErrorPosted, decoderVars, requestVars, probeVars, seenVars,
  waitVars, padVars, itemVars, FlushInv, Waits, Paired, DecInv, LockOwners,
  OneChange, Adds, TypeOK, Sticky, Items, HookPositions, SwitchPositions
<1>24. CASE WarningPosted
  BY <1>24 DEF WarningPosted, requestVars, seenVars, waitVars, padVars,
  itemVars, Replace, Arrived, FlushInv, Waits, Paired, DecInv, LockOwners,
  OneChange, Adds, TypeOK, Sticky, Items, HookPositions, SwitchPositions
<1>25. CASE HookDone
  BY <1>25 DEF HookDone, decoderVars, requestVars, probeVars, seenVars,
  padVars, itemVars, FlushLockFree, Signal, HookReturns, HookSignal, FlushInv,
  Waits, Paired, DecInv, LockOwners, OneChange, Adds, TypeOK, Sticky, Items,
  HookPositions, SwitchPositions
<1>26. CASE FlushStart
  BY <1>26 DEF FlushStart, decoderVars, requestVars, probeVars, hookVars,
  seenVars, waitVars, itemVars, FlushInv, Waits, Paired, DecInv, LockOwners,
  OneChange, Adds, TypeOK, Sticky, Items, HookPositions, SwitchPositions
<1>27. CASE StartEaten
  BY <1>27 DEF StartEaten, decoderVars, requestVars, hookVars, padVars,
  itemVars, OpenFront, EatStart, EatsStart, FlushInv, Waits, Paired, DecInv,
  LockOwners, OneChange, Adds, TypeOK, Sticky, Items, HookPositions,
  SwitchPositions
<1>28. CASE Woken
  BY <1>28 DEF Woken, decoderVars, requestVars, probeVars, hookVars, seenVars,
  waitVars, padVars, itemVars, FlushInv, Waits, Paired, DecInv, LockOwners,
  OneChange, Adds, TypeOK, Sticky, Items, HookPositions, SwitchPositions
<1>29. CASE Relocked
  BY <1>29 DEF Relocked, decoderVars, requestVars, hookVars, padVars,
  itemVars, OpenFront, EatStart, FlushInv, Waits, Paired, DecInv, LockOwners,
  OneChange, Adds, TypeOK, Sticky, Items, HookPositions, SwitchPositions
<1>30. CASE StartForwarded
  BY <1>30 DEF StartForwarded, decoderVars, requestVars, probeVars, hookVars,
  seenVars, waitVars, padVars, itemVars, EatsStart, FlushInv, Waits, Paired,
  DecInv, LockOwners, OneChange, Adds, TypeOK, Sticky, Items, HookPositions,
  SwitchPositions
<1>31. CASE FrontFlushes
  BY <1>31 DEF FrontFlushes, decoderVars, requestVars, probeVars, hookVars,
  seenVars, waitVars, itemVars, FlushInv, Waits, Paired, DecInv, LockOwners,
  OneChange, Adds, TypeOK, Sticky, Items, HookPositions, SwitchPositions
<1>32. CASE FlushStop
  BY <1>32 DEF FlushStop, decoderVars, requestVars, probeVars, hookVars,
  seenVars, waitVars, FlushInv, Waits, Paired, DecInv, LockOwners, OneChange,
  Adds, TypeOK, Sticky, Items, HookPositions, SwitchPositions
<1>33. CASE StopEaten
  BY <1>33 DEF StopEaten, decoderVars, requestVars, hookVars, waitVars,
  padVars, itemVars, Eats, Reblock, LetEventsPass, FlushInv, Waits, Paired,
  DecInv, LockOwners, OneChange, Adds, TypeOK, Sticky, Items, HookPositions,
  SwitchPositions
<1>34. CASE StopForwarded
  BY <1>34 DEF StopForwarded, decoderVars, requestVars, probeVars, hookVars,
  seenVars, waitVars, padVars, itemVars, Eats, FlushInv, Waits, Paired,
  DecInv, LockOwners, OneChange, Adds, TypeOK, Sticky, Items, HookPositions,
  SwitchPositions
<1>35. CASE FrontResumes
  BY <1>35 DEF FrontResumes, decoderVars, requestVars, probeVars, hookVars,
  seenVars, waitVars, itemVars, FlushInv, Waits, Paired, DecInv, LockOwners,
  OneChange, Adds, TypeOK, Sticky, Items, HookPositions, SwitchPositions
<1>36. CASE UNCHANGED vars
  BY <1>36 DEF vars, decoderVars, requestVars, probeVars, hookVars, seenVars,
  waitVars, padVars, itemVars, FlushInv, Waits, Paired, DecInv, LockOwners,
  OneChange, Adds, TypeOK, Sticky, Items, HookPositions, SwitchPositions
<1> QED
  BY <1>1, <1>2, <1>3, <1>4, <1>5, <1>6, <1>7, <1>8, <1>9, <1>10, <1>11,
  <1>12, <1>13, <1>14, <1>15, <1>16, <1>17, <1>18, <1>19, <1>20, <1>21, <1>22,
  <1>23, <1>24, <1>25, <1>26, <1>27, <1>28, <1>29, <1>30, <1>31, <1>32, <1>33, <1>34,
  <1>35, <1>36 DEF Next, Upstream, Switching, Hook, Flusher

(* The invariant of flushing holds always.                                  *)
LEMMA FlushAlways == Spec => []FlushInv
<1>1. Init => FlushInv
  BY InitFlush
<1>2. FlushInv /\ DecInv /\ [Next]_vars => FlushInv'
  BY NextFlush
<1> QED
  BY <1>1, <1>2, DecAlways, PTL DEF Spec

(* Whoever waits in FLUSH_START will be signalled by somebody.              *)
THEOREM DecSomebodySignals == Spec => []SomebodySignals
<1>1. FlushInv => SomebodySignals
  BY DEF FlushInv, Waits, SomebodySignals
<1> QED
  BY <1>1, FlushAlways, PTL

(* A FLUSH_START that went downstream is followed there by its FLUSH_STOP.  *)
THEOREM DecFlushPaired == Spec => []FlushPaired
<1>1. FlushInv => FlushPaired
  BY DEF FlushInv, Paired, FlushPaired
<1> QED
  BY <1>1, FlushAlways, PTL
-----------------------------------------------------------------------------
(* The inductive invariant about the events that the back bridge drops.     *)

(* A switch is on its way to its end, where it lets events pass again.      *)
Returns == \E t \in {"T", "A"} : switch[t] \in {"add", "hook", "end"}

(* T is not about to see the first buffer, or GAP, which would make the     *)
(* eaten FLUSH_START a forgotten one.                                       *)
NoFirst == /\ at # "probe"
           /\ at \in {"event", "flag", "gap"} => seenBuffer \/ item # "gap"

(* While events are dropped a switch is still to end, or a FLUSH_STOP is to *)
(* come that will be eaten.                                                 *)
EventsInv ==
  /\ flushAt \notin {"idle", "stop", "forwardStop"} => sinkFlushing
  /\ flushAt = "stop" => at = "idle"
  /\ hook = "A" => switch["A"] = "hook"
  /\ eventProbe =>
       \/ Returns
       \/ NoFirst /\ flushAt \in {"wait", "woken", "relock"}
       \/ NoFirst /\ flushAt \in {"started", "stop"} /\ Eats

LEMMA InitEvents == Init => EventsInv
BY DEF Init, EventsInv

LEMMA NextEvents == EventsInv /\ FlushInv /\ DecInv /\ [Next]_vars => EventsInv'
<1> SUFFICES ASSUME EventsInv, FlushInv, DecInv, [Next]_vars PROVE EventsInv'
  OBVIOUS
<1>1. CASE Arrive
  BY <1>1 DEF Arrive, decoderVars, requestVars, probeVars, hookVars,
  seenVars, waitVars, padVars, NextItems, After, Sticky, EventsInv, Returns,
  NoFirst, Eats, FlushInv, Waits, Paired, DecInv, LockOwners, TypeOK, Items,
  HookPositions, SwitchPositions, FlushPositions
<1>2. CASE BufferProbe
  BY <1>2 DEF BufferProbe, decoderVars, requestVars, probeVars, hookVars,
  padVars, itemVars, SeeBuffer, EventsInv, Returns, NoFirst, Eats, FlushInv,
  Waits, Paired, DecInv, LockOwners, TypeOK, Sticky, Items, HookPositions,
  SwitchPositions, FlushPositions
<1>3. CASE EventBegin
  BY <1>3 DEF EventBegin, decoderVars, requestVars, probeVars, hookVars,
  seenVars, waitVars, padVars, itemVars, EventsInv, Returns, NoFirst, Eats,
  FlushInv, Waits, Paired, DecInv, LockOwners, TypeOK, Sticky, Items,
  HookPositions, SwitchPositions, FlushPositions
<1>4. CASE EventFlag
  BY <1>4 DEF EventFlag, decoderVars, requestVars, probeVars, hookVars,
  seenVars, padVars, itemVars, FlushLockFree, Sticky, EventsInv, Returns,
  NoFirst, Eats, FlushInv, Waits, Paired, DecInv, LockOwners, TypeOK, Items,
  HookPositions, SwitchPositions, FlushPositions
<1>5. CASE EventGap
  BY <1>5 DEF EventGap, decoderVars, requestVars, probeVars, hookVars,
  padVars, itemVars, SeeBuffer, EventsInv, Returns, NoFirst, Eats, FlushInv,
  Waits, Paired, DecInv, LockOwners, TypeOK, Sticky, Items, HookPositions,
  SwitchPositions, FlushPositions
<1>6. CASE EnterFront
  BY <1>6 DEF EnterFront, decoderVars, requestVars, probeVars, hookVars,
  seenVars, waitVars, padVars, itemVars, EventsInv, Returns, NoFirst, Eats,
  FlushInv, Waits, Paired, DecInv, LockOwners, TypeOK, Sticky, Items,
  HookPositions, SwitchPositions, FlushPositions
<1>7. CASE PassOpen
  BY <1>7 DEF PassOpen, decoderVars, requestVars, probeVars, hookVars,
  seenVars, waitVars, padVars, itemVars, PadOpen, EventsInv, Returns,
  NoFirst, Eats, FlushInv, Waits, Paired, DecInv, LockOwners, TypeOK,
  Sticky, Items, HookPositions, SwitchPositions, FlushPositions
<1>8. CASE Analyze
  <2>1. at' \in {"held", "return", "push"}
    BY <1>8 DEF Analyze, Verdict
  <2> QED
    BY <1>8, <2>1 DEF Analyze, decoderVars, requestVars, probeVars, hookVars,
    seenVars, waitVars, padVars, itemVars, EventsInv, Returns, NoFirst, Eats
<1>9. CASE MakePuppet
  BY <1>9 DEF MakePuppet, requestVars, probeVars, hookVars, seenVars,
  waitVars, padVars, itemVars, PadOpen, Verdict, EventsInv, Returns,
  NoFirst, Eats, FlushInv, Waits, Paired, DecInv, LockOwners, TypeOK,
  Sticky, Items, HookPositions, SwitchPositions, FlushPositions
<1>10. CASE Announced
  BY <1>10 DEF Announced, decoderVars, probeVars, hookVars, seenVars,
  waitVars, padVars, itemVars, Pends, EventsInv, Returns, NoFirst, Eats,
  FlushInv, Waits, Paired, DecInv, LockOwners, TypeOK, Sticky, Items,
  HookPositions, SwitchPositions, FlushPositions
<1>11. CASE Released
  BY <1>11 DEF Released, decoderVars, requestVars, probeVars, hookVars,
  seenVars, waitVars, padVars, itemVars, EventsInv, Returns, NoFirst, Eats,
  FlushInv, Waits, Paired, DecInv, LockOwners, TypeOK, Sticky, Items,
  HookPositions, SwitchPositions, FlushPositions
<1>12. CASE Pushed
  BY <1>12 DEF Pushed, decoderVars, requestVars, probeVars, hookVars,
  seenVars, waitVars, padVars, itemVars, EventsInv, Returns, NoFirst, Eats,
  FlushInv, Waits, Paired, DecInv, LockOwners, TypeOK, Sticky, Items,
  HookPositions, SwitchPositions, FlushPositions
<1>13. CASE Return
  BY <1>13 DEF Return, decoderVars, requestVars, probeVars, hookVars,
  seenVars, waitVars, padVars, itemVars, EventsInv, Returns, NoFirst, Eats,
  FlushInv, Waits, Paired, DecInv, LockOwners, TypeOK, Sticky, Items,
  HookPositions, SwitchPositions, FlushPositions
<1>14. CASE EventDone
  BY <1>14 DEF EventDone, decoderVars, requestVars, probeVars, hookVars,
  seenVars, padVars, itemVars, FlushLockFree, Signal, WakeFlush, EventsInv,
  Returns, NoFirst, Eats, FlushInv, Waits, Paired, DecInv, LockOwners,
  TypeOK, Sticky, Items, HookPositions, SwitchPositions, FlushPositions
<1>15. CASE Request
  BY <1>15 DEF Request, decoderVars, probeVars, hookVars, seenVars,
  waitVars, padVars, itemVars, EventsInv, Returns, NoFirst, Eats, FlushInv,
  Waits, Paired, DecInv, LockOwners, TypeOK, Sticky, Items, HookPositions,
  SwitchPositions, FlushPositions
<1>16. CASE RequestBegin
  BY <1>16 DEF RequestBegin, decoderVars, probeVars, hookVars, seenVars,
  waitVars, padVars, itemVars, EventsInv, Returns, NoFirst, Eats, FlushInv,
  Waits, Paired, DecInv, LockOwners, TypeOK, Sticky, Items, HookPositions,
  SwitchPositions, FlushPositions
<1>17. ASSUME NEW t \in {"T", "A"}, SwitchBegin(t) PROVE EventsInv'
  BY <1>17 DEF SwitchBegin, requestVars, hookVars, seenVars, waitVars,
  padVars, itemVars, Changing, EventsInv, Returns, NoFirst, Eats, FlushInv,
  Waits, Paired, DecInv, LockOwners, TypeOK, Sticky, Items, HookPositions,
  SwitchPositions, FlushPositions
<1>18. ASSUME NEW t \in {"T", "A"}, SwitchAddHook(t) PROVE EventsInv'
  BY <1>18 DEF SwitchAddHook, decoderVars, requestVars, probeVars, seenVars,
  waitVars, padVars, itemVars, EventsInv, Returns, NoFirst, Eats, FlushInv,
  Waits, Paired, DecInv, LockOwners, TypeOK, Sticky, Items, HookPositions,
  SwitchPositions, FlushPositions
<1>19. ASSUME NEW t \in {"T", "A"}, SwitchEnd(t) PROVE EventsInv'
  BY <1>19 DEF SwitchEnd, decoderVars, requestVars, hookVars, seenVars,
  waitVars, padVars, itemVars, EventsInv, Returns, NoFirst, Eats, FlushInv,
  Waits, Paired, DecInv, LockOwners, TypeOK, Sticky, Items, HookPositions,
  SwitchPositions, FlushPositions
<1>20. CASE HookBegin
  BY <1>20 DEF HookBegin, decoderVars, requestVars, probeVars, seenVars,
  waitVars, padVars, itemVars, OldThere, HookReturns, EventsInv, Returns,
  NoFirst, Eats, FlushInv, Waits, Paired, DecInv, LockOwners, TypeOK,
  Sticky, Items, HookPositions, SwitchPositions, FlushPositions
<1>21. CASE Reconfigure
  BY <1>21 DEF Reconfigure, requestVars, seenVars, padVars, itemVars,
  FlushLockFree, Replace, Arrived, EventsInv, Returns, NoFirst, Eats,
  FlushInv, Waits, Paired, DecInv, LockOwners, TypeOK, Sticky, Items,
  HookPositions, SwitchPositions, FlushPositions
<1>22. CASE ReconfigureFails
  BY <1>22 DEF ReconfigureFails, requestVars, seenVars, padVars, itemVars,
  FlushLockFree, EventsInv, Returns, NoFirst, Eats, FlushInv, Waits, Paired,
  DecInv, LockOwners, TypeOK, Sticky, Items, HookPositions, SwitchPositions,
  FlushPositions
<1>23. CASE ErrorPosted
  BY <1>23 DEF ErrorPosted, decoderVars, requestVars, probeVars, seenVars,
  waitVars, padVars, itemVars, EventsInv, Returns, NoFirst, Eats, FlushInv,
  Waits, Paired, DecInv, LockOwners, TypeOK, Sticky, Items, HookPositions,
  SwitchPositions, FlushPositions
<1>24. CASE WarningPosted
  BY <1>24 DEF WarningPosted, requestVars, seenVars, waitVars, padVars,
  itemVars, Replace, Arrived, EventsInv, Returns, NoFirst, Eats, FlushInv,
  Waits, Paired, DecInv, LockOwners, TypeOK, Sticky, Items, HookPositions,
  SwitchPositions, FlushPositions
<1>25. CASE HookDone
  BY <1>25 DEF HookDone, decoderVars, requestVars, probeVars, seenVars,
  padVars, itemVars, FlushLockFree, Signal, HookReturns, HookSignal,
  EventsInv, Returns, NoFirst, Eats, FlushInv, Waits, Paired, DecInv,
  LockOwners, TypeOK, Sticky, Items, HookPositions, SwitchPositions,
  FlushPositions
<1>26. CASE FlushStart
  BY <1>26 DEF FlushStart, decoderVars, requestVars, probeVars, hookVars,
  seenVars, waitVars, itemVars, EventsInv, Returns, NoFirst, Eats, FlushInv,
  Waits, Paired, DecInv, LockOwners, TypeOK, Sticky, Items, HookPositions,
  SwitchPositions, FlushPositions
<1>27. CASE StartEaten
  BY <1>27 DEF StartEaten, decoderVars, requestVars, hookVars, padVars,
  itemVars, OpenFront, EatStart, EatsStart, EventsInv, Returns, NoFirst,
  Eats, FlushInv, Waits, Paired, DecInv, LockOwners, TypeOK, Sticky, Items,
  HookPositions, SwitchPositions, FlushPositions
<1>28. CASE Woken
  BY <1>28 DEF Woken, decoderVars, requestVars, probeVars, hookVars,
  seenVars, waitVars, padVars, itemVars, EventsInv, Returns, NoFirst, Eats,
  FlushInv, Waits, Paired, DecInv, LockOwners, TypeOK, Sticky, Items,
  HookPositions, SwitchPositions, FlushPositions
<1>29. CASE Relocked
  BY <1>29 DEF Relocked, decoderVars, requestVars, hookVars, padVars,
  itemVars, OpenFront, EatStart, EventsInv, Returns, NoFirst, Eats,
  FlushInv, Waits, Paired, DecInv, LockOwners, TypeOK, Sticky, Items,
  HookPositions, SwitchPositions, FlushPositions
<1>30. CASE StartForwarded
  BY <1>30 DEF StartForwarded, decoderVars, requestVars, probeVars,
  hookVars, seenVars, waitVars, padVars, itemVars, EatsStart, EventsInv,
  Returns, NoFirst, Eats, FlushInv, Waits, Paired, DecInv, LockOwners,
  TypeOK, Sticky, Items, HookPositions, SwitchPositions, FlushPositions
<1>31. CASE FrontFlushes
  BY <1>31 DEF FrontFlushes, decoderVars, requestVars, probeVars, hookVars,
  seenVars, waitVars, itemVars, EventsInv, Returns, NoFirst, Eats, FlushInv,
  Waits, Paired, DecInv, LockOwners, TypeOK, Sticky, Items, HookPositions,
  SwitchPositions, FlushPositions
<1>32. CASE FlushStop
  BY <1>32 DEF FlushStop, decoderVars, requestVars, probeVars, hookVars,
  seenVars, waitVars, EventsInv, Returns, NoFirst, Eats, FlushInv, Waits,
  Paired, DecInv, LockOwners, TypeOK, Sticky, Items, HookPositions,
  SwitchPositions, FlushPositions
<1>33. CASE StopEaten
  BY <1>33 DEF StopEaten, decoderVars, requestVars, hookVars, waitVars,
  padVars, itemVars, Eats, Reblock, LetEventsPass, EventsInv, Returns,
  NoFirst, FlushInv, Waits, Paired, DecInv, LockOwners, TypeOK, Sticky,
  Items, HookPositions, SwitchPositions, FlushPositions
<1>34. CASE StopForwarded
  BY <1>34 DEF StopForwarded, decoderVars, requestVars, probeVars, hookVars,
  seenVars, waitVars, padVars, itemVars, Eats, EventsInv, Returns, NoFirst,
  FlushInv, Waits, Paired, DecInv, LockOwners, TypeOK, Sticky, Items,
  HookPositions, SwitchPositions, FlushPositions
<1>35. CASE FrontResumes
  BY <1>35 DEF FrontResumes, decoderVars, requestVars, probeVars, hookVars,
  seenVars, waitVars, itemVars, EventsInv, Returns, NoFirst, Eats, FlushInv,
  Waits, Paired, DecInv, LockOwners, TypeOK, Sticky, Items, HookPositions,
  SwitchPositions, FlushPositions
<1>36. CASE UNCHANGED vars
  BY <1>36 DEF vars, decoderVars, requestVars, probeVars, hookVars,
  seenVars, waitVars, padVars, itemVars, EventsInv, Returns, NoFirst, Eats,
  FlushInv, Waits, Paired, DecInv, LockOwners, TypeOK, Sticky, Items,
  HookPositions, SwitchPositions, FlushPositions
<1> QED
  BY <1>1, <1>2, <1>3, <1>4, <1>5, <1>6, <1>7, <1>8, <1>9, <1>10, <1>11,
  <1>12, <1>13, <1>14, <1>15, <1>16, <1>17, <1>18, <1>19, <1>20, <1>21,
  <1>22, <1>23, <1>24, <1>25, <1>26, <1>27, <1>28, <1>29, <1>30, <1>31,
  <1>32, <1>33, <1>34, <1>35, <1>36 DEF Next, Upstream, Switching, Hook,
  Flusher

(* The invariant of the dropped events holds always.                        *)
LEMMA EventsAlways == Spec => []EventsInv
<1>1. Init => EventsInv
  BY InitEvents
<1>2. EventsInv /\ FlushInv /\ DecInv /\ [Next]_vars => EventsInv'
  BY NextEvents
<1> QED
  BY <1>1, <1>2, DecAlways, FlushAlways, PTL DEF Spec

(* The back bridge lets events through again when every switch and every    *)
(* flush has ended.                                                         *)
THEOREM DecEventsPass == Spec => []EventsPass
<1>1. EventsInv => EventsPass
  BY DEF EventsInv, Returns, EventsPass, SwitchesDone
<1> QED
  BY <1>1, EventsAlways, PTL
=============================================================================
