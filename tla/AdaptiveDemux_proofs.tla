------------------------ MODULE AdaptiveDemux_proofs ------------------------
(***************************************************************************)
(* Theorems about AdaptiveDemux for any pool of streams, any presentation  *)
(* and any number of calls and errors.                                     *)
(***************************************************************************)
EXTENDS AdaptiveDemux, FiniteSetTheorems, TLAPS

(* A thread that is freeing a stream has taken it from the list it frees.  *)
FreeingOwn ==
  \A s \in Streams : dpc[s] \in {"freeJoin", "freeSrc"} => dcur[s] \in dfree[s]

TypeInv == TypeOK /\ FreeingOwn

LEMMA SetAllType ==
  ASSUME NEW T, NEW f \in [Streams -> T], NEW S, NEW v \in T
  PROVE  SetAll(f, S, v) \in [Streams -> T]
BY DEF SetAll

LEMMA BroadcastType ==
  ASSUME NEW f \in [Streams -> ChainPcs \cup {"off", "run"}]
  PROVE  Broadcast(f) \in [Streams -> ChainPcs \cup {"off", "run"}]
BY DEF Broadcast, ChainPcs

LEMMA NewStreamsType ==
  ASSUME NEW p, NEW new \in NewStreams(p), free \subseteq Streams
  PROVE  new \subseteq free /\ new \subseteq Streams
BY DEF NewStreams, kSubset

LEMMA InitType == Init => TypeInv
BY ConstantsAssumption DEF Init, TypeInv, TypeOK, FreeingOwn, Owners, Free, DPcs,
   APcs, Rets, ChainPcs

-----------------------------------------------------------------------------
(* The variables an iteration of D may change before it is held up.        *)
LoopType ==
  /\ manifest \in Owners /\ period \in 1..Periods
  /\ prepared \subseteq Streams /\ next \subseteq Streams
  /\ free \subseteq Streams
  /\ doBlock \in [Streams -> BOOLEAN] /\ handleEos \in [Streams -> BOOLEAN]
  /\ lastRet \in [Streams -> Rets]
  /\ task \in [Streams -> {"stopped", "started"}]
  /\ src \in [Streams -> {"none", "ready", "playing"}]
  /\ dpc \in [Streams -> DPcs]

LEMMA PrepareStreamsType ==
  ASSUME TypeOK, NEW p, NEW new \in NewStreams(p), NEW left, left \subseteq Streams,
         NEW h \in [Streams -> BOOLEAN], PrepareStreams(new, left, h)
  PROVE  /\ prepared' \subseteq Streams /\ next' \subseteq Streams
         /\ free' \subseteq Streams
         /\ doBlock' \in [Streams -> BOOLEAN] /\ handleEos' \in [Streams -> BOOLEAN]
<1>1. new \subseteq Streams
  BY NewStreamsType DEF TypeOK
<1>2. prepared' \subseteq Streams /\ next' \subseteq Streams /\ free' \subseteq Streams
  BY <1>1 DEF PrepareStreams, TypeOK
<1>3. doBlock' \in [Streams -> BOOLEAN] /\ handleEos' \in [Streams -> BOOLEAN]
  BY DEF PrepareStreams, SetAll, TypeOK
<1> QED
  BY <1>2, <1>3

LEMMA StartTasksType ==
  ASSUME TypeOK, StartTasks
  PROVE  /\ pending' \in Int /\ doBlock' \in [Streams -> BOOLEAN]
         /\ cancelled' \in [Streams -> BOOLEAN] /\ lastRet' \in [Streams -> Rets]
         /\ task' \in [Streams -> {"stopped", "started"}]
<1>1. Cardinality(prepared) \in Int
  BY ConstantsAssumption, FS_Subset, FS_CardinalityType DEF TypeOK
<1>2. pending' \in Int
  BY <1>1 DEF StartTasks, TypeOK, ToPreroll
<1>3. CASE ~running
  BY <1>2, <1>3 DEF StartTasks, TypeOK
<1>4. CASE running
  <2>1. doBlock' \in [Streams -> BOOLEAN] /\ cancelled' \in [Streams -> BOOLEAN]
    BY <1>4 DEF StartTasks, SetAll, TypeOK
  <2>2. lastRet' \in [Streams -> Rets]
    BY <1>4 DEF StartTasks, SetAll, TypeOK, Rets
  <2>3. task' \in [Streams -> {"stopped", "started"}]
    BY <1>4 DEF StartTasks, SetAll, TypeOK
  <2> QED
    BY <1>2, <2>1, <2>2, <2>3
<1> QED
  BY <1>3, <1>4

LEMMA EosResultType ==
  ASSUME TypeOK, NEW s \in Streams, NEW r \in [Streams -> Rets], DEosResult(s, r)
  PROVE  LoopType'
<1> DEFINE h == [handleEos EXCEPT ![s] = TRUE]
<1>0. h \in [Streams -> BOOLEAN]
  BY DEF TypeOK
<1>1. lastRet' \in [Streams -> Rets] /\ task' \in [Streams -> {"stopped", "started"}]
  BY DEF DEosResult, TypeOK
<1>2. CASE /\ period < Periods /\ AllEos(r, h)
           /\ period' = period + 1
           /\ \E new \in NewStreams(period + 1) : PrepareStreams(new, prepared, h)
           /\ dpc' = [dpc EXCEPT ![s] = "start"] /\ manifest' = Dt(s)
           /\ UNCHANGED src
  <2>1. /\ prepared' \subseteq Streams /\ next' \subseteq Streams
        /\ free' \subseteq Streams
        /\ doBlock' \in [Streams -> BOOLEAN] /\ handleEos' \in [Streams -> BOOLEAN]
    BY <1>0, <1>2, PrepareStreamsType DEF TypeOK
  <2>2. period' \in 1..Periods
    BY <1>2, ConstantsAssumption DEF TypeOK
  <2> QED
    BY <1>1, <1>2, <2>1, <2>2 DEF TypeOK, LoopType, DPcs, Owners, Dt
<1>3. CASE /\ period < Periods /\ ~AllEos(r, h)
           /\ handleEos' = h
           /\ dpc' = [dpc EXCEPT ![s] = "idle"] /\ manifest' = Free
           /\ UNCHANGED <<src, period, prepared, next, free, doBlock>>
  BY <1>0, <1>1, <1>3 DEF TypeOK, LoopType, DPcs, Owners
<1>4. CASE /\ period = Periods
           /\ EndOfManifest(s)
           /\ UNCHANGED <<period, prepared, next, free, doBlock, handleEos>>
  BY <1>1, <1>4 DEF TypeOK, LoopType, EndOfManifest, DPcs, Owners
<1> QED
  BY <1>2, <1>3, <1>4 DEF DEosResult

LEMMA LoopPartsType ==
  ASSUME TypeOK, NEW s \in Streams,
         DCancelled(s) \/ DBody(s) \/ DSegmentDone(s) \/ DErrorResult(s)
  PROVE  LoopType'
<1>1. CASE DCancelled(s)
  BY <1>1 DEF DCancelled, TypeOK, LoopType, DPcs, Owners, Rets
<1>2. CASE DBody(s)
  <2>1. [lastRet EXCEPT ![s] = "EOS"] \in [Streams -> Rets]
    BY DEF TypeOK, Rets
  <2>2. CASE DEosResult(s, [lastRet EXCEPT ![s] = "EOS"])
    BY <2>1, <2>2, EosResultType
  <2>3. CASE ~DEosResult(s, [lastRet EXCEPT ![s] = "EOS"])
    BY <1>2, <2>3 DEF DBody, TypeOK, LoopType, DPcs, Owners, Rets
  <2> QED
    BY <2>2, <2>3
<1>3. CASE DSegmentDone(s)
  BY <1>3 DEF DSegmentDone, EndOfManifest, TypeOK, LoopType, DPcs, Owners
<1>4. CASE DErrorResult(s)
  <2>1. CASE DEosResult(s, lastRet)
    BY <2>1, EosResultType DEF TypeOK
  <2>2. CASE ~DEosResult(s, lastRet)
    BY <1>4, <2>2 DEF DErrorResult, TypeOK, LoopType, DPcs, Owners, Rets
  <2> QED
    BY <2>1, <2>2
<1> QED
  BY <1>1, <1>2, <1>3, <1>4

LEMMA DStepType ==
  ASSUME TypeInv, NEW s \in Streams, DStep(s)
  PROVE  TypeInv'
<1>1. CASE DEnter(s)
  <2>1. CASE DCancelled(s) \/ DSegmentDone(s) \/ DBody(s)
    <3>1. LoopType'
      BY <2>1, LoopPartsType, EosResultType DEF TypeInv, TypeOK
    <3> QED
      BY <1>1, <2>1, <3>1 DEF DEnter, LoopType, TypeInv, TypeOK, FreeingOwn,
         DCancelled, DBody, DSegmentDone, DErrorResult, DEosResult,
         EndOfManifest, xVars, aVars, boundVars, DPcs, Owners, Free, Dt
  <2>2. CASE ~(DCancelled(s) \/ DSegmentDone(s) \/ DBody(s))
    BY <1>1, <2>2 DEF DEnter, TypeInv, TypeOK, FreeingOwn, DPcs, Owners, Dt,
       Free, Rets, xVars, aVars, boundVars
  <2> QED
    BY <2>1, <2>2
<1>2. CASE DFreeNext(s)
  <2>1. CASE DCancelled(s) \/ DBody(s)
    <3>1. LoopType'
      BY <2>1, LoopPartsType, EosResultType DEF TypeInv, TypeOK
    <3> QED
      BY <1>2, <2>1, <3>1 DEF DFreeNext, LoopType, TypeInv, TypeOK,
         FreeingOwn, DCancelled, DBody, DSegmentDone, DErrorResult,
         DEosResult, EndOfManifest, xVars, aVars, boundVars, DPcs, Owners,
         Free, Dt
  <2>2. CASE ~(DCancelled(s) \/ DBody(s))
    <3>1. PICK o \in dfree[s] :
            /\ dcur' = [dcur EXCEPT ![s] = o]
            /\ dpc' = [dpc EXCEPT ![s] = "freeJoin"]
            /\ manifest' = Free
            /\ task' = [task EXCEPT ![o] = "stopped"]
            /\ cancelled' = [cancelled EXCEPT ![o] = @ \/ task[o] # "stopped"]
            /\ UNCHANGED <<lastRet, src, period, prepared, next, free, doBlock,
                           handleEos>>
      BY <1>2, <2>2 DEF DFreeNext
    <3>2. o \in Streams
      BY DEF TypeInv, TypeOK
    <3>3. /\ cancelled' \in [Streams -> BOOLEAN]
          /\ task' \in [Streams -> {"stopped", "started"}]
      BY <3>1, <3>2 DEF TypeInv, TypeOK
    <3> QED
      BY <1>2, <3>1, <3>2, <3>3 DEF DFreeNext, TypeInv, TypeOK, FreeingOwn, DPcs,
         Owners, Free, xVars, aVars, boundVars
  <2> QED
    BY <2>1, <2>2
<1>3. CASE DFreeJoin(s)
  BY <1>3 DEF DFreeJoin, TypeInv, TypeOK, FreeingOwn, lockVars, listVars,
     flagVars, demuxVars, xVars, aVars, boundVars, DPcs, Free
<1>4. CASE DFreeSrc(s)
  BY <1>4 DEF DFreeSrc, TypeInv, TypeOK, FreeingOwn, demuxVars, xVars, aVars,
     boundVars, DPcs, Owners, Free, Dt, Rets, ChainPcs, Forget, FreshFields
<1>5. CASE DPrep(s)
  BY <1>5 DEF DPrep, TypeInv, TypeOK, FreeingOwn, lockVars, listVars,
     flagVars, demuxVars, xVars, aVars, boundVars, DPcs, ChainPcs
<1>6. CASE DReset(s)
  <2>1. /\ dret' \in [Streams -> Rets] /\ finished' \in [Streams -> BOOLEAN]
        /\ dpc' \in [Streams -> DPcs]
    BY <1>6 DEF DReset, TypeInv, TypeOK, DPcs, Rets
  <2>2. FreeingOwn'
    BY <1>6 DEF DReset, TypeInv, TypeOK, FreeingOwn
  <2> QED
    BY <1>6, <2>1, <2>2 DEF DReset, TypeInv, TypeOK, lockVars, listVars,
       demuxVars, xVars, aVars, boundVars
<1>7. CASE DSync(s)
  BY <1>7 DEF DSync, TypeInv, TypeOK, FreeingOwn, lockVars, listVars,
     flagVars, demuxVars, xVars, aVars, boundVars, DPcs, ChainPcs
<1>8. CASE DWait(s)
  BY <1>8 DEF DWait, TypeInv, TypeOK, FreeingOwn, lockVars, listVars,
     demuxVars, xVars, aVars, boundVars, DPcs, Free, Rets
<1>9. CASE DReady(s)
  BY <1>9 DEF DReady, TypeInv, TypeOK, FreeingOwn, lockVars, listVars,
     flagVars, demuxVars, xVars, aVars, boundVars, DPcs, ChainPcs
<1>10. CASE DResult(s)
  <2>1. CASE DCancelled(s) \/ DEosResult(s, lastRet) \/ DErrorResult(s)
    <3>1. LoopType'
      BY <2>1, LoopPartsType, EosResultType DEF TypeInv, TypeOK
    <3> QED
      BY <1>10, <2>1, <3>1 DEF DResult, LoopType, TypeInv, TypeOK, FreeingOwn,
         DCancelled, DBody, DSegmentDone, DErrorResult, DEosResult,
         EndOfManifest, xVars, aVars, boundVars, DPcs, Free, SetAll
  <2>2. CASE ~(DCancelled(s) \/ DEosResult(s, lastRet) \/ DErrorResult(s))
    BY <1>10, <2>2 DEF DResult, TypeInv, TypeOK, FreeingOwn, DPcs, Owners, Dt,
       Free, Rets, xVars, aVars, boundVars, SetAll
  <2> QED
    BY <2>1, <2>2
<1>11. CASE DRetry(s)
  BY <1>11 DEF DRetry, TypeInv, TypeOK, FreeingOwn, lockVars, listVars,
     demuxVars, xVars, aVars, boundVars, DPcs, Free, Rets
<1>12. CASE DLeave(s)
  BY <1>12 DEF DLeave, TypeInv, TypeOK, FreeingOwn, lockVars, listVars,
     flagVars, demuxVars, xVars, aVars, boundVars, DPcs, Free, ChainPcs
<1>13. CASE DStart(s)
  BY <1>13, StartTasksType DEF DStart, TypeInv, TypeOK, FreeingOwn, listVars,
     xVars, aVars, boundVars, DPcs, Owners, Free, Dt
<1> QED
  BY <1>1, <1>2, <1>3, <1>4, <1>5, <1>6, <1>7, <1>8, <1>9, <1>10, <1>11,
     <1>12, <1>13 DEF DStep

LEMMA SStepType ==
  ASSUME TypeInv, NEW s \in Streams, SStep(s)
  PROVE  TypeInv'
<1>1. CASE SChain(s)
  BY <1>1 DEF SChain, TypeInv, TypeOK, FreeingOwn, listVars, demuxVars, dVars,
     xVars, aVars, boundVars, Owners, Free, St, Rets, ChainPcs
<1>2. CASE SPreroll(s)
  <2>1. spc' \in [Streams -> ChainPcs \cup {"off", "run"}]
    BY <1>2, BroadcastType DEF SPreroll, TypeInv, TypeOK, ChainPcs
  <2>2. xold' \subseteq Streams /\ streams' \subseteq Streams /\ prepared' \subseteq Streams
    BY <1>2 DEF SPreroll, TypeInv, TypeOK
  <2> QED
    BY <1>2, <2>1, <2>2 DEF SPreroll, TypeInv, TypeOK, FreeingOwn, flagVars, dVars,
       aVars, boundVars, Owners, Free
<1>3. CASE SExpose(s)
  <2>0. Broadcast(spc) \in [Streams -> ChainPcs \cup {"off", "run"}]
    BY BroadcastType DEF TypeInv, TypeOK
  <2>1. spc' \in [Streams -> ChainPcs \cup {"off", "run"}]
    BY <1>3, <2>0 DEF SExpose, ExposeDone, TypeInv, TypeOK, ChainPcs
  <2>2. doBlock' \in [Streams -> BOOLEAN]
    BY <1>3 DEF SExpose, ExposeDone, SetAll, TypeInv, TypeOK
  <2>3. old' \subseteq Streams /\ xold' \subseteq Streams /\ xtodo' \subseteq Streams
    BY <1>3 DEF SExpose, ExposeDone, TypeInv, TypeOK
  <2> QED
    BY <1>3, <2>1, <2>2, <2>3 DEF SExpose, TypeInv, TypeOK, FreeingOwn, lockVars,
       dVars, aVars, boundVars
<1>4. CASE SExposeOld(s)
  <2>1. PICK o \in xtodo :
          /\ CancelStream(o)
          /\ xtodo' = xtodo \ {o}
          /\ IF xtodo = {o} THEN ExposeDone(s)
             ELSE UNCHANGED <<old, xold, doBlock, spc>>
    BY <1>4 DEF SExposeOld
  <2>0. Broadcast(spc) \in [Streams -> ChainPcs \cup {"off", "run"}]
    BY BroadcastType DEF TypeInv, TypeOK
  <2>2. spc' \in [Streams -> ChainPcs \cup {"off", "run"}]
    BY <2>0, <2>1 DEF ExposeDone, TypeInv, TypeOK, ChainPcs
  <2>3. doBlock' \in [Streams -> BOOLEAN]
    BY <2>1 DEF ExposeDone, SetAll, TypeInv, TypeOK
  <2>4. old' \subseteq Streams /\ xold' \subseteq Streams /\ xtodo' \subseteq Streams
    BY <2>1 DEF ExposeDone, TypeInv, TypeOK
  <2>5. /\ cancelled' \in [Streams -> BOOLEAN]
        /\ task' \in [Streams -> {"stopped", "started"}]
    BY <2>1 DEF CancelStream, TypeInv, TypeOK
  <2> QED
    BY <1>4, <2>2, <2>3, <2>4, <2>5 DEF SExposeOld, TypeInv, TypeOK, FreeingOwn,
       lockVars, demuxVars, dVars, aVars, boundVars
<1>5. CASE SPrerollCheck(s)
  BY <1>5 DEF SPrerollCheck, TypeInv, TypeOK, FreeingOwn, listVars, flagVars,
     demuxVars, dVars, xVars, aVars, boundVars, ChainPcs
<1>6. CASE SRelock(s)
  BY <1>6 DEF SRelock, TypeInv, TypeOK, FreeingOwn, lockVars, listVars,
     flagVars, demuxVars, dVars, xVars, aVars, boundVars, Free, ChainPcs
<1>7. CASE SPushed(s)
  <2>1. /\ lastRet' \in [Streams -> Rets] /\ finished' \in [Streams -> BOOLEAN]
    <3>1. CASE /\ cancelled[s]
               /\ lastRet' = [lastRet EXCEPT ![s] = "FLUSHING"]
               /\ spc' = [spc EXCEPT ![s] = "off"] /\ UNCHANGED finished
      BY <3>1 DEF TypeInv, TypeOK, Rets
    <3>2. CASE UNCHANGED <<lastRet, finished>>
      BY <3>2 DEF TypeInv, TypeOK
    <3>3. CASE \E ret \in {"OK", "EOS", "FLUSHING"} : DownloadFinish(s, ret)
      BY <3>3 DEF DownloadFinish, TypeInv, TypeOK, Rets
    <3> QED
      BY <1>7, <3>1, <3>2, <3>3 DEF SPushed
  <2>2. spc' \in [Streams -> ChainPcs \cup {"off", "run"}]
    BY <1>7 DEF SPushed, TypeInv, TypeOK, ChainPcs
  <2> QED
    BY <1>7, <2>1, <2>2 DEF SPushed, TypeInv, TypeOK, FreeingOwn, lockVars,
       listVars, demuxVars, dVars, xVars, aVars, boundVars
<1>8. CASE SEos(s)
  BY <1>8 DEF SEos, TypeInv, TypeOK, FreeingOwn, lockVars, listVars,
     demuxVars, dVars, xVars, aVars, boundVars, Free, Rets, ChainPcs,
     DownloadFinish
<1> QED
  BY <1>1, <1>2, <1>3, <1>4, <1>5, <1>6, <1>7, <1>8 DEF SStep

LEMMA AStepType ==
  ASSUME TypeInv, AStep
  PROVE  TypeInv'
<1>1. CASE AStop
  BY <1>1 DEF AStop, TypeInv, TypeOK, FreeingOwn, lockVars, dVars, xVars,
     boundVars, Free, APcs, SetAll, Listed, TakeOld, ResetKinds
<1>2. CASE ABroadcast
  BY <1>2 DEF ABroadcast, TypeInv, TypeOK, FreeingOwn, lockVars, listVars,
     flagVars, demuxVars, dVars, xVars, boundVars, ChainPcs, APcs, ResetKinds,
     Broadcast
<1>3. CASE AList
  BY <1>3 DEF AList, TypeInv, TypeOK, FreeingOwn, lockVars, listVars,
     flagVars, demuxVars, dVars, xVars, boundVars, Free, APcs, Listed,
     ResetKinds
<1>4. CASE AStopSrc
  BY <1>4 DEF AStopSrc, TypeInv, TypeOK, FreeingOwn, lockVars, listVars,
     flagVars, demuxVars, dVars, xVars, boundVars, Free, ChainPcs, APcs,
     ResetKinds
<1>5. CASE AJoin
  BY <1>5 DEF AJoin, TypeInv, TypeOK, FreeingOwn, lockVars, listVars,
     flagVars, demuxVars, dVars, xVars, boundVars, Free, APcs, ResetKinds
<1>6. CASE ASeekBody
  <2>1. /\ prepared' \subseteq Streams /\ next' \subseteq Streams
        /\ free' \subseteq Streams /\ old' \subseteq Streams
        /\ doBlock' \in [Streams -> BOOLEAN] /\ handleEos' \in [Streams -> BOOLEAN]
        /\ period' \in 1..Periods
    <3>1. CASE UNCHANGED <<period, prepared, next, free, old, doBlock, handleEos>>
      BY <3>1 DEF TypeInv, TypeOK
    <3>2. CASE \E p \in 1..Periods : \E new \in NewStreams(p) :
                 /\ period' = p /\ PrepareStreams(new, prepared \ Displaced, handleEos)
                 /\ old' = old \cup Displaced
      <4>1. PICK p \in 1..Periods : \E new \in NewStreams(p) :
               period' = p /\ PrepareStreams(new, prepared \ Displaced, handleEos)
        BY <3>2
      <4>2. prepared \ Displaced \subseteq Streams /\ old' \subseteq Streams
        BY <3>2 DEF TypeInv, TypeOK, Displaced
      <4> QED
        BY <4>1, <4>2, PrepareStreamsType DEF TypeInv, TypeOK
    <3> QED
      BY <1>6, <3>1, <3>2 DEF ASeekBody
  <2> QED
    BY <1>6, <2>1 DEF ASeekBody, TypeInv, TypeOK, FreeingOwn, dVars, xVars,
       boundVars, Owners, Api, APcs
<1>7. CASE AStart
  BY <1>7, StartTasksType DEF AStart, TypeInv, TypeOK, FreeingOwn, listVars,
     dVars, xVars, boundVars, Owners, Free, APcs
<1>8. CASE AReset
  BY <1>8 DEF AReset, TypeInv, TypeOK, FreeingOwn, listVars, flagVars,
     demuxVars, dVars, xVars, boundVars, Owners, Free, Api, APcs, ResetKinds
<1>9. CASE AFreeNext
  BY <1>9 DEF AFreeNext, TypeInv, TypeOK, FreeingOwn, listVars, demuxVars,
     dVars, xVars, boundVars, Owners, Free, Api, APcs, ResetKinds
<1>10. CASE AFreeJoin
  BY <1>10 DEF AFreeJoin, TypeInv, TypeOK, FreeingOwn, lockVars, listVars,
     flagVars, demuxVars, dVars, xVars, boundVars, Free, APcs, ResetKinds
<1>11. CASE AFreeSrc
  BY <1>11 DEF AFreeSrc, TypeInv, TypeOK, FreeingOwn, listVars, demuxVars,
     dVars, xVars, boundVars, Owners, Free, Api, Rets, ChainPcs, APcs, Forget,
     FreshFields, ResetKinds
<1>12. CASE AFreeList
  <2>1. \A p \in 1..6 : ResetList(p) \subseteq Streams
    BY DEF ResetList, TypeInv, TypeOK
  <2>2. /\ free' \subseteq Streams /\ streams' \subseteq Streams
        /\ prepared' \subseteq Streams /\ next' \subseteq Streams
        /\ aold' \subseteq Streams /\ old' \subseteq Streams
    BY <1>12 DEF AFreeList, ResetList, TypeInv, TypeOK
  <2>3. atodo' \subseteq Streams /\ aphase' \in 0..5
    BY <1>12, <2>1 DEF AFreeList, LastList, TypeInv, TypeOK
  <2>4. /\ manifest' \in Owners /\ running' \in BOOLEAN /\ apc' \in APcs
        /\ akind' \in SeekKinds \cup ResetKinds \cup {"none", "manifest"}
    BY <1>12 DEF AFreeList, TypeInv, TypeOK, Owners, Free, APcs
  <2> QED
    BY <1>12, <2>2, <2>3, <2>4 DEF AFreeList, TypeInv, TypeOK, FreeingOwn,
       flagVars, dVars, xVars, boundVars
<1> QED
  BY <1>1, <1>2, <1>3, <1>4, <1>5, <1>6, <1>7, <1>8, <1>9, <1>10, <1>11, <1>12
     DEF AStep

-----------------------------------------------------------------------------
LEMMA CallType ==
  ASSUME TypeInv, ASinkEos \/ \E kind \in SeekKinds \cup ResetKinds : ACall(kind)
  PROVE  TypeInv'
<1>1. CASE ASinkEos
  <2>1. PICK new \in NewStreams(1) : PrepareStreams(new, {}, handleEos)
    BY <1>1 DEF ASinkEos
  <2>2. /\ prepared' \subseteq Streams /\ next' \subseteq Streams
        /\ free' \subseteq Streams
        /\ doBlock' \in [Streams -> BOOLEAN] /\ handleEos' \in [Streams -> BOOLEAN]
    BY <2>1, PrepareStreamsType DEF TypeInv, TypeOK
  <2> QED
    BY <1>1, <2>2, ConstantsAssumption DEF ASinkEos, TypeInv, TypeOK, FreeingOwn,
       dVars, xVars, boundVars, Owners, Api, APcs
<1>2. CASE \E kind \in SeekKinds \cup ResetKinds : ACall(kind)
  BY <1>2, ConstantsAssumption DEF ACall, TypeInv, TypeOK, FreeingOwn, lockVars,
     demuxVars, listVars, flagVars, dVars, xVars, APcs
<1> QED
  BY <1>1, <1>2

LEMMA SourceErrorType ==
  ASSUME TypeInv, NEW s \in Streams, SourceError(s)
  PROVE  TypeInv'
<1>1. lastRet' \in [Streams -> Rets] /\ finished' \in [Streams -> BOOLEAN]
  BY DEF SourceError, DownloadFinish, TypeInv, TypeOK, Rets
<1>2. errors' \in 0..MaxErrors /\ manifest' \in Owners
  BY ConstantsAssumption DEF SourceError, TypeInv, TypeOK, Owners, Leaked
<1> QED
  BY <1>1, <1>2 DEF SourceError, TypeInv, TypeOK, FreeingOwn, demuxVars, listVars,
     dVars, xVars, aVars

LEMMA NextType == TypeInv /\ [Next]_vars => TypeInv'
<1> SUFFICES ASSUME TypeInv, [Next]_vars PROVE TypeInv'
  OBVIOUS
<1>1. CASE UNCHANGED vars \/ AtRest
  BY <1>1 DEF AtRest, vars, lockVars, listVars, flagVars, demuxVars, dVars, xVars,
     aVars, boundVars, TypeInv, TypeOK, FreeingOwn
<1>2. CASE ASinkEos \/ \E kind \in SeekKinds \cup ResetKinds : ACall(kind)
  BY <1>2, CallType
<1>3. CASE AStep
  BY <1>3, AStepType
<1>4. CASE \E s \in Streams : DStep(s) \/ SStep(s) \/ SourceError(s)
  BY <1>4, DStepType, SStepType, SourceErrorType
<1> QED
  BY <1>1, <1>2, <1>3, <1>4 DEF Next

(* The variables keep to the values the code gives them, however many       *)
(* streams and periods there are.                                           *)
THEOREM TypeCorrect == Spec => []TypeOK
<1>1. Init => TypeInv
  BY InitType
<1>2. TypeInv /\ [Next]_vars => TypeInv'
  BY NextType
<1>3. TypeInv => TypeOK
  BY DEF TypeInv
<1> QED
  BY <1>1, <1>2, <1>3, PTL DEF Spec

-----------------------------------------------------------------------------
(* The owner of every stream.                                              *)

(* The lists are disjoint, the lists the Ds free included ...              *)
Apart ==
  /\ streams \cap prepared = {}
  /\ (streams \cup prepared) \cap old = {}
  /\ (streams \cup prepared \cup old) \cap next = {}
  /\ (streams \cup prepared \cup old \cup next) \cap free = {}
  /\ (streams \cup prepared \cup old \cup next \cup free) \cap xold = {}
  /\ (streams \cup prepared \cup old \cup next \cup free \cup xold) \cap aold = {}
InLists == streams \cup prepared \cup old \cup next \cup free \cup xold \cup aold
TaskLists ==
  /\ \A d \in Streams : dfree[d] \cap InLists = {}
  /\ \A d, e \in Streams : d # e => dfree[d] \cap dfree[e] = {}

(* ... and nothing is in none of them.                                     *)
Total == \A s \in Streams : s \in InLists \/ \E d \in Streams : s \in dfree[d]

(* What keeps a list from being overwritten: D has an empty one when it    *)
(* takes the old streams ...                                               *)
FreeingWhere ==
  \A s \in Streams : dfree[s] # {} => dpc[s] \in {"free", "freeJoin", "freeSrc"}

(* ... one S at a time exposes streams: it has preroll_lock, and no other  *)
(* thread moves it before it is done ...                                   *)
ExposerHolds ==
  \A s \in Streams : spc[s] \in {"expose", "exposeOld", "prCheck"} => preroll = s
OneExposer ==
  xold # {} => preroll \in Streams /\ spc[preroll] \in {"expose", "exposeOld"}
SourceOff == \A s \in Streams : dpc[s] \in {"reset", "sync"} => spc[s] = "off"

(* ... and only a reset has taken old streams, until it has freed them.    *)
FreeingCall ==
  /\ apc \in {"free", "freeJoin", "freeSrc"} <=> aphase # 0
  /\ aphase # 0 => akind \in ResetKinds
  /\ aold # {} => /\ akind \in ResetKinds /\ aphase # 5
                  /\ apc \in {"bcast", "list", "join", "wait", "free", "freeJoin",
                              "freeSrc"}

OwnLists == Apart /\ TaskLists /\ Total
OwnPcs == FreeingWhere /\ ExposerHolds /\ OneExposer /\ SourceOff /\ FreeingCall
OwnInv == TypeInv /\ OwnLists /\ OwnPcs

LEMMA InitOwn == Init => OwnInv
<1> SUFFICES ASSUME Init PROVE OwnInv
  OBVIOUS
<1>1. OwnLists
  BY DEF Init, OwnLists, Apart, TaskLists, Total, InLists
<1>2. OwnPcs
  BY DEF Init, OwnPcs, FreeingWhere, ExposerHolds, OneExposer, SourceOff, FreeingCall
<1> QED
  BY <1>1, <1>2, InitType DEF OwnInv

LEMMA SameLists ==
  ASSUME OwnLists,
         UNCHANGED <<streams, prepared, old, next, free, xold, aold, dfree>>
  PROVE  OwnLists'
BY DEF OwnLists, Apart, TaskLists, Total, InLists

(* A helper that moves objects between lists moves whole lists.            *)
LEMMA PrepareOwn ==
  ASSUME OwnLists, TypeOK, NEW p, NEW new \in NewStreams(p), NEW h,
         PrepareStreams(new, prepared, h),
         UNCHANGED <<streams, old, xold, aold, dfree>>
  PROVE  OwnLists'
<1>1. new \subseteq free
  BY NewStreamsType DEF TypeOK
<1>2. /\ free' = free \ new
      /\ prepared' \cup next' = prepared \cup next \cup new
      /\ prepared' \cap next' = {}
  BY <1>1 DEF PrepareStreams, OwnLists, Apart
<1>3. Apart'
  BY <1>1, <1>2 DEF OwnLists, Apart
<1>4. InLists' = InLists
  BY <1>1, <1>2 DEF InLists
<1> QED
  BY <1>3, <1>4 DEF OwnLists, TaskLists, Total

LEMMA LoopOwn ==
  ASSUME OwnInv, NEW s \in Streams,
         \/ DCancelled(s) \/ DBody(s) \/ DSegmentDone(s) \/ DErrorResult(s)
         \/ \E r : DEosResult(s, r),
         UNCHANGED <<streams, old, xold, aold, dfree>>
  PROVE  /\ OwnLists'
         /\ \E pc \in {"idle", "drop", "leave", "prep", "retry", "start"} :
              dpc' = [dpc EXCEPT ![s] = pc]
<1>1. ASSUME NEW r, DEosResult(s, r)
      PROVE  /\ OwnLists'
             /\ \E pc \in {"idle", "drop", "leave", "start"} :
                  dpc' = [dpc EXCEPT ![s] = pc]
  <2>1. CASE UNCHANGED <<prepared, next, free>>
    BY <1>1, <2>1, SameLists DEF DEosResult, EndOfManifest, OwnInv
  <2>2. CASE \E new \in NewStreams(period + 1) :
               PrepareStreams(new, prepared, [handleEos EXCEPT ![s] = TRUE])
    BY <1>1, <2>2, PrepareOwn DEF DEosResult, EndOfManifest, OwnInv, TypeInv
  <2> QED
    BY <1>1, <2>1, <2>2 DEF DEosResult
<1>2. CASE DCancelled(s)
  BY <1>2, SameLists DEF DCancelled, OwnInv
<1>3. CASE DBody(s)
  BY <1>1, <1>3, SameLists DEF DBody, OwnInv
<1>4. CASE DSegmentDone(s)
  BY <1>4, SameLists DEF DSegmentDone, EndOfManifest, OwnInv
<1>5. CASE DErrorResult(s)
  BY <1>1, <1>5, SameLists DEF DErrorResult, OwnInv
<1> QED
  BY <1>1, <1>2, <1>3, <1>4, <1>5

LEMMA DStepOwn ==
  ASSUME OwnInv, NEW s \in Streams, DStep(s)
  PROVE  OwnLists' /\ OwnPcs'
<1>1. CASE DEnter(s)
  <2>1. CASE (DCancelled(s) \/ DBody(s) \/ DSegmentDone(s)) /\ UNCHANGED <<old, dfree>>
    <3>1. UNCHANGED <<streams, old, xold, aold, dfree>>
      BY <1>1, <2>1 DEF DEnter, xVars, aVars
    <3>2. PICK pc \in {"idle", "drop", "leave", "prep", "retry", "start"} :
            OwnLists' /\ dpc' = [dpc EXCEPT ![s] = pc]
      BY <2>1, <3>1, LoopOwn
    <3>3. OwnPcs'
      BY <1>1, <2>1, <3>1, <3>2 DEF DEnter, xVars, aVars, boundVars, OwnInv,
         OwnPcs, FreeingWhere, ExposerHolds, OneExposer, SourceOff,
         FreeingCall, TypeInv, TypeOK
    <3> QED
      BY <3>2, <3>3
  <2>2. CASE /\ dfree' = [dfree EXCEPT ![s] = old] /\ old' = {}
             /\ dpc' = [dpc EXCEPT ![s] = "free"] /\ manifest' = Dt(s)
             /\ UNCHANGED <<lastRet, task, src, period, prepared, next, free,
                            doBlock, handleEos>>
    <3>1. dfree[s] = {}
      BY <1>1 DEF DEnter, OwnInv, OwnPcs, FreeingWhere
    <3>2. OwnLists'
      BY <1>1, <2>2, <3>1 DEF DEnter, xVars, aVars, OwnInv, OwnLists, Apart,
         TaskLists, Total, InLists, TypeInv, TypeOK
    <3>3. OwnPcs'
      BY <1>1, <2>2 DEF DEnter, xVars, aVars, OwnInv, OwnPcs, FreeingWhere,
         ExposerHolds, OneExposer, SourceOff, FreeingCall, TypeInv, TypeOK
    <3> QED
      BY <3>2, <3>3
  <2> QED
    BY <1>1, <2>1, <2>2 DEF DEnter
<1>2. CASE DFreeNext(s)
  <2>1. CASE DCancelled(s) \/ DBody(s)
    <3>1. UNCHANGED <<streams, old, xold, aold, dfree>>
      BY <1>2, <2>1 DEF DFreeNext, DCancelled, DBody, DEosResult, EndOfManifest, xVars, aVars, boundVars
    <3>2. PICK pc \in {"idle", "drop", "leave", "prep", "retry", "start"} :
            OwnLists' /\ dpc' = [dpc EXCEPT ![s] = pc]
      BY <2>1, <3>1, LoopOwn
    <3>3. OwnPcs'
      BY <1>2, <2>1, <3>1, <3>2 DEF DFreeNext, xVars, aVars, boundVars,
         OwnInv, OwnPcs, FreeingWhere, ExposerHolds, OneExposer, SourceOff,
         FreeingCall, TypeInv, TypeOK
    <3> QED
      BY <3>2, <3>3
  <2>2. CASE ~(DCancelled(s) \/ DBody(s))
    <3>1. OwnLists'
      BY <1>2, <2>2 DEF DFreeNext, xVars, aVars, boundVars, OwnInv, OwnPcs,
         FreeingWhere, OwnLists, Apart, TaskLists, Total, InLists, TypeInv,
         TypeOK
    <3>2. OwnPcs'
      BY <1>2, <2>2 DEF DFreeNext, xVars, aVars, boundVars, OwnInv, OwnPcs,
         FreeingWhere, ExposerHolds, OneExposer, SourceOff, FreeingCall,
         TypeInv, TypeOK
    <3> QED
      BY <3>1, <3>2
  <2> QED
    BY <2>1, <2>2
<1>3. CASE DFreeJoin(s)
  <2>1. OwnLists'
    BY <1>3, SameLists DEF DFreeJoin, lockVars, listVars, flagVars, demuxVars,
       xVars, aVars, boundVars, OwnInv
  <2>2. OwnPcs'
    BY <1>3 DEF DFreeJoin, lockVars, listVars, flagVars, demuxVars, xVars,
       aVars, boundVars, OwnInv, OwnPcs, FreeingWhere, ExposerHolds,
       OneExposer, SourceOff, FreeingCall, TypeInv, TypeOK
  <2> QED
    BY <2>1, <2>2
<1>4. CASE DFreeSrc(s)
  <2>1. OwnLists'
    BY <1>4 DEF DFreeSrc, Forget, FreshFields, InChain, ChainPcs, demuxVars,
       xVars, aVars, boundVars, OwnInv, OwnPcs, FreeingWhere, OneExposer,
       FreeingCall, OwnLists, Apart, TaskLists, Total, InLists, TypeInv,
       TypeOK, FreeingOwn
  <2>2. OwnPcs'
    BY <1>4 DEF DFreeSrc, Forget, FreshFields, InChain, ChainPcs, demuxVars,
       xVars, aVars, boundVars, OwnInv, OwnPcs, FreeingWhere, ExposerHolds,
       OneExposer, SourceOff, FreeingCall, TypeInv, TypeOK
  <2> QED
    BY <2>1, <2>2
<1>5. CASE DPrep(s)
  <2>1. OwnLists'
    BY <1>5, SameLists DEF DPrep, InChain, ChainPcs, lockVars, listVars,
       flagVars, demuxVars, xVars, aVars, boundVars, OwnInv
  <2>2. OwnPcs'
    BY <1>5 DEF DPrep, InChain, ChainPcs, lockVars, listVars, flagVars,
       demuxVars, xVars, aVars, boundVars, OwnInv, OwnPcs, FreeingWhere,
       ExposerHolds, OneExposer, SourceOff, FreeingCall, TypeInv, TypeOK
  <2> QED
    BY <2>1, <2>2
<1>6. CASE DReset(s)
  <2>1. OwnLists'
    BY <1>6, SameLists DEF DReset, lockVars, listVars, demuxVars, xVars,
       aVars, boundVars, OwnInv
  <2>2. OwnPcs'
    BY <1>6 DEF DReset, lockVars, listVars, demuxVars, xVars, aVars,
       boundVars, OwnInv, OwnPcs, FreeingWhere, ExposerHolds, OneExposer,
       SourceOff, FreeingCall, TypeInv, TypeOK
  <2> QED
    BY <2>1, <2>2
<1>7. CASE DSync(s)
  <2>1. OwnLists'
    BY <1>7, SameLists DEF DSync, lockVars, listVars, flagVars, demuxVars,
       xVars, aVars, boundVars, OwnInv
  <2>2. OwnPcs'
    BY <1>7 DEF DSync, lockVars, listVars, flagVars, demuxVars, xVars, aVars,
       boundVars, OwnInv, OwnPcs, FreeingWhere, ExposerHolds, OneExposer,
       SourceOff, FreeingCall, TypeInv, TypeOK
  <2> QED
    BY <2>1, <2>2
<1>8. CASE DWait(s)
  <2>1. OwnLists'
    BY <1>8, SameLists DEF DWait, lockVars, listVars, demuxVars, xVars, aVars,
       boundVars, OwnInv
  <2>2. OwnPcs'
    BY <1>8 DEF DWait, lockVars, listVars, demuxVars, xVars, aVars, boundVars,
       OwnInv, OwnPcs, FreeingWhere, ExposerHolds, OneExposer, SourceOff,
       FreeingCall, TypeInv, TypeOK
  <2> QED
    BY <2>1, <2>2
<1>9. CASE DReady(s)
  <2>1. OwnLists'
    BY <1>9, SameLists DEF DReady, InChain, ChainPcs, lockVars, listVars,
       flagVars, demuxVars, xVars, aVars, boundVars, OwnInv
  <2>2. OwnPcs'
    BY <1>9 DEF DReady, InChain, ChainPcs, lockVars, listVars, flagVars,
       demuxVars, xVars, aVars, boundVars, OwnInv, OwnPcs, FreeingWhere,
       ExposerHolds, OneExposer, SourceOff, FreeingCall, TypeInv, TypeOK
  <2> QED
    BY <2>1, <2>2
<1>10. CASE DResult(s)
  <2>1. CASE DCancelled(s) \/ DEosResult(s, lastRet) \/ DErrorResult(s)
    <3>1. UNCHANGED <<streams, old, xold, aold, dfree>>
      BY <1>10, <2>1 DEF DResult, xVars, aVars, boundVars
    <3>2. PICK pc \in {"idle", "drop", "leave", "prep", "retry", "start"} :
            OwnLists' /\ dpc' = [dpc EXCEPT ![s] = pc]
      BY <2>1, <3>1, LoopOwn
    <3>3. OwnPcs'
      BY <1>10, <2>1, <3>1, <3>2 DEF DResult, xVars, aVars, boundVars, OwnInv,
         OwnPcs, FreeingWhere, ExposerHolds, OneExposer, SourceOff,
         FreeingCall, TypeInv, TypeOK
    <3> QED
      BY <3>2, <3>3
  <2>2. CASE ~(DCancelled(s) \/ DEosResult(s, lastRet) \/ DErrorResult(s))
    <3>1. OwnLists'
      BY <1>10, <2>2 DEF DResult, xVars, aVars, boundVars, OwnInv, OwnPcs,
         FreeingWhere, OwnLists, Apart, TaskLists, Total, InLists, TypeInv,
         TypeOK
    <3>2. OwnPcs'
      BY <1>10, <2>2 DEF DResult, xVars, aVars, boundVars, OwnInv, OwnPcs,
         FreeingWhere, ExposerHolds, OneExposer, SourceOff, FreeingCall,
         TypeInv, TypeOK
    <3> QED
      BY <3>1, <3>2
  <2> QED
    BY <2>1, <2>2
<1>11. CASE DRetry(s)
  <2>1. OwnLists'
    BY <1>11, SameLists DEF DRetry, lockVars, listVars, demuxVars, xVars,
       aVars, boundVars, OwnInv
  <2>2. OwnPcs'
    BY <1>11 DEF DRetry, lockVars, listVars, demuxVars, xVars, aVars,
       boundVars, OwnInv, OwnPcs, FreeingWhere, ExposerHolds, OneExposer,
       SourceOff, FreeingCall, TypeInv, TypeOK
  <2> QED
    BY <2>1, <2>2
<1>12. CASE DLeave(s)
  <2>1. OwnLists'
    BY <1>12, SameLists DEF DLeave, InChain, ChainPcs, lockVars, listVars,
       flagVars, demuxVars, xVars, aVars, boundVars, OwnInv
  <2>2. OwnPcs'
    BY <1>12 DEF DLeave, InChain, ChainPcs, lockVars, listVars, flagVars,
       demuxVars, xVars, aVars, boundVars, OwnInv, OwnPcs, FreeingWhere,
       ExposerHolds, OneExposer, SourceOff, FreeingCall, TypeInv, TypeOK
  <2> QED
    BY <2>1, <2>2
<1>13. CASE DStart(s)
  <2>1. OwnLists'
    BY <1>13, SameLists DEF DStart, StartTasks, listVars, xVars, aVars,
       boundVars, OwnInv
  <2>2. OwnPcs'
    BY <1>13 DEF DStart, StartTasks, listVars, xVars, aVars, boundVars,
       OwnInv, OwnPcs, FreeingWhere, ExposerHolds, OneExposer, SourceOff,
       FreeingCall, TypeInv, TypeOK
  <2> QED
    BY <2>1, <2>2
<1> QED
  BY <1>1, <1>2, <1>3, <1>4, <1>5, <1>6, <1>7, <1>8, <1>9, <1>10, <1>11,
     <1>12, <1>13 DEF DStep

LEMMA SStepOwn ==
  ASSUME OwnInv, NEW s \in Streams, SStep(s)
  PROVE  OwnLists' /\ OwnPcs'
<1>1. CASE SChain(s)
  <2>1. OwnLists'
    BY <1>1, SameLists DEF SChain, listVars, demuxVars, dVars, xVars, aVars,
       boundVars, OwnInv
  <2>2. OwnPcs'
    BY <1>1 DEF SChain, listVars, demuxVars, dVars, xVars, aVars, boundVars,
       OwnInv, OwnPcs, FreeingWhere, ExposerHolds, OneExposer, SourceOff,
       FreeingCall, TypeInv, TypeOK
  <2> QED
    BY <2>1, <2>2
<1>2. CASE SPreroll(s)
  <2>1. xold = {} /\ \A t \in Streams : spc[t] \notin {"expose", "exposeOld", "prCheck"}
    BY <1>2, ConstantsAssumption DEF SPreroll, OwnInv, OwnPcs, OneExposer, ExposerHolds
  <2>2. OwnLists'
    BY <1>2, <2>1 DEF SPreroll, dVars, aVars, OwnInv, OwnLists, Apart,
       TaskLists, Total, InLists, TypeInv, TypeOK
  <2>3. /\ \A t \in Streams \ {s} : spc'[t] \in {spc[t], "prWoken"}
        /\ spc'[s] = IF pending = 1 /\ prepared # {} THEN "expose" ELSE "prCheck"
    BY <1>2 DEF SPreroll, Broadcast, OwnInv, TypeInv, TypeOK
  <2>4. FreeingWhere' /\ ExposerHolds' /\ OneExposer' /\ FreeingCall'
    BY <1>2, <2>1, <2>3 DEF SPreroll, dVars, aVars, OwnInv, OwnPcs,
       FreeingWhere, ExposerHolds, OneExposer, SourceOff, FreeingCall,
       TypeInv, TypeOK
  <2>5. SourceOff'
    <3>1. \A t \in Streams \ {s} : spc[t] = "off" => spc'[t] = "off"
      BY <1>2 DEF SPreroll, Broadcast, OwnInv, TypeInv, TypeOK
    <3> QED
      BY <1>2, <3>1 DEF SPreroll, dVars, OwnInv, OwnPcs, SourceOff
  <2> QED
    BY <2>2, <2>4, <2>5 DEF OwnPcs
<1>3. CASE SExpose(s)
  <2>1. preroll = s /\ preroll' = s
    BY <1>3 DEF SExpose, lockVars, OwnInv, OwnPcs, ExposerHolds
  <2>2. CASE ExposeDone(s)
    <3>1. OwnLists'
      BY <1>3, <2>2 DEF SExpose, ExposeDone, dVars, aVars, demuxVars, OwnInv,
         OwnLists, Apart, TaskLists, Total, InLists, TypeInv, TypeOK
    <3>2. /\ \A t \in Streams \ {s} : spc'[t] = spc[t] \/ (spc[t] = "prWait" /\ spc'[t] = "prWoken")
          /\ spc'[s] = "prCheck" /\ xold' = {}
      BY <2>2 DEF ExposeDone, Broadcast, OwnInv, TypeInv, TypeOK
    <3>3. UNCHANGED <<dpc, dfree, preroll, aVars>>
      BY <1>3 DEF SExpose, dVars, lockVars
    <3>4. OwnPcs'
      BY <1>3, <2>1, <3>2, <3>3 DEF SExpose, aVars, OwnInv, OwnPcs,
         FreeingWhere, ExposerHolds, OneExposer, SourceOff, FreeingCall,
         TypeInv, TypeOK
    <3> QED
      BY <3>1, <3>4
  <2>3. CASE ~ExposeDone(s)
    <3>1. /\ spc' = [spc EXCEPT ![s] = "exposeOld"]
          /\ UNCHANGED <<old, xold, dfree, dpc, aVars, streams, prepared, next, free>>
      BY <1>3, <2>3 DEF SExpose, dVars
    <3>2. OwnLists'
      BY <3>1, SameLists DEF aVars, OwnInv
    <3>3. OwnPcs'
      BY <1>3, <2>1, <3>1 DEF SExpose, aVars, OwnInv, OwnPcs, FreeingWhere,
         ExposerHolds, OneExposer, SourceOff, FreeingCall, TypeInv, TypeOK
    <3> QED
      BY <3>2, <3>3
  <2> QED
    BY <1>3, <2>2, <2>3 DEF SExpose
<1>4. CASE SExposeOld(s)
  <2>1. preroll = s /\ preroll' = s
    BY <1>4 DEF SExposeOld, lockVars, OwnInv, OwnPcs, ExposerHolds
  <2>2. CASE ExposeDone(s)
    <3>1. OwnLists'
      BY <1>4, <2>2 DEF SExposeOld, ExposeDone, dVars, aVars, demuxVars,
         OwnInv, OwnLists, Apart, TaskLists, Total, InLists, TypeInv, TypeOK
    <3>2. /\ \A t \in Streams \ {s} : spc'[t] = spc[t] \/ (spc[t] = "prWait" /\ spc'[t] = "prWoken")
          /\ spc'[s] = "prCheck" /\ xold' = {}
      BY <2>2 DEF ExposeDone, Broadcast, OwnInv, TypeInv, TypeOK
    <3>3. UNCHANGED <<dpc, dfree, preroll, aVars>>
      BY <1>4 DEF SExposeOld, dVars, lockVars
    <3>4. OwnPcs'
      BY <1>4, <2>1, <3>2, <3>3 DEF SExposeOld, aVars, OwnInv, OwnPcs,
         FreeingWhere, ExposerHolds, OneExposer, SourceOff, FreeingCall,
         TypeInv, TypeOK
    <3> QED
      BY <3>1, <3>4
  <2>3. CASE UNCHANGED <<old, xold, doBlock, spc>>
    <3>1. OwnLists'
      BY <1>4, <2>3, SameLists DEF SExposeOld, dVars, aVars, demuxVars, OwnInv
    <3>2. OwnPcs'
      BY <1>4, <2>1, <2>3 DEF SExposeOld, dVars, aVars, OwnInv, OwnPcs,
         FreeingWhere, ExposerHolds, OneExposer, SourceOff, FreeingCall,
         TypeInv, TypeOK
    <3> QED
      BY <3>1, <3>2
  <2> QED
    BY <1>4, <2>2, <2>3 DEF SExposeOld
<1>5. CASE SPrerollCheck(s)
  <2>1. OwnLists'
    BY <1>5, SameLists DEF SPrerollCheck, listVars, flagVars, demuxVars,
       dVars, xVars, aVars, boundVars, OwnInv
  <2>2. OwnPcs'
    BY <1>5 DEF SPrerollCheck, listVars, flagVars, demuxVars, dVars, xVars,
       aVars, boundVars, OwnInv, OwnPcs, FreeingWhere, ExposerHolds,
       OneExposer, SourceOff, FreeingCall, TypeInv, TypeOK
  <2> QED
    BY <2>1, <2>2
<1>6. CASE SRelock(s)
  <2>1. OwnLists'
    BY <1>6, SameLists DEF SRelock, lockVars, listVars, flagVars, demuxVars,
       dVars, xVars, aVars, boundVars, OwnInv
  <2>2. OwnPcs'
    BY <1>6 DEF SRelock, lockVars, listVars, flagVars, demuxVars, dVars,
       xVars, aVars, boundVars, OwnInv, OwnPcs, FreeingWhere, ExposerHolds,
       OneExposer, SourceOff, FreeingCall, TypeInv, TypeOK
  <2> QED
    BY <2>1, <2>2
<1>7. CASE SPushed(s)
  <2>1. OwnLists'
    BY <1>7, SameLists DEF SPushed, lockVars, listVars, demuxVars, dVars,
       xVars, aVars, boundVars, OwnInv
  <2>2. OwnPcs'
    BY <1>7 DEF SPushed, lockVars, listVars, demuxVars, dVars, xVars, aVars,
       boundVars, OwnInv, OwnPcs, FreeingWhere, ExposerHolds, OneExposer,
       SourceOff, FreeingCall, TypeInv, TypeOK
  <2> QED
    BY <2>1, <2>2
<1>8. CASE SEos(s)
  <2>1. OwnLists'
    BY <1>8, SameLists DEF SEos, lockVars, listVars, demuxVars, dVars, xVars,
       aVars, boundVars, OwnInv
  <2>2. OwnPcs'
    BY <1>8 DEF SEos, lockVars, listVars, demuxVars, dVars, xVars, aVars,
       boundVars, OwnInv, OwnPcs, FreeingWhere, ExposerHolds, OneExposer,
       SourceOff, FreeingCall, TypeInv, TypeOK
  <2> QED
    BY <2>1, <2>2
<1> QED
  BY <1>1, <1>2, <1>3, <1>4, <1>5, <1>6, <1>7, <1>8 DEF SStep

LEMMA AStepOwn ==
  ASSUME OwnInv, AStep
  PROVE  OwnLists' /\ OwnPcs'
<1>1. CASE AStop
  <2>1. OwnLists'
    BY <1>1 DEF AStop, TakeOld, lockVars, dVars, xVars, boundVars, OwnInv,
       OwnPcs, FreeingWhere, OneExposer, FreeingCall, OwnLists, Apart,
       TaskLists, Total, InLists, TypeInv, TypeOK, FreeingOwn
  <2>2. OwnPcs'
    BY <1>1 DEF AStop, TakeOld, lockVars, dVars, xVars, boundVars, OwnInv,
       OwnPcs, FreeingWhere, ExposerHolds, OneExposer, SourceOff, FreeingCall,
       TypeInv, TypeOK
  <2> QED
    BY <2>1, <2>2
<1>2. CASE ABroadcast
  <2>1. OwnLists'
    BY <1>2, SameLists DEF ABroadcast, Broadcast, lockVars, listVars,
       flagVars, demuxVars, dVars, xVars, boundVars, OwnInv
  <2>2. OwnPcs'
    BY <1>2 DEF ABroadcast, Broadcast, lockVars, listVars, flagVars,
       demuxVars, dVars, xVars, boundVars, OwnInv, OwnPcs, FreeingWhere,
       ExposerHolds, OneExposer, SourceOff, FreeingCall, TypeInv, TypeOK
  <2> QED
    BY <2>1, <2>2
<1>3. CASE AList
  <2>1. OwnLists'
    BY <1>3, SameLists DEF AList, lockVars, listVars, flagVars, demuxVars,
       dVars, xVars, boundVars, OwnInv
  <2>2. OwnPcs'
    BY <1>3 DEF AList, lockVars, listVars, flagVars, demuxVars, dVars, xVars,
       boundVars, OwnInv, OwnPcs, FreeingWhere, ExposerHolds, OneExposer,
       SourceOff, FreeingCall, TypeInv, TypeOK
  <2> QED
    BY <2>1, <2>2
<1>4. CASE AStopSrc
  <2>1. OwnLists'
    BY <1>4, SameLists DEF AStopSrc, InChain, ChainPcs, lockVars, listVars,
       flagVars, demuxVars, dVars, xVars, boundVars, OwnInv
  <2>2. OwnPcs'
    BY <1>4 DEF AStopSrc, InChain, ChainPcs, lockVars, listVars, flagVars,
       demuxVars, dVars, xVars, boundVars, OwnInv, OwnPcs, FreeingWhere,
       ExposerHolds, OneExposer, SourceOff, FreeingCall, TypeInv, TypeOK
  <2> QED
    BY <2>1, <2>2
<1>5. CASE AJoin
  <2>1. OwnLists'
    BY <1>5, SameLists DEF AJoin, lockVars, listVars, flagVars, demuxVars,
       dVars, xVars, boundVars, OwnInv
  <2>2. OwnPcs'
    BY <1>5 DEF AJoin, lockVars, listVars, flagVars, demuxVars, dVars, xVars,
       boundVars, OwnInv, OwnPcs, FreeingWhere, ExposerHolds, OneExposer,
       SourceOff, FreeingCall, TypeInv, TypeOK
  <2> QED
    BY <2>1, <2>2
<1>6. CASE ASeekBody
  <2>1. OwnLists'
    <3>1. CASE UNCHANGED <<period, prepared, next, free, old, doBlock, handleEos>>
      BY <1>6, <3>1, SameLists DEF ASeekBody, dVars, xVars, OwnInv
    <3>2. CASE \E p \in 1..Periods : \E new \in NewStreams(p) :
                 /\ period' = p /\ PrepareStreams(new, prepared \ Displaced, handleEos)
                 /\ old' = old \cup Displaced
      <4>1. PICK p \in 1..Periods : \E new \in NewStreams(p) :
               PrepareStreams(new, {}, handleEos) /\ old' = old \cup prepared
        BY <3>2 DEF Displaced
      <4>2. PICK new \in NewStreams(p) :
               PrepareStreams(new, {}, handleEos) /\ old' = old \cup prepared
        BY <4>1
      <4>3. new \subseteq free
        BY NewStreamsType DEF OwnInv, TypeInv, TypeOK
      <4> QED
        BY <1>6, <4>2, <4>3 DEF ASeekBody, PrepareStreams, dVars, xVars,
           OwnInv, OwnLists, Apart, TaskLists, Total, InLists, TypeInv, TypeOK
    <3> QED
      BY <1>6, <3>1, <3>2 DEF ASeekBody
  <2>2. OwnPcs'
    BY <1>6, ConstantsAssumption DEF ASeekBody, dVars, xVars, ResetKinds,
       OwnInv, OwnPcs, FreeingWhere, ExposerHolds, OneExposer, SourceOff,
       FreeingCall, TypeInv, TypeOK
  <2> QED
    BY <2>1, <2>2
<1>7. CASE AStart
  <2>1. OwnLists'
    BY <1>7, SameLists DEF AStart, StartTasks, listVars, dVars, xVars,
       boundVars, OwnInv
  <2>2. OwnPcs'
    BY <1>7 DEF AStart, StartTasks, listVars, dVars, xVars, boundVars, OwnInv,
       OwnPcs, FreeingWhere, ExposerHolds, OneExposer, SourceOff, FreeingCall,
       TypeInv, TypeOK
  <2> QED
    BY <2>1, <2>2
<1>8. CASE AReset
  <2>1. OwnLists'
    BY <1>8, SameLists DEF AReset, listVars, flagVars, demuxVars, dVars,
       xVars, boundVars, OwnInv
  <2>2. OwnPcs'
    BY <1>8 DEF AReset, listVars, flagVars, demuxVars, dVars, xVars,
       boundVars, OwnInv, OwnPcs, FreeingWhere, ExposerHolds, OneExposer,
       SourceOff, FreeingCall, TypeInv, TypeOK
  <2> QED
    BY <2>1, <2>2
<1>9. CASE AFreeNext
  <2>1. OwnLists'
    BY <1>9, SameLists DEF AFreeNext, listVars, demuxVars, dVars, xVars,
       boundVars, OwnInv
  <2>2. OwnPcs'
    BY <1>9 DEF AFreeNext, listVars, demuxVars, dVars, xVars, boundVars,
       OwnInv, OwnPcs, FreeingWhere, ExposerHolds, OneExposer, SourceOff,
       FreeingCall, TypeInv, TypeOK
  <2> QED
    BY <2>1, <2>2
<1>10. CASE AFreeJoin
  <2>1. OwnLists'
    BY <1>10, SameLists DEF AFreeJoin, lockVars, listVars, flagVars,
       demuxVars, dVars, xVars, boundVars, OwnInv
  <2>2. OwnPcs'
    BY <1>10 DEF AFreeJoin, lockVars, listVars, flagVars, demuxVars, dVars,
       xVars, boundVars, OwnInv, OwnPcs, FreeingWhere, ExposerHolds,
       OneExposer, SourceOff, FreeingCall, TypeInv, TypeOK
  <2> QED
    BY <2>1, <2>2
<1>11. CASE AFreeSrc
  <2>1. OwnLists'
    BY <1>11, SameLists DEF AFreeSrc, Forget, FreshFields, InChain, ChainPcs,
       listVars, demuxVars, dVars, xVars, boundVars, OwnInv
  <2>2. OwnPcs'
    BY <1>11 DEF AFreeSrc, Forget, FreshFields, InChain, ChainPcs, listVars,
       demuxVars, dVars, xVars, boundVars, OwnInv, OwnPcs, FreeingWhere,
       ExposerHolds, OneExposer, SourceOff, FreeingCall, TypeInv, TypeOK
  <2> QED
    BY <2>1, <2>2
<1>12. CASE AFreeList
  <2>1. OwnLists'
    BY <1>12 DEF AFreeList, ResetList, LastList, flagVars, dVars, xVars,
       boundVars, OwnInv, OwnPcs, FreeingWhere, OneExposer, FreeingCall,
       OwnLists, Apart, TaskLists, Total, InLists, TypeInv, TypeOK, FreeingOwn
  <2>2. OwnPcs'
    BY <1>12 DEF AFreeList, ResetList, LastList, flagVars, dVars, xVars,
       boundVars, OwnInv, OwnPcs, FreeingWhere, ExposerHolds, OneExposer,
       SourceOff, FreeingCall, TypeInv, TypeOK
  <2> QED
    BY <2>1, <2>2
<1> QED
  BY <1>1, <1>2, <1>3, <1>4, <1>5, <1>6, <1>7, <1>8, <1>9, <1>10, <1>11, <1>12
     DEF AStep

LEMMA CallOwn ==
  ASSUME OwnInv,
         ASinkEos \/ \E kind \in SeekKinds \cup ResetKinds : ACall(kind)
  PROVE  OwnLists' /\ OwnPcs'
<1>1. CASE ASinkEos
  <2>1. OwnLists'
    <3>1. prepared = {} /\ UNCHANGED <<streams, old, xold, aold, dfree>>
      BY <1>1 DEF ASinkEos, dVars, xVars
    <3>2. \E new \in NewStreams(1) : PrepareStreams(new, prepared, handleEos)
      BY <1>1, <3>1 DEF ASinkEos
    <3> QED
      BY <3>1, <3>2, PrepareOwn DEF OwnInv, TypeInv
  <2>2. OwnPcs'
    BY <1>1 DEF ASinkEos, dVars, xVars, OwnInv, OwnPcs, FreeingWhere, ExposerHolds,
       OneExposer, SourceOff, FreeingCall
  <2> QED
    BY <2>1, <2>2
<1>2. CASE \E kind \in SeekKinds \cup ResetKinds : ACall(kind)
  <2>1. OwnLists'
    BY <1>2, SameLists DEF ACall, listVars, xVars, dVars, OwnInv
  <2>2. OwnPcs'
    BY <1>2 DEF ACall, lockVars, xVars, dVars, OwnInv, OwnPcs, FreeingWhere,
       ExposerHolds, OneExposer, SourceOff, FreeingCall, TypeInv, TypeOK
  <2> QED
    BY <2>1, <2>2
<1> QED
  BY <1>1, <1>2

LEMMA NextOwn == OwnInv /\ [Next]_vars => OwnInv'
<1> SUFFICES ASSUME OwnInv, [Next]_vars PROVE OwnLists' /\ OwnPcs'
  BY NextType DEF OwnInv
<1>1. CASE UNCHANGED vars \/ AtRest \/ \E s \in Streams : SourceError(s)
  <2>1. UNCHANGED <<listVars, xVars, aVars, dVars, spc, preroll>>
    BY <1>1 DEF AtRest, SourceError, vars, lockVars
  <2>2. OwnLists'
    BY <2>1, SameLists DEF listVars, xVars, aVars, dVars, OwnInv
  <2>3. OwnPcs'
    BY <2>1 DEF xVars, aVars, dVars, OwnInv, OwnPcs, FreeingWhere, ExposerHolds,
       OneExposer, SourceOff, FreeingCall
  <2> QED
    BY <2>2, <2>3
<1>2. CASE ASinkEos \/ \E kind \in SeekKinds \cup ResetKinds : ACall(kind)
  BY <1>2, CallOwn
<1>3. CASE AStep
  BY <1>3, AStepOwn
<1>4. CASE \E s \in Streams : DStep(s) \/ SStep(s)
  BY <1>4, DStepOwn, SStepOwn
<1> QED
  BY <1>1, <1>2, <1>3, <1>4 DEF Next

LEMMA OwnIsOneOwner == OwnInv => OneOwner
<1> SUFFICES ASSUME OwnInv PROVE OneOwner
  OBVIOUS
<1>1. /\ Lists[1] = streams /\ Lists[2] = prepared /\ Lists[3] = old /\ Lists[4] = next
      /\ Lists[5] = free /\ Lists[6] = xold /\ Lists[7] = aold
  BY DEF Lists
<1>2. \A i \in 1..7 : \/ i = 1 \/ i = 2 \/ i = 3 \/ i = 4 \/ i = 5 \/ i = 6 \/ i = 7
  OBVIOUS
<1>3. \A i, j \in 1..7 : i < j => Lists[i] \cap Lists[j] = {}
  BY <1>1, <1>2 DEF OwnInv, OwnLists, Apart
<1>4. \A i, j \in 1..7 : i # j => Lists[i] \cap Lists[j] = {}
  BY <1>3
<1>5. UNION {Lists[i] : i \in 1..7} = InLists
  BY <1>1, <1>2 DEF InLists
<1>6. \A d \in Streams : /\ \A i \in 1..7 : Lists[i] \cap dfree[d] = {}
                         /\ \A e \in Streams \ {d} : dfree[d] \cap dfree[e] = {}
  BY <1>5 DEF OwnInv, OwnLists, TaskLists
<1>7. Streams = (UNION {Lists[i] : i \in 1..7}) \cup (UNION {dfree[d] : d \in Streams})
  <2>1. InLists \subseteq Streams /\ \A d \in Streams : dfree[d] \subseteq Streams
    BY DEF OwnInv, InLists, TypeInv, TypeOK
  <2>2. \A s \in Streams : s \in InLists \/ s \in UNION {dfree[d] : d \in Streams}
    BY DEF OwnInv, OwnLists, Total
  <2>3. UNION {dfree[d] : d \in Streams} \subseteq Streams
    BY <2>1
  <2>4. Streams = InLists \cup (UNION {dfree[d] : d \in Streams})
    BY <2>1, <2>2, <2>3
  <2> QED
    BY <1>5, <2>4
<1> QED
  BY <1>4, <1>6, <1>7 DEF OneOwner

(* A stream is in one list, or in the list one thread is freeing, whatever  *)
(* the threads and the calls do and wherever they are interrupted.          *)
THEOREM SingleOwner == Spec => []OneOwner
<1>1. Init => OwnInv
  BY InitOwn
<1>2. OwnInv /\ [Next]_vars => OwnInv'
  BY NextOwn
<1> QED
  BY <1>1, <1>2, OwnIsOneOwner, PTL DEF Spec

-----------------------------------------------------------------------------
(* What is at rest when a call or a thread frees, replaces or restarts      *)
(* streams, and who waits in preroll: provided a stream has a buffer before *)
(* it ends (NoEmpty).                                                       *)
NoEmpty == "empty" \notin Faults

-----------------------------------------------------------------------------
(* The inductive invariant.                                                 *)

FreePcs == {"free", "freeJoin", "freeSrc"}

(* stop_tasks has stopped the listed streams, and the call is not over.     *)
Stopping == \/ apc \in FreePcs
            \/ apc \in {"bcast", "list", "join", "wait"} /\ akind # "keep"

(* An S is in expose_streams.                                               *)
Exposing == preroll \in Streams /\ spc[preroll] \in {"expose", "exposeOld"}

(* Nothing has happened to an object since stream_new, or since it was      *)
(* freed.                                                                   *)
Fresh ==
  \A s \in next \cup Dead :
    /\ dpc[s] = "idle" /\ task[s] = "stopped" /\ spc[s] = "off"
    /\ ~cancelled[s] /\ ~doBlock[s] /\ lastRet[s] # "EOS"

(* A task that runs belongs to a stream that is listed, or whose pad is     *)
(* being replaced.                                                          *)
Started ==
  \A s \in Streams : task[s] = "started" => s \in streams \cup prepared \cup xold

(* Who holds manifest_lock between two actions, and what it protects.       *)
Holders ==
  /\ \A s \in Streams : dpc[s] \in {"free", "start"} => manifest = Dt(s)
  /\ apc \in {"start", "free"} => manifest = Api
  /\ \A s \in Streams : spc[s] = "prNeed" =>
       manifest = St(s) /\ ~cancelled[s] /\ doBlock[s]
  /\ \A s \in Streams : dpc[s] = "start" => ~cancelled[s] /\ xold = {}

(* Which calls stop tasks, and when the demuxer does not run.               *)
Kinds ==
  /\ apc \in {"flush", "stop", "bcast", "list"} => akind # "keep"
  /\ ~running => /\ apc = "idle" \/ akind \in ResetKinds
                 /\ Stopping \/ streams \cup prepared = {}

(* The S in expose_streams: it exposes its own stream with the others, and  *)
(* the replaced streams it is done with are stopped.                        *)
Exposer ==
  /\ \A s \in Streams : spc[s] \in {"expose", "exposeOld"} =>
       s \in streams /\ doBlock[s] /\ prepared = {}
  /\ xtodo \subseteq xold
  /\ \A s \in Streams : spc[s] = "exposeOld" =>
       \A o \in xold \ xtodo : cancelled[o] /\ task[o] = "stopped"
  /\ xtodo # {} => preroll \in Streams /\ spc[preroll] = "exposeOld"

(* A stream in preroll has not come to the end of its period, and its S     *)
(* does not get past the preroll.                                           *)
Blocked ==
  \A s \in Streams : doBlock[s] =>
    /\ ~handleEos[s] /\ lastRet[s] # "EOS" /\ spc[s] \notin {"relock", "push"}
    /\ dpc[s] \in {"ready", "result"} => dret[s] # "EOS"

(* The streams in preroll are the prepared ones, or those being exposed.    *)
BlockedWhere ==
  /\ \A s \in streams : doBlock[s] => Exposing
  /\ \A s \in Streams : doBlock[s] /\ ~cancelled[s] => s \in streams \cup prepared
  /\ running => \A s \in prepared \ Dead : doBlock[s]
  /\ \A s \in xold : ~doBlock[s]

(* While a call stops the streams they stay stopped; those it has joined    *)
(* are at rest.                                                             *)
Halted == Stopping => \A s \in Listed \ Dead : cancelled[s] /\ task[s] = "stopped"
Joined ==
  /\ apc \in {"join", "wait"} /\ akind # "keep" =>
       \A s \in Listed \ atodo : dpc[s] = "idle" /\ ~InChain(s)
  /\ apc = "wait" /\ akind # "keep" =>
       /\ acur \in atodo
       /\ acur \in Listed => ~InChain(acur) \/ dpc[acur] = "drop"
  /\ apc \in FreePcs => \A s \in Listed \ Dead : dpc[s] = "idle" /\ ~InChain(s)

(* What a reset frees: list by list, and each stream after its task.        *)
FreeApi ==
  /\ apc \in FreePcs => atodo \subseteq ResetList(aphase)
  /\ apc \in {"freeJoin", "freeSrc"} => acur \in atodo
  /\ apc = "freeSrc" => dpc[acur] = "idle"
  /\ aphase >= 2 => streams = {}
  /\ aphase >= 3 => prepared = {}
  /\ aphase >= 4 => next = {}
  /\ aphase >= 5 => aold = {}

(* A D frees a stream after its task.                                       *)
FreeTask == \A s \in Streams : dpc[s] = "freeSrc" => dpc[dcur[s]] = "idle"

(* A source that runs is known to its stream, unless D is dropping it.      *)
Sourced ==
  apc \notin FreePcs =>
    \A s \in Listed : spc[s] # "off" /\ src[s] = "none" => dpc[s] = "drop"

(* The streams are not cancelled as long as no call stops them; the         *)
(* prepared ones are stopped together.                                      *)
Going ==
  (apc \in {"idle", "flush", "stop"} \/ akind = "keep") /\ running =>
    \A s \in ToStart : ~cancelled[s]
AllOrNone ==
  apc \notin FreePcs => \A s, t \in prepared : cancelled[s] => cancelled[t]

(* Between start_tasks and the exposure, preroll_pending counts at least    *)
(* the prepared streams that have not prerolled yet.                        *)
Waiting == {s \in prepared : spc[s] \notin {"prCheck", "prWait", "prWoken"}}
Prerolling ==
  /\ running /\ apc \notin FreePcs \cup {"start"}
  /\ \A d \in Streams : dpc[d] # "start"
  /\ prepared # {} /\ \A s \in prepared : ~cancelled[s]
Counted == Prerolling => Cardinality(Waiting) <= pending

RestParts ==
  /\ Fresh /\ OldStopped /\ Started /\ Holders /\ Kinds
  /\ Exposer /\ Blocked /\ BlockedWhere /\ NoLostWakeup
  /\ Halted /\ Joined /\ FreeApi /\ FreeTask /\ Sourced
  /\ Going /\ AllOrNone /\ Counted /\ ExposeOnlyPrerolled
RestInv == OwnInv /\ RestParts

-----------------------------------------------------------------------------
(* What the invariant says in states that the steps start from.             *)

(* The freed objects: between resets they are those not allocated.          *)
LEMMA DeadWhere ==
  ASSUME OwnInv
  PROVE  /\ Dead \subseteq Streams
         /\ apc \notin FreePcs => Dead = free
         /\ Dead \cap xold = {} /\ \A d \in Streams : Dead \cap dfree[d] = {}
         /\ aphase # 2 => Dead \cap prepared = {}
         /\ apc \in FreePcs => Dead = free \cup (ResetList(aphase) \ atodo)
<1>1. ResetList(aphase) \subseteq InLists /\ ResetList(aphase) \cap xold = {}
  BY DEF ResetList, InLists, OwnInv, OwnLists, Apart
<1>2. Dead \subseteq InLists /\ Dead \cap xold = {}
  BY <1>1 DEF Dead, InLists, OwnInv, OwnLists, Apart
<1>3. aphase # 2 => ResetList(aphase) \cap prepared = {}
  BY DEF ResetList, OwnInv, OwnLists, Apart
<1>4. aphase # 2 => Dead \cap prepared = {}
  BY <1>3 DEF Dead, OwnInv, OwnLists, Apart
<1>5. InLists \subseteq Streams
  BY DEF InLists, OwnInv, TypeInv, TypeOK
<1> QED
  BY <1>2, <1>4, <1>5 DEF Dead, FreePcs, OwnInv, OwnLists, TaskLists

LEMMA SameDead ==
  ASSUME UNCHANGED <<listVars, aVars>>
  PROVE  Dead' = Dead
BY DEF Dead, ResetList, listVars, aVars

(* A stream whose threads are active and that is not cancelled is listed or *)
(* is being replaced.                                                       *)
LEMMA ActiveWhere ==
  ASSUME RestInv, NEW s \in Streams, ~cancelled[s],
         dpc[s] # "idle" \/ task[s] = "started" \/ spc[s] # "off"
  PROVE  /\ s \in (streams \cup prepared \cup xold) \ Dead
         /\ s \in streams \cup prepared => ~Stopping
<1>1. s \notin next \cup Dead
  BY DEF RestInv, RestParts, Fresh
<1>2. s \notin old \cup aold /\ \A d \in Streams : s \notin dfree[d]
  BY <1>1 DEF RestInv, RestParts, OldStopped
<1>3. s \notin free
  BY <1>1 DEF Dead
<1>4. s \in streams \cup prepared \cup xold
  BY <1>1, <1>2, <1>3 DEF RestInv, OwnInv, OwnLists, Total, InLists
<1> QED
  BY <1>1, <1>4 DEF RestInv, RestParts, Halted, Listed

(* While pads are replaced, an exposed stream is still in preroll.          *)
LEMMA ReplacingExposes ==
  ASSUME RestInv, xold # {} \/ Exposing
  PROVE  /\ Exposing /\ apc \notin FreePcs
         /\ preroll \in streams /\ doBlock[preroll] /\ ~handleEos[preroll]
         /\ InChain(preroll) /\ prepared = {}
<1>1. Exposing
  BY DEF Exposing, RestInv, OwnInv, OwnPcs, OneExposer
<1>2. preroll \in streams /\ doBlock[preroll] /\ prepared = {} /\ InChain(preroll)
  BY <1>1 DEF Exposing, InChain, ChainPcs, RestInv, RestParts, Exposer
<1>3. ~handleEos[preroll]
  BY <1>1, <1>2 DEF Exposing, RestInv, RestParts, Blocked
<1>4. preroll \notin Dead
  BY <1>1 DEF Exposing, RestInv, RestParts, Fresh
<1>5. apc \notin FreePcs
  BY <1>2, <1>4 DEF RestInv, RestParts, Joined, Listed
<1> QED
  BY <1>1, <1>2, <1>3, <1>5

(* No pad is being replaced and no list freed while a call starts tasks,    *)
(* and the tasks are not being stopped.                                     *)
LEMMA StartAlone ==
  ASSUME RestInv, \/ apc = "start"
                  \/ \E d \in Streams : dpc[d] = "start"
  PROVE  ~Stopping /\ apc \notin FreePcs /\ Dead = free /\ Dead \cap Listed = {}
<1>1. CASE apc = "start"
  BY <1>1, DeadWhere DEF Stopping, FreePcs, RestInv, OwnInv, OwnLists, Apart, Listed
<1>2. CASE \E d \in Streams : dpc[d] = "start"
  <2>1. PICK d \in Streams : dpc[d] = "start"
    BY <1>2
  <2>2. ~cancelled[d] /\ xold = {}
    BY <2>1 DEF RestInv, RestParts, Holders
  <2>3. ~Stopping
    BY <2>1, <2>2, ActiveWhere
  <2> QED
    BY <2>3, DeadWhere DEF Stopping, FreePcs, RestInv, OwnInv, OwnLists, Apart, Listed
<1> QED
  BY <1>1, <1>2

(* The S that takes preroll_lock is that of a prepared stream, and nobody   *)
(* stops or starts tasks.                                                   *)
LEMMA PrerollAlone ==
  ASSUME RestInv, NEW s \in Streams, spc[s] = "prNeed", preroll = None
  PROVE  /\ s \in prepared /\ s \notin Dead /\ doBlock[s] /\ ~cancelled[s] 
         /\ ~Stopping /\ apc \notin FreePcs /\ xold = {} /\ xtodo = {}
         /\ Prerolling /\ \A t \in streams : ~doBlock[t]
         /\ \A t \in Streams : spc[t] \notin {"expose", "exposeOld", "prCheck"}
<1>1. ~cancelled[s] /\ doBlock[s] /\ manifest = St(s)
  BY DEF RestInv, RestParts, Holders
<1>2. ~Exposing /\ \A t \in Streams : spc[t] \notin {"expose", "exposeOld", "prCheck"}
  BY ConstantsAssumption DEF Exposing, RestInv, OwnInv, OwnPcs, ExposerHolds
<1>3. \A t \in streams : ~doBlock[t]
  BY <1>2 DEF RestInv, RestParts, BlockedWhere
<1>4. s \in prepared /\ xold = {} /\ xtodo = {}
  BY <1>1, <1>2, <1>3, ReplacingExposes DEF RestInv, RestParts, BlockedWhere, Exposer
<1>5. ~Stopping /\ s \notin Dead
  BY <1>1, <1>4, ActiveWhere
<1>6. apc \notin FreePcs
  BY <1>5 DEF Stopping
<1>7. running
  BY <1>4, <1>5 DEF RestInv, RestParts, Kinds
<1>8. apc # "start" /\ \A d \in Streams : dpc[d] # "start"
  BY <1>1 DEF RestInv, RestParts, Holders, St, Dt, Api
<1>9. \A t \in prepared : ~cancelled[t]
  BY <1>1, <1>4, <1>6 DEF RestInv, RestParts, AllOrNone
<1>10. Prerolling
  BY <1>4, <1>6, <1>7, <1>8, <1>9 DEF Prerolling
<1> QED
  BY <1>1, <1>2, <1>3, <1>4, <1>5, <1>6, <1>10

(* When the exposed streams have all ended, nobody stops tasks or replaces  *)
(* pads.                                                                    *)
LEMMA EndAlone ==
  ASSUME RestInv, NEW s \in Streams, ~cancelled[s], ~doBlock[s],
         dpc[s] # "idle" \/ task[s] = "started",
         NEW r, AllEos(r, [handleEos EXCEPT ![s] = TRUE])
  PROVE  /\ xold = {} /\ ~Exposing /\ ~Stopping /\ apc \notin FreePcs
         /\ running /\ Dead = free
<1>1. xold = {} /\ ~Exposing
  <2> SUFFICES ASSUME xold # {} \/ Exposing PROVE FALSE
    OBVIOUS
  <2>1. preroll \in streams /\ doBlock[preroll] /\ ~handleEos[preroll]
    BY ReplacingExposes
  <2> QED
    BY <2>1 DEF AllEos, RestInv, OwnInv, TypeInv, TypeOK
<1>2. ~Stopping
  BY <1>1, ActiveWhere
<1>3. running
  BY <1>2 DEF AllEos, RestInv, RestParts, Kinds
<1> QED
  BY <1>1, <1>2, <1>3, DeadWhere DEF Stopping, RestInv

(* The task of a stream that is about to be freed, by a reset or by a D,    *)
(* does not run, and is not asked to stop again.                            *)
LEMMA FreedStopped ==
  ASSUME RestInv
  PROVE  /\ apc \in FreePcs =>
              \A o \in atodo : o \in Streams \ Dead /\ task[o] = "stopped"
         /\ \A d \in Streams : \A o \in dfree[d] :
              o \in Streams \ Dead /\ task[o] = "stopped" /\ cancelled[o]
<1>1. ASSUME NEW d \in Streams, NEW o \in dfree[d]
      PROVE  o \in Streams \ Dead /\ task[o] = "stopped" /\ cancelled[o]
  BY DeadWhere DEF RestInv, RestParts, OldStopped, OwnInv, TypeInv, TypeOK
<1>2. ASSUME apc \in FreePcs, NEW o \in atodo
      PROVE  o \in Streams \ Dead /\ task[o] = "stopped"
  <2>1. o \in ResetList(aphase) /\ aphase \in 1..5
    BY <1>2 DEF FreePcs, RestInv, RestParts, FreeApi, OwnInv, OwnPcs, FreeingCall,
       TypeInv, TypeOK
  <2>2. \/ aphase = 1 /\ o \in streams
        \/ aphase = 2 /\ o \in prepared
        \/ aphase = 3 /\ o \in next
        \/ o \in old \cup aold
    BY <2>1 DEF ResetList
  <2>3. o \in Streams \ Dead
    BY <1>2, <2>2, DeadWhere DEF RestInv, OwnInv, OwnLists, Apart, TypeInv, TypeOK
  <2> QED
    BY <1>2, <2>2, <2>3 DEF RestInv, RestParts, Halted, Stopping, Listed, Fresh,
       OldStopped
<1> QED
  BY <1>1, <1>2

-----------------------------------------------------------------------------
(* The steps of D.                                                          *)

(* What an iteration of D leaves alone, wherever it stops.                  *)
loopVars == <<preroll, running, pending, streams, cancelled, finished, dret,
              spc, xVars, aVars, boundVars>>

(* It comes to its end, or is held up in the middle, in the period it began *)
(* in ...                                                                   *)
IterEnd(s) ==
  /\ dpc[s] \in {"idle", "free", "result"} /\ (dpc[s] # "idle" \/ task[s] = "started")
  /\ manifest \in {Free, Dt(s)}
  /\ \E pc \in {"idle", "drop", "leave", "prep", "retry"} :
       dpc' = [dpc EXCEPT ![s] = pc]
  /\ \E r \in Rets : /\ lastRet' = [lastRet EXCEPT ![s] = r]
                     /\ r = "EOS" => ~doBlock[s] \/ lastRet[s] = "EOS"
  /\ \E h \in BOOLEAN : /\ handleEos' = [handleEos EXCEPT ![s] = h]
                        /\ h => \/ handleEos[s]
                                \/ ~doBlock[s] /\ task'[s] = "stopped" /\ dpc'[s] = "idle"
  /\ \/ task' = task
     \/ task' = [task EXCEPT ![s] = "stopped"]
     \/ task' = SetAll(task, streams, "stopped")
  /\ \E e \in {"none", "ready", "playing"} :
       /\ src' = [src EXCEPT ![s] = e]
       /\ e = "none" => src[s] = "none" \/ dpc'[s] = "drop"
  /\ manifest' = Free
  /\ UNCHANGED <<loopVars, period, prepared, old, next, free, doBlock, dfree,
                 dcur>>

(* ... or is the last to come to the end of the period and begins the next. *)
PeriodStep(s) ==
  /\ dpc[s] \in {"idle", "free", "result"} /\ (dpc[s] # "idle" \/ task[s] = "started")
  /\ manifest \in {Free, Dt(s)} /\ ~cancelled[s] /\ ~doBlock[s]
  /\ period < Periods /\ period' = period + 1
  /\ \/ lastRet' = lastRet
     \/ lastRet' = [lastRet EXCEPT ![s] = "EOS"]
  /\ task' = [task EXCEPT ![s] = "stopped"]
  /\ LET h == [handleEos EXCEPT ![s] = TRUE] IN
     /\ AllEos(lastRet', h)
     /\ \E new \in NewStreams(period + 1) : PrepareStreams(new, prepared, h)
  /\ dpc' = [dpc EXCEPT ![s] = "start"] /\ manifest' = Dt(s)
  /\ UNCHANGED <<loopVars, old, src, dfree, dcur>>

(* D takes the old streams, and begins to free one of them.                 *)
TakesOld(s) ==
  /\ task[s] = "started" /\ dpc[s] = "idle" /\ ~cancelled[s]
  /\ manifest = Free /\ manifest' = Dt(s)
  /\ dfree' = [dfree EXCEPT ![s] = old] /\ old' = {}
  /\ dpc' = [dpc EXCEPT ![s] = "free"]
  /\ UNCHANGED <<loopVars, period, prepared, next, free, doBlock, handleEos,
                 lastRet, task, src, dcur>>
FreesOne(s) ==
  /\ dpc[s] = "free"
  /\ manifest = Dt(s) /\ manifest' = Free
  /\ \E o \in dfree[s] : dcur' = [dcur EXCEPT ![s] = o]
  /\ dpc' = [dpc EXCEPT ![s] = "freeJoin"]
  /\ UNCHANGED <<loopVars, period, prepared, old, next, free, doBlock, handleEos,
                 lastRet, task, src, dfree>>

LEMMA EosResultStep ==
  ASSUME RestInv, NEW s \in Streams, NEW r, r = lastRet \/ r = [lastRet EXCEPT ![s] = "EOS"],
         ~cancelled[s], ~doBlock[s],
         dpc[s] \in {"idle", "free", "result"}, manifest \in {Free, Dt(s)},
         dpc[s] # "idle" \/ task[s] = "started", DEosResult(s, r),
         UNCHANGED <<loopVars, old, dfree, dcur>>
  PROVE  IterEnd(s) \/ PeriodStep(s)
<1> DEFINE h == [handleEos EXCEPT ![s] = TRUE]
<1>0. TypeOK
  BY DEF RestInv, OwnInv, TypeInv
<1>1. CASE period < Periods /\ AllEos(r, h)
  <2>1. period # Periods
    BY <1>0, <1>1, ConstantsAssumption DEF TypeOK
  <2> QED
    BY <1>1, <2>1 DEF DEosResult, PeriodStep
<1>2. CASE ~(period < Periods /\ AllEos(r, h))
  <2>1. /\ r \in [Streams -> Rets] /\ h \in [Streams -> BOOLEAN] /\ lastRet' = r
        /\ r = [lastRet EXCEPT ![s] = r[s]] /\ r[s] \in Rets
    BY <1>0 DEF TypeOK, Rets, DEosResult
  <2>2. handleEos' = h \/ handleEos' = handleEos
    BY <1>2 DEF DEosResult
  <2>3. \E b \in BOOLEAN :
          /\ handleEos' = [handleEos EXCEPT ![s] = b]
          /\ b => \/ handleEos[s]
                  \/ ~doBlock[s] /\ task'[s] = "stopped" /\ dpc'[s] = "idle"
    <3>1. handleEos = [handleEos EXCEPT ![s] = handleEos[s]] /\ handleEos[s] \in BOOLEAN
      BY <1>0 DEF TypeOK
    <3>2. handleEos' = handleEos \/ (task'[s] = "stopped" /\ dpc'[s] = "idle")
      BY <1>0, <1>2 DEF DEosResult, TypeOK
    <3> QED
      BY <2>2, <3>1, <3>2
  <2>4. \E e \in {"none", "ready", "playing"} :
          /\ src' = [src EXCEPT ![s] = e]
          /\ e = "none" => src[s] = "none" \/ dpc'[s] = "drop"
    BY <1>0, <1>2 DEF DEosResult, EndOfManifest, TypeOK
  <2>5. \E pc \in {"idle", "drop", "leave", "prep", "retry"} : dpc' = [dpc EXCEPT ![s] = pc]
    BY <1>0, <1>2 DEF DEosResult, EndOfManifest, TypeOK
  <2>6. /\ manifest' = Free /\ task' = [task EXCEPT ![s] = "stopped"]
        /\ UNCHANGED <<period, prepared, next, free, doBlock>>
    BY <1>2 DEF DEosResult, EndOfManifest
  <2> QED
    BY <2>1, <2>3, <2>4, <2>5, <2>6 DEF IterEnd
<1> QED
  BY <1>1, <1>2

LEMMA LoopPartsStep ==
  ASSUME RestInv, NoEmpty, NEW s \in Streams,
         dpc[s] \in {"idle", "free", "result"}, manifest \in {Free, Dt(s)},
         dpc[s] # "idle" \/ task[s] = "started",
         \/ DCancelled(s)
         \/ ~cancelled[s] /\ (DBody(s) \/ DSegmentDone(s) \/ DErrorResult(s)),
         UNCHANGED <<loopVars, old, dfree, dcur>>
  PROVE  IterEnd(s) \/ PeriodStep(s)
<1>0. TypeOK
  BY DEF RestInv, OwnInv, TypeInv
<1>1. /\ handleEos = [handleEos EXCEPT ![s] = handleEos[s]]
      /\ lastRet = [lastRet EXCEPT ![s] = lastRet[s]]
      /\ src = [src EXCEPT ![s] = src[s]]
      /\ handleEos[s] \in BOOLEAN /\ lastRet[s] \in Rets
      /\ src[s] \in {"none", "ready", "playing"}
  BY <1>0 DEF TypeOK
<1>2. CASE DCancelled(s)
  BY <1>0, <1>1, <1>2 DEF DCancelled, IterEnd, TypeOK, Rets
<1>3. CASE ~cancelled[s] /\ DBody(s)
  <2>1. CASE DEosResult(s, [lastRet EXCEPT ![s] = "EOS"]) /\ ~doBlock[s]
    BY <1>3, <2>1, EosResultStep
  <2>2. CASE ~(DEosResult(s, [lastRet EXCEPT ![s] = "EOS"]) /\ ~doBlock[s])
    BY <1>0, <1>1, <1>3, <2>2 DEF DBody, NoEmpty, IterEnd, TypeOK, Rets
  <2> QED
    BY <2>1, <2>2
<1>4. CASE ~cancelled[s] /\ DSegmentDone(s)
  BY <1>0, <1>1, <1>4 DEF DSegmentDone, EndOfManifest, IterEnd, TypeOK
<1>5. CASE ~cancelled[s] /\ DErrorResult(s)
  <2>1. CASE DEosResult(s, lastRet) /\ ~doBlock[s]
    BY <1>5, <2>1, EosResultStep
  <2>2. CASE ~(DEosResult(s, lastRet) /\ ~doBlock[s])
    BY <1>0, <1>1, <1>5, <2>2 DEF DErrorResult, NoEmpty, IterEnd, TypeOK, Rets
  <2> QED
    BY <2>1, <2>2
<1> QED
  BY <1>2, <1>3, <1>4, <1>5

LEMMA LoopStep ==
  ASSUME RestInv, NoEmpty, NEW s \in Streams,
         DEnter(s) \/ DFreeNext(s) \/ DResult(s)
  PROVE  IterEnd(s) \/ PeriodStep(s) \/ TakesOld(s) \/ FreesOne(s)
<1>1. CASE DEnter(s)
  BY <1>1, LoopPartsStep DEF DEnter, TakesOld, loopVars
<1>2. CASE DFreeNext(s)
  <2>1. CASE /\ dfree[s] = {} /\ UNCHANGED <<cancelled, dcur>>
             /\ DCancelled(s) \/ (~cancelled[s] /\ DBody(s))
    <3>1. /\ UNCHANGED <<loopVars, old, dfree, dcur>>
          /\ dpc[s] = "free"
          /\ manifest = Dt(s)
      BY <1>2, <2>1 DEF DFreeNext, loopVars
    <3> QED
      BY <2>1, <3>1, LoopPartsStep
  <2>2. ASSUME NEW o \in dfree[s],
               /\ dcur' = [dcur EXCEPT ![s] = o]
               /\ dpc' = [dpc EXCEPT ![s] = "freeJoin"]
               /\ manifest' = Free
               /\ task' = [task EXCEPT ![o] = "stopped"]
               /\ cancelled' = [cancelled EXCEPT ![o] = @ \/ task[o] # "stopped"]
               /\ UNCHANGED <<lastRet, src, period, prepared, next, free, doBlock,
                              handleEos>>
        PROVE  FreesOne(s)
    <3>1. task[o] = "stopped" /\ cancelled[o] /\ o \in Streams
      BY DeadWhere DEF RestInv, RestParts, OldStopped, OwnInv, TypeInv, TypeOK
    <3>2. task' = task /\ cancelled' = cancelled
      BY <2>2, <3>1 DEF RestInv, OwnInv, TypeInv, TypeOK
    <3> QED
      BY <1>2, <2>2, <3>2 DEF DFreeNext, FreesOne, loopVars
  <2> QED
    BY <1>2, <2>1, <2>2 DEF DFreeNext
<1>3. CASE DResult(s)
  <2>1. CASE DCancelled(s) \/ (~cancelled[s] /\ DErrorResult(s))
    BY <1>3, <2>1, LoopPartsStep DEF DResult, loopVars
  <2>2. CASE ~cancelled[s] /\ dret[s] = "EOS" /\ DEosResult(s, lastRet)
    <3>1. ~doBlock[s]
      BY <1>3, <2>2 DEF DResult, RestInv, RestParts, Blocked
    <3> QED
      BY <1>3, <2>2, <3>1, EosResultStep DEF DResult, loopVars
  <2>3. CASE ~cancelled[s] /\ dret[s] \in {"OK", "FLUSHING"}
    <3>0. TypeOK
      BY DEF RestInv, OwnInv, TypeInv
    <3>1. /\ handleEos = [handleEos EXCEPT ![s] = handleEos[s]]
          /\ lastRet = [lastRet EXCEPT ![s] = lastRet[s]]
          /\ src = [src EXCEPT ![s] = src[s]]
          /\ handleEos[s] \in BOOLEAN /\ lastRet[s] \in Rets
          /\ src[s] \in {"none", "ready", "playing"}
      BY <3>0 DEF TypeOK
    <3>2. task' = task \/ task' = SetAll(task, streams, "stopped")
      BY <1>3, <2>3 DEF DResult, DCancelled
    <3>3. /\ dpc[s] = "result" /\ manifest = Free /\ dpc' = [dpc EXCEPT ![s] = "idle"]
          /\ manifest' = Free /\ handleEos' = handleEos /\ lastRet' = lastRet
          /\ src' = src
          /\ UNCHANGED <<loopVars, period, prepared, old, next, free, doBlock, dfree,
                         dcur>>
      BY <1>3, <2>3 DEF DResult, DCancelled, loopVars
    <3> QED
      BY <2>3, <3>1, <3>2, <3>3 DEF IterEnd
  <2> QED
    BY <1>3, <2>1, <2>2, <2>3 DEF DResult
<1> QED
  BY <1>1, <1>2, <1>3

(* One step of an iteration that changes the fields of its stream only, and *)
(* stops tasks.                                                             *)
DLocal(s) ==
  /\ dpc[s] # "idle" \/ task[s] = "started"
  /\ \/ manifest' = manifest
     \/ manifest = Dt(s) /\ manifest' = Free
  /\ dpc[s] \notin {"freeJoin", "freeSrc", "start"}
  /\ dpc[s] = "drop" => ~InChain(s)
  /\ \E pc \in DPcs \ {"free", "freeJoin", "freeSrc", "start"} :
       /\ dpc' = [dpc EXCEPT ![s] = pc]
       /\ \E r \in Rets :
            /\ dret' = [dret EXCEPT ![s] = r]
            /\ doBlock[s] /\ pc \in {"ready", "result"} => r # "EOS"
       /\ \E c \in {spc[s], "off", "run"}, e \in {"none", "ready", "playing"} :
            /\ spc' = [spc EXCEPT ![s] = c] /\ src' = [src EXCEPT ![s] = e]
            /\ \/ c = spc[s]
               \/ c = "off" /\ ~InChain(s)
               \/ c = "run" /\ spc[s] = "off"
            /\ c # "off" /\ e = "none" =>
                 \/ pc = "drop"
                 \/ spc[s] # "off" /\ src[s] = "none" /\ dpc[s] # "drop"
  /\ \E r \in Rets : /\ lastRet' = [lastRet EXCEPT ![s] = r]
                     /\ r = "EOS" => ~doBlock[s] \/ lastRet[s] = "EOS"
  /\ \E h \in BOOLEAN : /\ handleEos' = [handleEos EXCEPT ![s] = h]
                        /\ h => \/ handleEos[s]
                                \/ ~doBlock[s] /\ task'[s] = "stopped" /\ dpc'[s] = "idle"
  /\ \E S \in SUBSET Streams : task' = SetAll(task, S, "stopped")
  /\ UNCHANGED <<preroll, demuxVars, listVars, cancelled, doBlock, dfree, dcur,
                 xVars, aVars>>

LEMMA DLocalStep ==
  ASSUME RestInv, NoEmpty, NEW s \in Streams,
         \/ IterEnd(s) \/ DPrep(s) \/ DReset(s) \/ DSync(s)
         \/ DWait(s) \/ DReady(s) \/ DRetry(s) \/ DLeave(s)
  PROVE  DLocal(s)
<1> USE DEF Rets
<1>0. TypeOK /\ Blocked /\ SourceOff
  BY DEF RestInv, OwnInv, TypeInv, RestParts, OwnPcs
<1>1. /\ handleEos = [handleEos EXCEPT ![s] = handleEos[s]] /\ handleEos[s] \in BOOLEAN
      /\ lastRet = [lastRet EXCEPT ![s] = lastRet[s]] /\ lastRet[s] \in Rets
      /\ dret = [dret EXCEPT ![s] = dret[s]] /\ dret[s] \in Rets
      /\ src = [src EXCEPT ![s] = src[s]] /\ src[s] \in {"none", "ready", "playing"}
      /\ spc = [spc EXCEPT ![s] = spc[s]]
  BY <1>0 DEF TypeOK
<1>2. /\ task = SetAll(task, {}, "stopped")
      /\ [task EXCEPT ![s] = "stopped"] = SetAll(task, {s}, "stopped")
      /\ streams \subseteq Streams
  BY <1>0 DEF TypeOK, SetAll
<1>3. CASE IterEnd(s)
  <2>1. /\ UNCHANGED <<preroll, demuxVars, listVars, cancelled, doBlock, dfree, dcur,
                        xVars, aVars>>
        /\ dret' = dret /\ spc' = spc
    BY <1>3 DEF IterEnd, loopVars, listVars, demuxVars
  <2>2. PICK pc \in {"idle", "drop", "leave", "prep", "retry"} :
          dpc' = [dpc EXCEPT ![s] = pc]
    BY <1>3 DEF IterEnd
  <2>3. PICK e \in {"none", "ready", "playing"} :
          /\ src' = [src EXCEPT ![s] = e]
          /\ e = "none" => src[s] = "none" \/ pc = "drop"
    BY <1>0, <1>3, <2>2 DEF IterEnd, TypeOK
  <2>4. \E S \in SUBSET Streams : task' = SetAll(task, S, "stopped")
    BY <1>2, <1>3 DEF IterEnd
  <2>5. /\ pc \in DPcs \ {"free", "freeJoin", "freeSrc", "start"}
        /\ pc \notin {"ready", "result"} /\ dpc[s] # "drop"
        /\ dpc[s] \notin {"freeJoin", "freeSrc", "start"}
        /\ manifest' = manifest \/ (manifest = Dt(s) /\ manifest' = Free)
    BY <1>3 DEF IterEnd, DPcs
  <2> QED
    BY <1>1, <1>3, <2>1, <2>2, <2>3, <2>4, <2>5 DEF IterEnd, DLocal
<1>4. CASE DPrep(s)
  BY <1>1, <1>2, <1>4 DEF DPrep, DLocal, lockVars, demuxVars, listVars, flagVars,
     DPcs
<1>5. CASE DReset(s)
  BY <1>1, <1>2, <1>5 DEF DReset, DLocal, lockVars, demuxVars, listVars, DPcs
<1>6. CASE DSync(s)
  BY <1>0, <1>1, <1>2, <1>6 DEF DSync, DLocal, lockVars, demuxVars, listVars,
     flagVars, DPcs, SourceOff
<1>7. CASE DWait(s)
  BY <1>0, <1>1, <1>2, <1>7 DEF DWait, DLocal, lockVars, demuxVars, listVars,
     DPcs, Blocked
<1>8. CASE DReady(s)
  BY <1>0, <1>1, <1>2, <1>8 DEF DReady, DLocal, lockVars, demuxVars, listVars,
     flagVars, DPcs, Blocked
<1>9. CASE DRetry(s)
  BY <1>1, <1>2, <1>9 DEF DRetry, DLocal, lockVars, demuxVars, listVars, DPcs
<1>10. CASE DLeave(s)
  BY <1>1, <1>2, <1>10 DEF DLeave, DLocal, lockVars, demuxVars, listVars, flagVars,
     DPcs
<1> QED
  BY <1>3, <1>4, <1>5, <1>6, <1>7, <1>8, <1>9, <1>10

LEMMA DLocalRest ==
  ASSUME RestInv, NEW s \in Streams, DLocal(s)
  PROVE  RestParts'
<1>0. TypeOK /\ RestParts /\ OwnLists /\ OwnPcs
  BY DEF RestInv, OwnInv, TypeInv
<1>1. /\ Dead' = Dead /\ Listed' = Listed /\ ResetList(aphase)' = ResetList(aphase)
      /\ UNCHANGED <<preroll, running, period, pending, streams, prepared, old, next,
                     free, cancelled, doBlock, dfree, dcur, xold, xtodo, apc, akind,
                     atodo, acur, aphase, aold>>
  BY SameDead DEF DLocal, demuxVars, listVars, xVars, aVars, Listed, ResetList
<1>2. \A t \in Streams : task'[t] \in {task[t], "stopped"}
  BY <1>0 DEF DLocal, SetAll, TypeOK
<1>3. \A t \in Streams \ {s} :
        /\ dpc'[t] = dpc[t] /\ dret'[t] = dret[t] /\ lastRet'[t] = lastRet[t]
        /\ spc'[t] = spc[t] /\ src'[t] = src[t] /\ handleEos'[t] = handleEos[t]
  BY <1>0 DEF DLocal, TypeOK
<1>4. /\ dpc[s] # "idle" \/ task[s] = "started"
      /\ dpc[s] = "drop" => ~InChain(s)
      /\ dpc'[s] \notin {"free", "freeJoin", "freeSrc", "start"}
      /\ lastRet'[s] = "EOS" => ~doBlock[s] \/ lastRet[s] = "EOS"
      /\ handleEos'[s] => ~doBlock[s] \/ handleEos[s]
      /\ doBlock[s] /\ dpc'[s] \in {"ready", "result"} => dret'[s] # "EOS"
  BY <1>0 DEF DLocal, TypeOK
<1>5. /\ \/ spc'[s] = spc[s]
         \/ spc'[s] = "off" /\ ~InChain(s)
         \/ spc'[s] = "run" /\ spc[s] = "off"
      /\ spc'[s] # "off" /\ src'[s] = "none" =>
           \/ dpc'[s] = "drop"
           \/ spc[s] # "off" /\ src[s] = "none" /\ dpc[s] # "drop"
  BY <1>0 DEF DLocal, TypeOK
<1>6. /\ \A t \in Streams : spc'[t] \in ChainPcs \/ spc[t] \in ChainPcs => spc'[t] = spc[t]
      /\ \A t \in Streams : InChain(t)' <=> InChain(t)
  BY <1>3, <1>5 DEF InChain, ChainPcs
<1>7. \/ manifest' = manifest
      \/ manifest = Dt(s) /\ manifest' = Free
  BY DEF DLocal
<1>8. s \notin next \cup Dead
  BY <1>0, <1>4 DEF RestParts, Fresh
<1>9. Fresh' /\ OldStopped' /\ Started'
  BY <1>0, <1>1, <1>2, <1>3, <1>8, DeadWhere DEF RestInv, RestParts, Fresh, OldStopped,
     Started, TypeOK
<1>10. Holders' /\ Kinds'
  BY <1>0, <1>1, <1>3, <1>4, <1>6, <1>7 DEF RestParts, Holders, Kinds, Stopping, ChainPcs,
     Dt, St, Api, Free
<1>11. Exposer' /\ BlockedWhere' /\ NoLostWakeup' /\ ExposeOnlyPrerolled'
  BY <1>0, <1>1, <1>2, <1>6 DEF RestParts, Exposer, BlockedWhere, Exposing, NoLostWakeup,
     ExposeOnlyPrerolled, ChainPcs, TypeOK
<1>12. Blocked'
  BY <1>0, <1>1, <1>3, <1>4, <1>6 DEF RestParts, Blocked, ChainPcs
<1>13. Halted' /\ AllOrNone' /\ Going'
  BY <1>0, <1>1, <1>2 DEF RestParts, Halted, Stopping, AllOrNone, Going, ToStart, Listed,
     TypeOK
<1>14. Joined'
  BY <1>0, <1>1, <1>3, <1>4, <1>6, <1>8 DEF RestParts, Joined, Halted, Stopping, Listed,
     TypeOK
<1>15. FreeApi' /\ FreeTask'
  <2>1. ASSUME apc \in FreePcs PROVE acur \in atodo => s # acur \/ dpc[s] # "idle"
    BY <1>4, <2>1, FreedStopped
  <2>2. \A d \in Streams : dpc[d] = "freeSrc" =>
          dcur[d] \in Streams /\ (s # dcur[d] \/ dpc[s] # "idle")
    BY <1>0, <1>4, FreedStopped DEF RestInv, OwnInv, TypeInv, FreeingOwn
  <2>3. FreeApi'
    BY <1>0, <1>1, <1>3, <2>1 DEF RestParts, FreeApi, FreePcs, TypeOK
  <2>4. FreeTask'
    BY <1>0, <1>1, <1>3, <1>4, <2>2 DEF RestParts, FreeTask, TypeOK
  <2> QED
    BY <2>3, <2>4
<1>16. Sourced'
  BY <1>0, <1>1, <1>3, <1>5 DEF RestParts, Sourced, Listed, TypeOK
<1>17. Counted'
  <2>1. Waiting' = Waiting
    BY <1>0, <1>1, <1>6 DEF Waiting, ChainPcs, TypeOK
  <2>2. Prerolling' => Prerolling
    BY <1>0, <1>1, <1>3, <1>4 DEF Prerolling, DLocal, TypeOK
  <2> QED
    BY <1>0, <1>1, <2>1, <2>2 DEF RestParts, Counted
<1> QED
  BY <1>9, <1>10, <1>11, <1>12, <1>13, <1>14, <1>15, <1>16, <1>17 DEF RestParts

-----------------------------------------------------------------------------
(* The steps of S and of the source elements.                               *)

(* A step of S that changes the fields of its stream only: it does not get  *)
(* into the chain function of a cancelled stream, nor past the preroll.     *)
SLocal(s) ==
  /\ spc[s] # "off" /\ manifest = Free
  /\ \E c \in {spc[s], "off", "run", "push", "prNeed"} :
       /\ spc' = [spc EXCEPT ![s] = c]
       /\ c # spc[s] => spc[s] \in {"run", "relock", "push"}
       /\ c # spc[s] /\ spc[s] = "run" /\ c # "off" => ~cancelled[s]
       /\ c = "push" => ~doBlock[s]
       /\ IF c = "prNeed" THEN ~cancelled[s] /\ doBlock[s] /\ manifest' = St(s)
          ELSE manifest' \in {Free, Leaked}
  /\ \E r \in Rets : /\ lastRet' = [lastRet EXCEPT ![s] = r]
                     /\ r = "EOS" => ~doBlock[s] \/ lastRet[s] = "EOS"
  /\ UNCHANGED <<preroll, demuxVars, listVars, cancelled, doBlock, handleEos, task,
                 src, dVars, xVars, aVars>>

LEMMA SLocalStep ==
  ASSUME RestInv, NoEmpty, NEW s \in Streams,
         SChain(s) \/ SRelock(s) \/ SPushed(s) \/ SEos(s) \/ SourceError(s)
  PROVE  SLocal(s)
<1>0. TypeOK /\ Blocked /\ Holders
  BY DEF RestInv, OwnInv, TypeInv, RestParts
<1>1. /\ lastRet = [lastRet EXCEPT ![s] = lastRet[s]] /\ lastRet[s] \in Rets
      /\ spc = [spc EXCEPT ![s] = spc[s]] /\ {"OK", "EOS", "FLUSHING", "ERROR"} = Rets
  BY <1>0 DEF TypeOK, Rets
<1>2. ASSUME NEW ret \in Rets, DownloadFinish(s, ret), ret = "EOS" => ~doBlock[s]
      PROVE  \E r \in Rets : /\ lastRet' = [lastRet EXCEPT ![s] = r]
                             /\ r = "EOS" => ~doBlock[s] \/ lastRet[s] = "EOS"
  BY <1>1, <1>2 DEF DownloadFinish
<1>3. CASE SChain(s)
  BY <1>1, <1>3 DEF SChain, SLocal
<1>4. CASE SRelock(s)
  BY <1>0, <1>1, <1>4 DEF SRelock, SLocal, Blocked, lockVars, flagVars
<1>5. CASE SPushed(s)
  <2>1. ~doBlock[s] /\ spc[s] = "push" /\ manifest = Free
    BY <1>0, <1>5 DEF SPushed, Blocked
  <2>2. /\ \E r \in Rets : /\ lastRet' = [lastRet EXCEPT ![s] = r]
                           /\ r = "EOS" => ~doBlock[s] \/ lastRet[s] = "EOS"
        /\ spc' \in {[spc EXCEPT ![s] = "off"], [spc EXCEPT ![s] = "run"]}
    BY <1>1, <1>2, <1>5, <2>1 DEF SPushed
  <2>3. /\ manifest' = Free
        /\ UNCHANGED <<preroll, demuxVars, listVars, cancelled, doBlock, handleEos,
                       task, src, dVars, xVars, aVars>>
    BY <1>5, <2>1 DEF SPushed, lockVars
  <2> QED
    BY <2>1, <2>2, <2>3 DEF SLocal
<1>6. CASE SEos(s)
  <2>1. \E r \in Rets : /\ lastRet' = [lastRet EXCEPT ![s] = r]
                        /\ r = "EOS" => ~doBlock[s] \/ lastRet[s] = "EOS"
    BY <1>1, <1>2, <1>6 DEF SEos, NoEmpty
  <2> QED
    BY <1>6, <2>1 DEF SEos, SLocal, lockVars
<1>7. CASE SourceError(s)
  <2>1. \E r \in Rets : /\ lastRet' = [lastRet EXCEPT ![s] = r]
                        /\ r = "EOS" => ~doBlock[s] \/ lastRet[s] = "EOS"
    BY <1>1, <1>2, <1>7 DEF SourceError
  <2>2. spc[s] # "prNeed" /\ spc[s] # "off" /\ manifest' \in {Free, Leaked}
    BY <1>0, <1>7 DEF SourceError, Holders, St, Free
  <2>3. spc[s] = "push" => ~doBlock[s]
    BY <1>0 DEF Blocked
  <2> QED
    BY <1>1, <1>7, <2>1, <2>2, <2>3 DEF SourceError, SLocal
<1> QED
  BY <1>3, <1>4, <1>5, <1>6, <1>7

LEMMA SLocalRest ==
  ASSUME RestInv, NEW s \in Streams, SLocal(s)
  PROVE  RestParts'
<1>0. TypeOK /\ RestParts /\ OwnLists /\ OwnPcs
  BY DEF RestInv, OwnInv, TypeInv
<1>1. /\ Dead' = Dead /\ Listed' = Listed /\ ResetList(aphase)' = ResetList(aphase)
      /\ UNCHANGED <<preroll, running, period, pending, streams, prepared, old, next,
                     free, cancelled, doBlock, handleEos, task, src, dpc, dret, dfree,
                     dcur, xold, xtodo, apc, akind, atodo, acur, aphase, aold>>
  BY SameDead DEF SLocal, demuxVars, listVars, dVars, xVars, aVars, Listed, ResetList
<1>2. \A t \in Streams \ {s} : lastRet'[t] = lastRet[t] /\ spc'[t] = spc[t]
  BY <1>0 DEF SLocal, TypeOK
<1>3. /\ spc[s] # "off" /\ manifest = Free
      /\ lastRet'[s] = "EOS" => ~doBlock[s] \/ lastRet[s] = "EOS"
      /\ \/ spc'[s] = spc[s] /\ spc[s] # "prNeed"
         \/ /\ spc[s] \in {"run", "relock", "push"}
            /\ spc'[s] \in {"off", "run", "push", "prNeed"}
            /\ spc'[s] \in ChainPcs => InChain(s) \/ ~cancelled[s]
            /\ spc'[s] = "push" => ~doBlock[s]
            /\ spc'[s] = "prNeed" => ~cancelled[s] /\ doBlock[s] /\ manifest' = St(s)
      /\ spc'[s] # "prNeed" => manifest' \in {Free, Leaked}
  BY <1>0 DEF SLocal, RestParts, Holders, TypeOK, InChain, ChainPcs, St, Free
<1>4. s \notin next \cup Dead
  BY <1>0, <1>3 DEF RestParts, Fresh
<1>5. \A t \in Streams, c \in ChainPcs \ {"prNeed", "push", "relock"} :
        spc'[t] = c <=> spc[t] = c
  BY <1>2, <1>3 DEF ChainPcs
<1>6. Fresh' /\ OldStopped' /\ Started'
  BY <1>0, <1>1, <1>2, <1>4, DeadWhere DEF RestInv, RestParts, Fresh, OldStopped,
     Started, TypeOK
<1>7. Holders' /\ Kinds'
  BY <1>0, <1>1, <1>2, <1>3 DEF RestParts, Holders, Kinds, Stopping, Dt, St, Api, Free
<1>8. Exposer' /\ BlockedWhere' /\ NoLostWakeup' /\ ExposeOnlyPrerolled'
  BY <1>0, <1>1, <1>5 DEF RestParts, Exposer, BlockedWhere, Exposing, NoLostWakeup,
     ExposeOnlyPrerolled, ChainPcs, TypeOK
<1>9. Blocked'
  BY <1>0, <1>1, <1>2, <1>3 DEF RestParts, Blocked
<1>10. Halted' /\ AllOrNone' /\ Going' /\ FreeApi' /\ FreeTask'
  BY <1>0, <1>1 DEF RestParts, Halted, Stopping, AllOrNone, Going, ToStart, Listed,
     FreeApi, FreeTask
<1>11. Joined'
  <2>1. \A t \in Streams \ {s} : InChain(t)' <=> InChain(t)
    BY <1>2 DEF InChain
  <2>2. s \in Listed /\ Stopping => (InChain(s)' => InChain(s))
    BY <1>0, <1>3, <1>4 DEF RestParts, Halted, InChain, ChainPcs
  <2> QED
    BY <1>0, <1>1, <2>1, <2>2 DEF RestParts, Joined, Stopping, Listed, TypeOK
<1>12. Sourced'
  BY <1>0, <1>1, <1>2, <1>3 DEF RestParts, Sourced, Listed, TypeOK
<1>13. Counted'
  <2>1. Waiting' = Waiting
    BY <1>0, <1>1, <1>5 DEF Waiting, ChainPcs, TypeOK
  <2>2. Prerolling' => Prerolling
    BY <1>1 DEF Prerolling
  <2> QED
    BY <1>0, <1>1, <2>1, <2>2 DEF RestParts, Counted
<1> QED
  BY <1>6, <1>7, <1>8, <1>9, <1>10, <1>11, <1>12, <1>13 DEF RestParts

-----------------------------------------------------------------------------
(* D frees the old streams.                                                 *)

LEMMA DFreeRest ==
  ASSUME RestInv, NEW s \in Streams, TakesOld(s) \/ FreesOne(s) \/ DFreeJoin(s)
  PROVE  RestParts'
<1>0. TypeOK /\ RestParts /\ OwnLists /\ OwnPcs
  BY DEF RestInv, OwnInv, TypeInv
<1>1. UNCHANGED <<preroll, running, period, pending, streams, prepared, next, free,
                  cancelled, doBlock, handleEos, lastRet, task, dret, spc, xold, xtodo,
                  apc, akind, atodo, acur, aphase, aold>>
  BY DEF TakesOld, FreesOne, DFreeJoin, loopVars, lockVars, demuxVars, listVars,
     flagVars, xVars, aVars
<1>2. /\ \A t \in Streams \ {s} : dpc'[t] = dpc[t]
      /\ dpc[s] # "idle" \/ (~cancelled[s] /\ task[s] = "started")
      /\ dpc[s] \in {"idle", "free", "freeJoin"}
      /\ dpc'[s] \in {"free", "freeJoin", "freeSrc"}
  BY <1>0 DEF TakesOld, FreesOne, DFreeJoin, TypeOK
<1>3. \/ UNCHANGED <<old, dfree>>
      \/ /\ apc \notin FreePcs
         /\ old' = {} /\ dfree' = [dfree EXCEPT ![s] = old]
  <2>1. ASSUME TakesOld(s) PROVE apc \notin FreePcs
    BY <2>1, ActiveWhere, ReplacingExposes DEF TakesOld, Stopping
  <2> QED
    BY <2>1 DEF TakesOld, FreesOne, DFreeJoin, listVars, loopVars
<1>4. Dead' = Dead /\ Listed' = Listed
  BY <1>1, <1>3 DEF Dead, ResetList, Listed, FreePcs
<1>5. s \notin next \cup Dead
  BY <1>0, <1>2 DEF RestParts, Fresh
<1>6. Fresh'
  <2>1. next \cup Dead \subseteq Streams
    BY <1>0, DeadWhere DEF RestInv, TypeOK
  <2>2. (next \cup Dead)' = next \cup Dead
    BY <1>1, <1>4
  <2>3. \A t \in next \cup Dead : dpc'[t] = dpc[t]
    BY <1>2, <1>5, <2>1
  <2> QED
    BY <1>0, <1>1, <2>2, <2>3 DEF RestParts, Fresh
<1>16. Started'
  BY <1>0, <1>1 DEF RestParts, Started
<1>7. OldStopped'
  BY <1>0, <1>1, <1>3, <1>4 DEF RestParts, OldStopped, TypeOK
<1>8. Holders'
  <2>1. \/ manifest = Free /\ manifest' = Dt(s) /\ dpc'[s] = "free"
        \/ manifest \in {Free, Dt(s)} /\ manifest' = Free
           /\ dpc'[s] \in {"freeJoin", "freeSrc"}
    BY <1>0 DEF TakesOld, FreesOne, DFreeJoin, lockVars, TypeOK
  <2> QED
    BY <1>0, <1>1, <1>2, <2>1 DEF RestParts, Holders, Dt, St, Api, Free
<1>9. Kinds' /\ Exposer' /\ BlockedWhere' /\ NoLostWakeup' /\ ExposeOnlyPrerolled'
  BY <1>0, <1>1, <1>4 DEF RestParts, Kinds, Stopping, Exposer, BlockedWhere, Exposing,
     NoLostWakeup, ExposeOnlyPrerolled
<1>10. Blocked' /\ Halted' /\ AllOrNone' /\ Going'
  BY <1>0, <1>1, <1>2, <1>4 DEF RestParts, Blocked, Halted, Stopping, AllOrNone, Going,
     ToStart
<1>11. Joined'
  <2>1. s \in Listed /\ Stopping => dpc[s] # "idle"
    BY <1>2, ActiveWhere DEF Listed
  <2>2. \A t \in Streams : InChain(t)' <=> InChain(t)
    BY <1>1 DEF InChain
  <2> QED
    BY <1>0, <1>1, <1>2, <1>4, <1>5, <2>1, <2>2 DEF RestParts, Joined, Stopping, Listed,
       TypeOK
<1>12. FreeApi'
  <2>1. apc \in FreePcs => ResetList(aphase)' = ResetList(aphase)
    BY <1>1, <1>3 DEF ResetList
  <2>2. apc \in FreePcs /\ acur \in atodo => s # acur \/ dpc[s] # "idle"
    BY <1>2, FreedStopped
  <2> QED
    BY <1>0, <1>1, <1>2, <2>1, <2>2 DEF RestParts, FreeApi, FreePcs, TypeOK
<1>13. FreeTask'
  <2>1. \A d \in Streams : dpc[d] \in {"freeJoin", "freeSrc"} =>
          dcur[d] \in Streams /\ (s # dcur[d] \/ dpc[s] # "idle")
    BY <1>0, <1>2, FreedStopped DEF RestInv, OwnInv, TypeInv, FreeingOwn
  <2>2. dpc'[s] = "freeSrc" => dpc[dcur[s]] = "idle" /\ dcur' = dcur /\ dpc[s] = "freeJoin"
    BY <1>0, <1>2 DEF TakesOld, FreesOne, DFreeJoin, TypeOK
  <2>3. \A t \in Streams \ {s} : dcur'[t] = dcur[t]
    BY <1>0 DEF TakesOld, FreesOne, DFreeJoin, TypeOK
  <2> QED
    BY <1>0, <1>2, <2>1, <2>2, <2>3 DEF RestParts, FreeTask
<1>14. Sourced'
  <2>1. \A t \in Listed : src'[t] = src[t]
    <3>1. CASE DFreeJoin(s)
      <4>1. dcur[s] \notin Listed
        BY <1>0, <3>1 DEF DFreeJoin, RestInv, OwnInv, TypeInv, FreeingOwn, OwnLists,
           TaskLists, InLists, Listed
      <4> QED
        BY <1>0, <3>1, <4>1 DEF DFreeJoin, Listed, TypeOK
    <3> QED
      BY <3>1 DEF TakesOld, FreesOne
  <2> QED
    BY <1>0, <1>1, <1>2, <1>4, <2>1 DEF RestParts, Sourced, Listed, TypeOK
<1>15. Counted'
  BY <1>0, <1>1, <1>2 DEF RestParts, Counted, Prerolling, Waiting
<1> QED
  BY <1>6, <1>7, <1>8, <1>9, <1>10, <1>11, <1>12, <1>13, <1>14, <1>15,
     <1>16 DEF RestParts

(* Forgetting a stream disturbs nobody: it is neither listed nor new.       *)
LEMMA DFreeSrcRest ==
  ASSUME RestInv, NEW s \in Streams, DFreeSrc(s)
  PROVE  RestParts'
<1> DEFINE o == dcur[s]
<1>0. TypeOK /\ RestParts /\ OwnLists /\ OwnPcs
  BY DEF RestInv, OwnInv, TypeInv
<1>1. UNCHANGED <<preroll, running, period, pending, streams, prepared, old, next,
                  task, src, dret, xold, xtodo, apc, akind, atodo, acur, aphase, aold>>
  BY DEF DFreeSrc, demuxVars, xVars, aVars
<1>2. /\ o \in dfree[s] /\ o \in Streams /\ dpc[o] = "idle" /\ dpc[s] = "freeSrc"
      /\ o # s /\ task[o] = "stopped" /\ o \notin InLists
      /\ \A d \in Streams \ {s} : o \notin dfree[d]
  BY <1>0, FreedStopped DEF DFreeSrc, RestInv, RestParts, OwnInv, TypeInv, FreeingOwn,
     FreeTask, OwnLists, TaskLists
<1>3. /\ ~cancelled'[o] /\ ~doBlock'[o] /\ ~handleEos'[o] /\ lastRet'[o] = "OK"
      /\ spc'[o] = "off" /\ ~InChain(o)
      /\ \A t \in Streams \ {o} :
           /\ cancelled'[t] = cancelled[t] /\ doBlock'[t] = doBlock[t]
           /\ handleEos'[t] = handleEos[t] /\ lastRet'[t] = lastRet[t]
           /\ spc'[t] = spc[t]
  BY <1>0, <1>2 DEF DFreeSrc, Forget, FreshFields, TypeOK
<1>4. /\ manifest = Free /\ manifest' = Dt(s) /\ dpc'[s] = "free"
      /\ \A t \in Streams \ {s} : dpc'[t] = dpc[t] /\ dcur'[t] = dcur[t]
      /\ \A t \in Streams : dfree'[t] \subseteq dfree[t]
      /\ free' = free \cup {o}
  BY <1>0 DEF DFreeSrc, TypeOK
<1>5. /\ Dead' = Dead \cup {o} /\ Listed' = Listed
      /\ ResetList(aphase)' = ResetList(aphase)
  BY <1>1, <1>4 DEF Dead, ResetList, Listed
<1>6. /\ o \notin streams /\ o \notin prepared /\ o \notin next /\ o \notin xold
      /\ o \notin Listed /\ o \notin Dead
  BY <1>2, FreedStopped DEF InLists, Listed
<1>7. Fresh'
  <2>1. next \cup Dead \subseteq Streams
    BY <1>0, DeadWhere DEF RestInv, TypeOK
  <2>2. dpc'[o] = "idle"
    BY <1>2, <1>4
  <2>3. \A t \in next \cup Dead : t # s
    BY <1>0, <1>2 DEF RestParts, Fresh
  <2> QED
    BY <1>0, <1>1, <1>2, <1>3, <1>4, <1>5, <2>1, <2>2, <2>3 DEF RestParts, Fresh
<1>19. Started'
  BY <1>0, <1>1 DEF RestParts, Started
<1>8. OldStopped'
  BY <1>0, <1>1, <1>2, <1>3, <1>4, <1>5, DeadWhere DEF RestInv, RestParts, OldStopped,
     InLists, OwnInv, TypeInv, TypeOK
<1>9. Holders' /\ Kinds'
  BY <1>0, <1>1, <1>2, <1>3, <1>4 DEF RestParts, Holders, Kinds, Stopping, Dt, St, Api,
     Free
<1>10. \A t \in Streams : spc'[t] \in ChainPcs \/ spc[t] \in ChainPcs => spc'[t] = spc[t]
  BY <1>2, <1>3 DEF InChain, ChainPcs
<1>11. Exposing' <=> Exposing
  BY <1>0, <1>1, <1>10 DEF Exposing, ChainPcs
<1>12. Exposer' /\ ExposeOnlyPrerolled'
  BY <1>0, <1>1, <1>3, <1>6, <1>10 DEF RestParts, Exposer, ExposeOnlyPrerolled, ChainPcs,
     TypeOK
<1>13. Blocked' /\ NoLostWakeup'
  BY <1>0, <1>1, <1>2, <1>3, <1>4 DEF RestParts, Blocked, NoLostWakeup
<1>14. BlockedWhere'
  BY <1>0, <1>1, <1>3, <1>5, <1>6, <1>11 DEF RestParts, BlockedWhere, TypeOK
<1>15. Halted' /\ AllOrNone' /\ Going'
  BY <1>0, <1>1, <1>3, <1>5, <1>6 DEF RestParts, Halted, Stopping, AllOrNone, Going,
     ToStart, Listed, TypeOK
<1>16. Joined' /\ Sourced'
  <2>1. \A t \in Streams \ {o} : InChain(t)' <=> InChain(t)
    BY <1>3 DEF InChain
  <2>2. s \in Listed => dpc[s] # "idle"
    BY <1>2
  <2> QED
    BY <1>0, <1>1, <1>2, <1>3, <1>4, <1>5, <1>6, <2>1 DEF RestParts, Joined, Sourced,
       Stopping, Listed, TypeOK
<1>17. FreeApi' /\ FreeTask'
  <2>1. \A d \in Streams : dpc[d] = "freeSrc" => dcur[d] \in Streams
    BY DEF RestInv, OwnInv, TypeInv, TypeOK, FreeingOwn
  <2> QED
    BY <1>0, <1>1, <1>2, <1>4, <1>5, <2>1 DEF RestParts, FreeApi, FreePcs, FreeTask, TypeOK
<1>18. Counted'
  <2>1. Waiting' = Waiting
    BY <1>0, <1>1, <1>3, <1>6 DEF Waiting, TypeOK
  <2>2. Prerolling' => Prerolling
    BY <1>0, <1>1, <1>2, <1>3, <1>4, <1>6 DEF Prerolling, TypeOK
  <2> QED
    BY <1>0, <1>1, <2>1, <2>2 DEF RestParts, Counted
<1> QED
  BY <1>7, <1>8, <1>9, <1>12, <1>13, <1>14, <1>15, <1>16, <1>17,
     <1>18, <1>19 DEF RestParts

-----------------------------------------------------------------------------
(* start_tasks, at the end of a call or of a D that advances: the streams   *)
(* it starts are listed, and nothing stops or exposes streams meanwhile.    *)
LEMMA StartRest ==
  ASSUME RestInv, StartTasks, manifest' = Free,
         \/ /\ apc = "start" /\ manifest = Api /\ apc' = "idle" /\ akind' = "none"
            /\ dpc' = dpc
         \/ \E s \in Streams :
              /\ dpc[s] = "start" /\ manifest = Dt(s) /\ dpc' = [dpc EXCEPT ![s] = "idle"]
              /\ UNCHANGED <<apc, akind>>,
         UNCHANGED <<preroll, running, period, listVars, finished, handleEos, src, dret,
                     dfree, dcur, spc, xVars, atodo, acur, aphase, aold>>
  PROVE  RestParts'
<1>0. TypeOK /\ RestParts /\ OwnLists /\ OwnPcs
  BY DEF RestInv, OwnInv, TypeInv
<1>1. /\ UNCHANGED <<preroll, running, streams, prepared, old, next, free, handleEos, src,
                     dret, dfree, dcur, spc, xold, xtodo, atodo, acur, aphase, aold>>
      /\ manifest' = Free
  BY DEF listVars, xVars
<1>2. /\ ~Stopping /\ apc \notin FreePcs /\ Dead = free /\ Dead \cap Listed = {}
      /\ apc' \notin FreePcs /\ ~Stopping' /\ aphase = 0
  BY <1>0, StartAlone DEF Stopping, FreePcs, OwnPcs, FreeingCall
<1>3. Dead' = Dead
  BY <1>1, <1>2 DEF Dead, FreePcs
<1>4. /\ apc # "start" => apc' = apc /\ akind' = akind
      /\ apc = "start" => apc' = "idle" \/ (apc' = apc /\ akind' = akind)
      /\ apc' # "start"
  BY <1>0 DEF RestParts, Holders, Api, Dt
<1>5. \A t \in Streams : /\ dpc'[t] \in {dpc[t], "idle"}
                         /\ dpc[t] = "drop" => dpc'[t] = "drop"
                         /\ dpc'[t] \notin {"start", "free"}
                         /\ spc[t] # "prNeed"
  BY <1>0 DEF RestParts, Holders, Api, Dt, St, TypeOK
<1>6. /\ ToStart \subseteq Listed /\ Listed \subseteq Streams
      /\ ToStart \cap (next \cup Dead \cup xold \cup old \cup aold) = {}
      /\ \A d \in Streams : ToStart \cap dfree[d] = {}
  BY <1>0, <1>2 DEF ToStart, Listed, OwnLists, Apart, TaskLists, InLists, TypeOK
<1>7. doBlock' = doBlock
  <2>1. CASE running
    <3>1. \A s \in prepared : doBlock[s] = TRUE
      BY <1>0, <1>2, <2>1 DEF RestParts, BlockedWhere, Listed, TypeOK
    <3>2. SetAll(doBlock, prepared, TRUE) = doBlock
      BY <1>0, <3>1 DEF SetAll, TypeOK
    <3> QED
      BY <2>1, <3>2 DEF StartTasks
  <2> QED
    BY <2>1 DEF StartTasks
<1>8. /\ \A t \in Streams \ ToStart : /\ cancelled'[t] = cancelled[t]
                                      /\ lastRet'[t] = lastRet[t] /\ task'[t] = task[t]
      /\ \A t \in ToStart : /\ cancelled'[t] => cancelled[t]
                            /\ lastRet'[t] = lastRet[t] \/ lastRet'[t] = "OK"
                            /\ running => ~cancelled'[t]
      /\ running => \A t \in Streams : spc[t] \notin {"expose", "exposeOld"}
      /\ ~running => UNCHANGED <<cancelled, lastRet, task, pending>>
      /\ running /\ prepared # {} => pending' = Cardinality(prepared)
  <2>1. CASE ~running
    BY <1>0, <1>6, <2>1 DEF StartTasks, TypeOK
  <2>2. CASE running
    <3>1. /\ preroll = None
          /\ prepared # {} => pending' = Cardinality(prepared)
          /\ cancelled' = SetAll(cancelled, ToStart, FALSE)
          /\ lastRet' = SetAll(lastRet, ToStart, "OK")
          /\ task' = SetAll(task, ToStart, "started")
      BY <2>2 DEF StartTasks, ToPreroll
    <3>2. \A t \in Streams : spc[t] \notin {"expose", "exposeOld"}
      BY <1>0, <3>1, ConstantsAssumption DEF OwnPcs, ExposerHolds
    <3>3. /\ \A t \in Streams \ ToStart : /\ cancelled'[t] = cancelled[t]
                                          /\ lastRet'[t] = lastRet[t] /\ task'[t] = task[t]
          /\ \A t \in ToStart : ~cancelled'[t] /\ lastRet'[t] = "OK"
      BY <1>0, <1>6, <3>1 DEF SetAll, TypeOK
    <3> QED
      BY <2>2, <3>1, <3>2, <3>3
  <2> QED
    BY <2>1, <2>2
<1>9. Fresh' /\ OldStopped' /\ Started'
  <2>1. \A t \in next \cup Dead : t \in Streams /\ dpc'[t] = dpc[t]
    BY <1>0, <1>5, DeadWhere DEF RestInv, RestParts, Fresh, TypeOK
  <2>2. Fresh'
    BY <1>0, <1>1, <1>3, <1>6, <1>7, <1>8, <2>1 DEF RestParts, Fresh
  <2>3. OldStopped' /\ Started'
    BY <1>0, <1>1, <1>3, <1>6, <1>8 DEF RestParts, OldStopped, Started, Listed, TypeOK
  <2> QED
    BY <2>2, <2>3
<1>10. Holders' /\ Kinds'
  BY <1>0, <1>1, <1>2, <1>4, <1>5 DEF RestParts, Holders, Kinds, Stopping, FreePcs
<1>11. Exposer' /\ BlockedWhere' /\ Blocked'
  <2>1. \A t \in xold : cancelled'[t] = cancelled[t] /\ task'[t] = task[t]
    BY <1>0, <1>6, <1>8 DEF TypeOK
  <2>2. Exposer'
    BY <1>0, <1>1, <1>7, <2>1 DEF RestParts, Exposer
  <2>3. BlockedWhere'
    BY <1>0, <1>1, <1>3, <1>6, <1>7, <1>8 DEF RestParts, BlockedWhere, Exposing, Listed
  <2>4. Blocked'
    BY <1>0, <1>1, <1>5, <1>7, <1>8 DEF RestParts, Blocked
  <2> QED
    BY <2>2, <2>3, <2>4
<1>12. NoLostWakeup' /\ ExposeOnlyPrerolled'
  BY <1>0, <1>1, <1>4, <1>6, <1>7, <1>8 DEF RestParts, NoLostWakeup, ExposeOnlyPrerolled,
     TypeOK
<1>13. Halted' /\ Joined' /\ FreeApi' /\ FreeTask'
  <2>1. \A t \in Streams : dpc'[t] = "freeSrc" => dpc[t] = "freeSrc"
    BY <1>5
  <2>2. \A t \in Streams : dpc[t] = "freeSrc" => dcur[t] \in Streams
    BY DEF RestInv, OwnInv, TypeInv, TypeOK, FreeingOwn
  <2>3. Halted' /\ Joined'
    BY <1>2 DEF Halted, Joined, Stopping
  <2>4. FreeApi'
    BY <1>1, <1>2 DEF FreeApi, FreePcs
  <2>5. FreeTask'
    BY <1>0, <1>1, <1>5, <2>1, <2>2 DEF RestParts, FreeTask
  <2> QED
    BY <2>3, <2>4, <2>5
<1>14. Sourced'
  BY <1>0, <1>1, <1>2, <1>5 DEF RestParts, Sourced, Listed, TypeOK
<1>15. Going' /\ AllOrNone'
  BY <1>0, <1>1, <1>2, <1>4, <1>8 DEF RestParts, Going, AllOrNone, ToStart, TypeOK
<1>16. Counted'
  <2>1. Waiting' = Waiting /\ Waiting \subseteq prepared /\ prepared \subseteq Streams
    BY <1>0, <1>1 DEF Waiting, TypeOK
  <2>2. IsFiniteSet(prepared)
    BY <2>1, ConstantsAssumption, FS_Subset
  <2>3. Cardinality(Waiting) <= Cardinality(prepared)
    BY <2>1, <2>2, FS_Subset
  <2> QED
    BY <1>1, <1>8, <2>1, <2>3 DEF Counted, Prerolling
<1> QED
  BY <1>9, <1>10, <1>11, <1>12, <1>13, <1>14, <1>15, <1>16 DEF RestParts

-----------------------------------------------------------------------------
(* The last D to come to the end of a period prepares the streams of the    *)
(* next one.                                                                *)
LEMMA PeriodStepRest ==
  ASSUME RestInv, NEW s \in Streams, PeriodStep(s)
  PROVE  RestParts'
<1> DEFINE h == [handleEos EXCEPT ![s] = TRUE]
<1>0. TypeOK /\ RestParts /\ OwnLists /\ OwnPcs
  BY DEF RestInv, OwnInv, TypeInv
<1>1. /\ UNCHANGED <<preroll, running, pending, streams, old, cancelled, src, spc, dret,
                     dfree, dcur, xold, xtodo, apc, akind, atodo, acur, aphase, aold>>
      /\ manifest \in {Free, Dt(s)} /\ manifest' = Dt(s)
      /\ ~cancelled[s] /\ ~doBlock[s]
  BY DEF PeriodStep, loopVars, xVars, aVars
<1>2. /\ xold = {} /\ ~Exposing /\ ~Stopping /\ apc \notin FreePcs
      /\ running /\ Dead = free
  BY EndAlone DEF PeriodStep
<1>3. /\ Dead' = free' /\ aphase = 0 /\ ~Stopping' /\ ~Exposing' /\ Dead \cap Listed = {}
      /\ \A t \in Streams : spc[t] \notin {"expose", "exposeOld"}
  BY <1>0, <1>1, <1>2 DEF Dead, FreePcs, OwnPcs, FreeingCall, Stopping, Exposing,
     ExposerHolds, OwnLists, Apart, Listed
<1>4. /\ \A t \in Streams \ {s} : /\ dpc'[t] = dpc[t] /\ lastRet'[t] = lastRet[t]
                                  /\ task'[t] = task[t]
      /\ dpc'[s] = "start" /\ task'[s] = "stopped"
      /\ dpc[s] \in {"idle", "free", "result"} /\ s \notin next \cup Dead
      /\ dpc[s] # "idle" \/ task[s] = "started"
  BY <1>0 DEF PeriodStep, RestParts, Fresh, TypeOK
<1>5. PICK new \in NewStreams(period + 1) : PrepareStreams(new, prepared, h)
  BY DEF PeriodStep
<1>6. new \subseteq free /\ free' = free \ new
  BY <1>0, <1>5, NewStreamsType DEF PrepareStreams, TypeOK
<1>7. /\ h \in [Streams -> BOOLEAN] /\ \A t \in Streams \ {s} : h[t] = handleEos[t]
  BY <1>0 DEF TypeOK
<1>8. /\ IF prepared = {} THEN prepared' = next \cup new /\ next' = {}
         ELSE prepared' = prepared /\ next' = next \cup new
      /\ \A t \in Streams : doBlock'[t] <=> doBlock[t] \/ t \in prepared' \ prepared
      /\ \A t \in Streams \ {s} :
           handleEos'[t] => handleEos[t] /\ t \notin prepared' \ prepared
  <2>1. CASE prepared = {}
    <3>1. /\ prepared' = next \cup new /\ next' = {}
          /\ doBlock' = SetAll(doBlock, next \cup new, TRUE)
          /\ handleEos' = SetAll(h, next \cup new, FALSE)
      BY <1>2, <1>5, <2>1 DEF PrepareStreams
    <3>2. \A t \in Streams : doBlock'[t] = (IF t \in next \cup new THEN TRUE ELSE doBlock[t])
      BY <1>0, <3>1 DEF SetAll, TypeOK
    <3>3. \A t \in Streams : handleEos'[t] = (IF t \in next \cup new THEN FALSE ELSE h[t])
      BY <1>7, <3>1 DEF SetAll
    <3> QED
      BY <1>7, <2>1, <3>1, <3>2, <3>3
  <2>2. CASE prepared # {}
    <3>1. /\ prepared' = prepared /\ next' = next \cup new
          /\ doBlock' = doBlock /\ handleEos' = h
      BY <1>5, <2>2 DEF PrepareStreams
    <3> QED
      BY <1>7, <2>2, <3>1
  <2> QED
    BY <2>1, <2>2
<1> HIDE DEF h
<1>9. /\ prepared \subseteq prepared' /\ prepared' \ prepared \subseteq next \cup free
      /\ next' \cup free' \subseteq next \cup free /\ next \cup free \subseteq Streams
      /\ \A t \in next \cup free :
           /\ dpc[t] = "idle" /\ task[t] = "stopped" /\ spc[t] = "off"
           /\ ~cancelled[t] /\ ~doBlock[t] /\ lastRet[t] # "EOS" /\ t # s
           /\ dpc'[t] = "idle" /\ task'[t] = "stopped" /\ lastRet'[t] # "EOS"
           /\ t \notin streams /\ t \notin prepared
  BY <1>0, <1>2, <1>4, <1>6, <1>8 DEF RestParts, Fresh, OwnLists, Apart, TypeOK
<1>10. Fresh'
  <2>1. \A t \in next' \cup free' : ~doBlock'[t]
    <3>1. next' \cup free' \subseteq Streams /\ prepared' \cap (next' \cup free') = {}
      BY <1>0, <1>6, <1>8, <1>9 DEF OwnLists, Apart
    <3> QED
      BY <1>8, <1>9, <3>1
  <2> QED
    BY <1>1, <1>3, <1>9, <2>1 DEF Fresh
<1>11. OldStopped'
  <2>1. \A t \in Streams : task[t] = "stopped" => task'[t] = "stopped"
    BY <1>4
  <2>2. /\ \A t \in old \cup aold : t \in Streams /\ t \notin Dead
        /\ \A d \in Streams : \A t \in dfree[d] : t \in Streams /\ t \notin Dead
    BY <1>0, <1>2 DEF OwnLists, Apart, TaskLists, InLists, TypeOK
  <2> QED
    BY <1>0, <1>1, <2>1, <2>2 DEF RestParts, OldStopped
<1>12. Started' /\ Kinds'
  BY <1>0, <1>1, <1>2, <1>4, <1>9 DEF RestParts, Started, Kinds
<1>13. Holders' /\ Exposer'
  BY <1>0, <1>1, <1>2, <1>3, <1>4 DEF RestParts, Holders, Exposer, Dt, St, Api, Free
<1>14. Blocked'
  BY <1>0, <1>1, <1>4, <1>7, <1>8, <1>9 DEF RestParts, Blocked
<1>15. BlockedWhere'
  <2>1. \A t \in streams : ~doBlock'[t]
    BY <1>0, <1>2, <1>6, <1>8, <1>9 DEF RestParts, BlockedWhere, TypeOK
  <2>2. \A t \in Streams : doBlock'[t] /\ ~cancelled[t] => t \in streams \cup prepared'
    BY <1>0, <1>6, <1>8 DEF RestParts, BlockedWhere
  <2>3. \A t \in prepared' : doBlock'[t]
    BY <1>0, <1>2, <1>3, <1>8, <1>9 DEF RestParts, BlockedWhere, Listed, TypeOK
  <2> QED
    BY <1>1, <1>2, <2>1, <2>2, <2>3 DEF BlockedWhere
<1>16. NoLostWakeup' /\ ExposeOnlyPrerolled'
  BY <1>0, <1>1, <1>3, <1>8, <1>9 DEF RestParts, NoLostWakeup, ExposeOnlyPrerolled
<1>17. Halted' /\ Joined' /\ FreeApi'
  BY <1>1, <1>2, <1>3 DEF Halted, Joined, FreeApi, FreePcs, Stopping
<1>18. FreeTask'
  <2>1. \A d \in Streams : dpc[d] = "freeSrc" => dcur[d] \in Streams /\ dcur[d] # s
    BY <1>0, <1>1, FreedStopped DEF RestInv, OwnInv, TypeInv, FreeingOwn
  <2> QED
    BY <1>0, <1>1, <1>4, <2>1 DEF RestParts, FreeTask
<1>19. Sourced'
  <2>1. \A t \in Listed' : t \in Listed \/ spc[t] = "off"
    BY <1>1, <1>9 DEF Listed
  <2>2. Listed' \subseteq Streams
    BY <1>0, <1>1, <1>9 DEF Listed, TypeOK
  <2> QED
    BY <1>0, <1>1, <1>2, <1>4, <2>1, <2>2 DEF RestParts, Sourced
<1>20. Going' /\ AllOrNone'
  <2>1. CASE prepared' = prepared
    BY <1>0, <1>1, <1>2, <2>1 DEF RestParts, Going, AllOrNone, ToStart
  <2>2. CASE prepared = {}
    BY <1>0, <1>1, <1>2, <1>9, <2>2 DEF RestParts, Going, AllOrNone, ToStart
  <2> QED
    BY <1>8, <2>1, <2>2
<1>21. Counted'
  BY <1>4 DEF Counted, Prerolling
<1> QED
  BY <1>10, <1>11, <1>12, <1>13, <1>14, <1>15, <1>16, <1>17, <1>18, <1>19, <1>20, <1>21
  DEF RestParts

-----------------------------------------------------------------------------
(* S in preroll.                                                            *)
LEMMA SPrerollCheckRest ==
  ASSUME RestInv, NEW s \in Streams, SPrerollCheck(s)
  PROVE  RestParts'
<1>0. TypeOK /\ RestParts /\ OwnLists /\ OwnPcs
  BY DEF RestInv, OwnInv, TypeInv
<1>1. /\ Dead' = Dead /\ Listed' = Listed /\ ResetList(aphase)' = ResetList(aphase)
      /\ UNCHANGED <<manifest, running, period, pending, streams, prepared, old, next,
                     free, cancelled, doBlock, handleEos, lastRet, task, src, dpc, dret,
                     dfree, dcur, xold, xtodo, apc, akind, atodo, acur, aphase, aold>>
  BY SameDead DEF SPrerollCheck, demuxVars, listVars, flagVars, dVars, xVars, aVars,
     Listed, ResetList
<1>2. /\ \A t \in Streams \ {s} : spc'[t] = spc[t]
      /\ spc[s] \in {"prCheck", "prWoken"}
      /\ \/ spc'[s] = "off" /\ cancelled[s]
         \/ spc'[s] = "prWait" /\ ~cancelled[s] /\ doBlock[s]
         \/ spc'[s] = "relock" /\ ~doBlock[s]
  BY <1>0 DEF SPrerollCheck, TypeOK
<1>3. /\ ~Exposing /\ ~Exposing'
      /\ \A t \in Streams : spc[t] \notin {"expose", "exposeOld"}
      /\ \A t \in Streams : spc'[t] \notin {"expose", "exposeOld"}
  <2>1. preroll = None \/ (preroll = s /\ spc[s] = "prCheck")
    BY DEF SPrerollCheck
  <2>2. \A t \in Streams : spc[t] \notin {"expose", "exposeOld"}
    BY <1>0, <2>1, ConstantsAssumption DEF OwnPcs, ExposerHolds
  <2>3. \A t \in Streams : spc'[t] \notin {"expose", "exposeOld"}
    BY <1>2, <2>2
  <2> QED
    BY <2>2, <2>3 DEF Exposing
<1>4. xold = {} /\ xtodo = {}
  BY <1>0, <1>3, ReplacingExposes DEF RestParts, Exposer
<1>5. s \notin next \cup Dead
  BY <1>0, <1>2 DEF RestParts, Fresh
<1>6. Fresh' /\ OldStopped' /\ Started'
  BY <1>0, <1>1, <1>2, <1>5, DeadWhere DEF RestInv, RestParts, Fresh, OldStopped, Started,
     TypeOK
<1>7. Holders' /\ Kinds'
  BY <1>0, <1>1, <1>2 DEF RestParts, Holders, Kinds, Stopping
<1>8. Exposer' /\ BlockedWhere' /\ ExposeOnlyPrerolled'
  BY <1>0, <1>1, <1>3, <1>4 DEF RestParts, Exposer, BlockedWhere, ExposeOnlyPrerolled
<1>9. Blocked' /\ NoLostWakeup'
  BY <1>0, <1>1, <1>2 DEF RestParts, Blocked, NoLostWakeup
<1>10. Halted' /\ AllOrNone' /\ Going' /\ FreeApi' /\ FreeTask'
  BY <1>0, <1>1 DEF RestParts, Halted, Stopping, AllOrNone, Going, ToStart, Listed,
     FreeApi, FreeTask
<1>11. Joined'
  <2>1. \A t \in Streams : InChain(t)' => InChain(t)
    BY <1>2 DEF InChain, ChainPcs
  <2> QED
    BY <1>0, <1>1, <2>1 DEF RestParts, Joined, Stopping, Listed, TypeOK
<1>12. Sourced'
  BY <1>0, <1>1, <1>2 DEF RestParts, Sourced, Listed, TypeOK
<1>13. Counted'
  <2>1. Prerolling' => Prerolling
    BY <1>1 DEF Prerolling
  <2>2. Prerolling /\ s \in prepared => spc'[s] = "prWait"
    BY <1>0, <1>2, <1>5 DEF RestParts, Prerolling, BlockedWhere
  <2>3. Prerolling => Waiting' = Waiting
    BY <1>0, <1>1, <1>2, <2>2 DEF Waiting, TypeOK
  <2> QED
    BY <1>0, <1>1, <2>1, <2>3 DEF RestParts, Counted
<1> QED
  BY <1>6, <1>7, <1>8, <1>9, <1>10, <1>11, <1>12, <1>13 DEF RestParts

(* The last stream to preroll begins to expose the prepared ones: all       *)
(* others wait.                                                             *)
LEMMA SPrerollRest ==
  ASSUME RestInv, NEW s \in Streams, SPreroll(s)
  PROVE  RestParts'
<1>0. TypeOK /\ RestParts /\ OwnLists /\ OwnPcs
  BY DEF RestInv, OwnInv, TypeInv
<1>1. /\ UNCHANGED <<running, period, old, next, free, cancelled, doBlock, handleEos,
                     lastRet, task, src, dpc, dret, dfree, dcur, xtodo, apc, akind,
                     atodo, acur, aphase, aold>>
      /\ spc[s] = "prNeed" /\ preroll' = s /\ manifest' = Free /\ pending' = pending - 1
  BY DEF SPreroll, flagVars, dVars, aVars
<1>2. /\ s \in prepared /\ s \notin Dead /\ doBlock[s] /\ ~cancelled[s]
      /\ ~Stopping /\ apc \notin FreePcs /\ xold = {} /\ xtodo = {}
      /\ Prerolling /\ \A t \in streams : ~doBlock[t]
      /\ \A t \in Streams : spc[t] \notin {"expose", "exposeOld", "prCheck"}
  BY PrerollAlone DEF SPreroll
<1>3. Dead' = Dead /\ Dead = free /\ ~Stopping' /\ aphase = 0
  BY <1>0, <1>1, <1>2 DEF Dead, FreePcs, Stopping, OwnPcs, FreeingCall
<1>4. /\ \A t \in Streams \ {s} : spc'[t] = spc[t]
      /\ \/ /\ pending = 1 /\ xold' = streams /\ streams' = prepared /\ prepared' = {}
            /\ spc'[s] = "expose"
         \/ /\ UNCHANGED <<xold, streams, prepared>>
            /\ spc'[s] = "prCheck"
  BY <1>0, <1>2 DEF SPreroll, TypeOK
<1>5. s \in Waiting /\ Waiting \subseteq Streams /\ IsFiniteSet(Waiting)
      /\ Cardinality(Waiting) <= pending
  <2>1. Waiting \subseteq Streams
    BY <1>0 DEF Waiting, TypeOK
  <2> QED
    BY <1>0, <1>1, <1>2, <2>1, FS_Subset, ConstantsAssumption
    DEF RestParts, Counted, Waiting
<1>6. /\ \A t \in Streams : manifest # Dt(t) /\ (spc[t] = "prNeed" => t = s)
      /\ manifest # Api
  BY <1>0, <1>1 DEF RestParts, Holders, St, Dt, Api
<1>7. Fresh' /\ OldStopped' /\ Blocked' /\ NoLostWakeup'
  <2>1. s \notin next \cup Dead
    BY <1>0, <1>1 DEF RestParts, Fresh
  <2>2. next \cup Dead \subseteq Streams
    BY <1>0, <1>3 DEF TypeOK
  <2> QED
    BY <1>0, <1>1, <1>2, <1>3, <1>4, <2>1, <2>2
    DEF RestParts, Fresh, OldStopped, Blocked, NoLostWakeup
<1>8. Started' /\ Kinds' /\ Holders'
  BY <1>0, <1>1, <1>2, <1>4, <1>6 DEF RestParts, Started, Kinds, Holders, Prerolling
<1>9. Halted' /\ Joined' /\ FreeApi' /\ FreeTask'
  BY <1>0, <1>1, <1>2, <1>3 DEF RestParts, Halted, Joined, FreeApi, FreeTask, FreePcs,
     Stopping
<1>10. Sourced' /\ Going' /\ AllOrNone'
  <2>1. Listed' \subseteq Listed /\ Listed \subseteq Streams
    BY <1>0, <1>4 DEF Listed, TypeOK
  <2>2. ToStart' = ToStart
    BY <1>2, <1>4 DEF ToStart
  <2>3. Sourced'
    BY <1>0, <1>1, <1>2, <1>4, <2>1 DEF RestParts, Sourced
  <2>4. Going' /\ AllOrNone'
    BY <1>0, <1>1, <1>2, <1>4, <2>2 DEF RestParts, Going, AllOrNone
  <2> QED
    BY <2>3, <2>4
<1>11. Exposer' /\ BlockedWhere'
  <2>1. CASE spc'[s] = "expose"
    <3>1. xold' = streams /\ streams' = prepared /\ prepared' = {}
      BY <1>4, <2>1
    <3>2. Exposing'
      BY <1>1, <2>1 DEF Exposing
    <3>3. \A t \in Streams : spc'[t] \in {"expose", "exposeOld"} => t = s /\ spc'[t] = "expose"
      BY <1>2, <1>4, <2>1
    <3>4. Exposer'
      BY <1>1, <1>2, <3>1, <3>3 DEF Exposer
    <3>5. BlockedWhere'
      BY <1>0, <1>1, <1>2, <1>3, <3>1, <3>2 DEF RestParts, BlockedWhere
    <3> QED
      BY <3>4, <3>5
  <2>2. CASE spc'[s] = "prCheck"
    <3>1. UNCHANGED <<xold, streams, prepared>>
      BY <1>4, <2>2
    <3>2. \A t \in Streams : spc'[t] \notin {"expose", "exposeOld"}
      BY <1>2, <1>4, <2>2
    <3> QED
      BY <1>0, <1>1, <1>2, <1>3, <3>1, <3>2 DEF RestParts, Exposer, BlockedWhere
  <2> QED
    BY <1>4, <2>1, <2>2
<1>12. Counted'
  <2>1. CASE prepared' = {}
    BY <2>1 DEF Counted, Prerolling
  <2>2. CASE UNCHANGED <<xold, streams, prepared>> /\ spc'[s] = "prCheck"
    <3>1. Waiting' = Waiting \ {s}
      BY <1>0, <1>1, <1>4, <2>2 DEF Waiting, TypeOK
    <3>2. Cardinality(Waiting \ {s}) = Cardinality(Waiting) - 1
      BY <1>5, FS_RemoveElement
    <3>3. Cardinality(Waiting) \in Nat
      BY <1>5, FS_CardinalityType
    <3> QED
      BY <1>0, <1>1, <1>5, <3>1, <3>2, <3>3 DEF Counted, TypeOK
  <2> QED
    BY <1>4, <2>1, <2>2
<1>13. ExposeOnlyPrerolled'
  <2>1. CASE spc'[s] = "expose"
    <3>1. streams' = prepared /\ pending = 1
      BY <1>4, <2>1
    <3>2. Cardinality(Waiting \ {s}) = Cardinality(Waiting) - 1
      BY <1>5, FS_RemoveElement
    <3>3. Cardinality(Waiting) \in Nat /\ IsFiniteSet(Waiting \ {s})
          /\ Cardinality(Waiting \ {s}) \in Nat
      BY <1>5, FS_CardinalityType, FS_RemoveElement
    <3>4. Cardinality(Waiting \ {s}) = 0
      BY <1>5, <3>1, <3>2, <3>3
    <3>5. Waiting \ {s} = {}
      BY <3>3, <3>4, FS_EmptySet
    <3>6. \A o \in prepared \ {s} : spc[o] \in {"prWait", "prWoken"}
      BY <1>0, <1>2, <3>5 DEF Waiting, TypeOK
    <3>7. \A t \in Streams : spc'[t] \in {"expose", "exposeOld"} => t = s
      BY <1>2, <1>4
    <3> QED
      BY <1>0, <1>1, <1>2, <1>4, <3>1, <3>6, <3>7 DEF ExposeOnlyPrerolled, TypeOK
  <2>2. CASE spc'[s] = "prCheck"
    BY <1>2, <1>4, <2>2 DEF ExposeOnlyPrerolled
  <2> QED
    BY <1>4, <2>1, <2>2
<1> QED
  BY <1>7, <1>8, <1>9, <1>10, <1>11, <1>12, <1>13 DEF RestParts

(* While expose_streams removes the pads of the replaced streams ...        *)
LEMMA ExposingRest ==
  ASSUME RestInv, NEW s \in Streams, spc[s] \in {"expose", "exposeOld"}, manifest = Free,
         spc' = [spc EXCEPT ![s] = "exposeOld"], xtodo' \subseteq xold,
         \A t \in xold \ xtodo' : cancelled'[t] /\ task'[t] = "stopped",
         \A t \in Streams : /\ cancelled[t] => cancelled'[t]
                            /\ task[t] = "stopped" => task'[t] = "stopped",
         \A t \in Streams \ xold : cancelled'[t] = cancelled[t] /\ task'[t] = task[t],
         UNCHANGED <<lockVars, running, period, listVars, xold, doBlock, handleEos,
                     lastRet, src, dVars, aVars>>
  PROVE  RestParts'
<1>0. TypeOK /\ RestParts /\ OwnLists /\ OwnPcs
  BY DEF RestInv, OwnInv, TypeInv
<1>1. /\ Dead' = Dead /\ Listed' = Listed
      /\ UNCHANGED <<manifest, preroll, running, streams, prepared, old, next, free, xold,
                     doBlock, handleEos, lastRet, src, dpc, dret, dfree, dcur, apc, akind,
                     atodo, acur, aphase, aold>>
  BY SameDead DEF lockVars, listVars, dVars, aVars, Listed
<1>2. preroll = s /\ apc \notin FreePcs /\ prepared = {} /\ s \in streams /\ aphase = 0
  BY <1>0, ReplacingExposes DEF OwnPcs, ExposerHolds, Exposing, FreeingCall, FreePcs
<1>3. /\ \A t \in Streams \ {s} : spc'[t] = spc[t]
      /\ spc'[s] = "exposeOld"
      /\ \A t \in Streams : spc[t] \in {"expose", "exposeOld"} => t = s
  BY <1>0, <1>2 DEF OwnPcs, ExposerHolds, TypeOK
<1>4. Exposing /\ Exposing' /\ \A t \in Streams : InChain(t)' <=> InChain(t)
  BY <1>1, <1>2, <1>3 DEF Exposing, InChain, ChainPcs
<1>5. /\ xold \cap (streams \cup prepared \cup old \cup aold \cup next \cup Dead) = {}
      /\ \A d \in Streams : xold \cap dfree[d] = {}
      /\ next \cup Dead \subseteq Streams /\ s \notin next \cup Dead
  BY <1>0, <1>3, DeadWhere DEF RestInv, OwnLists, Apart, TaskLists, InLists, RestParts,
     Fresh, TypeOK
<1>6. Fresh'
  BY <1>0, <1>1, <1>3, <1>5 DEF RestParts, Fresh
<1>7. OldStopped'
  BY <1>0, <1>1, <1>5 DEF RestParts, OldStopped, TypeOK
<1>8. Started' /\ Holders' /\ Kinds'
  <2>1. \A t \in Streams : task'[t] = "started" => task[t] = "started"
    BY <1>0 DEF TypeOK
  <2>2. \A t \in Streams : spc[t] # "prNeed" /\ dpc[t] \notin {"free", "start"}
    BY <1>0 DEF RestParts, Holders, Free, St, Dt
  <2>3. \A t \in Streams : spc'[t] # "prNeed"
    BY <1>3, <2>2
  <2> QED
    BY <1>0, <1>1, <2>1, <2>2, <2>3 DEF RestParts, Started, Holders, Kinds, Stopping
<1>9. Exposer'
  <2>1. \A t \in Streams : spc'[t] \in {"expose", "exposeOld"} => t = s
    BY <1>3
  <2> QED
    BY <1>0, <1>1, <1>2, <1>3, <2>1 DEF RestParts, Exposer
<1>10. Blocked' /\ BlockedWhere'
  <2>1. Blocked'
    BY <1>0, <1>1, <1>3 DEF RestParts, Blocked
  <2>2. BlockedWhere'
    BY <1>0, <1>1, <1>2, <1>4 DEF RestParts, BlockedWhere
  <2> QED
    BY <2>1, <2>2
<1>11. NoLostWakeup'
  <2>1. \A t \in xold : ~doBlock[t] /\ (spc[t] = "prWait" => apc = "bcast")
    BY <1>0 DEF RestParts, BlockedWhere, NoLostWakeup, TypeOK
  <2> QED
    BY <1>0, <1>1, <1>3, <2>1 DEF RestParts, NoLostWakeup
<1>12. Halted' /\ Joined'
  <2>1. \A t \in Listed : t \in Streams /\ t \notin xold
    BY <1>0, <1>5 DEF Listed, TypeOK
  <2>2. Halted'
    BY <1>0, <1>1, <2>1 DEF RestParts, Halted, Stopping
  <2>3. Joined'
    BY <1>0, <1>1, <1>4, <2>1 DEF RestParts, Joined, Stopping, TypeOK
  <2> QED
    BY <2>2, <2>3
<1>13. FreeApi' /\ FreeTask' /\ AllOrNone' /\ Counted'
  BY <1>0, <1>1, <1>2 DEF RestParts, FreeApi, FreePcs, FreeTask, AllOrNone, Counted,
     Prerolling
<1>14. Sourced' /\ Going'
  <2>1. \A t \in Streams : spc'[t] # "off" => spc[t] # "off"
    BY <1>3
  <2>2. ToStart' = streams /\ ToStart = streams /\ \A t \in streams : t \in Streams \ xold
    BY <1>0, <1>1, <1>2, <1>5 DEF ToStart, TypeOK
  <2>3. Sourced'
    BY <1>0, <1>1, <2>1 DEF RestParts, Sourced, Listed, TypeOK
  <2>4. Going'
    BY <1>0, <1>1, <2>2 DEF RestParts, Going
  <2> QED
    BY <2>3, <2>4
<1>15. ExposeOnlyPrerolled'
  BY <1>0, <1>1, <1>2, <1>3 DEF RestParts, ExposeOnlyPrerolled, TypeOK
<1> QED
  BY <1>6, <1>7, <1>8, <1>9, <1>10, <1>11, <1>12, <1>13, <1>14, <1>15 DEF RestParts

(* ... and when it is done with them.                                       *)
LEMMA ExposeDoneRest ==
  ASSUME RestInv, NEW s \in Streams, spc[s] \in {"expose", "exposeOld"}, manifest = Free,
         ExposeDone(s), xtodo' = {},
         \A t \in xold : cancelled'[t] /\ task'[t] = "stopped",
         \A t \in Streams \ xold : cancelled'[t] = cancelled[t] /\ task'[t] = task[t],
         UNCHANGED <<lockVars, running, period, streams, prepared, next, free, handleEos,
                     lastRet, src, dVars, aVars>>
  PROVE  RestParts'
<1>0. TypeOK /\ RestParts /\ OwnLists /\ OwnPcs
  BY DEF RestInv, OwnInv, TypeInv
<1>1. /\ UNCHANGED <<manifest, preroll, running, streams, prepared, next, free, handleEos,
                     lastRet, src, dpc, dret, dfree, dcur, apc, akind, atodo, acur,
                     aphase, aold>>
      /\ old' = old \cup xold /\ xold' = {} /\ xtodo' = {} /\ Listed' = Listed
  BY DEF lockVars, dVars, aVars, Listed, ExposeDone
<1>2. preroll = s /\ apc \notin FreePcs /\ prepared = {} /\ s \in streams /\ aphase = 0
  BY <1>0, ReplacingExposes DEF OwnPcs, ExposerHolds, Exposing, FreeingCall, FreePcs
<1>3. Dead' = Dead /\ Dead = free
  BY <1>1, <1>2 DEF Dead, FreePcs
<1>4. /\ \A t \in Streams \ {s} :
           spc'[t] = IF spc[t] = "prWait" THEN "prWoken" ELSE spc[t]
      /\ spc'[s] = "prCheck"
      /\ \A t \in Streams : spc[t] \in {"expose", "exposeOld"} => t = s
      /\ \A t \in Streams : doBlock'[t] = (IF t \in streams THEN FALSE ELSE doBlock[t])
  BY <1>0, <1>2 DEF OwnPcs, ExposerHolds, ExposeDone, Broadcast, SetAll, TypeOK
<1>5. /\ \A t \in Streams : InChain(t)' <=> InChain(t)
      /\ \A t \in Streams : spc'[t] \notin {"expose", "exposeOld", "prWait"}
      /\ \A t \in Streams : spc'[t] = "off" <=> spc[t] = "off"
      /\ \A t \in Streams : spc'[t] \in {"relock", "push"} => spc'[t] = spc[t]
  <2>1. \A t \in Streams : InChain(t)' <=> InChain(t)
    BY <1>4 DEF InChain, ChainPcs
  <2> QED
    BY <1>4, <2>1
<1>6. /\ xold \cap (streams \cup prepared \cup old \cup aold \cup next \cup Dead) = {}
      /\ \A d \in Streams : xold \cap dfree[d] = {}
      /\ next \cup Dead \subseteq Streams /\ xold \subseteq Streams
  BY <1>0, <1>4, DeadWhere DEF RestInv, OwnLists, Apart, TaskLists, InLists, TypeOK
<1>7. \A t \in Streams : /\ doBlock'[t] => doBlock[t] /\ t \notin streams
                         /\ cancelled[t] => cancelled'[t]
                         /\ task'[t] = "started" => task[t] = "started" /\ t \notin xold
  BY <1>0, <1>4 DEF TypeOK
<1>8. Fresh'
  <2>1. \A t \in next \cup Dead : t \in Streams \ xold /\ t # s
    BY <1>0, <1>6 DEF RestParts, Fresh
  <2> QED
    BY <1>0, <1>1, <1>3, <1>4, <1>7, <2>1 DEF RestParts, Fresh
<1>9. OldStopped'
  BY <1>0, <1>1, <1>3, <1>6 DEF RestParts, OldStopped, TypeOK
<1>10. Started' /\ Holders' /\ Kinds' /\ Exposer'
  <2>1. \A t \in Streams : spc[t] # "prNeed" /\ dpc[t] \notin {"free", "start"}
    BY <1>0 DEF RestParts, Holders, Free, St, Dt
  <2>2. \A t \in Streams : spc'[t] # "prNeed"
    BY <1>4, <2>1
  <2> QED
    BY <1>0, <1>1, <1>5, <1>7, <2>1, <2>2 DEF RestParts, Started, Holders, Kinds, Stopping,
       Exposer
<1>11. Blocked' /\ NoLostWakeup' /\ ExposeOnlyPrerolled'
  BY <1>0, <1>1, <1>5, <1>7 DEF RestParts, Blocked, NoLostWakeup, ExposeOnlyPrerolled
<1>12. BlockedWhere'
  BY <1>0, <1>1, <1>2, <1>7 DEF RestParts, BlockedWhere, TypeOK
<1>13. Halted' /\ Joined'
  <2>1. \A t \in Listed : t \in Streams /\ t \notin xold
    BY <1>0, <1>6 DEF Listed, TypeOK
  <2>2. Halted'
    BY <1>0, <1>1, <1>3, <2>1 DEF RestParts, Halted, Stopping
  <2>3. Joined'
    BY <1>0, <1>1, <1>3, <1>5, <2>1 DEF RestParts, Joined, Stopping, TypeOK
  <2> QED
    BY <2>2, <2>3
<1>14. FreeApi' /\ FreeTask' /\ AllOrNone' /\ Counted'
  BY <1>0, <1>1, <1>2 DEF RestParts, FreeApi, FreePcs, FreeTask, AllOrNone, Counted,
     Prerolling
<1>15. Sourced' /\ Going'
  <2>1. ToStart' = streams /\ ToStart = streams /\ \A t \in streams : t \in Streams \ xold
    BY <1>0, <1>1, <1>2, <1>6 DEF ToStart, TypeOK
  <2>2. Sourced'
    BY <1>0, <1>1, <1>5 DEF RestParts, Sourced, Listed, TypeOK
  <2>3. Going'
    BY <1>0, <1>1, <2>1 DEF RestParts, Going
  <2> QED
    BY <2>2, <2>3
<1> QED
  BY <1>8, <1>9, <1>10, <1>11, <1>12, <1>13, <1>14, <1>15 DEF RestParts

LEMMA SExposeRest ==
  ASSUME RestInv, NEW s \in Streams, SExpose(s) \/ SExposeOld(s)
  PROVE  RestParts'
<1>0. TypeOK /\ Exposer /\ OwnLists
  BY DEF RestInv, OwnInv, TypeInv, RestParts
<1>1. CASE SExpose(s)
  <2>1. /\ UNCHANGED <<lockVars, running, period, streams, prepared, next, free, cancelled,
                       handleEos, lastRet, task, src, dVars, aVars>>
        /\ spc[s] = "expose" /\ manifest = Free
    BY <1>1 DEF SExpose
  <2>2. CASE xold = {}
    <3>1. ExposeDone(s) /\ xtodo' = {}
      BY <1>0, <1>1, <2>2 DEF SExpose, Exposer
    <3> QED
      BY <2>1, <2>2, <3>1, ExposeDoneRest
  <2>3. CASE xold # {}
    <3>1. /\ xtodo' = xold /\ spc' = [spc EXCEPT ![s] = "exposeOld"]
          /\ UNCHANGED <<listVars, xold, doBlock>>
      BY <1>1, <2>3 DEF SExpose, listVars
    <3> QED
      BY <2>1, <3>1, ExposingRest
  <2> QED
    BY <2>2, <2>3
<1>2. CASE SExposeOld(s)
  <2>1. PICK o \in xtodo : /\ CancelStream(o) /\ xtodo' = xtodo \ {o}
                           /\ IF xtodo = {o} THEN ExposeDone(s)
                              ELSE UNCHANGED <<old, xold, doBlock, spc>>
    BY <1>2 DEF SExposeOld
  <2>2. /\ UNCHANGED <<lockVars, demuxVars, streams, prepared, next, free, handleEos,
                       lastRet, src, dVars, aVars>>
        /\ spc[s] = "exposeOld" /\ manifest = Free
    BY <1>2 DEF SExposeOld
  <2>3. o \in xold /\ xold \subseteq Streams
    BY <1>0 DEF Exposer, TypeOK
  <2>4. /\ cancelled'[o] /\ task'[o] = "stopped"
        /\ \A t \in Streams \ {o} : cancelled'[t] = cancelled[t] /\ task'[t] = task[t]
    BY <1>0, <2>1, <2>3 DEF CancelStream, TypeOK
  <2>5. \A t \in xold \ xtodo' : cancelled'[t] /\ task'[t] = "stopped"
    BY <1>0, <2>1, <2>2, <2>3, <2>4 DEF Exposer
  <2>6. CASE xtodo = {o}
    <3>1. ExposeDone(s) /\ xtodo' = {}
      BY <2>1, <2>6
    <3> QED
      BY <2>2, <2>3, <2>4, <2>5, <3>1, ExposeDoneRest DEF demuxVars
  <2>7. CASE xtodo # {o}
    <3>1. UNCHANGED <<listVars, xold, doBlock>> /\ xtodo' \subseteq xold
      BY <1>0, <2>1, <2>2, <2>7 DEF Exposer, listVars
    <3>2. spc' = [spc EXCEPT ![s] = "exposeOld"]
      BY <1>0, <2>1, <2>2, <2>7 DEF TypeOK
    <3> QED
      BY <2>2, <2>3, <2>4, <2>5, <3>1, <3>2, ExposingRest DEF demuxVars
  <2> QED
    BY <2>6, <2>7
<1> QED
  BY <1>1, <1>2

-----------------------------------------------------------------------------
(* The calls.                                                               *)

(* What a step of a call that only moves on leaves alone.                   *)
quietVars == <<preroll, demuxVars, listVars, flagVars, task, src, spc, dVars, xVars>>

QuietParts == /\ Fresh /\ OldStopped /\ Started /\ Exposer /\ Blocked /\ BlockedWhere
              /\ FreeTask /\ AllOrNone /\ ExposeOnlyPrerolled

LEMMA QuietRest ==
  ASSUME RestInv, UNCHANGED <<quietVars, aold>>, Dead' = Dead,
         apc' \notin FreePcs => apc \notin FreePcs
  PROVE  QuietParts'
<1>0. RestParts
  BY DEF RestInv
<1>1. UNCHANGED <<preroll, running, streams, prepared, old, next, cancelled, doBlock,
                  handleEos, lastRet, task, dpc, dret, dfree, dcur, spc, xold, xtodo, aold>>
  BY DEF quietVars, demuxVars, listVars, flagVars, dVars, xVars
<1>2. Fresh' /\ OldStopped' /\ Started' /\ Exposer' /\ Blocked'
  BY <1>0, <1>1 DEF RestParts, Fresh, OldStopped, Started, Exposer, Blocked
<1>3. BlockedWhere' /\ FreeTask' /\ AllOrNone' /\ ExposeOnlyPrerolled'
  BY <1>0, <1>1 DEF RestParts, BlockedWhere, Exposing, FreeTask, AllOrNone,
     ExposeOnlyPrerolled
<1> QED
  BY <1>2, <1>3 DEF QuietParts

(* A call begins, lists the streams, has joined a task, or has nothing to   *)
(* set up before it starts the tasks.                                       *)
LEMMA CallMoveRest ==
  ASSUME RestInv,
         \/ \E kind \in SeekKinds \cup ResetKinds : ACall(kind)
         \/ AList \/ AJoin
         \/ /\ apc = "join" /\ atodo = {} /\ akind \in SeekKinds /\ manifest = Free
            /\ apc' = "start" /\ manifest' = Api
            /\ UNCHANGED <<quietVars, akind, atodo, acur, aphase, aold>>
  PROVE  RestParts'
<1>0. TypeOK /\ RestParts /\ OwnLists /\ OwnPcs
  BY DEF RestInv, OwnInv, TypeInv
<1>1. /\ UNCHANGED <<quietVars, aphase, aold>>
      /\ apc \in {"idle", "list", "join", "wait"}
      /\ apc' \in {"flush", "stop", "join", "start"}
      /\ apc' = "start" => manifest = Free /\ manifest' = Api
      /\ apc' # "start" => manifest' = manifest
  BY DEF ACall, AList, AJoin, quietVars, lockVars
<1>2. /\ Dead' = Dead /\ Dead = free /\ Listed' = Listed /\ apc \notin FreePcs
      /\ apc' \notin FreePcs /\ aphase = 0
      /\ UNCHANGED <<preroll, running, pending, streams, prepared, cancelled, doBlock, task,
                     src, dpc, spc, xold>>
  BY <1>0, <1>1 DEF Dead, Listed, quietVars, listVars, demuxVars, flagVars, dVars, xVars,
     FreePcs, OwnPcs, FreeingCall
<1>3. QuietParts'
  BY <1>1, <1>2, QuietRest
<1>4. /\ akind' # akind => apc = "idle"
      /\ apc = "idle" => /\ apc' = "join" => akind' = "keep"
                         /\ apc' # "start"
                         /\ apc' \in {"flush", "stop"} => akind' # "keep"
                         /\ ~running => akind' \in ResetKinds
      /\ apc = "list" => apc' = "join" /\ atodo' = Listed
      /\ apc = "join" => atodo = {} /\ apc' = "start" /\ akind \in SeekKinds
      /\ apc = "wait" => /\ apc' = "join" /\ atodo' = atodo \ {acur}
                         /\ dpc[acur] = "idle" /\ acur' = None
  <2>1. CASE \E kind \in SeekKinds \cup ResetKinds : ACall(kind)
    <3>1. PICK kind \in SeekKinds \cup ResetKinds : ACall(kind)
      BY <2>1
    <3>2. akind' = kind /\ apc = "idle"
      BY <3>1 DEF ACall
    <3>3. /\ kind = "keep" => apc' = "join"
          /\ kind # "keep" => apc' \in {"flush", "stop"}
      BY <3>1 DEF ACall
    <3>4. ~running => kind \in ResetKinds
      <4>1. ~running => streams = {}
        BY <1>0, <3>2 DEF RestParts, Kinds, Stopping, FreePcs
      <4> QED
        BY <3>1, <4>1, ConstantsAssumption DEF ACall, ResetKinds
    <3> QED
      BY <3>2, <3>3, <3>4
  <2> QED
    BY <2>1 DEF AList, AJoin
<1>5. Holders'
  BY <1>0, <1>1, <1>2 DEF RestParts, Holders, Api, Dt, St, Free
<1>6. NoLostWakeup'
  BY <1>0, <1>1, <1>2 DEF RestParts, NoLostWakeup
<1>7. Kinds'
  <2>1. SeekKinds \cap ResetKinds = {} /\ "keep" \notin ResetKinds
    BY ConstantsAssumption DEF ResetKinds
  <2> QED
    BY <1>0, <1>1, <1>2, <1>4, <2>1 DEF RestParts, Kinds, Stopping, FreePcs
<1>8. Stopping' => Stopping /\ apc \in {"list", "wait"} /\ akind' = akind /\ apc' = "join"
  BY <1>0, <1>1, <1>2, <1>4 DEF RestParts, Kinds, Stopping
<1>9. Halted'
  BY <1>0, <1>2, <1>8 DEF RestParts, Halted
<1>10. Joined'
  <2>1. apc = "wait" /\ akind # "keep" /\ acur \in Listed => ~InChain(acur)
    BY <1>0, <1>4 DEF RestParts, Joined
  <2> QED
    BY <1>0, <1>2, <1>4, <1>8, <2>1 DEF RestParts, Joined, Stopping, InChain
<1>11. FreeApi' /\ Sourced'
  BY <1>0, <1>1, <1>2 DEF RestParts, FreeApi, FreePcs, Sourced
<1>12. Going'
  <2>1. ToStart' = ToStart
    BY <1>2 DEF ToStart
  <2>2. /\ apc' \in {"idle", "flush", "stop"} => apc = "idle"
        /\ akind' = "keep" => akind = "keep" \/ apc = "idle"
    BY <1>1, <1>4
  <2> QED
    BY <1>0, <1>2, <2>1, <2>2 DEF RestParts, Going
<1>13. Counted'
  BY <1>0, <1>1, <1>2 DEF RestParts, Counted, Prerolling, Waiting, FreePcs
<1> QED
  BY <1>3, <1>5, <1>6, <1>7, <1>9, <1>10, <1>11, <1>12, <1>13 DEF RestParts, QuietParts

(* stop_tasks cancels the listed streams ...                                *)
LEMMA AStopRest ==
  ASSUME RestInv, AStop
  PROVE  RestParts'
<1>0. TypeOK /\ RestParts /\ OwnLists /\ OwnPcs
  BY DEF RestInv, OwnInv, TypeInv
<1>1. /\ UNCHANGED <<manifest, preroll, pending, streams, prepared, next, free, doBlock,
                     handleEos, lastRet, src, dpc, dret, dfree, dcur, spc, xold, xtodo,
                     akind, atodo, acur, aphase>>
      /\ manifest = Free /\ apc \in {"flush", "stop"} /\ apc' = "bcast"
      /\ running' = (running /\ akind # "down") /\ akind # "keep"
      /\ old' \cup aold' \subseteq old \cup aold
  BY <1>0 DEF AStop, lockVars, dVars, xVars, TakeOld, RestParts, Kinds
<1>2. /\ \A t \in Listed : cancelled'[t] /\ task'[t] = "stopped"
      /\ \A t \in Streams \ Listed : cancelled'[t] = cancelled[t] /\ task'[t] = task[t]
      /\ \A t \in Streams : /\ cancelled[t] => cancelled'[t]
                            /\ task[t] = "stopped" => task'[t] = "stopped"
      /\ Listed \subseteq Streams /\ Listed' = Listed
  BY <1>0, <1>1 DEF AStop, SetAll, Listed, TypeOK
<1>3. Dead' = Dead /\ Dead = free /\ aphase = 0 /\ next \cup Dead \subseteq Streams \ Listed
  BY <1>0, <1>1 DEF Dead, OwnPcs, FreeingCall, OwnLists, Apart, Listed, TypeOK
<1>4. Fresh'
  BY <1>0, <1>1, <1>2, <1>3 DEF RestParts, Fresh
<1>5. OldStopped' /\ Started'
  BY <1>0, <1>1, <1>2, <1>3 DEF RestParts, OldStopped, Started, TypeOK
<1>6. Holders' /\ Kinds'
  BY <1>0, <1>1 DEF RestParts, Holders, Kinds, Stopping, ResetKinds, Dt, St, Free
<1>7. Exposer'
  BY <1>0, <1>1, <1>2 DEF RestParts, Exposer, TypeOK
<1>8. Blocked' /\ BlockedWhere' /\ NoLostWakeup'
  BY <1>0, <1>1, <1>2, <1>3 DEF RestParts, Blocked, BlockedWhere, Exposing, NoLostWakeup
<1>9. Halted' /\ Joined'
  BY <1>1, <1>2 DEF Halted, Joined, FreePcs
<1>10. FreeApi' /\ FreeTask' /\ Sourced' /\ Going'
  BY <1>0, <1>1, <1>2, <1>3 DEF RestParts, FreeApi, FreeTask, FreePcs, Sourced, Going
<1>11. AllOrNone' /\ Counted' /\ ExposeOnlyPrerolled'
  <2>1. \A t \in prepared : cancelled'[t]
    BY <1>2 DEF Listed
  <2> QED
    BY <1>0, <1>1, <1>2, <2>1 DEF RestParts, AllOrNone, Counted, Prerolling,
       ExposeOnlyPrerolled, TypeOK
<1> QED
  BY <1>4, <1>5, <1>6, <1>7, <1>8, <1>9, <1>10, <1>11 DEF RestParts

(* ... wakes those in preroll ...                                           *)
LEMMA ABroadcastRest ==
  ASSUME RestInv, ABroadcast
  PROVE  RestParts'
<1>0. TypeOK /\ RestParts /\ OwnLists /\ OwnPcs
  BY DEF RestInv, OwnInv, TypeInv
<1>1. /\ UNCHANGED <<manifest, preroll, running, pending, streams, prepared, old, next,
                     free, cancelled, doBlock, handleEos, lastRet, task, src, dpc, dret,
                     dfree, dcur, xold, xtodo, akind, atodo, acur, aphase, aold>>
      /\ preroll = None /\ apc = "bcast" /\ apc' = "list" /\ akind # "keep"
  BY <1>0 DEF ABroadcast, lockVars, demuxVars, listVars, flagVars, dVars, xVars,
     RestParts, Kinds
<1>2. \A t \in Streams : spc'[t] = IF spc[t] = "prWait" THEN "prWoken" ELSE spc[t]
  BY DEF ABroadcast, Broadcast
<1>3. /\ \A t \in Streams : InChain(t)' <=> InChain(t)
      /\ \A t \in Streams : spc'[t] # "prWait" /\ (spc'[t] = "off" <=> spc[t] = "off")
      /\ \A t \in Streams : spc'[t] \in {"relock", "push", "prNeed"} => spc'[t] = spc[t]
      /\ ~Exposing /\ ~Exposing'
      /\ \A t \in Streams : spc[t] \notin {"expose", "exposeOld"}
      /\ \A t \in Streams : spc'[t] \notin {"expose", "exposeOld"}
  <2>1. \A t \in Streams : InChain(t)' <=> InChain(t)
    BY <1>2 DEF InChain, ChainPcs
  <2>2. \A t \in Streams : spc[t] \notin {"expose", "exposeOld"}
    BY <1>0, <1>1, ConstantsAssumption DEF OwnPcs, ExposerHolds
  <2> QED
    BY <1>1, <1>2, <2>1, <2>2, ConstantsAssumption DEF Exposing
<1>4. xold = {} /\ xtodo = {} /\ Dead' = Dead /\ Dead = free /\ Listed' = Listed
      /\ next \cup Dead \subseteq Streams
  BY <1>0, <1>1, <1>3, ReplacingExposes DEF RestParts, Exposer, Dead, Listed, TypeOK
<1>5. Fresh' /\ OldStopped' /\ Started'
  BY <1>0, <1>1, <1>3, <1>4 DEF RestParts, Fresh, OldStopped, Started
<1>6. Holders' /\ Kinds'
  BY <1>0, <1>1, <1>3 DEF RestParts, Holders, Kinds, Stopping
<1>7. Exposer' /\ Blocked' /\ BlockedWhere' /\ NoLostWakeup' /\ ExposeOnlyPrerolled'
  BY <1>0, <1>1, <1>3, <1>4 DEF RestParts, Exposer, Blocked, BlockedWhere, NoLostWakeup,
     ExposeOnlyPrerolled
<1>8. Halted' /\ Joined' /\ FreeApi' /\ FreeTask' /\ AllOrNone' /\ Going'
  BY <1>0, <1>1, <1>4 DEF RestParts, Halted, Joined, Stopping, FreePcs, FreeApi, FreeTask,
     AllOrNone, Going
<1>9. Sourced'
  BY <1>0, <1>1, <1>3, <1>4 DEF RestParts, Sourced, FreePcs, Listed, TypeOK
<1>10. Counted'
  <2>1. Waiting' = Waiting
    BY <1>0, <1>1, <1>2 DEF Waiting, TypeOK
  <2>2. Prerolling' => Prerolling
    BY <1>1 DEF Prerolling, FreePcs
  <2> QED
    BY <1>0, <1>1, <2>1, <2>2 DEF RestParts, Counted
<1> QED
  BY <1>5, <1>6, <1>7, <1>8, <1>9, <1>10 DEF RestParts

(* ... and stops their sources.                                             *)
LEMMA AStopSrcRest ==
  ASSUME RestInv, AStopSrc
  PROVE  RestParts'
<1>0. TypeOK /\ RestParts /\ OwnLists /\ OwnPcs
  BY DEF RestInv, OwnInv, TypeInv
<1>1. /\ UNCHANGED <<manifest, preroll, running, pending, streams, prepared, old, next,
                     free, cancelled, doBlock, handleEos, lastRet, task, dpc, dret,
                     dfree, dcur, xold, xtodo, akind, atodo, aphase, aold>>
      /\ apc = "join" /\ apc' = "wait"
  BY DEF AStopSrc, lockVars, demuxVars, listVars, flagVars, dVars, xVars
<1>2. PICK s \in atodo :
        /\ ~InChain(s) \/ src[s] = "none"
        /\ IF src[s] = "none" THEN UNCHANGED <<src, spc>>
           ELSE /\ src' = [src EXCEPT ![s] = "ready"]
                /\ spc' = [spc EXCEPT ![s] = "off"]
        /\ acur' = s
  BY DEF AStopSrc
<1>3. /\ \A t \in Streams \ {s} : spc'[t] = spc[t] /\ src'[t] = src[t]
      /\ \/ spc'[s] = spc[s] /\ src'[s] = src[s]
         \/ spc'[s] = "off" /\ ~InChain(s)
      /\ s \in Streams
  BY <1>0, <1>2 DEF TypeOK
<1>4. /\ \A t \in Streams : InChain(t)' <=> InChain(t)
      /\ \A t \in Streams : spc'[t] = spc[t] \/ (spc'[t] = "off" /\ ~InChain(t))
      /\ \A t \in Streams, c \in ChainPcs : spc'[t] = c <=> spc[t] = c
  BY <1>3 DEF InChain, ChainPcs
<1>5. Exposing' <=> Exposing
  BY <1>1, <1>4 DEF Exposing, ChainPcs
<1>6. Dead' = Dead /\ Dead = free /\ Listed' = Listed /\ next \cup Dead \subseteq Streams
  BY <1>0, <1>1 DEF Dead, Listed, TypeOK
<1>7. Fresh' /\ OldStopped' /\ Started'
  BY <1>0, <1>1, <1>4, <1>6 DEF RestParts, Fresh, OldStopped, Started
<1>8. Holders' /\ Kinds' /\ Exposer'
  <2>1. \A t \in Streams : /\ spc'[t] = "expose" <=> spc[t] = "expose"
                           /\ spc'[t] = "exposeOld" <=> spc[t] = "exposeOld"
                           /\ spc'[t] = "prNeed" <=> spc[t] = "prNeed"
    BY <1>4 DEF ChainPcs
  <2>2. Holders' /\ Kinds'
    BY <1>0, <1>1, <2>1 DEF RestParts, Holders, Kinds, Stopping, FreePcs
  <2>3. Exposer'
    BY <1>0, <1>1, <2>1 DEF RestParts, Exposer
  <2> QED
    BY <2>2, <2>3
<1>9. Blocked' /\ BlockedWhere' /\ NoLostWakeup' /\ ExposeOnlyPrerolled'
  BY <1>0, <1>1, <1>4, <1>5, <1>6 DEF RestParts, Blocked, BlockedWhere, NoLostWakeup,
     ExposeOnlyPrerolled, ChainPcs, TypeOK
<1>10. Halted' /\ FreeApi' /\ FreeTask' /\ AllOrNone' /\ Going'
  BY <1>0, <1>1, <1>6 DEF RestParts, Halted, Stopping, FreePcs, FreeApi, FreeTask,
     AllOrNone, Going, ToStart
<1>11. Joined'
  <2>1. s \in Listed => ~InChain(s) \/ dpc[s] = "drop"
    BY <1>0, <1>1, <1>2 DEF RestParts, Sourced, FreePcs, InChain, ChainPcs
  <2> QED
    BY <1>0, <1>1, <1>2, <1>4, <1>6, <2>1 DEF RestParts, Joined, Stopping, FreePcs, Listed,
       TypeOK
<1>12. Sourced'
  BY <1>0, <1>1, <1>3, <1>6 DEF RestParts, Sourced, FreePcs, Listed, TypeOK
<1>13. Counted'
  <2>1. Waiting' = Waiting
    BY <1>0, <1>1, <1>4 DEF Waiting, ChainPcs, TypeOK
  <2>2. Prerolling' => Prerolling
    BY <1>1 DEF Prerolling, FreePcs
  <2> QED
    BY <1>0, <1>1, <2>1, <2>2 DEF RestParts, Counted
<1> QED
  BY <1>7, <1>8, <1>9, <1>10, <1>11, <1>12, <1>13 DEF RestParts

(* A seek, or the first manifest, sets up streams: those it found are at    *)
(* rest, and those still in preroll become old ones.                        *)
LEMMA SetupRest ==
  ASSUME RestInv, manifest = Free, running, apc \in {"idle", "join"},
         \A t \in Listed : /\ cancelled[t] /\ task[t] = "stopped"
                           /\ dpc[t] = "idle" /\ ~InChain(t),
         NEW p, NEW new \in NewStreams(p), PrepareStreams(new, {}, handleEos),
         old' = old \cup prepared,
         apc' = "start", manifest' = Api, akind' # "keep",
         UNCHANGED <<preroll, running, pending, streams, cancelled, lastRet, task, src, spc,
                     dVars, xVars, atodo, acur, aphase, aold>>
  PROVE  RestParts'
<1>0. TypeOK /\ RestParts /\ OwnLists /\ OwnPcs
  BY DEF RestInv, OwnInv, TypeInv
<1>1. /\ UNCHANGED <<preroll, running, pending, streams, cancelled, lastRet, task, src, spc,
                     dpc, dret, dfree, dcur, xold, xtodo, atodo, acur, aphase, aold>>
  BY DEF dVars, xVars
<1>2. /\ ~Exposing /\ xold = {} /\ xtodo = {}
      /\ \A t \in Streams : spc[t] \notin {"expose", "exposeOld"}
  <2>1. ~(xold # {} \/ Exposing)
    BY ReplacingExposes DEF Listed
  <2>2. \A t \in Streams : spc[t] \in {"expose", "exposeOld"} => Exposing
    BY <1>0 DEF OwnPcs, ExposerHolds, Exposing
  <2> QED
    BY <1>0, <2>1, <2>2 DEF RestParts, Exposer
<1>3. new \subseteq free /\ free' = free \ new
  BY <1>0, NewStreamsType DEF PrepareStreams, TypeOK
<1>4. /\ prepared' = next \cup new /\ next' = {}
      /\ \A t \in Streams : /\ doBlock'[t] <=> doBlock[t] \/ t \in next \cup new
                            /\ handleEos'[t] => handleEos[t] /\ t \notin next \cup new
  <2>1. /\ prepared' = next \cup new /\ next' = {}
        /\ doBlock' = SetAll(doBlock, next \cup new, TRUE)
        /\ handleEos' = SetAll(handleEos, next \cup new, FALSE)
    BY DEF PrepareStreams
  <2>2. /\ \A t \in Streams : doBlock'[t] = (IF t \in next \cup new THEN TRUE ELSE doBlock[t])
        /\ \A t \in Streams :
             handleEos'[t] = (IF t \in next \cup new THEN FALSE ELSE handleEos[t])
    BY <1>0, <2>1 DEF SetAll, TypeOK
  <2> QED
    BY <2>1, <2>2
<1>5. /\ Dead = free /\ Dead' = free' /\ ~Stopping' /\ apc' \notin FreePcs /\ aphase = 0
      /\ Exposing' = FALSE
  BY <1>0, <1>1, <1>2 DEF Dead, FreePcs, Stopping, OwnPcs, FreeingCall, Exposing
<1>6. /\ prepared' \subseteq next \cup free /\ next' \cup free' \subseteq (next \cup free) \ prepared'
      /\ next \cup free \subseteq Streams
      /\ \A t \in next \cup free :
           /\ dpc[t] = "idle" /\ task[t] = "stopped" /\ spc[t] = "off"
           /\ ~cancelled[t] /\ ~doBlock[t] /\ lastRet[t] # "EOS"
           /\ t \notin streams /\ t \notin prepared
  BY <1>0, <1>3, <1>4, <1>5 DEF RestParts, Fresh, OwnLists, Apart, TypeOK
<1>7. \A t \in Streams : spc[t] # "prNeed" /\ dpc[t] \notin {"free", "start"}
  BY <1>0 DEF RestParts, Holders, Free, St, Dt
<1>8. Fresh'
  <2>1. \A t \in next' \cup free' : ~doBlock'[t]
    BY <1>3, <1>4, <1>6
  <2> QED
    BY <1>1, <1>5, <1>6, <2>1 DEF Fresh
<1>9. OldStopped'
  <2>1. /\ (old \cup aold) \cap Dead = {}
        /\ \A d \in Streams : dfree[d] \cap Dead = {}
    BY <1>0, <1>5 DEF OwnLists, Apart, TaskLists, InLists
  <2> QED
    BY <1>0, <1>1, <2>1 DEF RestParts, OldStopped, Listed
<1>10. Started' /\ Holders' /\ Kinds' /\ Exposer'
  <2>1. Started'
    BY <1>0, <1>1 DEF RestParts, Started, Listed
  <2>2. Holders' /\ Kinds' /\ Exposer'
    BY <1>1, <1>2, <1>7 DEF Holders, Kinds, Exposer
  <2> QED
    BY <2>1, <2>2
<1>11. Blocked'
  BY <1>0, <1>1, <1>3, <1>4, <1>6 DEF RestParts, Blocked
<1>12. BlockedWhere'
  <2>1. \A t \in streams : ~doBlock'[t]
    BY <1>0, <1>2, <1>3, <1>4, <1>6 DEF RestParts, BlockedWhere, TypeOK
  <2>2. \A t \in Streams : doBlock'[t] /\ ~cancelled[t] => t \in streams \cup prepared'
    BY <1>0, <1>4 DEF RestParts, BlockedWhere, Listed
  <2>3. \A t \in prepared' : doBlock'[t]
    BY <1>4, <1>6
  <2> QED
    BY <1>1, <1>2, <2>1, <2>2, <2>3 DEF BlockedWhere
<1>13. NoLostWakeup' /\ ExposeOnlyPrerolled'
  BY <1>0, <1>1, <1>2, <1>4 DEF RestParts, NoLostWakeup, ExposeOnlyPrerolled
<1>14. Halted' /\ Joined' /\ FreeApi' /\ FreeTask'
  BY <1>0, <1>1, <1>5 DEF RestParts, Halted, Joined, FreeApi, FreePcs, Stopping, FreeTask
<1>15. Sourced'
  <2>1. \A t \in Listed' : t \in Listed \/ spc[t] = "off"
    BY <1>1, <1>4, <1>3, <1>6 DEF Listed
  <2> QED
    BY <1>0, <1>1, <2>1 DEF RestParts, Sourced, FreePcs
<1>16. Going' /\ AllOrNone' /\ Counted'
  <2>1. \A t \in prepared' : ~cancelled'[t]
    BY <1>1, <1>6
  <2> QED
    BY <2>1 DEF Going, AllOrNone, Counted, Prerolling, FreePcs
<1> QED
  BY <1>8, <1>9, <1>10, <1>11, <1>12, <1>13, <1>14, <1>15, <1>16 DEF RestParts

LEMMA ASetupRest ==
  ASSUME RestInv, ASinkEos \/ ASeekBody
  PROVE  RestParts'
<1>0. TypeOK /\ RestParts /\ OwnLists
  BY DEF RestInv, OwnInv, TypeInv
<1>1. CASE ASinkEos
  <2>1. /\ manifest = Free /\ running /\ apc = "idle" /\ streams = {} /\ prepared = {}
        /\ \E new \in NewStreams(1) : PrepareStreams(new, {}, handleEos)
        /\ apc' = "start" /\ manifest' = Api /\ akind' = "manifest"
        /\ UNCHANGED <<preroll, running, pending, streams, old, cancelled, lastRet, task,
                       src, spc, dVars, xVars, atodo, acur, aphase, aold>>
    BY <1>1 DEF ASinkEos
  <2>2. \A t \in Listed : /\ cancelled[t] /\ task[t] = "stopped"
                          /\ dpc[t] = "idle" /\ ~InChain(t)
    BY <2>1 DEF Listed
  <2>3. old' = old \cup prepared
    BY <2>1
  <2> QED
    BY <2>1, <2>2, <2>3, SetupRest
<1>2. CASE ASeekBody
  <2>1. /\ apc = "join" /\ atodo = {} /\ akind \in SeekKinds /\ manifest = Free
        /\ apc' = "start" /\ manifest' = Api
        /\ UNCHANGED <<preroll, running, pending, streams, cancelled, finished, lastRet,
                       task, src, spc, dVars, xVars, akind, atodo, acur, aphase, aold>>
        /\ \/ /\ akind # "keep"
              /\ \E p \in 1..Periods : \E new \in NewStreams(p) :
                   PrepareStreams(new, prepared \ Displaced, handleEos)
              /\ old' = old \cup Displaced
           \/ UNCHANGED <<period, prepared, next, free, old, doBlock, handleEos>>
    BY <1>2 DEF ASeekBody
  <2>2. CASE UNCHANGED <<period, prepared, next, free, old, doBlock, handleEos>>
    BY <2>1, <2>2, CallMoveRest DEF quietVars, demuxVars, listVars, flagVars
  <2>3. ASSUME akind # "keep", NEW p \in 1..Periods, NEW new \in NewStreams(p),
               PrepareStreams(new, prepared \ Displaced, handleEos),
               old' = old \cup Displaced
        PROVE  RestParts'
    <3>1. running
      BY <1>0, <2>1, ConstantsAssumption DEF RestParts, Kinds, ResetKinds
    <3>2. \A t \in Listed : /\ cancelled[t] /\ task[t] = "stopped"
                            /\ dpc[t] = "idle" /\ ~InChain(t)
      <4>1. Listed \cap Dead = {}
        BY <1>0, <2>1, DeadWhere DEF RestInv, FreePcs, OwnLists, Apart, Listed
      <4> QED
        BY <1>0, <2>1, <2>3, <4>1 DEF RestParts, Halted, Joined, Stopping
    <3>3. prepared \ Displaced = {} /\ old' = old \cup prepared
      BY <2>3 DEF Displaced
    <3> QED
      BY <2>1, <2>3, <3>1, <3>2, <3>3, SetupRest
  <2> QED
    BY <2>1, <2>2, <2>3
<1> QED
  BY <1>1, <1>2

(* A reset begins to free the lists; it is about to free the next stream,   *)
(* or has joined its task.                                                  *)
LEMMA AFreeMoveRest ==
  ASSUME RestInv, AReset \/ AFreeNext \/ AFreeJoin
  PROVE  RestParts'
<1>0. TypeOK /\ RestParts /\ OwnLists /\ OwnPcs
  BY DEF RestInv, OwnInv, TypeInv
<1>1. /\ UNCHANGED <<preroll, demuxVars, listVars, finished, doBlock, handleEos, lastRet,
                     task, cancelled, spc, dVars, xVars, akind, aold>>
  <2>1. CASE AFreeNext
    <3>1. PICK o \in atodo : /\ task' = [task EXCEPT ![o] = "stopped"]
                             /\ cancelled' = [cancelled EXCEPT ![o] = @ \/ task[o] # "stopped"]
      BY <2>1 DEF AFreeNext
    <3>2. o \in Streams /\ task[o] = "stopped"
      BY <2>1, FreedStopped DEF AFreeNext, FreePcs
    <3>3. task' = task /\ cancelled' = cancelled
      BY <1>0, <3>1, <3>2 DEF TypeOK
    <3> QED
      BY <2>1, <3>3 DEF AFreeNext
  <2> QED
    BY <2>1 DEF AReset, AFreeJoin, lockVars, flagVars
<1>2. /\ UNCHANGED <<preroll, running, pending, streams, prepared, old, next, free, doBlock,
                     handleEos, lastRet, task, cancelled, spc, dpc, dret, dfree, dcur, xold,
                     xtodo, akind, aold>>
      /\ Listed' = Listed /\ akind \in ResetKinds /\ akind # "keep"
      /\ apc' \in FreePcs /\ apc \notin {"start", "bcast"} /\ akind # "none"
  BY <1>0, <1>1 DEF demuxVars, listVars, dVars, xVars, AReset, AFreeNext, AFreeJoin, FreePcs,
     OwnPcs, FreeingCall, ResetKinds, Listed
<1>3. /\ \/ /\ apc = "join" /\ atodo = {} /\ apc' = "free" /\ aphase' = 1
            /\ aphase = 0 /\ atodo' = streams
         \/ /\ apc = "free" /\ apc' = "freeJoin" /\ UNCHANGED <<atodo, aphase>>
            /\ acur' \in atodo
         \/ /\ apc = "freeJoin" /\ apc' = "freeSrc" /\ UNCHANGED <<atodo, aphase, acur>>
            /\ dpc[acur] = "idle"
      /\ apc' = "free" => manifest = Free /\ manifest' = Api
      /\ apc' # "free" => manifest' = Free
  BY <1>0 DEF AReset, AFreeNext, AFreeJoin, lockVars, OwnPcs, FreeingCall
<1>4. Dead' = Dead
  BY <1>2, <1>3 DEF Dead, FreePcs, ResetList
<1>5. Stopping /\ Stopping' /\ (apc \in FreePcs \/ (apc = "join" /\ atodo = {}))
  BY <1>2, <1>3 DEF Stopping, FreePcs
<1>6. \A t \in Streams : spc[t] # "prNeed" /\ dpc[t] \notin {"free", "start"}
  <2>1. manifest \in {Api, Free}
    BY <1>0 DEF AReset, AFreeNext, AFreeJoin
  <2> QED
    BY <1>0, <2>1 DEF RestParts, Holders, Api, Free, St, Dt
<1>7. Fresh' /\ OldStopped' /\ Started' /\ Exposer' /\ Blocked' /\ BlockedWhere'
  BY <1>0, <1>2, <1>4 DEF RestParts, Fresh, OldStopped, Started, Exposer, Blocked,
     BlockedWhere, Exposing
<1>8. Holders' /\ Kinds'
  <2>1. apc' = "free" => manifest' = Api
    BY <1>3
  <2> QED
    BY <1>0, <1>2, <1>5, <1>6, <2>1 DEF RestParts, Holders, Kinds, FreePcs
<1>9. NoLostWakeup' /\ FreeTask' /\ ExposeOnlyPrerolled'
  BY <1>0, <1>2 DEF RestParts, NoLostWakeup, FreeTask, ExposeOnlyPrerolled
<1>10. Halted'
  BY <1>0, <1>2, <1>4, <1>5 DEF RestParts, Halted
<1>11. Joined'
  <2>1. \A t \in Listed \ Dead : dpc[t] = "idle" /\ ~InChain(t)
    BY <1>0, <1>2, <1>5 DEF RestParts, Joined
  <2> QED
    BY <1>2, <1>4, <2>1 DEF Joined, FreePcs, InChain
<1>12. FreeApi'
  <2>1. CASE apc = "join"
    BY <1>2, <1>3, <2>1 DEF FreeApi, FreePcs, ResetList
  <2>2. CASE apc \in FreePcs
    <3>1. ResetList(aphase)' = ResetList(aphase) /\ aphase' = aphase /\ atodo' = atodo
      BY <1>2, <1>3, <2>2 DEF FreePcs, ResetList
    <3> QED
      BY <1>0, <1>2, <1>3, <2>2, <3>1 DEF RestParts, FreeApi, FreePcs
  <2> QED
    BY <1>5, <2>1, <2>2
<1>13. Sourced' /\ Going' /\ AllOrNone' /\ Counted'
  BY <1>2 DEF Sourced, Going, AllOrNone, Counted, Prerolling, FreePcs
<1> QED
  BY <1>7, <1>8, <1>9, <1>10, <1>11, <1>12, <1>13 DEF RestParts

(* It forgets a stream ...                                                  *)
LEMMA AFreeSrcRest ==
  ASSUME RestInv, AFreeSrc
  PROVE  RestParts'
<1> DEFINE o == acur
<1>0. TypeOK /\ RestParts /\ OwnLists /\ OwnPcs
  BY DEF RestInv, OwnInv, TypeInv
<1>1. /\ UNCHANGED <<preroll, running, pending, streams, prepared, old, next, free, task,
                     src, dpc, dret, dfree, dcur, xold, xtodo, akind, aphase, aold>>
      /\ apc = "freeSrc" /\ apc' = "free" /\ manifest = Free /\ manifest' = Api
      /\ atodo' = atodo \ {o} /\ ~InChain(o) /\ Listed' = Listed
  BY DEF AFreeSrc, demuxVars, listVars, dVars, xVars, Listed
<1>2. /\ o \in atodo /\ o \in Streams \ Dead /\ task[o] = "stopped" /\ dpc[o] = "idle"
      /\ o \in ResetList(aphase) /\ akind \in ResetKinds /\ akind # "keep"
  BY <1>0, <1>1, FreedStopped DEF RestParts, FreeApi, FreePcs, OwnPcs, FreeingCall,
     ResetKinds
<1>3. /\ ~cancelled'[o] /\ ~doBlock'[o] /\ ~handleEos'[o] /\ lastRet'[o] = "OK"
      /\ spc'[o] = "off"
      /\ \A t \in Streams \ {o} :
           /\ cancelled'[t] = cancelled[t] /\ doBlock'[t] = doBlock[t]
           /\ handleEos'[t] = handleEos[t] /\ lastRet'[t] = lastRet[t]
           /\ spc'[t] = spc[t]
  BY <1>0, <1>2 DEF AFreeSrc, Forget, FreshFields, TypeOK
<1>4. Dead' = Dead \cup {o} /\ ResetList(aphase)' = ResetList(aphase)
  <2>1. ResetList(aphase)' = ResetList(aphase)
    BY <1>1 DEF ResetList
  <2> QED
    BY <1>1, <1>2, <2>1 DEF Dead
<1>5. /\ \A t \in Streams : spc[t] \notin {"expose", "exposeOld"}
      /\ \A t \in Streams : spc'[t] \notin {"expose", "exposeOld"}
      /\ ~Exposing /\ ~Exposing' /\ xold = {} /\ xtodo = {}
  <2>1. ~Exposing /\ xold = {}
    BY <1>1, ReplacingExposes DEF FreePcs
  <2>2. \A t \in Streams : spc[t] \notin {"expose", "exposeOld"}
    BY <1>0, <2>1 DEF OwnPcs, ExposerHolds, Exposing
  <2>3. \A t \in Streams : spc'[t] \notin {"expose", "exposeOld"}
    BY <1>3, <2>2
  <2> QED
    BY <1>0, <2>1, <2>2, <2>3 DEF Exposing, RestParts, Exposer
<1>6. \A t \in Streams : spc[t] # "prNeed" /\ dpc[t] \notin {"free", "start"}
  BY <1>0, <1>1 DEF RestParts, Holders, Free, St, Dt
<1>7. Fresh'
  <2>1. next \cup Dead \subseteq Streams
    BY <1>0, DeadWhere DEF RestInv, TypeOK
  <2> QED
    BY <1>0, <1>1, <1>2, <1>3, <1>4, <2>1 DEF RestParts, Fresh
<1>8. OldStopped'
  BY <1>0, <1>1, <1>3, <1>4 DEF RestParts, OldStopped, TypeOK
<1>9. Started' /\ Kinds' /\ Exposer'
  BY <1>0, <1>1, <1>2, <1>5 DEF RestParts, Started, Kinds, Stopping, FreePcs, Exposer
<1>10. Holders'
  <2>1. \A t \in Streams : spc'[t] # "prNeed"
    BY <1>3, <1>6
  <2> QED
    BY <1>1, <1>6, <2>1 DEF Holders
<1>11. Blocked' /\ NoLostWakeup' /\ ExposeOnlyPrerolled'
  BY <1>0, <1>1, <1>3, <1>5 DEF RestParts, Blocked, NoLostWakeup, ExposeOnlyPrerolled
<1>12. BlockedWhere'
  BY <1>0, <1>1, <1>3, <1>4, <1>5 DEF RestParts, BlockedWhere, TypeOK
<1>13. Halted' /\ Joined'
  <2>1. \A t \in Listed \ Dead' : t \in Streams \ {o} /\ t \notin Dead
    BY <1>0, <1>4 DEF Listed, TypeOK
  <2>2. \A t \in Listed \ Dead : dpc[t] = "idle" /\ ~InChain(t)
    BY <1>0, <1>1 DEF RestParts, Joined, FreePcs
  <2>3. \A t \in Listed \ Dead : cancelled[t] /\ task[t] = "stopped"
    BY <1>0, <1>1 DEF RestParts, Halted, Stopping, FreePcs
  <2>4. Halted'
    BY <1>1, <1>3, <2>1, <2>3 DEF Halted
  <2>5. Joined'
    BY <1>1, <1>3, <2>1, <2>2 DEF Joined, InChain
  <2> QED
    BY <2>4, <2>5
<1>14. FreeApi' /\ FreeTask'
  BY <1>0, <1>1, <1>2, <1>4 DEF RestParts, FreeApi, FreePcs, FreeTask
<1>15. Sourced' /\ Going' /\ AllOrNone' /\ Counted'
  BY <1>1, <1>2 DEF Sourced, Going, AllOrNone, Counted, Prerolling, FreePcs
<1> QED
  BY <1>7, <1>8, <1>9, <1>10, <1>11, <1>12, <1>13, <1>14, <1>15 DEF RestParts

(* ... and is done with a list, or with the last one.                       *)
LEMMA AFreeListRest ==
  ASSUME RestInv, AFreeList
  PROVE  RestParts'
<1>0. TypeOK /\ RestParts /\ OwnLists /\ OwnPcs
  BY DEF RestInv, OwnInv, TypeInv
<1>1. /\ UNCHANGED <<preroll, pending, cancelled, doBlock, handleEos, lastRet, task, src,
                     spc, dpc, dret, dfree, dcur, xold, xtodo, acur>>
      /\ apc = "free" /\ manifest = Api /\ atodo = {} /\ aphase \in 1..5
      /\ akind \in ResetKinds /\ akind # "keep"
  BY <1>0 DEF AFreeList, flagVars, dVars, xVars, TypeOK, OwnPcs, FreeingCall, ResetKinds
<1>2. /\ streams' \subseteq streams /\ prepared' \subseteq prepared /\ next' \subseteq next
      /\ old' \cup aold' \subseteq old \cup aold
      /\ free' = free \cup ResetList(aphase) /\ Dead = free'
      /\ (streams \cup prepared) \ Dead \subseteq streams' \cup prepared'
  BY <1>1 DEF AFreeList, Dead, ResetList
<1>3. /\ aphase # 5 => /\ aphase' = aphase + 1 /\ atodo' = ResetList(aphase + 1)
                       /\ UNCHANGED <<apc, akind, manifest, running>>
      /\ aphase = 5 => /\ aphase' = 0 /\ apc' = "idle" /\ manifest' = Free
                       /\ akind' = "none" /\ running' = (running \/ akind = "up")
  BY DEF AFreeList, LastList
<1>4. /\ aphase >= 1 => streams' = {}
      /\ aphase >= 2 => prepared' = {}
      /\ aphase >= 3 => next' = {}
      /\ aphase >= 4 => aold' = {}
      /\ aphase = 5 => old' = {}
  BY <1>0, <1>1 DEF AFreeList, RestParts, FreeApi
<1>5. aphase # 5 => ResetList(aphase)' = atodo'
  <2>1. CASE aphase = 1
    BY <1>3, <2>1 DEF ResetList, AFreeList
  <2>2. CASE aphase = 2
    BY <1>3, <2>2 DEF ResetList, AFreeList
  <2>3. CASE aphase = 3
    BY <1>3, <2>3 DEF ResetList, AFreeList
  <2>4. CASE aphase = 4
    BY <1>3, <2>4 DEF ResetList, AFreeList
  <2> QED
    BY <1>1, <2>1, <2>2, <2>3, <2>4
<1>6. Dead' = Dead
  <2>1. CASE aphase # 5
    BY <1>1, <1>2, <1>3, <1>5, <2>1 DEF Dead
  <2>2. CASE aphase = 5
    BY <1>2, <1>3, <2>2 DEF Dead
  <2> QED
    BY <2>1, <2>2
<1>7. /\ \A t \in Streams : spc[t] \notin {"expose", "exposeOld"}
      /\ ~Exposing /\ xold = {} /\ xtodo = {}
  <2>1. ~Exposing /\ xold = {}
    BY <1>1, ReplacingExposes DEF FreePcs
  <2>2. \A t \in Streams : spc[t] \notin {"expose", "exposeOld"}
    BY <1>0, <2>1 DEF OwnPcs, ExposerHolds, Exposing
  <2> QED
    BY <1>0, <2>1, <2>2 DEF RestParts, Exposer
<1>8. \A t \in Streams : spc[t] # "prNeed" /\ dpc[t] \notin {"free", "start"}
  BY <1>0, <1>1 DEF RestParts, Holders, Api, St, Dt
<1>9. \A t \in Dead : task[t] = "stopped" /\ ~doBlock[t]
  BY <1>0 DEF RestParts, Fresh
<1>10. Fresh' /\ OldStopped' /\ Started'
  BY <1>0, <1>1, <1>2, <1>6, <1>9 DEF RestParts, Fresh, OldStopped, Started
<1>11. Holders' /\ Exposer' /\ Blocked'
  BY <1>0, <1>1, <1>3, <1>7, <1>8 DEF RestParts, Holders, Exposer, Blocked
<1>12. Kinds'
  BY <1>1, <1>3, <1>4 DEF Kinds, Stopping, FreePcs
<1>13. BlockedWhere'
  <2>1. \A t \in streams' : ~doBlock[t]
    BY <1>0, <1>2, <1>7 DEF RestParts, BlockedWhere
  <2>2. \A t \in Streams : doBlock[t] /\ ~cancelled[t] => t \in streams' \cup prepared'
    BY <1>0, <1>2, <1>9 DEF RestParts, BlockedWhere
  <2>3. running' => \A t \in prepared' \ Dead' : doBlock[t]
    <3>1. CASE aphase = 5
      BY <1>4, <3>1
    <3>2. CASE aphase # 5
      BY <1>0, <1>2, <1>3, <1>6, <3>2 DEF RestParts, BlockedWhere
    <3> QED
      BY <3>1, <3>2
  <2> QED
    BY <1>1, <1>7, <2>1, <2>2, <2>3 DEF BlockedWhere
<1>14. NoLostWakeup' /\ FreeTask' /\ ExposeOnlyPrerolled'
  BY <1>0, <1>1, <1>7 DEF RestParts, NoLostWakeup, FreeTask, ExposeOnlyPrerolled
<1>15. Halted' /\ Joined'
  <2>1. \A t \in Listed \ Dead : /\ cancelled[t] /\ task[t] = "stopped"
                                 /\ dpc[t] = "idle" /\ ~InChain(t)
    BY <1>0, <1>1 DEF RestParts, Halted, Joined, Stopping, FreePcs
  <2>2. Listed' \subseteq Listed
    BY <1>2 DEF Listed
  <2> QED
    BY <1>1, <1>3, <1>6, <2>1, <2>2 DEF Halted, Joined, InChain, Stopping, FreePcs
<1>16. FreeApi'
  <2>1. CASE aphase = 5
    BY <1>3, <2>1 DEF FreeApi, FreePcs
  <2>2. CASE aphase # 5
    BY <1>1, <1>3, <1>4, <1>5, <2>2 DEF FreeApi, FreePcs
  <2> QED
    BY <2>1, <2>2
<1>17. Sourced' /\ Going' /\ AllOrNone' /\ Counted'
  <2>1. CASE aphase = 5
    <3>1. streams' = {} /\ prepared' = {}
      BY <1>4, <2>1
    <3> QED
      BY <3>1 DEF Sourced, Going, AllOrNone, Counted, Prerolling, Listed, ToStart
  <2>2. CASE aphase # 5
    BY <1>1, <1>3, <2>2 DEF Sourced, Going, AllOrNone, Counted, Prerolling, FreePcs
  <2> QED
    BY <2>1, <2>2
<1> QED
  BY <1>10, <1>11, <1>12, <1>13, <1>14, <1>15, <1>16, <1>17 DEF RestParts

-----------------------------------------------------------------------------
(* The invariant holds.                                                     *)

LEMMA InitRest == Init => RestInv
<1> SUFFICES ASSUME Init PROVE RestInv
  OBVIOUS
<1>1. /\ streams = {} /\ prepared = {} /\ old = {} /\ next = {} /\ free = Streams
      /\ running = TRUE /\ apc = "idle" /\ aphase = 0 /\ akind = "none" /\ atodo = {}
      /\ xold = {} /\ xtodo = {} /\ aold = {} /\ preroll = None
      /\ \A s \in Streams :
           /\ dpc[s] = "idle" /\ task[s] = "stopped" /\ spc[s] = "off" /\ dfree[s] = {}
           /\ ~cancelled[s] /\ ~doBlock[s] /\ ~handleEos[s] /\ lastRet[s] = "OK"
  BY DEF Init
<1>2. Dead = Streams /\ Listed = {} /\ ToStart = {}
  BY <1>1 DEF Dead, Listed, ToStart
<1>3. /\ Fresh /\ OldStopped /\ Started /\ Holders /\ Kinds /\ Exposer /\ Blocked
      /\ NoLostWakeup /\ ExposeOnlyPrerolled
  BY <1>1, <1>2 DEF Fresh, OldStopped, Started, Holders, Kinds, Exposer, Blocked,
     NoLostWakeup, ExposeOnlyPrerolled
<1>4. /\ BlockedWhere /\ Halted /\ Joined /\ FreeApi /\ FreeTask /\ Sourced /\ Going
      /\ AllOrNone /\ Counted
  BY <1>1, <1>2 DEF BlockedWhere, Halted, Joined, FreeApi, FreePcs, FreeTask, Sourced,
     Going, AllOrNone, Counted, Prerolling
<1> QED
  BY <1>3, <1>4, InitOwn DEF RestInv, RestParts

LEMMA StutterRest ==
  ASSUME RestInv, UNCHANGED vars
  PROVE  RestParts'
<1>0. RestParts
  BY DEF RestInv
<1>1. /\ UNCHANGED <<manifest, preroll, running, period, pending, streams, prepared, old,
                     next, free, cancelled, doBlock, handleEos, lastRet, task, src, dpc,
                     dret, dfree, dcur, spc, xold, xtodo, apc, akind, atodo, acur, aphase,
                     aold>>
      /\ UNCHANGED quietVars
  BY DEF vars, lockVars, demuxVars, listVars, flagVars, dVars, xVars, aVars, quietVars
<1>2. Dead' = Dead /\ Listed' = Listed /\ ResetList(aphase)' = ResetList(aphase)
  BY <1>1 DEF Dead, Listed, ResetList
<1>3. QuietParts'
  BY <1>1, <1>2, QuietRest
<1>4. Holders' /\ Kinds' /\ NoLostWakeup' /\ Halted' /\ Joined'
  BY <1>0, <1>1, <1>2 DEF RestParts, Holders, Kinds, Stopping, NoLostWakeup, Halted, Joined,
     InChain
<1>5. FreeApi' /\ Sourced' /\ Going' /\ Counted'
  BY <1>0, <1>1, <1>2 DEF RestParts, FreeApi, Sourced, Going, ToStart, Counted, Prerolling,
     Waiting
<1> QED
  BY <1>3, <1>4, <1>5 DEF RestParts, QuietParts

LEMMA DStepRest ==
  ASSUME NoEmpty, RestInv, NEW s \in Streams, DStep(s)
  PROVE  RestParts'
<1>1. CASE DEnter(s) \/ DFreeNext(s) \/ DResult(s)
  BY <1>1, LoopStep, DLocalStep, DLocalRest, PeriodStepRest, DFreeRest
<1>2. CASE DFreeJoin(s)
  BY <1>2, DFreeRest
<1>3. CASE DFreeSrc(s)
  BY <1>3, DFreeSrcRest
<1>4. CASE DPrep(s) \/ DReset(s) \/ DSync(s) \/ DWait(s) \/ DReady(s) \/ DRetry(s)
           \/ DLeave(s)
  BY <1>4, DLocalStep, DLocalRest
<1>5. CASE DStart(s)
  <2>1. /\ dpc[s] = "start" /\ manifest = Dt(s) /\ StartTasks /\ manifest' = Free
        /\ dpc' = [dpc EXCEPT ![s] = "idle"]
        /\ UNCHANGED <<preroll, running, period, listVars, finished, handleEos, src, dret,
                       dfree, dcur, spc, xVars, apc, akind, atodo, acur, aphase, aold>>
    BY <1>5 DEF DStart, aVars
  <2> QED
    BY <2>1, StartRest
<1> QED
  BY <1>1, <1>2, <1>3, <1>4, <1>5 DEF DStep

LEMMA SStepRest ==
  ASSUME NoEmpty, RestInv, NEW s \in Streams, SStep(s) \/ SourceError(s)
  PROVE  RestParts'
<1>1. CASE SChain(s) \/ SRelock(s) \/ SPushed(s) \/ SEos(s) \/ SourceError(s)
  BY <1>1, SLocalStep, SLocalRest
<1>2. CASE SPreroll(s) \/ SExpose(s) \/ SExposeOld(s) \/ SPrerollCheck(s)
  BY <1>2, SPrerollRest, SExposeRest, SPrerollCheckRest
<1> QED
  BY <1>1, <1>2 DEF SStep

LEMMA AStepRest ==
  ASSUME RestInv,
         AStep \/ ASinkEos \/ \E kind \in SeekKinds \cup ResetKinds : ACall(kind)
  PROVE  RestParts'
<1>1. CASE AStop \/ ABroadcast \/ AStopSrc
  BY <1>1, AStopRest, ABroadcastRest, AStopSrcRest
<1>2. CASE AList \/ AJoin \/ \E kind \in SeekKinds \cup ResetKinds : ACall(kind)
  BY <1>2, CallMoveRest
<1>3. CASE ASinkEos \/ ASeekBody
  BY <1>3, ASetupRest
<1>4. CASE AStart
  <2>1. /\ apc = "start" /\ manifest = Api /\ StartTasks /\ manifest' = Free
        /\ apc' = "idle" /\ akind' = "none" /\ dpc' = dpc
        /\ UNCHANGED <<preroll, running, period, listVars, finished, handleEos, src, dret,
                       dfree, dcur, spc, xVars, atodo, acur, aphase, aold>>
    BY <1>4 DEF AStart, dVars
  <2> QED
    BY <2>1, StartRest
<1>5. CASE AReset \/ AFreeNext \/ AFreeJoin \/ AFreeSrc \/ AFreeList
  BY <1>5, AFreeMoveRest, AFreeSrcRest, AFreeListRest
<1> QED
  BY <1>1, <1>2, <1>3, <1>4, <1>5 DEF AStep

LEMMA NextRest == NoEmpty /\ RestInv /\ [Next]_vars => RestInv'
<1> SUFFICES ASSUME NoEmpty, RestInv, [Next]_vars PROVE RestInv'
  OBVIOUS
<1>1. OwnInv'
  BY NextOwn DEF RestInv
<1>2. RestParts'
  <2>1. CASE UNCHANGED vars
    BY <2>1, StutterRest
  <2>2. ASSUME NEW s \in Streams, DStep(s) \/ SStep(s) \/ SourceError(s)
        PROVE  RestParts'
    BY <2>2, DStepRest, SStepRest
  <2>3. CASE AStep \/ ASinkEos \/ \E kind \in SeekKinds \cup ResetKinds : ACall(kind)
    BY <2>3, AStepRest
  <2> QED
    BY <2>1, <2>2, <2>3 DEF Next, AtRest
<1> QED
  BY <1>1, <1>2 DEF RestInv

LEMMA RestInvariant ==
  ASSUME NoEmpty
  PROVE  Spec => []RestInv
<1>1. Init => RestInv
  BY InitRest
<1>2. RestInv /\ [Next]_vars => RestInv'
  BY NextRest
<1> QED
  BY <1>1, <1>2, PTL DEF Spec

(* A stream that was freed has no thread left: every thread that frees one  *)
(* (stream_free, called by a D, a reset or a state change) finds its task   *)
(* joined and its source stopped for good, and nobody gets to the object    *)
(* afterwards.                                                              *)
THEOREM FreedIsQuiet ==
  ASSUME NoEmpty
  PROVE  Spec => []DeadIsQuiet
<1>1. RestInv => DeadIsQuiet
  BY DEF RestInv, RestParts, Fresh, DeadIsQuiet
<1> QED
  BY <1>1, RestInvariant, PTL

(* Streams that wait to be freed have been asked to stop, whoever put them  *)
(* there; and once stop_tasks has joined the last task, no D and no chain   *)
(* function of a listed stream runs (gst_adaptive_demux_stop_tasks, and     *)
(* what handle_seek_event and reset do after it).                           *)
THEOREM CallsFindRest ==
  ASSUME NoEmpty
  PROVE  Spec => []CallsAtRest
<1>1. RestInv => CallsAtRest
  <2> SUFFICES ASSUME RestInv PROVE CallsAtRest
    OBVIOUS
  <2>1. RestParts /\ OwnLists
    BY DEF RestInv, OwnInv
  <2>2. Quiescent
    <3> SUFFICES ASSUME apc = "join", atodo = {}, akind # "keep",
                        NEW s \in streams \cup prepared
                 PROVE  cancelled[s] /\ task[s] = "stopped" /\ dpc[s] = "idle" /\ ~InChain(s)
      BY DEF Quiescent
    <3>1. s \in Listed /\ s \notin Dead /\ Stopping
      BY <2>1, DeadWhere DEF RestInv, Listed, FreePcs, OwnLists, Apart, Stopping
    <3> QED
      BY <2>1, <3>1 DEF RestParts, Halted, Joined
  <2> QED
    BY <2>1, <2>2 DEF CallsAtRest, RestParts
<1> QED
  BY <1>1, RestInvariant, PTL

(* A thread that waits in preroll has a reason to wait, or stop_tasks is    *)
(* about to wake it: cancelling a stream or the end of its preroll is never *)
(* missed between the test and the wait on preroll_cond.                    *)
THEOREM WakeupsArrive ==
  ASSUME NoEmpty
  PROVE  Spec => []NoLostWakeup
<1>1. RestInv => NoLostWakeup
  BY DEF RestInv, RestParts
<1> QED
  BY <1>1, RestInvariant, PTL

(* Every call that stops tasks starts those that have to go on, whatever a  *)
(* D or an S did between stop_tasks and start_tasks.                        *)
THEOREM CallsResume ==
  ASSUME NoEmpty
  PROVE  Spec => []Resumed
<1>1. RestInv => Resumed
  BY DEF RestInv, RestParts, Going, ToStart, Resumed
<1> QED
  BY <1>1, RestInvariant, PTL

(* preroll_pending never lets a stream through early: when expose_streams   *)
(* adds the pads, every other stream of the new set has its first buffer    *)
(* and waits, or a call is stopping it.                                     *)
THEOREM ExposedHavePrerolled ==
  ASSUME NoEmpty
  PROVE  Spec => []ExposeOnlyPrerolled
<1>1. RestInv => ExposeOnlyPrerolled
  BY DEF RestInv, RestParts
<1> QED
  BY <1>1, RestInvariant, PTL

-----------------------------------------------------------------------------
(* Preparing streams is never refused.  handle_eos stays set when a seek    *)
(* that has no effect starts a stream again that had ended its period: its  *)
(* D ends the period a second time, and with two more periods to come two   *)
(* Ds can advance.  Hence the hypothesis of this section.                   *)

FewPeriods == Periods <= 2 \/ SeekKinds = {}

(* Without seeks a stream that has ended its period does not run again.     *)
EndedOnce ==
  SeekKinds = {} =>
    \A s \in Streams : handleEos[s] => task[s] = "stopped" /\ dpc[s] \in {"idle", "start"}

(* When the streams of the next period are prepared, those of this one have *)
(* ended, unless it is the last.                                            *)
NoDouble ==
  prepared # {} /\ period < Periods =>
    \A s \in streams \ Dead : task[s] = "stopped" /\ dpc[s] \in {"idle", "start"}

(* There is something new to start.                                         *)
ToBegin ==
  (\E d \in Streams : dpc[d] = "start") \/ (apc = "start" /\ SeekKinds = {}) =>
    prepared # {}

PeriodParts == EndedOnce /\ NoDouble /\ ToBegin /\ NeverRefused
PeriodInv == RestInv /\ PeriodParts

(* What most steps do: they prepare nothing and start no task.              *)
NothingNew ==
  /\ period' = period /\ next' \subseteq next
  /\ prepared' = {} \/ (prepared' = prepared /\ streams' \ Dead' \subseteq streams \ Dead)
  /\ prepared' = prepared \/ (apc' # "start" /\ \A d \in Streams : dpc'[d] # "start")
  /\ apc' = "start" => apc = "start" \/ SeekKinds # {}
  /\ \A t \in Streams :
       /\ task'[t] = "started" => task[t] = "started"
       /\ handleEos'[t] => handleEos[t] \/ (task'[t] = "stopped" /\ dpc'[t] = "idle")
       /\ \/ dpc'[t] \in {dpc[t], "idle"}
          \/ /\ dpc[t] # "idle" \/ task[t] = "started"
             /\ dpc[t] # "start" /\ dpc'[t] # "start"

LEMMA NothingNewPeriod ==
  ASSUME PeriodInv, NothingNew, TypeOK'
  PROVE  PeriodParts'
<1>0. TypeOK /\ PeriodParts /\ Dead \subseteq Streams
  BY DeadWhere DEF PeriodInv, RestInv, OwnInv, TypeInv
<1>1. \A t \in Streams :
        /\ task[t] \in {"stopped", "started"}
        /\ task[t] = "stopped" => task'[t] # "started"
        /\ task[t] = "stopped" /\ dpc[t] \in {"idle", "start"} =>
             dpc'[t] \in {"idle", "start"}
        /\ dpc'[t] = "start" => dpc[t] = "start"
  BY <1>0 DEF NothingNew, TypeOK
<1>2. \A t \in Streams : task'[t] # "started" => task'[t] = "stopped"
  BY DEF TypeOK
<1> QED
  BY <1>0, <1>1, <1>2 DEF NothingNew, PeriodParts, EndedOnce, NoDouble, ToBegin,
     NeverRefused, TypeOK

(* A freed object stays freed in the steps that allocate none.              *)
LEMMA DeadKept ==
  ASSUME free \subseteq free',
         \/ apc \notin FreePcs
         \/ /\ apc' \in FreePcs /\ atodo' \subseteq atodo
            /\ UNCHANGED <<streams, prepared, next, old, aold, aphase>>
  PROVE  Dead \subseteq Dead'
<1>1. CASE apc \notin FreePcs
  BY <1>1 DEF Dead, FreePcs
<1>2. CASE /\ apc \in FreePcs /\ apc' \in FreePcs /\ atodo' \subseteq atodo
           /\ UNCHANGED <<streams, prepared, next, old, aold, aphase>>
  <2>1. ResetList(aphase)' = ResetList(aphase)
    BY <1>2 DEF ResetList
  <2> QED
    BY <1>2, <2>1 DEF Dead, FreePcs
<1> QED
  BY <1>1, <1>2

LEMMA LocalNothing ==
  ASSUME RestInv, NEW s \in Streams, DLocal(s) \/ SLocal(s)
  PROVE  NothingNew
<1>0. TypeOK
  BY DEF RestInv, OwnInv, TypeInv
<1>1. UNCHANGED <<period, streams, prepared, old, next, free, apc, atodo, aold, aphase>>
  BY DEF DLocal, SLocal, demuxVars, listVars, aVars
<1>2. Dead' = Dead
  BY <1>1 DEF Dead, ResetList
<1>3. CASE DLocal(s)
  <2>1. \A t \in Streams : task'[t] = "started" => task[t] = "started"
    BY <1>0, <1>3 DEF DLocal, SetAll, TypeOK
  <2>2. /\ \A t \in Streams \ {s} : handleEos'[t] = handleEos[t] /\ dpc'[t] = dpc[t]
        /\ handleEos'[s] => handleEos[s] \/ (task'[s] = "stopped" /\ dpc'[s] = "idle")
        /\ dpc[s] # "idle" \/ task[s] = "started"
        /\ dpc[s] # "start" /\ dpc'[s] # "start"
    BY <1>0, <1>3 DEF DLocal, TypeOK
  <2> QED
    BY <1>1, <1>2, <2>1, <2>2 DEF NothingNew
<1>4. CASE SLocal(s)
  BY <1>1, <1>2, <1>4 DEF SLocal, dVars, NothingNew
<1> QED
  BY <1>3, <1>4

LEMMA DNothing ==
  ASSUME RestInv, NoEmpty, NEW s \in Streams, DStep(s)
  PROVE  NothingNew \/ PeriodStep(s) \/ DStart(s)
<1>0. TypeOK /\ RestParts /\ OwnPcs /\ FreeingOwn
  BY DEF RestInv, OwnInv, TypeInv
<1>1. CASE DEnter(s) \/ DFreeNext(s) \/ DResult(s)
  <2>1. CASE IterEnd(s)
    BY <2>1, DLocalStep, LocalNothing
  <2>2. CASE TakesOld(s)
    <3>1. apc \notin FreePcs
      BY <2>2, ActiveWhere, ReplacingExposes DEF TakesOld, Stopping
    <3>2. Dead \subseteq Dead'
      BY <2>2, <3>1, DeadKept DEF TakesOld
    <3> QED
      BY <1>0, <2>2, <3>2 DEF TakesOld, loopVars, aVars, NothingNew, TypeOK
  <2>3. CASE FreesOne(s)
    <3>1. Dead' = Dead
      BY <2>3 DEF FreesOne, loopVars, aVars, Dead, ResetList
    <3> QED
      BY <1>0, <2>3, <3>1 DEF FreesOne, loopVars, aVars, NothingNew, TypeOK
  <2> QED
    BY <1>1, <2>1, <2>2, <2>3, LoopStep
<1>2. CASE DFreeJoin(s)
  <2>1. Dead' = Dead
    BY <1>2, SameDead DEF DFreeJoin
  <2> QED
    BY <1>0, <1>2, <2>1 DEF DFreeJoin, demuxVars, listVars, flagVars, aVars, NothingNew,
       TypeOK
<1>3. CASE DFreeSrc(s)
  <2>1. /\ UNCHANGED <<period, streams, prepared, old, next, task, apc, atodo, aold, aphase>>
        /\ free \subseteq free' /\ dpc[s] = "freeSrc"
        /\ dpc' = [dpc EXCEPT ![s] = "free"]
    BY <1>3 DEF DFreeSrc, demuxVars, aVars
  <2>4. dcur[s] \in Streams
    BY <1>0, <2>1 DEF FreeingOwn, TypeOK
  <2>2. Dead \subseteq Dead'
    BY <2>1, DeadKept
  <2>3. \A t \in Streams : handleEos'[t] => handleEos[t]
    BY <1>0, <1>3, <2>4 DEF DFreeSrc, Forget, FreshFields, TypeOK
  <2> QED
    BY <1>0, <2>1, <2>2, <2>3 DEF NothingNew, TypeOK
<1>4. CASE DPrep(s) \/ DReset(s) \/ DSync(s) \/ DWait(s) \/ DReady(s) \/ DRetry(s)
           \/ DLeave(s)
  BY <1>4, DLocalStep, LocalNothing
<1> QED
  BY <1>1, <1>2, <1>3, <1>4 DEF DStep

LEMMA SNothing ==
  ASSUME RestInv, NoEmpty, NEW s \in Streams, SStep(s) \/ SourceError(s)
  PROVE  NothingNew
<1>0. TypeOK /\ RestParts /\ OwnPcs
  BY DEF RestInv, OwnInv, TypeInv
<1>1. CASE SChain(s) \/ SRelock(s) \/ SPushed(s) \/ SEos(s) \/ SourceError(s)
  BY <1>1, SLocalStep, LocalNothing
<1>2. CASE SPreroll(s)
  <2>1. apc \notin FreePcs /\ Prerolling
    BY <1>2, PrerollAlone DEF SPreroll
  <2>2. /\ UNCHANGED <<period, next, free, handleEos, task, dpc, apc>>
        /\ prepared' = {} \/ UNCHANGED <<streams, prepared>>
    BY <1>2 DEF SPreroll, flagVars, dVars, aVars
  <2>3. Dead \subseteq Dead'
    BY <2>1, <2>2, DeadKept
  <2> QED
    BY <2>1, <2>2, <2>3 DEF NothingNew, Prerolling
<1>3. CASE SExpose(s) \/ SExposeOld(s)
  <2>1. apc \notin FreePcs
    <3>1. Exposing
      BY <1>0, <1>3, ConstantsAssumption DEF SExpose, SExposeOld, OwnPcs, ExposerHolds,
         Exposing
    <3> QED
      BY <3>1, ReplacingExposes
  <2>2. UNCHANGED <<period, streams, prepared, next, free, handleEos, dpc, apc>>
    BY <1>3 DEF SExpose, SExposeOld, demuxVars, dVars, aVars
  <2>3. \A t \in Streams : task'[t] = "started" => task[t] = "started"
    BY <1>0, <1>3 DEF SExpose, SExposeOld, CancelStream, TypeOK
  <2>4. Dead \subseteq Dead'
    BY <2>1, <2>2, DeadKept
  <2> QED
    BY <2>2, <2>3, <2>4 DEF NothingNew
<1>4. CASE SPrerollCheck(s)
  <2>1. Dead' = Dead
    BY <1>4, SameDead DEF SPrerollCheck
  <2> QED
    BY <1>4, <2>1 DEF SPrerollCheck, demuxVars, listVars, flagVars, dVars, aVars, NothingNew
<1> QED
  BY <1>1, <1>2, <1>3, <1>4 DEF SStep

(* A call prepares streams in set-ups and starts them in start_tasks only.  *)
SetsUp ==
  \/ ASinkEos
  \/ /\ ASeekBody /\ akind # "keep" /\ period' \in 1..Periods
     /\ \E new \in NewStreams(period') : PrepareStreams(new, {}, handleEos)

LEMMA ANothing ==
  ASSUME RestInv,
         AStep \/ ASinkEos \/ \E kind \in SeekKinds \cup ResetKinds : ACall(kind)
  PROVE  NothingNew \/ SetsUp \/ AStart
<1>0. TypeOK /\ RestParts /\ OwnLists /\ OwnPcs
  BY DEF RestInv, OwnInv, TypeInv
<1>1. CASE \/ \E kind \in SeekKinds \cup ResetKinds : ACall(kind)
           \/ ABroadcast \/ AList \/ AStopSrc \/ AJoin
  <2>1. /\ UNCHANGED <<period, streams, prepared, old, next, free, handleEos, task, dpc>>
        /\ apc \notin FreePcs /\ apc' # "start"
    BY <1>1 DEF ACall, ABroadcast, AList, AStopSrc, AJoin, demuxVars, listVars, flagVars,
       dVars, FreePcs
  <2>2. Dead \subseteq Dead'
    BY <2>1, DeadKept
  <2> QED
    BY <2>1, <2>2 DEF NothingNew
<1>2. CASE AStop
  <2>1. /\ UNCHANGED <<period, streams, prepared, next, free, handleEos, dpc>>
        /\ apc \notin FreePcs /\ apc' # "start"
    BY <1>2 DEF AStop, dVars, FreePcs
  <2>2. Dead \subseteq Dead'
    BY <2>1, DeadKept
  <2>3. \A t \in Streams : task'[t] = "started" => task[t] = "started"
    BY <1>0, <1>2 DEF AStop, SetAll, TypeOK
  <2> QED
    BY <2>1, <2>2, <2>3 DEF NothingNew
<1>3. CASE ASeekBody /\ ~SetsUp
  <2>1. /\ UNCHANGED <<period, streams, prepared, old, next, free, handleEos, task, dpc>>
        /\ apc \notin FreePcs /\ SeekKinds # {}
    BY <1>3 DEF ASeekBody, SetsUp, Displaced, dVars, FreePcs
  <2>2. Dead \subseteq Dead'
    BY <2>1, DeadKept
  <2> QED
    BY <2>1, <2>2 DEF NothingNew
<1>4. CASE AReset \/ AFreeNext \/ AFreeJoin \/ AFreeSrc
  <2>1. /\ UNCHANGED <<period, streams, prepared, old, next, free, dpc, aold>>
        /\ apc' # "start"
    BY <1>4 DEF AReset, AFreeNext, AFreeJoin, AFreeSrc, demuxVars, listVars, dVars
  <2>2. Dead \subseteq Dead'
    BY <1>4, <2>1, DeadKept DEF AReset, AFreeNext, AFreeJoin, AFreeSrc, FreePcs
  <2>3. \A t \in Streams : /\ task'[t] = "started" => task[t] = "started"
                           /\ handleEos'[t] => handleEos[t]
    <3>1. CASE AReset \/ AFreeNext \/ AFreeJoin
      BY <1>0, <3>1 DEF AReset, AFreeNext, AFreeJoin, flagVars, TypeOK
    <3>2. CASE AFreeSrc
      BY <1>0, <3>2 DEF AFreeSrc, Forget, FreshFields, TypeOK
    <3> QED
      BY <1>4, <3>1, <3>2
  <2> QED
    BY <2>1, <2>2, <2>3 DEF NothingNew
<1>5. CASE AFreeList
  <2>1. /\ UNCHANGED <<period, handleEos, task, dpc>> /\ next' \subseteq next
        /\ apc' # "start" /\ manifest = Api
        /\ prepared' = {} \/ (prepared' = prepared /\ streams' = {})
    BY <1>0, <1>5 DEF AFreeList, flagVars, dVars, RestParts, FreeApi, TypeOK, OwnPcs,
       FreeingCall
  <2>2. \A d \in Streams : dpc[d] # "start"
    BY <1>0, <2>1 DEF RestParts, Holders, Api, Dt
  <2> QED
    BY <2>1, <2>2 DEF NothingNew
<1> QED
  BY <1>1, <1>2, <1>3, <1>4, <1>5 DEF AStep, SetsUp

(* Every period has a stream.                                               *)
LEMMA SomeNew ==
  ASSUME NEW p \in 1..Periods, NEW new \in NewStreams(p)
  PROVE  new # {}
BY FS_EmptySet, ConstantsAssumption DEF NewStreams, kSubset

(* start_tasks starts the streams that begin the period.                    *)
LEMMA StartPeriod ==
  ASSUME PeriodInv, AStart \/ \E d \in Streams : DStart(d), TypeOK'
  PROVE  PeriodParts'
<1>0. TypeOK /\ RestParts /\ PeriodParts /\ OwnLists
  BY DEF PeriodInv, RestInv, OwnInv, TypeInv
<1>1. /\ StartTasks /\ UNCHANGED <<running, period, listVars, handleEos>>
      /\ apc' # "start" /\ \A d \in Streams : dpc'[d] # "start"
      /\ \A d \in Streams : dpc'[d] \in {dpc[d], "idle"}
      /\ apc = "start" \/ \E d \in Streams : dpc[d] = "start"
  <2>1. CASE AStart
    <3>1. \A d \in Streams : dpc[d] # "start"
      BY <1>0, <2>1 DEF AStart, RestParts, Holders, Api, Dt
    <3> QED
      BY <2>1, <3>1 DEF AStart, dVars
  <2>2. CASE \E d \in Streams : DStart(d)
    <3>1. PICK d \in Streams : DStart(d)
      BY <2>2
    <3>2. apc # "start" /\ \A t \in Streams \ {d} : dpc[t] # "start"
      BY <1>0, <3>1 DEF DStart, RestParts, Holders, Api, Dt
    <3> QED
      BY <1>0, <3>1, <3>2 DEF DStart, aVars, TypeOK
  <2> QED
    BY <2>1, <2>2
<1>2. /\ Dead = free /\ Dead \cap Listed = {} /\ apc \notin FreePcs
  BY <1>1, StartAlone DEF PeriodInv
<1>3. free \subseteq Dead' /\ UNCHANGED <<streams, prepared, next>>
  BY <1>1 DEF Dead, listVars
<1>4. prepared # {} => \A t \in Streams : task'[t] # task[t] => t \in prepared /\ doBlock[t]
  <2>1. CASE running
    <3>1. prepared # {} => \A t \in prepared : doBlock[t]
      BY <1>0, <1>2, <2>1 DEF RestParts, BlockedWhere, Listed
    <3>2. prepared # {} => \A t \in Streams \ prepared : task'[t] = task[t]
      BY <1>0, <1>1, <2>1 DEF StartTasks, SetAll, ToStart, TypeOK
    <3> QED
      BY <3>1, <3>2
  <2>2. CASE ~running
    BY <1>1, <2>2 DEF StartTasks
  <2> QED
    BY <2>1, <2>2
<1>5. EndedOnce'
  <2> SUFFICES ASSUME SeekKinds = {}, NEW t \in Streams, handleEos'[t]
               PROVE  task'[t] = "stopped" /\ dpc'[t] \in {"idle", "start"}
    BY DEF EndedOnce
  <2>1. prepared # {} /\ handleEos[t] /\ ~doBlock[t]
    BY <1>0, <1>1 DEF PeriodParts, ToBegin, RestParts, Blocked
  <2> QED
    BY <1>0, <1>1, <1>4, <2>1 DEF PeriodParts, EndedOnce
<1>6. NoDouble'
  <2> SUFFICES ASSUME prepared # {}, period < Periods, NEW t \in streams \ free
               PROVE  task'[t] = "stopped" /\ dpc'[t] \in {"idle", "start"}
    BY <1>1, <1>3 DEF NoDouble
  <2>1. t \in streams \ Dead /\ t \notin prepared /\ t \in Streams
    BY <1>0, <1>2 DEF OwnLists, Apart, TypeOK
  <2> QED
    BY <1>0, <1>1, <1>4, <2>1 DEF PeriodParts, NoDouble
<1>7. ToBegin' /\ NeverRefused'
  BY <1>0, <1>1, <1>3 DEF ToBegin, NeverRefused, PeriodParts
<1> QED
  BY <1>5, <1>6, <1>7 DEF PeriodParts

(* The D that begins a period finds no stream of another new one.           *)
LEMMA NextPeriod ==
  ASSUME PeriodInv, FewPeriods, NEW s \in Streams, PeriodStep(s)
  PROVE  PeriodParts'
<1> DEFINE h == [handleEos EXCEPT ![s] = TRUE]
<1>0. TypeOK /\ RestParts /\ PeriodParts /\ OwnLists
  BY DEF PeriodInv, RestInv, OwnInv, TypeInv
<1>1. /\ UNCHANGED <<running, streams>> /\ period' = period + 1 /\ period < Periods
      /\ AllEos(lastRet', h)
      /\ \E new \in NewStreams(period + 1) : PrepareStreams(new, prepared, h)
  BY DEF PeriodStep, loopVars
<1>2. /\ task'[s] = "stopped" /\ dpc'[s] = "start"
      /\ \A t \in Streams \ {s} : task'[t] = task[t] /\ dpc'[t] = dpc[t]
  BY <1>0 DEF PeriodStep, TypeOK
<1>3. Dead = free /\ xold = {}
  BY EndAlone DEF PeriodStep, PeriodInv
<1>4. s \in streams \ Dead
  <2>1. s \in (streams \cup prepared \cup xold) \ Dead /\ ~doBlock[s]
    BY ActiveWhere DEF PeriodStep, PeriodInv
  <2>2. running
    BY EndAlone DEF PeriodStep, PeriodInv
  <2> QED
    BY <1>0, <1>3, <2>1, <2>2 DEF RestParts, BlockedWhere
<1>5. prepared = {}
  <2>1. ~(task[s] = "stopped" /\ dpc[s] \in {"idle", "start"})
    BY DEF PeriodStep
  <2> QED
    BY <1>0, <1>1, <1>4, <2>1 DEF PeriodParts, NoDouble
<1>6. /\ next' = {} /\ prepared' # {}
      /\ \A t \in Streams : handleEos'[t] => handleEos[t] \/ t = s
  <2>1. PICK new \in NewStreams(period + 1) : PrepareStreams(new, prepared, h)
    BY <1>1
  <2>2. period + 1 \in 1..Periods
    BY <1>0, <1>1, ConstantsAssumption DEF TypeOK
  <2>3. new # {}
    BY <2>2, SomeNew
  <2> QED
    BY <1>0, <1>5, <2>1, <2>3 DEF PrepareStreams, SetAll, TypeOK
<1>7. SeekKinds = {} =>
        \A t \in Streams : handleEos[t] \/ t = s =>
                             task'[t] = "stopped" /\ dpc'[t] \in {"idle", "start"}
  BY <1>0, <1>2 DEF PeriodParts, EndedOnce
<1>8. NoDouble'
  <2>1. CASE SeekKinds = {}
    <3>1. \A t \in streams : handleEos[t] \/ t = s
      BY <1>0, <1>1 DEF AllEos, TypeOK
    <3> QED
      BY <1>0, <1>1, <1>7, <2>1, <3>1 DEF NoDouble, TypeOK
  <2>2. CASE Periods <= 2
    BY <1>0, <1>1, <2>2, ConstantsAssumption DEF NoDouble, TypeOK
  <2> QED
    BY <2>1, <2>2 DEF FewPeriods
<1> QED
  BY <1>6, <1>7, <1>8 DEF PeriodParts, EndedOnce, ToBegin, NeverRefused

(* A call that sets up streams finds the exposed ones at rest.              *)
LEMMA SetUpPeriod ==
  ASSUME PeriodInv, SetsUp
  PROVE  PeriodParts'
<1>0. TypeOK /\ RestParts /\ PeriodParts /\ OwnLists
  BY DEF PeriodInv, RestInv, OwnInv, TypeInv
<1>1. /\ UNCHANGED <<running, streams, task, dpc>> /\ manifest = Free
      /\ period' \in 1..Periods
      /\ \E new \in NewStreams(period') : PrepareStreams(new, {}, handleEos)
      /\ streams = {} \/ (apc = "join" /\ atodo = {} /\ akind # "keep")
  BY ConstantsAssumption DEF SetsUp, ASinkEos, ASeekBody, dVars
<1>2. /\ next' = {} /\ prepared' # {}
      /\ \A t \in Streams : handleEos'[t] => handleEos[t]
  <2>1. PICK new \in NewStreams(period') : PrepareStreams(new, {}, handleEos)
    BY <1>1
  <2>2. new # {}
    BY <1>1, <2>1, SomeNew
  <2> QED
    BY <1>0, <2>1, <2>2 DEF PrepareStreams, SetAll, TypeOK
<1>3. \A t \in streams : task[t] = "stopped" /\ dpc[t] = "idle"
  <2>1. CASE streams # {}
    <3>1. Stopping /\ streams \cap Dead = {} /\ apc \notin FreePcs
      BY <1>0, <1>1, <2>1, DeadWhere
      DEF Stopping, FreePcs, PeriodInv, RestInv, OwnLists, Apart
    <3> QED
      BY <1>0, <1>1, <2>1, <3>1 DEF RestParts, Halted, Joined, Listed
  <2> QED
    BY <2>1
<1>4. EndedOnce'
  BY <1>0, <1>1, <1>2 DEF PeriodParts, EndedOnce
<1>5. NoDouble'
  BY <1>1, <1>3 DEF NoDouble
<1> QED
  BY <1>2, <1>4, <1>5 DEF PeriodParts, ToBegin, NeverRefused

LEMMA InitPeriod == Init => PeriodParts
BY DEF Init, PeriodParts, EndedOnce, NoDouble, ToBegin, NeverRefused

LEMMA NextPeriodInv == NoEmpty /\ FewPeriods /\ PeriodInv /\ [Next]_vars => PeriodInv'
<1> SUFFICES ASSUME NoEmpty, FewPeriods, PeriodInv, [Next]_vars PROVE PeriodInv'
  OBVIOUS
<1>1. RestInv /\ RestInv' /\ TypeOK'
  BY NextRest DEF PeriodInv, RestInv, OwnInv, TypeInv
<1>2. PeriodParts'
  <2>1. CASE UNCHANGED vars
    <3>1. NothingNew
      BY <2>1 DEF vars, demuxVars, listVars, flagVars, dVars, aVars, NothingNew, Dead,
         ResetList
    <3> QED
      BY <1>1, <3>1, NothingNewPeriod
  <2>2. ASSUME NEW s \in Streams, DStep(s) PROVE PeriodParts'
    BY <1>1, <2>2, DNothing, NothingNewPeriod, NextPeriod, StartPeriod
  <2>3. ASSUME NEW s \in Streams, SStep(s) \/ SourceError(s) PROVE PeriodParts'
    BY <1>1, <2>3, SNothing, NothingNewPeriod
  <2>4. CASE AStep \/ ASinkEos \/ \E kind \in SeekKinds \cup ResetKinds : ACall(kind)
    BY <1>1, <2>4, ANothing, NothingNewPeriod, SetUpPeriod, StartPeriod
  <2> QED
    BY <2>1, <2>2, <2>3, <2>4 DEF Next, AtRest
<1> QED
  BY <1>1, <1>2 DEF PeriodInv

LEMMA PeriodInvariant ==
  ASSUME NoEmpty, FewPeriods
  PROVE  Spec => []PeriodInv
<1>1. Init => PeriodInv
  BY InitRest, InitPeriod DEF PeriodInv
<1>2. PeriodInv /\ [Next]_vars => PeriodInv'
  BY NextPeriodInv
<1> QED
  BY <1>1, <1>2, PTL DEF Spec

(* gst_adaptive_demux_prepare_streams never finds prepared streams left     *)
(* ("Preparing new streams without cleaning up old ones!"), whoever begins  *)
(* a period: unless seeks start ended streams again and there are two more  *)
(* periods to get to.                                                       *)
THEOREM PreparingNeverRefused ==
  ASSUME NoEmpty, FewPeriods
  PROVE  Spec => []NeverRefused
<1>1. PeriodInv => NeverRefused
  BY DEF PeriodInv, PeriodParts
<1> QED
  BY <1>1, PeriodInvariant, PTL

-----------------------------------------------------------------------------
(* The last stream to preroll releases all of them.  A "keep" seek starts   *)
(* the count anew while some have prerolled; hence the hypothesis.          *)

NoKeep == "keep" \notin SeekKinds

(* The streams whose preroll start_tasks is about to count have not begun.  *)
Ready ==
  apc = "start" \/ (\E d \in Streams : dpc[d] = "start") =>
    \A s \in prepared : ~InChain(s)

(* preroll_pending counts no stream that has prerolled.                     *)
CountGe == Prerolling => pending >= 1 /\ Cardinality(Waiting) >= pending

CountInv == PeriodInv /\ Ready /\ CountGe

PrerolledPcs == {"prCheck", "prWait", "prWoken"}

(* What most steps do: they neither start streams nor let one preroll.      *)
SameCount ==
  \/ prepared' = {}
  \/ apc' \in FreePcs /\ \A d \in Streams : dpc'[d] # "start"
  \/ /\ prepared' = prepared /\ pending' = pending
     /\ running' => running
     /\ apc \in FreePcs \cup {"start"} => apc' \in FreePcs \cup {"start"}
     /\ apc' = "start" => apc = "start"
     /\ \A d \in Streams : dpc'[d] = "start" <=> dpc[d] = "start"
     /\ \A t \in prepared :
          /\ cancelled[t] => cancelled'[t]
          /\ spc'[t] \in PrerolledPcs => spc[t] \in PrerolledPcs
          /\ spc'[t] \in ChainPcs => spc[t] \in ChainPcs \/ manifest = Free

LEMMA SameCountCounts ==
  ASSUME CountInv, SameCount
  PROVE  Ready' /\ CountGe'
<1>0. TypeOK /\ Holders /\ Ready /\ CountGe
  BY DEF CountInv, PeriodInv, RestInv, OwnInv, TypeInv, RestParts
<1>1. CASE prepared' = {} \/ (apc' \in FreePcs /\ \A d \in Streams : dpc'[d] # "start")
  BY <1>1 DEF Ready, CountGe, Prerolling, FreePcs
<1>2. CASE ~(prepared' = {} \/ (apc' \in FreePcs /\ \A d \in Streams : dpc'[d] # "start"))
  <2>1. Ready'
    BY <1>0, <1>2 DEF SameCount, Ready, Holders, InChain, Free, Api, Dt
  <2>2. Prerolling' => Prerolling
    BY <1>2 DEF SameCount, Prerolling
  <2>3. Waiting \subseteq Waiting' /\ Waiting' \subseteq Streams
    BY <1>0, <1>2 DEF SameCount, Waiting, PrerolledPcs, TypeOK
  <2>4. /\ IsFiniteSet(Waiting') /\ Cardinality(Waiting) <= Cardinality(Waiting')
        /\ Cardinality(Waiting) \in Nat /\ Cardinality(Waiting') \in Nat
    BY <2>3, FS_Subset, FS_CardinalityType, ConstantsAssumption
  <2>5. CountGe'
    BY <1>0, <1>2, <2>2, <2>4 DEF SameCount, CountGe, TypeOK
  <2> QED
    BY <2>1, <2>5
<1> QED
  BY <1>1, <1>2

LEMMA LocalSameCount ==
  ASSUME RestInv, NEW s \in Streams, DLocal(s) \/ SLocal(s)
  PROVE  SameCount
<1>0. TypeOK
  BY DEF RestInv, OwnInv, TypeInv
<1>1. UNCHANGED <<prepared, pending, running, apc, cancelled>>
  BY DEF DLocal, SLocal, demuxVars, listVars, aVars
<1>2. CASE DLocal(s)
  <2>1. /\ \A d \in Streams : dpc'[d] = "start" <=> dpc[d] = "start"
        /\ \A t \in Streams : spc'[t] \in {spc[t], "off", "run"}
    BY <1>0, <1>2 DEF DLocal, TypeOK
  <2> QED
    BY <1>0, <1>1, <2>1 DEF SameCount, PrerolledPcs, ChainPcs, TypeOK
<1>3. CASE SLocal(s)
  <2>1. /\ dpc' = dpc /\ manifest = Free
        /\ \A t \in Streams : spc'[t] \in {spc[t], "off", "run", "push", "prNeed"}
    BY <1>0, <1>3 DEF SLocal, dVars, TypeOK
  <2> QED
    BY <1>0, <1>1, <2>1 DEF SameCount, PrerolledPcs, ChainPcs, TypeOK
<1> QED
  BY <1>2, <1>3

LEMMA DSameCount ==
  ASSUME RestInv, NoEmpty, NEW s \in Streams, DStep(s)
  PROVE  SameCount \/ PeriodStep(s) \/ DStart(s)
<1>0. TypeOK /\ RestParts /\ OwnLists /\ FreeingOwn
  BY DEF RestInv, OwnInv, TypeInv
<1>1. CASE \/ DEnter(s) \/ DFreeNext(s) \/ DResult(s)
           \/ DPrep(s) \/ DReset(s) \/ DSync(s) \/ DWait(s) \/ DReady(s) \/ DRetry(s)
           \/ DLeave(s)
  <2>1. CASE TakesOld(s) \/ FreesOne(s)
    BY <1>0, <2>1 DEF TakesOld, FreesOne, loopVars, aVars, SameCount, TypeOK
  <2> QED
    BY <1>1, <2>1, LoopStep, DLocalStep, LocalSameCount
<1>2. CASE DFreeJoin(s)
  BY <1>0, <1>2 DEF DFreeJoin, demuxVars, listVars, flagVars, aVars, SameCount, TypeOK
<1>3. CASE DFreeSrc(s)
  <2>1. dcur[s] \in dfree[s] /\ dcur[s] \notin prepared
    BY <1>0, <1>3 DEF DFreeSrc, FreeingOwn, OwnLists, TaskLists, InLists
  <2>2. /\ UNCHANGED <<prepared, pending, running, apc>>
        /\ \A d \in Streams : dpc'[d] = "start" <=> dpc[d] = "start"
        /\ \A t \in prepared : spc'[t] = spc[t] /\ cancelled'[t] = cancelled[t]
    BY <1>0, <1>3, <2>1 DEF DFreeSrc, Forget, FreshFields, demuxVars, aVars, TypeOK
  <2> QED
    BY <2>2 DEF SameCount
<1> QED
  BY <1>1, <1>2, <1>3 DEF DStep

LEMMA SSameCount ==
  ASSUME RestInv, NoEmpty, NEW s \in Streams, SStep(s) \/ SourceError(s)
  PROVE  SameCount \/ SPreroll(s)
<1>0. TypeOK /\ RestParts
  BY DEF RestInv, OwnInv, TypeInv
<1>1. CASE SChain(s) \/ SRelock(s) \/ SPushed(s) \/ SEos(s) \/ SourceError(s)
  BY <1>1, SLocalStep, LocalSameCount
<1>2. CASE SExpose(s) \/ SExposeOld(s)
  BY <1>0, <1>2 DEF SExpose, SExposeOld, RestParts, Exposer, SameCount
<1>3. CASE SPrerollCheck(s)
  <2>1. /\ spc[s] \in PrerolledPcs
        /\ \A t \in Streams \ {s} : spc'[t] = spc[t]
    BY <1>0, <1>3 DEF SPrerollCheck, PrerolledPcs, TypeOK
  <2> QED
    BY <1>0, <1>3, <2>1 DEF SPrerollCheck, demuxVars, listVars, flagVars, dVars, aVars,
       SameCount, PrerolledPcs, ChainPcs, TypeOK
<1> QED
  BY <1>1, <1>2, <1>3 DEF SStep

LEMMA ASameCount ==
  ASSUME RestInv, AStep \/ ASinkEos \/ \E kind \in SeekKinds \cup ResetKinds : ACall(kind)
  PROVE  SameCount \/ ASinkEos \/ ASeekBody \/ AStart
<1>0. TypeOK /\ RestParts /\ OwnPcs
  BY DEF RestInv, OwnInv, TypeInv
<1>1. CASE (\E kind \in SeekKinds \cup ResetKinds : ACall(kind)) \/ AList \/ AJoin
  BY <1>1 DEF ACall, AList, AJoin, demuxVars, listVars, flagVars, dVars, FreePcs, SameCount
<1>2. CASE AStop
  BY <1>0, <1>2 DEF AStop, SetAll, dVars, FreePcs, SameCount, TypeOK
<1>3. CASE ABroadcast
  BY <1>0, <1>3 DEF ABroadcast, Broadcast, demuxVars, listVars, flagVars, dVars, FreePcs,
     PrerolledPcs, ChainPcs, SameCount, TypeOK
<1>4. CASE AStopSrc
  BY <1>0, <1>4 DEF AStopSrc, demuxVars, listVars, flagVars, dVars, FreePcs,
     PrerolledPcs, ChainPcs, SameCount, TypeOK
<1>5. CASE AReset \/ AFreeNext \/ AFreeJoin \/ AFreeSrc \/ AFreeList
  <2>1. manifest \in {Free, Api} /\ dpc' = dpc
    BY <1>5 DEF AReset, AFreeNext, AFreeJoin, AFreeSrc, AFreeList, dVars
  <2>2. \A d \in Streams : dpc'[d] # "start"
    BY <1>0, <2>1 DEF RestParts, Holders, Free, Api, Dt
  <2>3. apc' \in FreePcs \/ prepared' = {}
    BY <1>0, <1>5 DEF AReset, AFreeNext, AFreeJoin, AFreeSrc, AFreeList, LastList,
       FreePcs, RestParts, FreeApi, OwnPcs, FreeingCall, TypeOK
  <2> QED
    BY <2>2, <2>3 DEF SameCount
<1> QED
  BY <1>1, <1>2, <1>3, <1>4, <1>5 DEF AStep

(* The streams that are set up are new: their S does not run.               *)
LEMMA SetUpReady ==
  ASSUME RestInv, NEW p, NEW new \in NewStreams(p), NEW h, PrepareStreams(new, {}, h),
         spc' = spc
  PROVE  \A t \in prepared' : ~InChain(t)'
<1>0. TypeOK /\ RestParts
  BY DEF RestInv, OwnInv, TypeInv
<1>1. prepared' = next \cup new /\ new \subseteq Dead
  BY <1>0, NewStreamsType DEF PrepareStreams, Dead, TypeOK
<1> QED
  BY <1>0, <1>1 DEF RestParts, Fresh, InChain, ChainPcs

(* Another stream has prerolled.                                            *)
LEMMA PrerollCounts ==
  ASSUME CountInv, NEW s \in Streams, SPreroll(s)
  PROVE  Ready' /\ CountGe'
<1>0. TypeOK /\ RestParts /\ CountGe
  BY DEF CountInv, PeriodInv, RestInv, OwnInv, TypeInv
<1>1. /\ s \in prepared /\ Prerolling /\ spc[s] = "prNeed" /\ pending' = pending - 1
      /\ UNCHANGED <<running, cancelled, dpc, apc>>
  BY PrerollAlone DEF SPreroll, CountInv, PeriodInv, flagVars, dVars, aVars
<1>2. Ready'
  BY <1>1 DEF Ready, Prerolling
<1>3. CASE pending = 1
  BY <1>1, <1>2, <1>3 DEF SPreroll, CountGe, Prerolling
<1>4. CASE pending # 1
  <2>1. prepared' = prepared /\ spc' = [spc EXCEPT ![s] = "prCheck"]
    BY <1>4 DEF SPreroll
  <2>2. s \in Waiting /\ Waiting' = Waiting \ {s} /\ Waiting \subseteq Streams
    BY <1>0, <1>1, <2>1 DEF Waiting, TypeOK
  <2>3. IsFiniteSet(Waiting)
    BY <2>2, FS_Subset, ConstantsAssumption
  <2>4. Cardinality(Waiting') = Cardinality(Waiting) - 1 /\ Cardinality(Waiting) \in Nat
    BY <2>2, <2>3, FS_RemoveElement, FS_CardinalityType
  <2>5. pending >= 1 /\ Cardinality(Waiting) >= pending
    BY <1>0, <1>1 DEF CountGe
  <2> QED
    BY <1>0, <1>1, <1>2, <1>4, <2>4, <2>5 DEF CountGe, TypeOK
<1> QED
  BY <1>3, <1>4

(* start_tasks counts the prepared streams, none of which has prerolled.    *)
LEMMA StartCounts ==
  ASSUME CountInv, AStart \/ \E d \in Streams : DStart(d)
  PROVE  Ready' /\ CountGe'
<1>0. TypeOK /\ RestParts /\ Ready
  BY DEF CountInv, PeriodInv, RestInv, OwnInv, TypeInv
<1>1. /\ StartTasks /\ UNCHANGED <<running, prepared, spc>>
      /\ apc' # "start" /\ \A d \in Streams : dpc'[d] # "start"
      /\ apc = "start" \/ \E d \in Streams : dpc[d] = "start"
  <2>1. CASE AStart
    <3>1. \A d \in Streams : dpc[d] # "start"
      BY <1>0, <2>1 DEF AStart, RestParts, Holders, Api, Dt
    <3> QED
      BY <2>1, <3>1 DEF AStart, dVars, listVars
  <2>2. CASE \E d \in Streams : DStart(d)
    <3>1. PICK d \in Streams : DStart(d)
      BY <2>2
    <3>2. apc # "start" /\ \A t \in Streams \ {d} : dpc[t] # "start"
      BY <1>0, <3>1 DEF DStart, RestParts, Holders, Api, Dt
    <3> QED
      BY <1>0, <3>1, <3>2 DEF DStart, aVars, listVars, TypeOK
  <2> QED
    BY <2>1, <2>2
<1>2. Ready'
  BY <1>1 DEF Ready
<1>3. CASE running /\ prepared # {}
  <2>1. pending' = Cardinality(prepared)
    BY <1>1, <1>3 DEF StartTasks, ToPreroll
  <2>2. IsFiniteSet(prepared)
    BY <1>0, FS_Subset, ConstantsAssumption DEF TypeOK
  <2>3. Cardinality(prepared) \in Nat /\ Cardinality(prepared) # 0
    BY <1>3, <2>2, FS_EmptySet, FS_CardinalityType
  <2>4. Waiting' = prepared
    BY <1>0, <1>1 DEF Ready, Waiting, InChain, ChainPcs
  <2> QED
    BY <1>2, <2>1, <2>3, <2>4 DEF CountGe
<1> QED
  BY <1>1, <1>2, <1>3 DEF CountGe, Prerolling

(* A call that sets up streams, or restarts those it has joined; a D that   *)
(* begins a period.                                                         *)
LEMMA SetUpCounts ==
  ASSUME CountInv, NoKeep, ASinkEos \/ ASeekBody
  PROVE  Ready' /\ CountGe'
<1>0. TypeOK /\ RestParts
  BY DEF CountInv, PeriodInv, RestInv, OwnInv, TypeInv
<1>1. /\ UNCHANGED <<dpc, spc>> /\ apc' = "start"
      /\ \/ \E p \in 1..Periods : \E new \in NewStreams(p) :
              PrepareStreams(new, {}, handleEos)
         \/ /\ apc = "join" /\ atodo = {} /\ akind # "keep"
            /\ UNCHANGED <<streams, prepared>>
  <2>1. CASE ASinkEos
    BY <2>1, ConstantsAssumption DEF ASinkEos, dVars
  <2>2. CASE ASeekBody
    <3>1. akind # "keep" /\ prepared \ Displaced = {}
      BY <2>2 DEF ASeekBody, NoKeep, Displaced
    <3> QED
      BY <2>2, <3>1 DEF ASeekBody, dVars
  <2> QED
    BY <2>1, <2>2
<1>2. \A t \in prepared' : ~InChain(t)'
  <2>1. CASE \E p \in 1..Periods : \E new \in NewStreams(p) :
               PrepareStreams(new, {}, handleEos)
    BY <1>1, <2>1, SetUpReady DEF CountInv, PeriodInv
  <2>2. CASE /\ apc = "join" /\ atodo = {} /\ akind # "keep"
             /\ UNCHANGED <<streams, prepared>>
    BY <1>0, <1>1, <2>2 DEF RestParts, Joined, Listed, InChain
  <2> QED
    BY <1>1, <2>1, <2>2
<1> QED
  BY <1>1, <1>2 DEF Ready, CountGe, Prerolling

LEMMA NextPeriodCounts ==
  ASSUME CountInv, FewPeriods, NEW s \in Streams, PeriodStep(s)
  PROVE  Ready' /\ CountGe'
<1>0. TypeOK /\ RestParts /\ PeriodParts
  BY DEF CountInv, PeriodInv, RestInv, OwnInv, TypeInv
<1>1. spc' = spc /\ dpc'[s] = "start" /\ period < Periods
  BY <1>0 DEF PeriodStep, loopVars, TypeOK
<1>2. s \in streams \ Dead
  <2>1. /\ s \in (streams \cup prepared \cup xold) \ Dead /\ ~doBlock[s]
        /\ running /\ xold = {}
    BY ActiveWhere, EndAlone DEF PeriodStep, CountInv, PeriodInv
  <2> QED
    BY <1>0, <2>1 DEF RestParts, BlockedWhere
<1>3. prepared = {}
  BY <1>0, <1>1, <1>2 DEF PeriodStep, PeriodParts, NoDouble
<1>4. \A t \in prepared' : ~InChain(t)'
  <2>1. PICK new \in NewStreams(period + 1) :
          PrepareStreams(new, {}, [handleEos EXCEPT ![s] = TRUE])
    BY <1>3 DEF PeriodStep
  <2> QED
    BY <1>1, <2>1, SetUpReady DEF CountInv, PeriodInv
<1> QED
  BY <1>1, <1>4 DEF Ready, CountGe, Prerolling

LEMMA NextCount ==
  NoEmpty /\ FewPeriods /\ NoKeep /\ CountInv /\ [Next]_vars => CountInv'
<1> SUFFICES ASSUME NoEmpty, FewPeriods, NoKeep, CountInv, [Next]_vars PROVE CountInv'
  OBVIOUS
<1>1. PeriodInv' /\ RestInv
  BY NextPeriodInv DEF CountInv, PeriodInv
<1>2. Ready' /\ CountGe'
  <2>1. CASE UNCHANGED vars
    <3>1. SameCount
      BY <2>1 DEF vars, demuxVars, listVars, flagVars, dVars, aVars, SameCount
    <3> QED
      BY <3>1, SameCountCounts
  <2>2. ASSUME NEW s \in Streams, DStep(s) PROVE Ready' /\ CountGe'
    BY <1>1, <2>2, DSameCount, SameCountCounts, NextPeriodCounts, StartCounts
  <2>3. ASSUME NEW s \in Streams, SStep(s) \/ SourceError(s) PROVE Ready' /\ CountGe'
    BY <1>1, <2>3, SSameCount, SameCountCounts, PrerollCounts
  <2>4. CASE AStep \/ ASinkEos \/ \E kind \in SeekKinds \cup ResetKinds : ACall(kind)
    BY <1>1, <2>4, ASameCount, SameCountCounts, SetUpCounts, StartCounts
  <2> QED
    BY <2>1, <2>2, <2>3, <2>4 DEF Next, AtRest
<1> QED
  BY <1>1, <1>2 DEF CountInv

(* A stream that counts has not prerolled, so the prepared streams do not   *)
(* all wait.                                                                *)
LEMMA SomeoneReleases == CountInv => LastReleases
<1> SUFFICES ASSUME CountInv, prepared # {},
                    \A s \in prepared : spc[s] = "prWait" /\ ~cancelled[s]
             PROVE  FALSE
  BY DEF LastReleases
<1>0. TypeOK /\ RestParts /\ Ready /\ CountGe
  BY DEF CountInv, PeriodInv, RestInv, OwnInv, TypeInv
<1>1. PICK s \in prepared : spc[s] = "prWait" /\ ~cancelled[s]
  OBVIOUS
<1>2. s \in Listed \ Dead /\ s \in Streams
  BY <1>0, <1>1 DEF RestParts, Fresh, Listed, TypeOK
<1>3. ~Stopping
  BY <1>0, <1>1, <1>2 DEF RestParts, Halted
<1>4. running /\ apc \notin FreePcs
  BY <1>0, <1>1, <1>3 DEF RestParts, Kinds, Stopping
<1>5. apc # "start" /\ \A d \in Streams : dpc[d] # "start"
  BY <1>0, <1>1 DEF Ready, InChain, ChainPcs
<1>6. Prerolling /\ Waiting = {}
  BY <1>4, <1>5 DEF Prerolling, Waiting
<1> QED
  BY <1>0, <1>6, FS_EmptySet DEF CountGe, TypeOK

(* The streams in preroll never all wait for each other: the one that       *)
(* prerolls last releases them ("That was the last one, time to release all *)
(* streams and expose them"), however calls, errors and the end of a period *)
(* interleave with the preroll.                                             *)
THEOREM LastOneReleases ==
  ASSUME NoEmpty, FewPeriods, NoKeep
  PROVE  Spec => []LastReleases
<1>1. Init => CountInv
  <2>1. Init => Ready /\ CountGe
    BY DEF Init, Ready, CountGe, Prerolling
  <2> QED
    BY <2>1, InitRest, InitPeriod DEF CountInv, PeriodInv
<1>2. CountInv /\ [Next]_vars => CountInv'
  BY NextCount
<1>3. CountInv => LastReleases
  BY SomeoneReleases
<1> QED
  BY <1>1, <1>2, <1>3, PTL DEF Spec

-----------------------------------------------------------------------------
(* The step in which the last exposed stream comes to the end of its period *)
(* is the step to the next one ("Next period available").  A stream that a  *)
(* seek starts again still has its handle_eos; hence the hypothesis.        *)

LEMMA DAdvances ==
  ASSUME PeriodInv, SeekKinds = {}, NEW d \in Streams, DStep(d)
  PROVE  Advances
<1> SUFFICES ASSUME NEW s \in streams, task[s] = "started", task'[s] = "stopped",
                    Ended', period < Periods
             PROVE  period' = period + 1
  BY DEF Advances
<1>0. TypeOK /\ PeriodParts /\ streams' = streams
  BY DEF PeriodInv, RestInv, OwnInv, TypeInv, DStep, DEnter, DFreeNext, DFreeJoin, DFreeSrc,
     DPrep, DReset, DSync, DWait, DReady, DResult, DRetry, DLeave, DStart, listVars
<1>1. /\ ~handleEos[s] /\ s \in Streams
      /\ \A t \in streams : handleEos'[t] /\ lastRet'[t] = "EOS"
  BY <1>0 DEF PeriodParts, EndedOnce, Ended, TypeOK
<1>2. ASSUME NEW r, DEosResult(d, r) PROVE period' = period + 1
  <2>1. period # Periods
    BY <1>0, ConstantsAssumption DEF TypeOK
  <2>2. AllEos(r, [handleEos EXCEPT ![d] = TRUE])
    BY <1>0, <1>1, <1>2, <2>1 DEF DEosResult, AllEos
  <2> QED
    BY <1>2, <2>1, <2>2 DEF DEosResult
<1>3. CASE handleEos' = handleEos
  BY <1>1, <1>3
<1>4. CASE DEnter(d) \/ DFreeNext(d) \/ DResult(d)
  BY <1>2, <1>3, <1>4 DEF DEnter, DFreeNext, DResult, DCancelled, DBody, DSegmentDone,
     DErrorResult
<1>5. CASE DFreeSrc(d)
  BY <1>1, <1>5 DEF DFreeSrc
<1> QED
  BY <1>3, <1>4, <1>5 DEF DStep, DFreeJoin, DPrep, DReset, DSync, DWait, DReady, DRetry,
     DLeave, DStart, flagVars

(* The D of the last exposed stream to come to the end of a period advances *)
(* (gst_adaptive_demux_combine_flows in the download loop), as long as no   *)
(* seek starts streams again.                                               *)
THEOREM LastDAdvances ==
  ASSUME NoEmpty, SeekKinds = {}
  PROVE  Spec => PeriodAdvances
<1>1. PeriodInv /\ [Next]_vars => [Advances]_vars
  <2> SUFFICES ASSUME PeriodInv, [Next]_vars PROVE Advances \/ UNCHANGED vars
    OBVIOUS
  <2>1. ASSUME UNCHANGED task PROVE Advances
    BY <2>1 DEF Advances
  <2>2. ASSUME apc' # apc PROVE Advances
    BY <2>2 DEF Advances
  <2>3. ASSUME NEW s \in Streams, DStep(s) PROVE Advances
    BY <2>3, DAdvances
  <2>4. ASSUME NEW s \in Streams, SStep(s) \/ SourceError(s) PROVE Advances
    <3>1. CASE SExposeOld(s)
      <4>1. UNCHANGED <<streams, handleEos>>
        BY <3>1 DEF SExposeOld
      <4>2. \A t \in streams : task[t] = "started" => ~handleEos[t]
        BY DEF PeriodInv, PeriodParts, EndedOnce, RestInv, OwnInv, TypeInv, TypeOK
      <4> QED
        BY <4>1, <4>2 DEF Advances, Ended
    <3> QED
      BY <2>1, <2>4, <3>1 DEF SStep, SChain, SPreroll, SExpose, SPrerollCheck, SRelock,
         SPushed, SEos, SourceError
  <2>5. CASE AStep \/ ASinkEos \/ \E kind \in SeekKinds \cup ResetKinds : ACall(kind)
    BY <2>1, <2>2, <2>5 DEF AStep, ASinkEos, ACall, AStop, ABroadcast, AList, AStopSrc,
       AJoin, ASeekBody, AStart, AReset, AFreeNext, AFreeJoin, AFreeSrc, AFreeList
  <2> QED
    BY <2>3, <2>4, <2>5 DEF Next, AtRest
<1>2. Spec => []PeriodInv
  BY PeriodInvariant DEF FewPeriods
<1> QED
  BY <1>1, <1>2, PTL DEF Spec, PeriodAdvances
=============================================================================
