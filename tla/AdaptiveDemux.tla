--------------------------- MODULE AdaptiveDemux ---------------------------
(***************************************************************************)
(* The threads of GstAdaptiveDemux (gst/dvrdashdemux/gstadaptivedemux.c)   *)
(* for on-demand playback: one API call at a time (api_lock), and for      *)
(* every stream a download task D and the streaming thread S of its source *)
(* element.  They share the four stream lists and the stream flags under   *)
(* the recursive manifest_lock, and meet in preroll_lock before new        *)
(* streams are exposed.                                                    *)
(*                                                                         *)
(* An action is the code between two points at which its thread may be     *)
(* held up: it starts where the thread gets the lock it waited for (or     *)
(* leaves a call made without locks) and ends where the thread gives it    *)
(* up.  A thread that waits for preroll_lock, joins a task or frees a      *)
(* stream while it owns manifest_lock keeps it in `manifest'.              *)
(* fragment_download_lock is only held inside such sections, so the flags  *)
(* it protects are read and written within one action.                     *)
(*                                                                         *)
(* is_static is never set by this repository and its branches are left     *)
(* out; live playback is the subject of LiveUpdates.                       *)
(***************************************************************************)
EXTENDS Integers, FiniteSets, FiniteSetsExt

CONSTANTS
  Streams,    \* pool of GstAdaptiveDemuxStream objects
  None,       \* no stream
  Periods,    \* number of periods of the presentation
  Width,      \* Width[p]: number of streams of period p
  SeekKinds,  \* kinds of SEEK event the application sends
  Faults,     \* what may go wrong outside: see ConstantsAssumption
  MaxCalls,   \* bound: seeks, flushes and state changes of the run
  MaxErrors   \* bound: errors posted by source elements

(* "flush" and "set" seeks stop the tasks; a "keep" seek is neither         *)
(* flushing nor changes the start position.  Faults: "error", a source of a *)
(* listed stream posts an error; "lateError", one of any stream does;       *)
(* "empty", a stream may end before its first buffer.                       *)
ASSUME ConstantsAssumption ==
  /\ IsFiniteSet(Streams) /\ None \notin Streams
  /\ Periods \in Nat \ {0}
  /\ Width \in [1..Periods -> Nat \ {0}]
  /\ SeekKinds \subseteq {"flush", "set", "keep"}
  /\ Faults \subseteq {"error", "lateError", "empty"}
  /\ MaxCalls \in Nat /\ MaxErrors \in Nat

VARIABLES
  manifest,   \* owner of manifest_lock
  preroll,    \* owner of preroll_lock: a stream whose S holds it, or None
  running,    \* demux->running
  period,     \* the subclass's current period
  streams, prepared, old, next,   \* the lists of the same names
  free,       \* objects that are not allocated
  pending,    \* priv->preroll_pending
  cancelled, finished, doBlock, handleEos, lastRet,   \* stream fields
  task,       \* state of stream->download_task
  src,        \* stream->src: "none", or the state of the element
  dpc, dret, dfree, dcur,   \* D: where it is, ret, the list it frees
  spc,        \* S: where it is, "off" when it does not run
  xold, xtodo,   \* expose_streams: the local old_streams, those left
  apc, akind, atodo, acur, aphase, aold,   \* the API call
  calls, errors  \* bounded counters

lockVars == <<manifest, preroll>>
listVars == <<streams, prepared, old, next, free>>
flagVars == <<cancelled, finished, doBlock, handleEos, lastRet>>
demuxVars == <<running, period, pending>>
dVars == <<dpc, dret, dfree, dcur>>
xVars == <<xold, xtodo>>
aVars == <<apc, akind, atodo, acur, aphase, aold>>
boundVars == <<calls, errors>>
vars == <<lockVars, listVars, flagVars, demuxVars, dVars, xVars, aVars,
          boundVars, task, src, spc>>

(* Owners of manifest_lock: nobody, the API call, D or S of a stream; or a  *)
(* thread that returned without unlocking it.                               *)
Free == <<None, "free">>
Api == <<None, "api">>
Leaked == <<None, "leaked">>
Dt(s) == <<s, "task">>
St(s) == <<s, "src">>
Owners == {Free, Api, Leaked} \cup (Streams \X {"task", "src"})

(* S is inside _src_chain: the source element cannot reach READY.           *)
ChainPcs == {"prNeed", "expose", "exposeOld", "prCheck", "prWait", "prWoken",
             "relock", "push"}
InChain(s) == spc[s] \in ChainPcs

(* The pad of s is part of the element: a replaced one until it is removed. *)
Exposed(s) == s \in streams \cup (IF xtodo = {} THEN xold ELSE xtodo)

Init ==
  /\ manifest = Free /\ preroll = None
  /\ running = TRUE /\ period = 1 /\ pending = 0
  /\ streams = {} /\ prepared = {} /\ old = {} /\ next = {} /\ free = Streams
  /\ cancelled = [s \in Streams |-> FALSE]
  /\ finished = [s \in Streams |-> FALSE]
  /\ doBlock = [s \in Streams |-> FALSE]
  /\ handleEos = [s \in Streams |-> FALSE]
  /\ lastRet = [s \in Streams |-> "OK"]
  /\ task = [s \in Streams |-> "stopped"]
  /\ src = [s \in Streams |-> "none"]
  /\ dpc = [s \in Streams |-> "idle"]
  /\ dret = [s \in Streams |-> "OK"]
  /\ dfree = [s \in Streams |-> {}]
  /\ dcur = [s \in Streams |-> None]
  /\ spc = [s \in Streams |-> "off"]
  /\ xold = {} /\ xtodo = {}
  /\ apc = "idle" /\ akind = "none" /\ atodo = {} /\ acur = None
  /\ aphase = 0 /\ aold = {}
  /\ calls = 0 /\ errors = 0

-----------------------------------------------------------------------------
(* Functions shared by the threads; all are called with manifest_lock.      *)

(* [f EXCEPT ![s] = v, for every s of S].                                   *)
SetAll(f, S, v) == [s \in DOMAIN f |-> IF s \in S THEN v ELSE f[s]]

(* setup_all_streams for period p: as many new objects as p has streams.    *)
NewStreams(p) == kSubset(Width[p], free)

(* setup_all_streams, then gst_adaptive_demux_prepare_streams with `left'   *)
(* as prepared_streams and the handle_eos h: it refuses while there are     *)
(* any, and the new ones stay in next_streams.                              *)
PrepareStreams(new, left, h) ==
  /\ free' = free \ new
  /\ IF left = {}
       THEN LET S == IF running THEN next \cup new ELSE {} IN
            /\ prepared' = next \cup new /\ next' = {}
            /\ doBlock' = SetAll(doBlock, S, TRUE)
            /\ handleEos' = SetAll(h, S, FALSE)
       ELSE /\ prepared' = left /\ next' = next \cup new
            /\ handleEos' = h /\ UNCHANGED doBlock

(* The streams a call that stops or starts tasks is about.  The operators   *)
(* with an underscore are faulty variants: each breaks a property below.    *)
Listed_NoPrepared == streams
Listed == streams \cup prepared

ToStart_Exposed == IF streams # {} THEN streams ELSE prepared
ToStart == IF prepared # {} THEN prepared ELSE streams

(* The streams that have to preroll before any is exposed.                  *)
ToPreroll_NotReset == pending + Cardinality(prepared)
ToPreroll_Any == IF prepared = {} THEN 0 ELSE 1
ToPreroll == Cardinality(prepared)

(* gst_adaptive_demux_start_tasks: the prepared streams if there are any    *)
(* (so every caller chooses), else the exposed ones.  It waits for          *)
(* preroll_lock, and does nothing during shutdown.                          *)
StartTasks ==
  IF ~running THEN UNCHANGED <<pending, doBlock, cancelled, lastRet, task>>
  ELSE /\ preroll = None
       /\ pending' = IF prepared # {} THEN ToPreroll ELSE pending
       /\ doBlock' = SetAll(doBlock, prepared, TRUE)
       /\ cancelled' = SetAll(cancelled, ToStart, FALSE)
       /\ lastRet' = SetAll(lastRet, ToStart, "OK")
       /\ task' = SetAll(task, ToStart, "started")

(* The last step of gst_adaptive_demux_stream_free: the object o is gone.   *)
(* Its fields are those of the next object that stream_new allocates.       *)
FreshFields(o) ==
  /\ cancelled' = [cancelled EXCEPT ![o] = FALSE]
  /\ finished' = [finished EXCEPT ![o] = FALSE]
  /\ doBlock' = [doBlock EXCEPT ![o] = FALSE]
  /\ handleEos' = [handleEos EXCEPT ![o] = FALSE]
  /\ lastRet' = [lastRet EXCEPT ![o] = "OK"]
Forget_NotNull(o) == FreshFields(o) /\ UNCHANGED spc
Forget(o) == FreshFields(o) /\ spc' = [spc EXCEPT ![o] = "off"]

(* gst_adaptive_demux_stream_fragment_download_finish: the first error      *)
(* stays.                                                                   *)
DownloadFinish(s, ret) ==
  /\ lastRet' = IF lastRet[s] = "OK" THEN [lastRet EXCEPT ![s] = ret]
                ELSE lastRet
  /\ finished' = [finished EXCEPT ![s] = TRUE]

(* g_cond_broadcast (preroll_cond).                                         *)
Broadcast_None(f) == f
Broadcast(f) == [s \in Streams |-> IF f[s] = "prWait" THEN "prWoken" ELSE f[s]]

(* gst_adaptive_demux_combine_flows = GST_FLOW_EOS, for the last_ret r and  *)
(* the handle_eos h.                                                        *)
AllEos_Before(r, h) ==
  streams # {} /\ \A s \in streams : r[s] = "EOS" /\ handleEos[s]
AllEos(r, h) == streams # {} /\ \A s \in streams : r[s] = "EOS" /\ h[s]

-----------------------------------------------------------------------------
(* D: gst_adaptive_demux_stream_download_loop.                              *)

(* end_of_manifest: EOS is pushed on the exposed pad, unless new streams    *)
(* wait; on any other pad it is an error (download_error), and D drops its  *)
(* source element.                                                          *)
EndOfManifest(s) ==
  /\ manifest' = Free
  /\ dpc' = [dpc EXCEPT ![s] = IF ~Exposed(s) THEN "drop"
                               ELSE IF next = {} THEN "leave" ELSE "idle"]
  /\ src' = IF Exposed(s) THEN src ELSE [src EXCEPT ![s] = "none"]

(* What an EOS result does, last_ret being r: D stops its task; while there *)
(* is a next period, the last stream to end it advances to it, D keeping    *)
(* the lock to start the tasks.                                             *)
DEosResult(s, r) ==
  LET h == [handleEos EXCEPT ![s] = TRUE] IN
  /\ lastRet' = r
  /\ task' = [task EXCEPT ![s] = "stopped"]
  /\ \/ /\ period < Periods /\ AllEos(r, h)
        /\ period' = period + 1
        /\ \E new \in NewStreams(period + 1) : PrepareStreams(new, prepared, h)
        /\ dpc' = [dpc EXCEPT ![s] = "start"] /\ manifest' = Dt(s)
        /\ UNCHANGED src
     \/ /\ period < Periods /\ ~AllEos(r, h)
        /\ handleEos' = h
        /\ dpc' = [dpc EXCEPT ![s] = "idle"] /\ manifest' = Free
        /\ UNCHANGED <<src, period, prepared, next, free, doBlock>>
     \/ /\ period = Periods
        /\ EndOfManifest(s)
        /\ UNCHANGED <<period, prepared, next, free, doBlock, handleEos>>

(* D has the lock and finds the stream cancelled.                           *)
DCancelled(s) ==
  /\ cancelled[s]
  /\ lastRet' = [lastRet EXCEPT ![s] = "FLUSHING"]
  /\ dpc' = [dpc EXCEPT ![s] = "idle"]
  /\ manifest' = Free
  /\ UNCHANGED <<task, src, period, prepared, next, free, doBlock, handleEos>>

(* From update_fragment_info on: a fragment to download, for which          *)
(* update_source provides a source element, or the end of the period.       *)
DBody(s) ==
  \/ /\ lastRet' = [lastRet EXCEPT ![s] = "OK"]
     /\ src' = [src EXCEPT ![s] = IF @ = "none" THEN "ready" ELSE @]
     /\ dpc' = [dpc EXCEPT ![s] = "prep"]
     /\ manifest' = Free
     /\ UNCHANGED <<task, period, prepared, next, free, doBlock, handleEos>>
  \/ /\ ~doBlock[s] \/ "empty" \in Faults
     /\ DEosResult(s, [lastRet EXCEPT ![s] = "EOS"])

(* The position has reached segment.stop: like the end of the last period.  *)
DSegmentDone(s) ==
  /\ ~doBlock[s] \/ "empty" \in Faults
  /\ task' = [task EXCEPT ![s] = "stopped"]
  /\ EndOfManifest(s)
  /\ UNCHANGED <<lastRet, period, prepared, next, free, doBlock, handleEos>>

(* The start of an iteration up to the first point where D may be held up.  *)
DEnter(s) ==
  /\ task[s] = "started" /\ dpc[s] = "idle" /\ manifest = Free
  /\ \/ DCancelled(s) /\ UNCHANGED <<old, dfree>>
     \/ ~cancelled[s] /\ DSegmentDone(s) /\ UNCHANGED <<old, dfree>>
     \/ /\ ~cancelled[s] /\ old # {}
        /\ dfree' = [dfree EXCEPT ![s] = old] /\ old' = {}
        /\ dpc' = [dpc EXCEPT ![s] = "free"] /\ manifest' = Dt(s)
        /\ UNCHANGED <<lastRet, task, src, period, prepared, next, free,
                       doBlock, handleEos>>
     \/ ~cancelled[s] /\ old = {} /\ DBody(s) /\ UNCHANGED <<old, dfree>>
  /\ UNCHANGED <<preroll, running, pending, streams, cancelled, finished, dret,
                 dcur, spc, xVars, aVars, boundVars>>

(* D has the lock and frees the next of the old streams it took: it asks    *)
(* its task to stop and unlocks to join it.  When none is left, D looks at  *)
(* `cancelled' again and goes on with the iteration.                        *)
DFreeNext(s) ==
  /\ dpc[s] = "free" /\ manifest = Dt(s)
  /\ \/ \E o \in dfree[s] :
          /\ dcur' = [dcur EXCEPT ![s] = o]
          /\ dpc' = [dpc EXCEPT ![s] = "freeJoin"]
          /\ manifest' = Free
          /\ task' = [task EXCEPT ![o] = "stopped"]
          /\ cancelled' = [cancelled EXCEPT ![o] = @ \/ task[o] # "stopped"]
          /\ UNCHANGED <<lastRet, src, period, prepared, next, free, doBlock,
                         handleEos>>
     \/ /\ dfree[s] = {} /\ UNCHANGED <<cancelled, dcur>>
        /\ DCancelled(s) \/ (~cancelled[s] /\ DBody(s))
  /\ UNCHANGED <<preroll, running, pending, streams, old, finished, dret, dfree,
                 spc, xVars, aVars, boundVars>>

(* The task of the stream D frees is joined: D takes the lock, clears       *)
(* stream->src and unlocks to set the element to NULL.                      *)
DFreeJoin(s) ==
  /\ dpc[s] = "freeJoin" /\ dpc[dcur[s]] = "idle" /\ manifest = Free
  /\ src' = [src EXCEPT ![dcur[s]] = "none"]
  /\ dpc' = [dpc EXCEPT ![s] = "freeSrc"]
  /\ UNCHANGED <<lockVars, demuxVars, listVars, flagVars, task, dret, dfree,
                 dcur, spc, xVars, aVars, boundVars>>

(* Its source has stopped: D takes the lock again, the object is gone.      *)
DFreeSrc(s) ==
  LET o == dcur[s] IN
  /\ dpc[s] = "freeSrc" /\ ~InChain(o) /\ manifest = Free
  /\ Forget(o)
  /\ free' = free \cup {o}
  /\ dfree' = [dfree EXCEPT ![s] = @ \ {o}]
  /\ dcur' = [dcur EXCEPT ![s] = None]
  /\ dpc' = [dpc EXCEPT ![s] = "free"] /\ manifest' = Dt(s)
  /\ UNCHANGED <<preroll, demuxVars, streams, prepared, old, next, task, src,
                 dret, xVars, aVars, boundVars>>

(* download_uri, without locks: the source is set to READY, which waits for *)
(* S to leave the chain function.                                           *)
DPrep(s) ==
  /\ dpc[s] = "prep" /\ ~InChain(s)
  /\ src' = [src EXCEPT ![s] = "ready"] /\ spc' = [spc EXCEPT ![s] = "off"]
  /\ dpc' = [dpc EXCEPT ![s] = "reset"]
  /\ UNCHANGED <<lockVars, demuxVars, listVars, flagVars, task, dret, dfree,
                 dcur, xVars, aVars, boundVars>>

(* With the lock, D resets download_finished; when last_ret is no longer OK *)
(* it downloads nothing and returns OK.  `cancelled' is not looked at.      *)
DReset(s) ==
  /\ dpc[s] = "reset" /\ manifest = Free
  /\ IF lastRet[s] = "OK"
       THEN /\ finished' = [finished EXCEPT ![s] = FALSE]
            /\ dpc' = [dpc EXCEPT ![s] = "sync"] /\ UNCHANGED dret
       ELSE /\ dret' = [dret EXCEPT ![s] = "OK"]
            /\ dpc' = [dpc EXCEPT ![s] = "ready"] /\ UNCHANGED finished
  /\ UNCHANGED <<lockVars, demuxVars, listVars, cancelled, doBlock, handleEos,
                 lastRet, task, src, dfree, dcur, spc, xVars, aVars, boundVars>>

(* Without locks: gst_element_sync_state_with_parent starts the source.     *)
DSync(s) ==
  /\ dpc[s] = "sync"
  /\ src' = [src EXCEPT ![s] = "playing"] /\ spc' = [spc EXCEPT ![s] = "run"]
  /\ dpc' = [dpc EXCEPT ![s] = "wait"]
  /\ UNCHANGED <<lockVars, demuxVars, listVars, flagVars, task, dret, dfree,
                 dcur, xVars, aVars, boundVars>>

(* The wait on fragment_download_cond ends; D takes the lock.  A cancelled  *)
(* stream leaves the loop with its source still running.                    *)
DWait(s) ==
  /\ dpc[s] = "wait" /\ (cancelled[s] \/ finished[s]) /\ manifest = Free
  /\ IF cancelled[s]
       THEN /\ lastRet' = [lastRet EXCEPT ![s] = "FLUSHING"]
            /\ dpc' = [dpc EXCEPT ![s] = "idle"] /\ UNCHANGED dret
       ELSE /\ dret' = [dret EXCEPT ![s] = lastRet[s]]
            /\ dpc' = [dpc EXCEPT ![s] = "ready"] /\ UNCHANGED lastRet
  /\ UNCHANGED <<lockVars, demuxVars, listVars, cancelled, finished, doBlock,
                 handleEos, task, src, dfree, dcur, spc, xVars, aVars,
                 boundVars>>

(* Without locks: the pad is idle, and the source is set to READY.          *)
DReady(s) ==
  /\ dpc[s] = "ready" /\ ~InChain(s)
  /\ src' = [src EXCEPT ![s] = "ready"] /\ spc' = [spc EXCEPT ![s] = "off"]
  /\ dpc' = [dpc EXCEPT ![s] = "result"]
  /\ UNCHANGED <<lockVars, demuxVars, listVars, flagVars, task, dret, dfree,
                 dcur, xVars, aVars, boundVars>>

(* A failed download: download_fragment tries again at once, or calls the   *)
(* failure of the last fragment EOS; the loop gives up after too many       *)
(* errors, starts over with an updated manifest, or waits first.            *)
DErrorResult(s) ==
  \/ /\ lastRet' = [lastRet EXCEPT ![s] = "OK"]
     /\ dpc' = [dpc EXCEPT ![s] = "prep"] /\ manifest' = Free
     /\ UNCHANGED <<task, src, period, prepared, next, free, doBlock, handleEos>>
  \/ (~doBlock[s] \/ "empty" \in Faults) /\ DEosResult(s, lastRet)
  \/ /\ task' = [task EXCEPT ![s] = "stopped"]
     /\ src' = [src EXCEPT ![s] = "none"]
     /\ dpc' = [dpc EXCEPT ![s] = "drop"] /\ manifest' = Free
     /\ UNCHANGED <<lastRet, period, prepared, next, free, doBlock, handleEos>>
  \/ \E pc \in {"idle", "retry"} :
       /\ dpc' = [dpc EXCEPT ![s] = pc] /\ manifest' = Free
       /\ UNCHANGED <<lastRet, task, src, period, prepared, next, free, doBlock,
                      handleEos>>

(* D has the lock again after the download: the switch on its result.       *)
DResult(s) ==
  /\ dpc[s] = "result" /\ manifest = Free
  /\ \/ DCancelled(s)
     \/ /\ ~cancelled[s] /\ dret[s] \in {"OK", "FLUSHING"}
        /\ task' = IF dret[s] = "FLUSHING" THEN SetAll(task, streams, "stopped")
                   ELSE task
        /\ dpc' = [dpc EXCEPT ![s] = "idle"]
        /\ UNCHANGED <<manifest, lastRet, src, period, prepared, next, free,
                       doBlock, handleEos>>
     \/ ~cancelled[s] /\ dret[s] = "EOS" /\ DEosResult(s, lastRet)
     \/ ~cancelled[s] /\ dret[s] = "ERROR" /\ DErrorResult(s)
  /\ UNCHANGED <<preroll, running, pending, streams, old, cancelled, finished,
                 dret, dfree, dcur, spc, xVars, aVars, boundVars>>

(* The wait before a retry ends; D takes the lock and the iteration ends.   *)
DRetry(s) ==
  /\ dpc[s] = "retry" /\ manifest = Free
  /\ lastRet' = IF cancelled[s] THEN [lastRet EXCEPT ![s] = "FLUSHING"]
                ELSE lastRet
  /\ dpc' = [dpc EXCEPT ![s] = "idle"]
  /\ UNCHANGED <<lockVars, demuxVars, listVars, cancelled, finished, doBlock,
                 handleEos, task, src, dret, dfree, dcur, spc, xVars, aVars,
                 boundVars>>

(* D has pushed EOS, or has set the source it dropped to NULL: it takes the *)
(* lock and the iteration ends.                                             *)
DLeave(s) ==
  /\ manifest = Free
  /\ \/ dpc[s] = "leave" /\ UNCHANGED spc
     \/ dpc[s] = "drop" /\ ~InChain(s) /\ spc' = [spc EXCEPT ![s] = "off"]
  /\ dpc' = [dpc EXCEPT ![s] = "idle"]
  /\ UNCHANGED <<lockVars, demuxVars, listVars, flagVars, task, src, dret,
                 dfree, dcur, xVars, aVars, boundVars>>

(* The end of gst_adaptive_demux_advance_period.                            *)
DStart(s) ==
  /\ dpc[s] = "start" /\ manifest = Dt(s)
  /\ StartTasks
  /\ dpc' = [dpc EXCEPT ![s] = "idle"] /\ manifest' = Free
  /\ UNCHANGED <<preroll, running, period, listVars, finished, handleEos, src,
                 dret, dfree, dcur, spc, xVars, aVars, boundVars>>

-----------------------------------------------------------------------------
(* S: _src_chain and _src_event on the internal pad of the source element,  *)
(* and the thread of the element below it that posts its errors.            *)

(* A buffer arrives.  S leaves a cancelled stream alone; during preroll it  *)
(* goes on to take preroll_lock with manifest_lock held, else it unlocks    *)
(* and pushes.                                                              *)
SChain(s) ==
  /\ spc[s] = "run" /\ manifest = Free
  /\ \/ /\ cancelled[s]
        /\ lastRet' = [lastRet EXCEPT ![s] = "FLUSHING"]
        /\ spc' = [spc EXCEPT ![s] = "off"] /\ UNCHANGED manifest
     \/ /\ ~cancelled[s] /\ doBlock[s]
        /\ spc' = [spc EXCEPT ![s] = "prNeed"] /\ manifest' = St(s)
        /\ UNCHANGED lastRet
     \/ /\ ~cancelled[s] /\ ~doBlock[s]
        /\ spc' = [spc EXCEPT ![s] = "push"] /\ UNCHANGED <<manifest, lastRet>>
  /\ UNCHANGED <<preroll, demuxVars, listVars, cancelled, finished, doBlock,
                 handleEos, task, src, dVars, xVars, aVars, boundVars>>

(* gst_adaptive_demux_handle_preroll: the stream that brings the count to 0 *)
(* exposes the prepared streams, and unlocks manifest_lock to add the pads. *)
SPreroll(s) ==
  /\ spc[s] = "prNeed" /\ preroll = None
  /\ pending' = pending - 1
  /\ IF pending = 1 /\ prepared # {}
       THEN /\ xold' = streams /\ streams' = prepared /\ prepared' = {}
            /\ spc' = [spc EXCEPT ![s] = "expose"]
       ELSE /\ spc' = [IF pending = 1 THEN Broadcast(spc) ELSE spc
                         EXCEPT ![s] = "prCheck"]
            /\ UNCHANGED <<xold, streams, prepared>>
  /\ preroll' = s /\ manifest' = Free
  /\ UNCHANGED <<running, period, old, next, free, flagVars, task, src, dVars,
                 xtodo, aVars, boundVars>>

(* A replaced stream is asked to stop.                                      *)
CancelStream(o) ==
  /\ task' = [task EXCEPT ![o] = "stopped"]
  /\ cancelled' = [cancelled EXCEPT ![o] = TRUE]

(* The end of expose_streams, once the local old streams are dealt with.    *)
ExposeDone_Silent(s) ==
  /\ old' = old \cup xold /\ xold' = {}
  /\ doBlock' = SetAll(doBlock, streams, FALSE)
  /\ spc' = [spc EXCEPT ![s] = "prCheck"]
ExposeDone(s) ==
  /\ old' = old \cup xold /\ xold' = {}
  /\ doBlock' = SetAll(doBlock, streams, FALSE)
  /\ spc' = [Broadcast(spc) EXCEPT ![s] = "prCheck"]

(* The pads are added and no_more_pads is signalled.                        *)
SExpose(s) ==
  /\ spc[s] = "expose" /\ manifest = Free
  /\ pending' = 0
  /\ IF xold = {}
       THEN ExposeDone(s) /\ UNCHANGED xtodo
       ELSE /\ xtodo' = xold /\ spc' = [spc EXCEPT ![s] = "exposeOld"]
            /\ UNCHANGED <<old, xold, doBlock>>
  /\ UNCHANGED <<lockVars, running, period, streams, prepared, next, free,
                 cancelled, finished, handleEos, lastRet, task, src, dVars,
                 aVars, boundVars>>

(* One replaced stream: its pad has been sent EOS, deactivated (its S is    *)
(* not pushing) and removed without the lock; with it, the stream is        *)
(* cancelled.                                                               *)
SExposeOld(s) ==
  /\ spc[s] = "exposeOld" /\ manifest = Free
  /\ \E o \in xtodo :
       /\ spc[o] # "push"
       /\ CancelStream(o)
       /\ xtodo' = xtodo \ {o}
       /\ IF xtodo = {o} THEN ExposeDone(s)
          ELSE UNCHANGED <<old, xold, doBlock, spc>>
  /\ UNCHANGED <<lockVars, demuxVars, streams, prepared, next, free, finished,
                 handleEos, lastRet, src, dVars, aVars, boundVars>>

(* The loop around preroll_cond, with preroll_lock: wait, give up without   *)
(* taking manifest_lock when cancelled, or go on.  The one that gives up    *)
(* returns FLUSHING to _src_chain, which unlocks manifest_lock all the same *)
(* (3091): of a GRecMutex of another thread, or of none, that is refused    *)
(* (EPERM of a recursive mutex, which GLib passes over), so that the thread *)
(* just ends; where it is not refused, the lock of the other would be gone. *)
SPrerollCheck(s) ==
  /\ \/ spc[s] = "prCheck" /\ preroll = s
     \/ spc[s] = "prWoken" /\ preroll = None
  /\ preroll' = None
  /\ spc' = [spc EXCEPT ![s] = IF cancelled[s] THEN "off"
                               ELSE IF doBlock[s] THEN "prWait" ELSE "relock"]
  /\ UNCHANGED <<manifest, demuxVars, listVars, flagVars, task, src, dVars,
                 xVars, aVars, boundVars>>

(* S takes manifest_lock to collect the pending events, without looking at  *)
(* `cancelled', and unlocks to push them and the buffer.                    *)
SRelock(s) ==
  /\ spc[s] = "relock" /\ manifest = Free
  /\ spc' = [spc EXCEPT ![s] = "push"]
  /\ UNCHANGED <<lockVars, demuxVars, listVars, flagVars, task, src, dVars,
                 xVars, aVars, boundVars>>

(* The buffer is pushed and S takes manifest_lock: the stream is cancelled, *)
(* there is more to come, or the chain function ends the download: the      *)
(* fragment is complete and was the last or not, or downstream is flushing. *)
SPushed(s) ==
  /\ spc[s] = "push" /\ manifest = Free
  /\ \/ /\ cancelled[s]
        /\ lastRet' = [lastRet EXCEPT ![s] = "FLUSHING"]
        /\ spc' = [spc EXCEPT ![s] = "off"] /\ UNCHANGED finished
     \/ /\ ~cancelled[s]
        /\ spc' = [spc EXCEPT ![s] = "run"] /\ UNCHANGED <<lastRet, finished>>
     \/ /\ ~cancelled[s]
        /\ \E ret \in {"OK", "EOS", "FLUSHING"} :
             /\ ret = "FLUSHING" => apc = "flush" /\ Exposed(s)
             /\ DownloadFinish(s, ret)
        /\ spc' = [spc EXCEPT ![s] = "off"]
  /\ UNCHANGED <<lockVars, demuxVars, listVars, cancelled, doBlock, handleEos,
                 task, src, dVars, xVars, aVars, boundVars>>

(* EOS: the fragment, which was the last of the period or not, is finished, *)
(* whether or not the stream is cancelled.                                  *)
SEos(s) ==
  /\ spc[s] = "run" /\ manifest = Free
  /\ ~doBlock[s] \/ "empty" \in Faults
  /\ \E ret \in {"OK", "EOS"} : DownloadFinish(s, ret)
  /\ spc' = [spc EXCEPT ![s] = "off"]
  /\ UNCHANGED <<lockVars, demuxVars, listVars, cancelled, doBlock, handleEos,
                 task, src, dVars, xVars, aVars, boundVars>>

(* gst_adaptive_demux_handle_message for an ERROR of the source of s: the   *)
(* stream whose stream->src posted it is looked up in the lists; when there *)
(* is none the function returns with manifest_lock held.                    *)
Located(s) == s \in Listed /\ src[s] # "none"
SourceError(s) ==
  /\ spc[s] # "off" /\ manifest = Free
  /\ errors < MaxErrors /\ errors' = errors + 1
  /\ Located(s) \/ "lateError" \in Faults
  /\ "error" \in Faults \/ ~Located(s)
  /\ IF Located(s) THEN DownloadFinish(s, "ERROR") /\ UNCHANGED manifest
     ELSE manifest' = Leaked /\ UNCHANGED <<lastRet, finished>>
  /\ UNCHANGED <<preroll, demuxVars, listVars, cancelled, doBlock, handleEos,
                 task, src, spc, dVars, xVars, aVars, calls>>

-----------------------------------------------------------------------------
(* The API call, which has api_lock.                                        *)
ResetKinds == {"down", "up", "flushStop"}

(* EOS on the sink pad: process_manifest sets up the first period.          *)
ASinkEos ==
  /\ apc = "idle" /\ running /\ streams = {} /\ prepared = {} /\ manifest = Free
  /\ period' = 1
  /\ \E new \in NewStreams(1) : PrepareStreams(new, {}, handleEos)
  /\ akind' = "manifest" /\ apc' = "start" /\ manifest' = Api
  /\ UNCHANGED <<preroll, running, pending, streams, old, cancelled, finished,
                 lastRet, task, src, spc, dVars, xVars, atodo, acur, aphase,
                 aold, boundVars>>

(* A seek on an exposed pad (flush_start is pushed without the lock), a     *)
(* state change, or FLUSH_STOP on the sink pad.                             *)
ACall(kind) ==
  /\ apc = "idle" /\ calls < MaxCalls
  /\ CASE kind \in SeekKinds -> streams # {}
       [] kind = "up" -> ~running
       [] OTHER -> running
  /\ calls' = calls + 1 /\ akind' = kind
  /\ apc' = CASE kind = "flush" -> "flush" [] kind = "keep" -> "join"
              [] OTHER -> "stop"
  /\ UNCHANGED <<lockVars, demuxVars, listVars, flagVars, task, src, spc, dVars,
                 xVars, atodo, acur, aphase, aold, errors>>

(* gst_adaptive_demux_stop_tasks, up to the point where it unlocks; a reset *)
(* has first taken the old streams.                                         *)
TakeOld_Kept == aold' = old /\ UNCHANGED old
TakeOld == aold' = old /\ old' = {}
AStop ==
  /\ apc \in {"flush", "stop"} /\ manifest = Free
  /\ running' = (running /\ akind # "down")
  /\ IF akind \in ResetKinds THEN TakeOld ELSE UNCHANGED <<aold, old>>
  /\ cancelled' = SetAll(cancelled, Listed, TRUE)
  /\ task' = SetAll(task, Listed, "stopped")
  /\ apc' = "bcast"
  /\ UNCHANGED <<lockVars, period, pending, streams, prepared, next, free,
                 finished, doBlock, handleEos, lastRet, src, spc, dVars, xVars,
                 akind, atodo, acur, aphase, boundVars>>

(* Without manifest_lock it takes preroll_lock to wake the prerolling Ss.   *)
ABroadcast ==
  /\ apc = "bcast" /\ preroll = None
  /\ spc' = Broadcast(spc) /\ apc' = "list"
  /\ UNCHANGED <<lockVars, demuxVars, listVars, flagVars, task, src, dVars,
                 xVars, akind, atodo, acur, aphase, aold, boundVars>>

(* With manifest_lock it starts to walk the two lists.                      *)
AList ==
  /\ apc = "list" /\ manifest = Free
  /\ atodo' = Listed /\ apc' = "join"
  /\ UNCHANGED <<lockVars, demuxVars, listVars, flagVars, task, src, spc, dVars,
                 xVars, akind, acur, aphase, aold, boundVars>>

(* For each stream it unlocks, sets the source to READY ...                 *)
AStopSrc ==
  /\ apc = "join" /\ manifest = Free
  /\ \E s \in atodo :
       /\ ~InChain(s) \/ src[s] = "none"
       /\ IF src[s] = "none" THEN UNCHANGED <<src, spc>>
          ELSE /\ src' = [src EXCEPT ![s] = "ready"]
               /\ spc' = [spc EXCEPT ![s] = "off"]
       /\ acur' = s
  /\ apc' = "wait"
  /\ UNCHANGED <<lockVars, demuxVars, listVars, flagVars, task, dVars, xVars,
                 akind, atodo, aphase, aold, boundVars>>

(* ... joins the download task, and locks again.                            *)
AJoin ==
  /\ apc = "wait" /\ dpc[acur] = "idle" /\ manifest = Free
  /\ atodo' = atodo \ {acur} /\ acur' = None /\ apc' = "join"
  /\ UNCHANGED <<lockVars, demuxVars, listVars, flagVars, task, src, spc, dVars,
                 xVars, akind, aphase, aold, boundVars>>

(* The rest of handle_seek_event up to start_tasks: the subclass seek sets  *)
(* up the streams of a period anew (need_setup is TRUE since the last       *)
(* prepare_streams), or fails, or has nothing to do for a "keep" seek.      *)
(* Streams still in preroll become old ones.                                *)
Displaced_None == {}
Displaced == prepared
ASeekBody ==
  /\ apc = "join" /\ atodo = {} /\ akind \in SeekKinds /\ manifest = Free
  /\ \/ /\ akind # "keep"
        /\ \E p \in 1..Periods : \E new \in NewStreams(p) :
             period' = p /\ PrepareStreams(new, prepared \ Displaced, handleEos)
        /\ old' = old \cup Displaced
     \/ UNCHANGED <<period, prepared, next, free, old, doBlock, handleEos>>
  /\ apc' = "start" /\ manifest' = Api
  /\ UNCHANGED <<preroll, running, pending, streams, cancelled, finished,
                 lastRet, task, src, spc, dVars, xVars, akind, atodo, acur,
                 aphase, aold, boundVars>>

(* start_tasks, and the end of the call.                                    *)
AStart ==
  /\ apc = "start" /\ manifest = Api
  /\ StartTasks
  /\ apc' = "idle" /\ akind' = "none" /\ manifest' = Free
  /\ UNCHANGED <<preroll, running, period, listVars, finished, handleEos, src,
                 spc, dVars, xVars, atodo, acur, aphase, aold, boundVars>>

(* The lists a reset frees, in its order; each keeps pointing to the freed  *)
(* streams until the last of them is gone.                                  *)
ResetList(p) == CASE p = 1 -> streams [] p = 2 -> prepared [] p = 3 -> next
                  [] p = 4 -> aold [] p = 5 -> old [] OTHER -> {}

AReset ==
  /\ apc = "join" /\ atodo = {} /\ akind \in ResetKinds /\ manifest = Free
  /\ apc' = "free" /\ aphase' = 1 /\ atodo' = streams /\ manifest' = Api
  /\ UNCHANGED <<preroll, demuxVars, listVars, flagVars, task, src, spc, dVars,
                 xVars, akind, acur, aold, boundVars>>

(* stream_free of the next stream of the list: see DFreeNext.               *)
AFreeNext ==
  /\ apc = "free" /\ manifest = Api
  /\ \E o \in atodo :
       /\ acur' = o
       /\ task' = [task EXCEPT ![o] = "stopped"]
       /\ cancelled' = [cancelled EXCEPT ![o] = @ \/ task[o] # "stopped"]
  /\ apc' = "freeJoin" /\ manifest' = Free
  /\ UNCHANGED <<preroll, demuxVars, listVars, finished, doBlock, handleEos,
                 lastRet, src, spc, dVars, xVars, akind, atodo, aphase, aold,
                 boundVars>>

AFreeJoin ==
  /\ apc = "freeJoin" /\ dpc[acur] = "idle" /\ manifest = Free
  /\ src' = [src EXCEPT ![acur] = "none"] /\ apc' = "freeSrc"
  /\ UNCHANGED <<lockVars, demuxVars, listVars, flagVars, task, spc, dVars,
                 xVars, akind, atodo, acur, aphase, aold, boundVars>>

AFreeSrc ==
  /\ apc = "freeSrc" /\ ~InChain(acur) /\ manifest = Free
  /\ Forget(acur)
  /\ atodo' = atodo \ {acur} /\ acur' = None
  /\ apc' = "free" /\ manifest' = Api
  /\ UNCHANGED <<preroll, demuxVars, listVars, task, src, dVars, xVars, akind,
                 aphase, aold, boundVars>>

(* A list is done; after the last one the call ends.                        *)
LastList_Late == aphase = 6
LastList == aphase = 5
AFreeList ==
  /\ apc = "free" /\ manifest = Api /\ atodo = {}
  /\ free' = free \cup ResetList(aphase)
  /\ streams' = IF aphase = 1 THEN {} ELSE streams
  /\ prepared' = IF aphase = 2 THEN {} ELSE prepared
  /\ next' = IF aphase = 3 THEN {} ELSE next
  /\ aold' = IF aphase = 4 THEN {} ELSE aold
  /\ old' = IF aphase = 5 THEN {} ELSE old
  /\ IF ~LastList
       THEN /\ aphase' = aphase + 1 /\ atodo' = ResetList(aphase + 1)
            /\ UNCHANGED <<apc, akind, manifest, running>>
       ELSE /\ aphase' = 0 /\ UNCHANGED atodo
            /\ apc' = "idle" /\ akind' = "none" /\ manifest' = Free
            /\ running' = (running \/ akind = "up")
  /\ UNCHANGED <<preroll, period, pending, flagVars, task, src, spc, dVars,
                 xVars, acur, boundVars>>

-----------------------------------------------------------------------------
DStep(s) == \/ DEnter(s) \/ DFreeNext(s) \/ DFreeJoin(s) \/ DFreeSrc(s)
            \/ DPrep(s) \/ DReset(s) \/ DSync(s) \/ DWait(s) \/ DReady(s)
            \/ DResult(s) \/ DRetry(s) \/ DLeave(s) \/ DStart(s)
SStep(s) == \/ SChain(s) \/ SPreroll(s) \/ SExpose(s) \/ SExposeOld(s)
            \/ SPrerollCheck(s) \/ SRelock(s) \/ SPushed(s) \/ SEos(s)
AStep == \/ AStop \/ ABroadcast \/ AList \/ AStopSrc \/ AJoin \/ ASeekBody
         \/ AStart \/ AReset \/ AFreeNext \/ AFreeJoin \/ AFreeSrc \/ AFreeList

(* Playback is over or the element is shut down, and every thread has come  *)
(* to rest; or a stream has posted a fatal error in preroll, and the others *)
(* wait for the application's reaction.  Any other state without a step is  *)
(* a deadlock.                                                              *)
AtRest ==
  /\ apc = "idle"
  /\ \A s \in Streams :
       \/ task[s] = "stopped" /\ dpc[s] = "idle" /\ spc[s] = "off"
       \/ /\ \E o \in prepared : task[o] = "stopped" /\ ~cancelled[o]
          /\ spc[s] = "prWait"
  /\ UNCHANGED vars

Next == \/ AtRest \/ ASinkEos \/ AStep
        \/ \E kind \in SeekKinds \cup ResetKinds : ACall(kind)
        \/ \E s \in Streams : DStep(s) \/ SStep(s) \/ SourceError(s)

Spec == Init /\ [][Next]_vars

(* A thread that can go on does; SF, because one that waits for a mutex     *)
(* gets it in the end, and because gst_element_set_state refuses the source *)
(* new calls of the chain function while it waits.  Sources deliver data,   *)
(* and pushing it downstream returns.  Nobody has to call the API.          *)
Fairness == /\ SF_vars(AStep)
            /\ \A s \in Streams : SF_vars(DStep(s)) /\ SF_vars(SStep(s))
FairSpec == Spec /\ Fairness

-----------------------------------------------------------------------------
(* Properties.                                                              *)

DPcs == {"idle", "free", "freeJoin", "freeSrc", "prep", "reset", "sync", "wait",
         "ready", "result", "retry", "leave", "drop", "start"}
APcs == {"idle", "flush", "stop", "bcast", "list", "join", "wait", "start",
         "free", "freeJoin", "freeSrc"}
Rets == {"OK", "EOS", "FLUSHING", "ERROR"}

(* The variables keep to the values the code gives them.                    *)
TypeOK ==
  /\ manifest \in Owners /\ preroll \in Streams \cup {None}
  /\ running \in BOOLEAN /\ period \in 1..Periods /\ pending \in Int
  /\ streams \subseteq Streams /\ prepared \subseteq Streams
  /\ old \subseteq Streams /\ next \subseteq Streams /\ free \subseteq Streams
  /\ cancelled \in [Streams -> BOOLEAN] /\ finished \in [Streams -> BOOLEAN]
  /\ doBlock \in [Streams -> BOOLEAN] /\ handleEos \in [Streams -> BOOLEAN]
  /\ lastRet \in [Streams -> Rets]
  /\ task \in [Streams -> {"stopped", "started"}]
  /\ src \in [Streams -> {"none", "ready", "playing"}]
  /\ dpc \in [Streams -> DPcs] /\ dret \in [Streams -> Rets]
  /\ dfree \in [Streams -> SUBSET Streams]
  /\ dcur \in [Streams -> Streams \cup {None}]
  /\ spc \in [Streams -> ChainPcs \cup {"off", "run"}]
  /\ xold \subseteq Streams /\ xtodo \subseteq Streams
  /\ apc \in APcs
  /\ akind \in SeekKinds \cup ResetKinds \cup {"none", "manifest"}
  /\ atodo \subseteq Streams /\ acur \in Streams \cup {None}
  /\ aphase \in 0..5 /\ aold \subseteq Streams
  /\ calls \in 0..MaxCalls /\ errors \in 0..MaxErrors

(* A stream is in one list, or in the list one thread is freeing: nobody    *)
(* frees a stream that another thread can still reach, or a second time,    *)
(* and none is lost.                                                        *)
Lists == <<streams, prepared, old, next, free, xold, aold>>
OneOwner ==
  /\ \A i, j \in 1..7 : i # j => Lists[i] \cap Lists[j] = {}
  /\ \A d \in Streams : /\ \A i \in 1..7 : Lists[i] \cap dfree[d] = {}
                        /\ \A e \in Streams \ {d} : dfree[d] \cap dfree[e] = {}
  /\ Streams = (UNION {Lists[i] : i \in 1..7})
               \cup (UNION {dfree[d] : d \in Streams})

(* The objects that are freed, those a list still points to included.       *)
Dead == free \cup (IF apc \in {"free", "freeJoin", "freeSrc"}
                   THEN ResetList(aphase) \ atodo ELSE {})

(* Streams that wait to be freed have been asked to stop before they got    *)
(* there (the comment in expose_streams), whoever put them there.           *)
OldStopped ==
  \A s \in (old \cup aold \cup UNION {dfree[d] : d \in Streams}) \ Dead :
    cancelled[s] /\ task[s] = "stopped"

(* No thread of a stream that was freed is left: neither D nor S uses the   *)
(* object again.                                                            *)
DeadIsQuiet ==
  \A s \in Dead : dpc[s] = "idle" /\ task[s] = "stopped" /\ spc[s] = "off"

(* Pads are added only when every stream of the new set has a buffer: all   *)
(* other streams being exposed wait in preroll, unless a call stops them.   *)
ExposeOnlyPrerolled ==
  \A s \in Streams : spc[s] \in {"expose", "exposeOld"} =>
    /\ s \in streams
    /\ \A o \in streams \ {s} : cancelled[o] \/ spc[o] \in {"prWait", "prWoken"}

(* The last stream to preroll releases them all ("That was the last one,    *)
(* time to release all streams and expose them"): it never happens that all *)
(* prepared streams wait for each other.                                    *)
LastReleases ==
  ~(prepared # {} /\ \A s \in prepared : spc[s] = "prWait" /\ ~cancelled[s])

(* A thread that waits in preroll has a reason to, or a broadcast is coming.*)
NoLostWakeup ==
  \A s \in Streams :
    spc[s] = "prWait" /\ (cancelled[s] \/ ~doBlock[s]) => apc = "bcast"

(* After stop_tasks no D and no chain function of a listed stream runs, and *)
(* the task cannot start again: the call may change them.                   *)
Quiescent ==
  apc = "join" /\ atodo = {} /\ akind # "keep" =>
    \A s \in streams \cup prepared :
      cancelled[s] /\ task[s] = "stopped" /\ dpc[s] = "idle" /\ ~InChain(s)

(* The streams a call leaves behind and those it goes on with are at rest.  *)
CallsAtRest == OldStopped /\ Quiescent

(* No call leaves the streams it stopped stopped: between calls those that  *)
(* preroll, or else the exposed ones, are not cancelled.                    *)
Resumed ==
  apc = "idle" /\ running =>
    \A s \in IF prepared = {} THEN streams ELSE prepared : ~cancelled[s]

(* prepare_streams always finds prepared_streams empty ("Preparing new      *)
(* streams without cleaning up old ones!"): next_streams only holds streams *)
(* inside a section of manifest_lock.                                       *)
NeverRefused == next = {}

(* The step in which the D of the last exposed stream comes to the end of a *)
(* period (not just to segment.stop: it would push EOS), the streams having *)
(* got there with a last_ret of R, is the step to the next period.          *)
Ended ==
  \A s \in streams : handleEos[s] /\ lastRet[s] = "EOS" /\ task[s] = "stopped"
Advances ==
  (/\ \E s \in streams : /\ task[s] = "started" /\ task'[s] = "stopped"
                         /\ dpc'[s] # "leave"
   /\ Ended' /\ apc' = apc /\ period < Periods)
  => period' = period + 1

(* "Next period available": the last D to get to the end advances.          *)
PeriodAdvances == [][Advances]_vars

(* Every call ends: joining the tasks and stopping the sources never waits  *)
(* for a thread that waits for the call.                                    *)
CallsEnd == apc # "idle" ~> apc = "idle"

(* Prepared streams get exposed, or are replaced or freed.                  *)
PrerollEnds == prepared # {} ~> prepared = {}

(* handle_message releases manifest_lock when it ends.                      *)
ManifestReleased == manifest # Leaked

=============================================================================
