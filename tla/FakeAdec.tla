------------------------------ MODULE FakeAdec ------------------------------
(***************************************************************************)
(* fakeadec: the audio decoder that stands in while there is none.  In its *)
(* active mode it throws buffers away, but not before their time: the      *)
(* streaming thread sleeps on a condition variable until a timer of the    *)
(* main loop finds that the clock has passed the buffer, or a flush or a   *)
(* state change wakes it.  A segment makes it wait, besides, until the     *)
(* element has been told a new base time (need_clock_waiting).             *)
(*                                                                         *)
(* Four threads: T streams, F flushes, A changes the state, and the main   *)
(* loop runs the timers.  An action is what a thread does while it has the *)
(* element's lock, or between two places where it has it.                  *)
(***************************************************************************)
EXTENDS Integers

CONSTANTS
  Timers,       \* bound: GSources that there may be at a time
  EndTimes,     \* running times at which buffers end
  Sync,         \* the property sync-streams
  Gapless,      \* a SEGMENT may come without a flush before it
  MaxFakeTurns, \* bound: flushes, state changes and changes of the mode
  MaxPlaying,   \* bound: base times
  MaxRunning    \* bound: running time

ASSUME FakeAssumption ==
  /\ Sync \in BOOLEAN /\ Gapless \in BOOLEAN /\ EndTimes \subseteq Int
  /\ MaxFakeTurns \in Nat /\ MaxPlaying \in Nat /\ MaxRunning \in Nat

VARIABLE fake
fakeVars == <<fake>>

NoBase == -1           \* GST_CLOCK_TIME_NONE in cur_base_time
NoPts == -1            \* a buffer without a time
Places == {"idle", "gap", "wait", "asleep", "woken", "leave", "push"}

InitialFake ==
  [at        |-> "idle",      \* where T is in chain
   end       |-> NoPts,       \* the buffer T has
   next      |-> 0,           \* next_time
   state     |-> "READY",
   stopping  |-> FALSE,       \* A is in PAUSED->READY
   inFlush   |-> FALSE,       \* F is between FLUSH_START and FLUSH_STOP
   flushing  |-> FALSE,
   eos       |-> FALSE,
   timed     |-> FALSE,       \* segment.format is TIME
   due       |-> TRUE,        \* upstream owes a SEGMENT
   active    |-> TRUE,        \* active_mode: the proxy sets it as it makes this
   needGap   |-> TRUE,
   needClock |-> TRUE,        \* need_clock_waiting
   exitLoop  |-> FALSE,
   curBase   |-> NoBase,
   base      |-> 0,           \* which base time the element has, 0: no clock yet
   running   |-> 0,           \* the clock, less the base time
   prerolled |-> FALSE,       \* the sink has got something since the last flush
   settled   |-> FALSE,       \* and the pipeline is playing since
   turns     |-> 0,
   timer     |-> [t \in Timers |-> "none"]]   \* poll, look, ring

(* Only a push in the passive mode keeps the lock while something else runs. *)
LockFree == fake.at # "push"
Woken(f) == IF Sync /\ f.at = "asleep" THEN [f EXCEPT !.at = "woken"] ELSE f
Turn == fake.turns < MaxFakeTurns

-----------------------------------------------------------------------------
(* chain *)
AfterGap == IF Sync THEN "wait" ELSE "idle"
Chain ==
  /\ fake.at = "idle" /\ fake.state = "PAUSED" /\ ~fake.due
  /\ ~fake.flushing /\ ~fake.eos
  /\ \E end \in EndTimes \union {NoPts} :
       fake' = [fake EXCEPT !.end = end,
                            !.at = IF ~fake.active THEN "push"
                                   ELSE IF fake.needGap THEN "gap" ELSE AfterGap]

GapPushed ==
  /\ fake.at = "gap"
  /\ \E ok \in BOOLEAN :
       fake' = [fake EXCEPT !.at = AfterGap, !.needGap = @ /\ ~ok,
                            !.prerolled = @ \/ (ok /\ ~fake.flushing)]

PassedOn ==
  /\ fake.at = "push"
  /\ fake' = [fake EXCEPT !.at = "idle", !.prerolled = @ \/ ~fake.flushing]

(* wait_running_time: one turn of its loop.  A buffer without a time, and  *)
(* any outside a segment in TIME, is not waited for.                       *)
Waits(f) == f.needClock \/ (~f.eos /\ (f.base = 0 \/ f.end >= f.running))

FallAsleep(f, t) ==
  [f EXCEPT !.at = "asleep", !.next = f.end, !.exitLoop = FALSE, !.timer[t] = "poll"]

WaitRunningTime ==
  /\ fake.at \in {"wait", "woken"} /\ LockFree
  /\ LET f == [fake EXCEPT !.exitLoop = @ \/ fake.at = "woken"]
     IN  \/ /\ f.end = NoPts \/ ~f.timed \/ f.flushing
            /\ fake' = [f EXCEPT !.at = "idle"]
         \/ /\ f.end # NoPts /\ f.timed /\ ~f.flushing /\ Waits(f)
            /\ \E t \in Timers : f.timer[t] = "none" /\ fake' = FallAsleep(f, t)
         \/ /\ f.end # NoPts /\ f.timed /\ ~f.flushing /\ ~Waits(f)
            /\ fake' = [f EXCEPT !.at = "leave"]

(* the flag is read again after the lock has been given back *)
Leave ==
  /\ fake.at = "leave"
  /\ fake' = [fake EXCEPT !.at = "idle"]

-----------------------------------------------------------------------------
(* wake_up_next: the main loop calls one timer at a time *)
OneAtATime == \A t \in Timers : fake.timer[t] \in {"none", "poll"}

Tick(t) ==
  /\ fake.timer[t] = "poll" /\ OneAtATime
  /\ fake' = [fake EXCEPT !.timer[t] = IF fake.exitLoop THEN "none" ELSE "look"]

(* the new base time ends the wait for it *)
Looked(f) ==
  IF f.base # 0 /\ f.curBase # f.base
  THEN [f EXCEPT !.curBase = f.base, !.needClock = FALSE] ELSE f

Look(t) ==
  /\ fake.timer[t] = "look"
  /\ LET f == Looked(fake)
         over == f.eos \/ f.flushing \/ (f.base # 0 /\ f.running > f.next)
     IN  fake' = [f EXCEPT !.timer[t] = IF ~f.needClock /\ over THEN "ring" ELSE "poll"]

Ring(t) ==
  /\ fake.timer[t] = "ring" /\ LockFree
  /\ fake' = [fake EXCEPT !.timer[t] = "none",
                          !.at = IF @ = "asleep" THEN "woken" ELSE @]

-----------------------------------------------------------------------------
(* sink_event: SEGMENT and EOS come in T, between two buffers *)
SegmentEvent ==
  /\ fake.at = "idle" /\ fake.state = "PAUSED" /\ ~fake.flushing /\ ~fake.eos
  /\ fake.due \/ (Gapless /\ Turn)
  /\ fake' = [fake EXCEPT !.timed = TRUE, !.due = FALSE, !.needGap = TRUE,
                          !.needClock = TRUE,
                          !.turns = IF fake.due THEN @ ELSE @ + 1]

EosEvent ==
  /\ fake.at = "idle" /\ fake.state = "PAUSED" /\ ~fake.flushing /\ ~fake.due
  /\ fake' = [fake EXCEPT !.eos = TRUE]

FlushStart ==
  /\ Turn /\ fake.state = "PAUSED" /\ ~fake.stopping /\ ~fake.inFlush /\ LockFree
  /\ fake' = Woken([fake EXCEPT !.flushing = TRUE, !.eos = FALSE, !.inFlush = TRUE,
                                !.prerolled = FALSE, !.settled = FALSE,
                                !.turns = @ + 1])

FlushStop ==
  /\ fake.inFlush /\ fake.at = "idle"
  /\ fake' = [fake EXCEPT !.flushing = FALSE, !.eos = FALSE, !.inFlush = FALSE,
                          !.timed = FALSE, !.due = TRUE]

(* change_state; the parent's part of PAUSED->READY waits for T *)
Stop ==
  /\ Turn /\ fake.state = "PAUSED" /\ ~fake.stopping /\ ~fake.inFlush /\ LockFree
  /\ fake' = Woken([fake EXCEPT !.eos = TRUE, !.flushing = TRUE, !.stopping = TRUE,
                                !.turns = @ + 1])
Stopped ==
  /\ fake.stopping /\ fake.at = "idle"
  /\ fake' = [fake EXCEPT !.stopping = FALSE, !.state = "READY", !.due = TRUE]
Start ==
  /\ fake.state = "READY"
  /\ fake' = [fake EXCEPT !.state = "PAUSED", !.eos = FALSE, !.flushing = FALSE,
                          !.prerolled = FALSE, !.settled = FALSE]

(* set_property, without the lock *)
SetActive ==
  /\ Turn
  /\ \E on \in BOOLEAN :
       fake' = [fake EXCEPT !.active = on, !.needGap = TRUE, !.turns = @ + 1]

(* The pipeline plays once its sinks have prerolled: a new base time.      *)
Play ==
  /\ fake.state = "PAUSED" /\ ~fake.stopping /\ fake.prerolled
  /\ fake.base < MaxPlaying
  /\ fake' = [fake EXCEPT !.base = @ + 1, !.running = 0, !.settled = TRUE]
ClockAdvances ==
  /\ fake.base # 0 /\ fake.running < MaxRunning
  /\ fake' = [fake EXCEPT !.running = @ + 1]

-----------------------------------------------------------------------------
FakeInit == fake = InitialFake
FakeNext ==
  \/ Chain \/ GapPushed \/ PassedOn \/ WaitRunningTime \/ Leave
  \/ \E t \in Timers : Tick(t) \/ Look(t) \/ Ring(t)
  \/ SegmentEvent \/ EosEvent \/ FlushStart \/ FlushStop
  \/ Stop \/ Stopped \/ Start \/ SetActive \/ Play \/ ClockAdvances
FakeSpec == FakeInit /\ [][FakeNext]_fakeVars
-----------------------------------------------------------------------------
FakeRecords ==
  [at : Places, end : EndTimes \union {NoPts}, next : Int,
   state : {"READY", "PAUSED"}, stopping : BOOLEAN, inFlush : BOOLEAN,
   flushing : BOOLEAN, eos : BOOLEAN, timed : BOOLEAN, due : BOOLEAN,
   active : BOOLEAN, needGap : BOOLEAN, needClock : BOOLEAN,
   exitLoop : BOOLEAN, curBase : Int, base : Nat, running : Nat,
   prerolled : BOOLEAN, settled : BOOLEAN, turns : Nat,
   timer : [Timers -> {"none", "poll", "look", "ring"}]]
FakeTypeOK == fake \in FakeRecords

(* wait_running_time, wake_up_next: T never sleeps through a flush, and    *)
(* while it sleeps there is a timer that goes on looking: the one that is   *)
(* told to exit is never the last (exit_loop is one flag for all of them). *)
NobodyLeft ==
  fake.at = "asleep" =>
    /\ Sync => ~fake.flushing
    /\ \E t \in Timers : fake.timer[t] # "none"
    /\ ~fake.exitLoop

(* change_state: "first unlock before we call the parent": T is out of its *)
(* sleep when the parent waits for it.                                     *)
StopReleases == fake.stopping => fake.at # "asleep"

(* need_clock_waiting: when the pipeline plays again after the segment that *)
(* T waits behind, the next look at the base time ends that wait: it is one *)
(* the element has not seen.                                               *)
ClockComes ==
  fake.at = "asleep" /\ fake.needClock /\ fake.settled =>
    fake.base # 0 /\ fake.curBase # fake.base

FakeTrue == NobodyLeft /\ StopReleases /\ ClockComes
=============================================================================
