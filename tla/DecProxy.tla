------------------------------ MODULE DecProxy ------------------------------
(***************************************************************************)
(* The threads of GstDecProxy (gst/decproxy/gstdecproxy2.c), a bin that    *)
(* puts a puppet between its bridges `front' and `back' when CAPS arrive   *)
(* and replaces it by a real decoder when the application has acquired the *)
(* hardware, or the other way round:                                       *)
(*   T  the upstream streaming thread: events and buffers of the sink pad; *)
(*   F  the thread that sends FLUSH_START and FLUSH_STOP;                  *)
(*   A  the application's thread, which sends acquired-resource events.    *)
(* They meet in the DECPROXY lock, in flush_lock with its condition, and   *)
(* in the probes of the bridges.                                           *)
(*                                                                         *)
(* An action is the code between two points at which its thread may be     *)
(* held up.  Pads are modelled from how the code uses them: a blocking     *)
(* probe holds an item before the pad counts as in use; a hook for the     *)
(* idle pad runs in the thread that adds it, unless the pad is in use, and *)
(* then in T when its push has returned; items wait while a hook runs.     *)
(*                                                                         *)
(* The events stored for the back bridge and the internal pad, messages,   *)
(* caps, the secure element and a puppet that cannot be made are left out. *)
(***************************************************************************)
EXTENDS Integers, FiniteSets

CONSTANTS
  Faults,      \* of what there may be no decoder: "video", "audio"
  MaxRequests, \* bound: acquired-resource events
  MaxFlushes,  \* bound: FLUSH_START, FLUSH_STOP pairs
  MaxItems     \* bound: events and buffers of upstream

ASSUME ConstantsAssumption ==
  /\ Faults \subseteq {"video", "audio"}
  /\ MaxRequests \in Nat /\ MaxFlushes \in Nat /\ MaxItems \in Nat

VARIABLES
  lock,           \* owner of the DECPROXY lock: "T", "F", "A" or "free"
  current, nextState, pendingState,   \* the three ..._decoder_state
  pendingSwitch,  \* pending_switch_decoder
  active,         \* the state that resource_info asks for
  puppet, decoder,   \* is the element there?
  blocked,        \* blocked_id: analyze_new_caps blocks front's src pad
  eventProbe,     \* pending_event_probe_id: back drops all events
  frontProbes,    \* switches that block front's sink pad
  hook,           \* idle_reconfigure: "none", "deferred", "stays", its thread
  hookAt,         \* where that thread is in it
  seenBuffer, bufferProbe,   \* seen_buffer; the first buffer is still to come
  eatenStart, eatenStop,     \* eaten_flush_start, eaten_flush_stop
  sending, waiting, changing,   \* sending_event, waiting_flush, changing_decoder
  sinkFlushing, frontFlushing,  \* flushing flags of our sink pad and of front
  at, item, sent,    \* T: where it is, what it sends, its next sticky event
  switch, request,   \* switch_decoder in T or A: where it is, its argument
  flushAt,           \* F: where it is
  requests, flushes, items   \* bounded counters

decoderVars == <<current, nextState, pendingState, puppet, decoder>>
requestVars == <<pendingSwitch, active, request, requests>>
probeVars == <<blocked, eventProbe, frontProbes>>
hookVars == <<hook, hookAt>>
seenVars == <<seenBuffer, bufferProbe, eatenStart, eatenStop>>
waitVars == <<sending, waiting, changing>>
padVars == <<sinkFlushing, frontFlushing>>
itemVars == <<item, sent, items>>
vars == <<lock, decoderVars, requestVars, probeVars, hookVars, seenVars,
          waitVars, padVars, itemVars, at, switch, flushAt, flushes>>

States == {"UNKNOWN", "PUPPET", "DECODER"}
Sticky == {"streamStart", "caps", "segment"}
Items == Sticky \cup {"gap", "buffer"}

Init ==
  /\ lock = "free"
  /\ current = "UNKNOWN" /\ nextState = "UNKNOWN" /\ pendingState = "UNKNOWN"
  /\ pendingSwitch = FALSE /\ active = "UNKNOWN"
  /\ puppet = FALSE /\ decoder = FALSE
  /\ blocked = TRUE /\ eventProbe = FALSE /\ frontProbes = {}
  /\ hook = "none" /\ hookAt = "none"
  /\ seenBuffer = FALSE /\ bufferProbe = TRUE
  /\ eatenStart = FALSE /\ eatenStop = FALSE
  /\ sending = FALSE /\ waiting = FALSE /\ changing = FALSE
  /\ sinkFlushing = FALSE /\ frontFlushing = FALSE
  /\ at = "idle" /\ item = "streamStart" /\ sent = "streamStart"
  /\ switch = [t \in {"T", "A"} |-> "off"]
  /\ request = [t \in {"T", "A"} |-> "PUPPET"]
  /\ flushAt = "idle"
  /\ requests = 0 /\ flushes = 0 /\ items = 0

-----------------------------------------------------------------------------
(* What the threads share.                                                  *)

(* F holds flush_lock while it waits for the DECPROXY lock; everybody else  *)
(* takes and releases flush_lock within one action.                         *)
FlushLockFree == flushAt # "relock"

(* g_cond_signal (flush_cond).                                              *)
Signal == flushAt' = IF flushAt = "wait" THEN "woken" ELSE flushAt

(* seen_buffer is set; reset_flushing_properties.                           *)
SeeBuffer ==
  /\ seenBuffer' = TRUE
  /\ eatenStart' = FALSE /\ eatenStop' = FALSE
  /\ waiting' = FALSE /\ sending' = FALSE

(* T may use front's src pad.                                               *)
PadOpen == hook \in {"none", "deferred", "stays"}

-----------------------------------------------------------------------------
(* T: gst_decproxy_sink_event, decproxy_buffer_probe, front's src pad.      *)

(* STREAM_START, CAPS and SEGMENT come first and in this order, and a       *)
(* SEGMENT again after a flush.                                             *)
NextItems == IF sent \in Sticky THEN {sent} ELSE {"caps", "gap", "buffer"}

After(i) ==
  CASE i = "streamStart" -> "caps"
    [] i = "caps" -> IF sent = "data" THEN "data" ELSE "segment"
    [] i \in {"segment", "gap", "buffer"} -> "data"

(* Upstream pushes an item; a flushing pad refuses it, and FLUSH_STOP holds *)
(* the stream lock of the pad.                                              *)
Arrive ==
  /\ at = "idle" /\ items < MaxItems
  /\ ~sinkFlushing /\ flushAt \notin {"stop", "forwardStop"}
  /\ \E i \in NextItems :
       /\ item' = i /\ sent' = After(i)
       /\ at' = IF i # "buffer" THEN "event"
                ELSE IF bufferProbe THEN "probe" ELSE "sink"
  /\ items' = items + 1
  /\ UNCHANGED <<lock, decoderVars, requestVars, probeVars, hookVars, seenVars,
                 waitVars, padVars, switch, flushAt, flushes>>

(* decproxy_buffer_probe, which removes itself.                             *)
BufferProbe ==
  /\ at = "probe" /\ lock = "free"
  /\ SeeBuffer /\ bufferProbe' = FALSE
  /\ at' = "sink"
  /\ UNCHANGED <<lock, decoderVars, requestVars, probeVars, hookVars, changing,
                 padVars, itemVars, switch, flushAt, flushes>>

(* The beginning of sink_event: before the first buffer it takes flush_lock *)
(* with the DECPROXY lock held.                                             *)
EventBegin ==
  /\ at = "event" /\ lock = "free"
  /\ lock' = IF seenBuffer THEN "free" ELSE "T"
  /\ at' = IF ~seenBuffer THEN "flag" ELSE IF item = "gap" THEN "gap" ELSE "sink"
  /\ UNCHANGED <<decoderVars, requestVars, probeVars, hookVars, seenVars,
                 waitVars, padVars, itemVars, switch, flushAt, flushes>>

EventFlag ==
  /\ at = "flag" /\ FlushLockFree
  /\ sending' = (sending \/ item \in Sticky)
  /\ lock' = "free"
  /\ at' = IF item = "gap" THEN "gap" ELSE "sink"
  /\ UNCHANGED <<decoderVars, requestVars, probeVars, hookVars, seenVars,
                 waiting, changing, padVars, itemVars, switch, flushAt, flushes>>

(* The case GAP of sink_event.                                              *)
EventGap ==
  /\ at = "gap" /\ lock = "free"
  /\ IF seenBuffer THEN UNCHANGED <<seenBuffer, eatenStart, eatenStop, waiting, sending>>
                   ELSE SeeBuffer
  /\ at' = "sink"
  /\ UNCHANGED <<lock, bufferProbe, decoderVars, requestVars, probeVars, hookVars,
                 changing, padVars, itemVars, switch, flushAt, flushes>>

(* The item passes front's sink pad, where probe_front may hold it.         *)
EnterFront ==
  /\ at = "sink"
  /\ \/ frontFlushing /\ at' = "return"
     \/ ~frontFlushing /\ frontProbes = {} /\ at' = "src"
  /\ UNCHANGED <<lock, decoderVars, requestVars, probeVars, hookVars, seenVars,
                 waitVars, padVars, itemVars, switch, flushAt, flushes>>

(* It reaches front's src pad, and nothing blocks that.                     *)
PassOpen ==
  /\ at = "src"
  /\ \/ frontFlushing /\ at' = "return"
     \/ ~frontFlushing /\ ~blocked /\ PadOpen /\ at' = "push"
  /\ UNCHANGED <<lock, decoderVars, requestVars, probeVars, hookVars, seenVars,
                 waitVars, padVars, itemVars, switch, flushAt, flushes>>

(* analyze_new_caps on an item: what becomes of it ("" means that the       *)
(* puppet is to be made).                                                   *)
Verdict ==
  IF current # "UNKNOWN" /\ eatenStop THEN "held"
  ELSE IF item = "streamStart" THEN IF puppet THEN "return" ELSE "push"
  ELSE IF item = "buffer" THEN "held"
  ELSE IF puppet THEN "return"
  ELSE IF current # "UNKNOWN" THEN "held" ELSE ""

Analyze ==
  /\ at = "src" /\ ~frontFlushing /\ blocked /\ PadOpen /\ lock = "free"
  /\ Verdict # ""
  /\ at' = Verdict
  /\ UNCHANGED <<lock, decoderVars, requestVars, probeVars, hookVars, seenVars,
                 waitVars, padVars, itemVars, switch, flushAt, flushes>>

(* The first CAPS make the puppet; the lock is released while STREAM_START  *)
(* is pushed downstream.                                                    *)
MakePuppet ==
  /\ at = "src" /\ ~frontFlushing /\ blocked /\ PadOpen /\ lock = "free"
  /\ Verdict = ""
  /\ current' = "PUPPET" /\ nextState' = "PUPPET" /\ puppet' = TRUE
  /\ at' = "announce"
  /\ UNCHANGED <<lock, pendingState, decoder, requestVars, probeVars, hookVars,
                 seenVars, waitVars, padVars, itemVars, switch, flushAt, flushes>>

(* A request that came before the puppet is taken up now.                   *)
Pends_Always == TRUE
Pends == pendingSwitch

Announced ==
  /\ at = "announce" /\ lock = "free"
  /\ pendingSwitch' = FALSE
  /\ switch' = [switch EXCEPT !["T"] = IF Pends THEN "begin" ELSE "off"]
  /\ request' = [request EXCEPT !["T"] = IF Pends THEN active ELSE @]
  /\ at' = "held"
  /\ UNCHANGED <<lock, decoderVars, active, requests, probeVars, hookVars,
                 seenVars, waitVars, padVars, itemVars, flushAt, flushes>>

(* A blocked item goes on when no probe blocks the pad.                     *)
Released ==
  /\ at = "held" /\ switch["T"] = "off"
  /\ \/ frontFlushing /\ at' = "return"
     \/ ~frontFlushing /\ ~blocked /\ hook = "none" /\ at' = "push"
  /\ UNCHANGED <<lock, decoderVars, requestVars, probeVars, hookVars, seenVars,
                 waitVars, padVars, itemVars, switch, flushAt, flushes>>

(* The push has returned: a deferred hook runs now.                         *)
Pushed ==
  /\ at = "push"
  /\ IF hook \in {"deferred", "stays"}
       THEN at' = "hook" /\ hook' = "T" /\ hookAt' = "begin"
       ELSE at' = "return" /\ UNCHANGED hookVars
  /\ UNCHANGED <<lock, decoderVars, requestVars, probeVars, seenVars, waitVars,
                 padVars, itemVars, switch, flushAt, flushes>>

(* A buffer is done; an event is when sink_event has reported that it was   *)
(* sent, for which it needs flush_lock when F may wait for it.              *)
Return ==
  /\ at = "return"
  /\ \/ item = "buffer" /\ at' = "idle" /\ UNCHANGED lock
     \/ /\ item # "buffer" /\ lock = "free"
        /\ IF ~seenBuffer \/ waiting THEN at' = "done" /\ lock' = "T"
                                     ELSE at' = "idle" /\ UNCHANGED lock
  /\ UNCHANGED <<decoderVars, requestVars, probeVars, hookVars, seenVars,
                 waitVars, padVars, itemVars, switch, flushAt, flushes>>

WakeFlush == IF waiting THEN Signal ELSE UNCHANGED flushAt

EventDone ==
  /\ at = "done" /\ FlushLockFree
  /\ sending' = (sending /\ seenBuffer)
  /\ WakeFlush
  /\ lock' = "free" /\ at' = "idle"
  /\ UNCHANGED <<decoderVars, requestVars, probeVars, hookVars, seenVars,
                 waiting, changing, padVars, itemVars, switch, flushes>>

-----------------------------------------------------------------------------
(* A and T: acquired-resource events and gst_decproxy_switch_decoder.       *)

(* The application asks for a decoder, or takes it back: resource_info is   *)
(* written without the lock.                                                *)
Request ==
  /\ switch["A"] = "off" /\ requests < MaxRequests
  /\ requests' = requests + 1
  /\ active' \in {"PUPPET", "DECODER"}
  /\ switch' = [switch EXCEPT !["A"] = "event"]
  /\ request' = [request EXCEPT !["A"] = active']
  /\ UNCHANGED <<lock, decoderVars, pendingSwitch, probeVars, hookVars, seenVars,
                 waitVars, padVars, itemVars, at, flushAt, flushes>>

(* It is kept for analyze_new_caps while there is no puppet.                *)
RequestBegin ==
  /\ switch["A"] = "event" /\ lock = "free"
  /\ pendingSwitch' = (pendingSwitch \/ current = "UNKNOWN")
  /\ switch' = [switch EXCEPT !["A"] = IF current = "UNKNOWN" THEN "off" ELSE "begin"]
  /\ UNCHANGED <<lock, decoderVars, active, request, requests, probeVars, hookVars,
                 seenVars, waitVars, padVars, itemVars, at, flushAt, flushes>>

(* A change that was decided on is not made yet.                            *)
Changing_Never == FALSE
Changing == current # nextState

(* The first part of switch_decoder, under the lock: front's src pad is     *)
(* unblocked whatever comes of the request.                                 *)
SwitchBegin(t) ==
  /\ switch[t] = "begin" /\ lock = "free"
  /\ frontProbes' = frontProbes \cup {t}
  /\ eventProbe' = TRUE /\ blocked' = FALSE
  /\ IF Changing
       THEN /\ pendingState' = request[t]
            /\ switch' = [switch EXCEPT ![t] = "end"] /\ UNCHANGED nextState
       ELSE /\ nextState' = request[t]
            /\ switch' = [switch EXCEPT
                 ![t] = IF request[t] = nextState THEN "end" ELSE "add"]
            /\ UNCHANGED pendingState
  /\ UNCHANGED <<lock, current, puppet, decoder, requestVars, hookVars, seenVars,
                 waitVars, padVars, itemVars, at, flushAt, flushes>>

(* The IDLE probe is added: it runs at once unless T's push is going on.    *)
SwitchAddHook(t) ==
  /\ switch[t] = "add"
  /\ IF at = "push"
       THEN /\ hook' = "deferred" /\ UNCHANGED hookAt
            /\ switch' = [switch EXCEPT ![t] = "end"]
       ELSE /\ hook' = t /\ hookAt' = "begin"
            /\ switch' = [switch EXCEPT ![t] = "hook"]
  /\ UNCHANGED <<lock, decoderVars, requestVars, probeVars, seenVars, waitVars,
                 padVars, itemVars, at, flushAt, flushes>>

(* skip_switch: without the lock.                                           *)
SwitchEnd(t) ==
  /\ switch[t] = "end"
  /\ frontProbes' = frontProbes \ {t}
  /\ eventProbe' = FALSE
  /\ switch' = [switch EXCEPT ![t] = "off"]
  /\ UNCHANGED <<lock, decoderVars, requestVars, blocked, hookVars, seenVars,
                 waitVars, padVars, itemVars, at, flushAt, flushes>>

-----------------------------------------------------------------------------
(* A and T: idle_reconfigure and reconfigure_decoder.                       *)

(* The element that is to be replaced.                                      *)
OldThere == IF nextState = "PUPPET" THEN decoder ELSE puppet

(* The hook returns h: its thread goes on with what it did.                 *)
HookReturns(h) ==
  /\ hook' = h /\ hookAt' = "none"
  /\ switch' = [t \in {"T", "A"} |->
                  IF hook = t /\ switch[t] = "hook" THEN "end" ELSE switch[t]]
  /\ at' = IF hook = "T" /\ at = "hook" THEN "return" ELSE at

(* idle_reconfigure: nothing to do, nothing to replace, or it goes on with  *)
(* the lock held.                                                           *)
HookBegin ==
  /\ hookAt = "begin" /\ lock = "free"
  /\ IF current = nextState
       THEN HookReturns("none") /\ UNCHANGED lock
       ELSE IF ~OldThere
         THEN HookReturns("stays") /\ UNCHANGED lock
         ELSE /\ lock' = hook /\ hookAt' = "flag"
              /\ UNCHANGED <<hook, switch, at>>
  /\ UNCHANGED <<decoderVars, requestVars, probeVars, seenVars, waitVars, padVars,
                 itemVars, flushAt, flushes>>

(* reconfigure_decoder: the elements change places.                         *)
Replace_Kept == puppet' = (puppet \/ nextState = "PUPPET")
                /\ decoder' = (nextState = "DECODER")
Replace == puppet' = (nextState = "PUPPET") /\ decoder' = (nextState = "DECODER")

Arrived_Forgotten == UNCHANGED current
Arrived == current' = nextState

Reconfigure ==
  /\ hookAt = "flag" /\ FlushLockFree
  /\ changing' = TRUE
  /\ eventProbe' = FALSE
  /\ Replace /\ Arrived
  /\ blocked' = FALSE
  /\ hookAt' = "done"
  /\ UNCHANGED <<lock, nextState, pendingState, requestVars, frontProbes, hook,
                 seenVars, sending, waiting, padVars, itemVars, at, switch,
                 flushAt, flushes>>

(* There is no decoder: the old element is gone, and the lock is released   *)
(* while that is posted.                                                    *)
ReconfigureFails ==
  /\ hookAt = "flag" /\ FlushLockFree
  /\ Faults # {} /\ nextState = "DECODER"
  /\ changing' = TRUE
  /\ eventProbe' = FALSE
  /\ puppet' = FALSE
  /\ lock' = "free" /\ hookAt' = "failed"
  /\ UNCHANGED <<current, nextState, pendingState, decoder, requestVars, blocked,
                 frontProbes, hook, seenVars, sending, waiting, padVars, itemVars,
                 at, switch, flushAt, flushes>>

(* A video stream is left without an element.                               *)
ErrorPosted ==
  /\ hookAt = "failed" /\ lock = "free" /\ "video" \in Faults
  /\ lock' = hook /\ hookAt' = "done"
  /\ UNCHANGED <<decoderVars, requestVars, probeVars, hook, seenVars, waitVars,
                 padVars, itemVars, at, switch, flushAt, flushes>>

(* An audio stream gets a fakeadec in the place of the decoder.             *)
WarningPosted ==
  /\ hookAt = "failed" /\ lock = "free" /\ "audio" \in Faults
  /\ lock' = hook /\ hookAt' = "done"
  /\ Replace /\ Arrived
  /\ blocked' = FALSE
  /\ UNCHANGED <<nextState, pendingState, requestVars, eventProbe, frontProbes,
                 hook, seenVars, waitVars, padVars, itemVars, at, switch, flushAt,
                 flushes>>

HookSignal_IfWaiting == WakeFlush
HookSignal == Signal

HookDone ==
  /\ hookAt = "done" /\ FlushLockFree
  /\ changing' = FALSE
  /\ HookSignal
  /\ lock' = "free"
  /\ HookReturns("none")
  /\ UNCHANGED <<decoderVars, requestVars, probeVars, seenVars, sending, waiting,
                 padVars, itemVars, flushes>>

-----------------------------------------------------------------------------
(* F: the cases FLUSH_START and FLUSH_STOP of sink_event.                   *)

(* The pad refuses items before its event function is called.               *)
FlushStart ==
  /\ flushAt = "idle" /\ flushes < MaxFlushes
  /\ flushes' = flushes + 1
  /\ sinkFlushing' = TRUE /\ flushAt' = "start"
  /\ UNCHANGED <<lock, decoderVars, requestVars, probeVars, hookVars, seenVars,
                 waitVars, frontFlushing, itemVars, at, switch>>

(* The loop of FLUSH_START: waits while an event is sent or a decoder       *)
(* changed, with the way open for that event; then the flush is eaten.      *)
OpenFront_Not == UNCHANGED blocked
OpenFront == blocked' = FALSE

EatStart ==
  IF sending \/ changing
    THEN /\ eventProbe' = TRUE /\ OpenFront
         /\ waiting' = TRUE /\ flushAt' = "wait"
         /\ UNCHANGED <<eatenStart, eatenStop>>
    ELSE /\ eatenStart' = TRUE /\ eatenStop' = FALSE
         /\ flushAt' = "started"
         /\ UNCHANGED <<eventProbe, blocked>>

EatsStart_Once == ~seenBuffer /\ ~eatenStop
EatsStart == ~seenBuffer

StartEaten ==
  /\ flushAt = "start" /\ lock = "free" /\ EatsStart
  /\ EatStart
  /\ IF sending \/ changing THEN TRUE ELSE UNCHANGED waiting
  /\ UNCHANGED <<lock, decoderVars, requestVars, frontProbes, hookVars, seenBuffer,
                 bufferProbe, sending, changing, padVars, itemVars, at, switch,
                 flushes>>

(* The wait returns with flush_lock, and then the DECPROXY lock is taken.   *)
Woken ==
  /\ flushAt = "woken" /\ flushAt' = "relock"
  /\ UNCHANGED <<lock, decoderVars, requestVars, probeVars, hookVars, seenVars,
                 waitVars, padVars, itemVars, at, switch, flushes>>

Relocked ==
  /\ flushAt = "relock" /\ lock = "free"
  /\ EatStart
  /\ IF sending \/ changing THEN TRUE ELSE waiting' = FALSE
  /\ UNCHANGED <<lock, decoderVars, requestVars, frontProbes, hookVars, seenBuffer,
                 bufferProbe, sending, changing, padVars, itemVars, at, switch,
                 flushes>>

StartForwarded ==
  /\ flushAt = "start" /\ lock = "free" /\ ~EatsStart
  /\ flushAt' = "forwardStart"
  /\ UNCHANGED <<lock, decoderVars, requestVars, probeVars, hookVars, seenVars,
                 waitVars, padVars, itemVars, at, switch, flushes>>

(* gst_pad_event_default: front refuses items, and lets go those it holds.  *)
FrontFlushes ==
  /\ flushAt = "forwardStart" /\ flushAt' = "started"
  /\ frontFlushing' = TRUE
  /\ UNCHANGED <<lock, decoderVars, requestVars, probeVars, hookVars, seenVars,
                 waitVars, sinkFlushing, itemVars, at, switch, flushes>>

(* FLUSH_STOP takes the stream lock of the pad; T sends a SEGMENT after it. *)
FlushStop ==
  /\ flushAt = "started" /\ at = "idle"
  /\ sinkFlushing' = FALSE /\ flushAt' = "stop"
  /\ sent' = IF sent = "data" THEN "segment" ELSE sent
  /\ UNCHANGED <<lock, decoderVars, requestVars, probeVars, hookVars, seenVars,
                 waitVars, frontFlushing, item, items, at, switch, flushes>>

Eats == ~seenBuffer \/ eatenStart

(* The front is blocked again when there is no decoder.                     *)
Reblock_Always == TRUE
Reblock == ~decoder

LetEventsPass_Not == UNCHANGED eventProbe
LetEventsPass == eventProbe' = FALSE

StopEaten ==
  /\ flushAt = "stop" /\ lock = "free" /\ Eats
  /\ eatenStart' = FALSE /\ eatenStop' = TRUE
  /\ blocked' = (blocked \/ Reblock)
  /\ LetEventsPass
  /\ flushAt' = "idle"
  /\ UNCHANGED <<lock, decoderVars, requestVars, frontProbes, hookVars, seenBuffer,
                 bufferProbe, waitVars, padVars, itemVars, at, switch, flushes>>

StopForwarded ==
  /\ flushAt = "stop" /\ lock = "free" /\ ~Eats
  /\ flushAt' = "forwardStop"
  /\ UNCHANGED <<lock, decoderVars, requestVars, probeVars, hookVars, seenVars,
                 waitVars, padVars, itemVars, at, switch, flushes>>

FrontResumes ==
  /\ flushAt = "forwardStop" /\ flushAt' = "idle"
  /\ frontFlushing' = FALSE
  /\ UNCHANGED <<lock, decoderVars, requestVars, probeVars, hookVars, seenVars,
                 waitVars, sinkFlushing, itemVars, at, switch, flushes>>

-----------------------------------------------------------------------------
(* The steps a thread takes once it has begun.                              *)
Upstream == BufferProbe \/ EventBegin \/ EventFlag \/ EventGap \/ EnterFront
            \/ PassOpen \/ Analyze \/ MakePuppet \/ Announced \/ Released
            \/ Pushed \/ Return \/ EventDone
Switching(t) == SwitchBegin(t) \/ SwitchAddHook(t) \/ SwitchEnd(t)
Hook == HookBegin \/ Reconfigure \/ ReconfigureFails \/ ErrorPosted
        \/ WarningPosted \/ HookDone
Flusher == StartEaten \/ Woken \/ Relocked \/ StartForwarded \/ FrontFlushes
           \/ FlushStop \/ StopEaten \/ StopForwarded \/ FrontResumes

Next == \/ Arrive \/ Upstream
        \/ Request \/ RequestBegin \/ (\E t \in {"T", "A"} : Switching(t)) \/ Hook
        \/ FlushStart \/ Flusher

(* Threads are scheduled; upstream, the application and who flushes need    *)
(* never begin anything.                                                    *)
Fairness == /\ WF_vars(Upstream) /\ WF_vars(RequestBegin) /\ WF_vars(Hook)
            /\ WF_vars(Switching("T")) /\ WF_vars(Switching("A"))
            /\ WF_vars(Flusher)

Spec == Init /\ [][Next]_vars
FairSpec == Spec /\ Fairness

-----------------------------------------------------------------------------
(* Properties.                                                              *)

Positions == {"idle", "probe", "event", "flag", "gap", "sink", "src", "announce",
              "held", "push", "hook", "return", "done"}
HookPositions == {"none", "begin", "flag", "failed", "done"}
SwitchPositions == {"off", "event", "begin", "add", "hook", "end"}
FlushPositions == {"idle", "start", "wait", "woken", "relock", "forwardStart",
                   "started", "stop", "forwardStop"}

(* Every variable keeps to its type.                                        *)
TypeOK ==
  /\ lock \in {"free", "T", "A"}
  /\ current \in States /\ nextState \in States /\ pendingState \in States
  /\ active \in States
  /\ puppet \in BOOLEAN /\ decoder \in BOOLEAN /\ pendingSwitch \in BOOLEAN
  /\ blocked \in BOOLEAN /\ eventProbe \in BOOLEAN
  /\ frontProbes \subseteq {"T", "A"}
  /\ hook \in {"none", "deferred", "stays", "T", "A"} /\ hookAt \in HookPositions
  /\ seenBuffer \in BOOLEAN /\ bufferProbe \in BOOLEAN
  /\ eatenStart \in BOOLEAN /\ eatenStop \in BOOLEAN
  /\ sending \in BOOLEAN /\ waiting \in BOOLEAN /\ changing \in BOOLEAN
  /\ sinkFlushing \in BOOLEAN /\ frontFlushing \in BOOLEAN
  /\ at \in Positions /\ item \in Items /\ sent \in Sticky \cup {"data"}
  /\ switch \in [{"T", "A"} -> SwitchPositions]
  /\ request \in [{"T", "A"} -> {"PUPPET", "DECODER"}]
  /\ flushAt \in FlushPositions
  /\ requests \in Nat /\ flushes \in Nat /\ items \in Nat

(* No switch or reconfiguration is under way or waits to begin.             *)
SwitchesDone == switch = [t \in {"T", "A"} |-> "off"] /\ hook = "none"

(* The puppet and the decoder are never there both, and the one that        *)
(* current_decoder_state names is there except from the moment a            *)
(* reconfiguration has failed.                                              *)
Failed == current # nextState /\ ~puppet /\ ~decoder
OneDecoder ==
  /\ ~(puppet /\ decoder)
  /\ ~Failed => puppet = (current = "PUPPET") /\ decoder = (current = "DECODER")

(* The hook for the idle pad always finds something to replace: were it     *)
(* to return PASS (idle_reconfigure, no old element) it would stay and      *)
(* block the pad for ever.                                                  *)
HookFindsWork ==
  /\ hook # "stays"
  /\ hook # "none" /\ hookAt \in {"none", "begin", "flag"}
       => current # nextState /\ OldThere

(* A state that was decided on is reached, or its reconfiguration fails:    *)
(* between the two somebody is on the way to it.                            *)
NextIsReached == SwitchesDone /\ ~Failed => current = nextState

(* While the decoder is in place analyze_new_caps does not hold items back: *)
(* a FLUSH_STOP, which blocks the front for the puppet, does not do it to a *)
(* decoder, whatever it meets on the way.                                   *)
DecoderFed == current = "DECODER" => decoder /\ ~blocked

(* When FLUSH_START waits somebody is there to wake it: T in the event it   *)
(* waits for, or a hook that changes the decoder.                           *)
SomebodySignals ==
  flushAt = "wait" =>
    \/ sending /\ waiting /\ item \in Sticky /\ at \notin {"idle", "probe", "event", "flag"}
    \/ changing /\ hookAt \in {"failed", "done"}

(* A flush that went downstream is ended downstream: who forwards           *)
(* FLUSH_START forwards the FLUSH_STOP.                                     *)
FlushPaired == flushAt \in {"idle", "start"} => ~frontFlushing

(* While no flush is going on and no decoder is being switched the back     *)
(* bridge lets events through.                                              *)
EventsPass == flushAt = "idle" /\ SwitchesDone => ~eventProbe

(* A wait of FLUSH_START ends: the front is opened for the event it waits   *)
(* for.                                                                     *)
FlushWaitEnds == flushAt = "wait" ~> flushAt # "wait"

(* F, with flush_lock, and the owner of the DECPROXY lock, which needs      *)
(* flush_lock, never wait for each other.                                   *)
NoLockCycle ==
  flushAt = "relock" =>
    /\ ~(lock = "T" /\ at \in {"flag", "done"})
    /\ ~(lock # "free" /\ hookAt \in {"flag", "done"})
=============================================================================
