---------------------------- MODULE DolbyCombiner ----------------------------
(***************************************************************************)
(* dolbystreamcombiner: two elementary streams, the base layer (BL) and    *)
(* the enhancement layer (EL) of one Dolby Vision video, become one        *)
(* stream.  GstCollectPads calls the element back when every sink pad has  *)
(* a buffer or is at its end; the element takes a BL frame, then an EL     *)
(* frame, rewrites the EL's NAL units and pushes both as one buffer.       *)
(*                                                                         *)
(* The pads are requested while READY->PAUSED may already wait for the     *)
(* second of them; each layer is fed by a thread of its own; a seek        *)
(* flushes both, one after the other.                                      *)
(***************************************************************************)
EXTENDS Integers, Sequences

CONSTANTS
  LayerFeeds,     \* what the demuxer may send: per layer the events, the frames behind them
  PtsPart,        \* a fragment of a pts holds 0 .. PtsPart - 1 (65536 in C)
  MaxRounds       \* bound: seeks and restarts

ASSUME DolbyAssumption == PtsPart \in Nat \ {0, 1} /\ MaxRounds \in Nat

VARIABLE mux
muxVars == <<mux>>

Layers == {"BASE", "ENHANCE"}
MAX_STREAMS == 2

InitialPad == [type |-> "NONE", caps |-> FALSE, holds |-> <<>>, eos |-> FALSE, blocked |-> TRUE]

(* gst_dolby_stream_combiner_init and _reset: nothing requested yet        *)
InitialMux(feeds) ==
  [mode   |-> "READY",           \* READY, WAITING in the state change, PAUSED
   flushing |-> {},              \* layers between FLUSH_START and FLUSH_STOP
   pads   |-> [l \in {} |-> InitialPad],   \* collect->data, by the layer a pad was requested for
   n      |-> 0,                 \* n_streams
   state  |-> "NONE",            \* NONE, WAIT_BL, WAIT_EL
   seg    |-> <<>>,              \* seg_last, while has_pending_segment
   tags   |-> {},                \* pending_tags
   feeds  |-> feeds,
   told   |-> [l \in Layers |-> 0],        \* events and frames each layer
   shown  |-> [l \in Layers |-> 0],        \* has brought in this round
   round  |-> 0,                 \* seeks and restarts so far
   out    |-> <<>>]              \* pushed downstream since the last flush

Pushed(m, what) == [m EXCEPT !.out = Append(@, what)]

-----------------------------------------------------------------------------
(* process_buffer: the units of an EL frame.  One that starts with 0x7C is *)
(* kept, any other gets the indicator 0x7E01 and grows by two bytes; the   *)
(* frame's pts follows in a unit of its own, high fragment first.          *)
Shifted(pts) == pts \div PtsPart
PtsUnits(pts) ==
  <<Shifted(Shifted(Shifted(pts))) % PtsPart, Shifted(Shifted(pts)) % PtsPart,
    Shifted(pts) % PtsPart, pts % PtsPart>>

Enhanced(frame) ==
  [units |-> [i \in DOMAIN frame.units |->
                [marked |-> ~frame.units[i].plain,
                 size   |-> frame.units[i].size
                              + (IF frame.units[i].plain THEN 0 ELSE 2)]],
   pts   |-> PtsUnits(frame.pts)]

(* adapter_push and adapter_pop: the pair carries the BL's time and flags  *)
Pair(bl, el) ==
  [kind |-> "frame", pts |-> bl.frame.pts, delta |-> bl.frame.delta, bl |-> bl,
   el |-> Enhanced(el.frame), elOf |-> el]

-----------------------------------------------------------------------------
(* prepare_pad: the caps on the pad name the layer *)
PreparedPads(m) ==
  [l \in DOMAIN m.pads |->
     [m.pads[l] EXCEPT !.type = IF @ = "NONE" THEN l ELSE @]]

(* prepare and prepare_srcpad: two typed pads, then STREAM_START and the   *)
(* caps of the base layer                                                  *)
MayPrepare(m) ==
  /\ m.n = MAX_STREAMS
  /\ \A l \in DOMAIN m.pads : m.pads[l].caps
  /\ \E l \in DOMAIN m.pads : PreparedPads(m)[l].type = "BASE"

Prepared(m) ==
  IF m.state # "NONE" THEN m
  ELSE Pushed(Pushed([m EXCEPT !.pads = PreparedPads(m), !.state = "WAIT_BL"],
                     [kind |-> "stream-start"]), [kind |-> "caps"])

(* collected, step 0: the segment and the tags that wait for STREAM_START  *)
SegmentTold(m) ==
  IF m.seg = <<>> THEN m ELSE Pushed([m EXCEPT !.seg = <<>>], m.seg[1])
TagsTold(m) ==
  IF m.tags = {} THEN m
  ELSE Pushed([m EXCEPT !.tags = {}], [kind |-> "tag", tags |-> m.tags])
Announced(m) == TagsTold(SegmentTold(m))

(* choose_best_pad: the state says whose turn it is and turns at once *)
Wanted(m) == IF m.state = "WAIT_BL" THEN "BASE" ELSE "ENHANCE"
Best(m) == {l \in DOMAIN m.pads : m.pads[l].type = Wanted(m)}
Turned(m) ==
  IF Best(m) = {} THEN m
  ELSE [m EXCEPT !.state = IF @ = "WAIT_BL" THEN "WAIT_EL" ELSE "WAIT_BL"]

Popped(m, l) == [m EXCEPT !.pads[l].holds = <<>>]
Ended(m) == Pushed(m, [kind |-> "eos"])

(* collected: n_streams turns, each takes one buffer; a pad that has none  *)
(* (it is at its end) ends the stream, and what was taken is lost.         *)
HasBest(m) == \E l \in Best(m) : m.pads[l].holds # <<>>
BestPad(m) == CHOOSE l \in Best(m) : TRUE

Second(m, bl) ==
  IF ~HasBest(m) THEN Ended(Turned(m))
  ELSE Pushed(Popped(Turned(m), BestPad(m)), Pair(bl, m.pads[BestPad(m)].holds[1]))

Combined(m) ==
  IF ~HasBest(m) THEN Ended(Turned(m))
  ELSE Second(Popped(Turned(m), BestPad(m)), m.pads[BestPad(m)].holds[1])

Collected(m) ==
  IF m.state = "NONE" /\ ~MayPrepare(m) THEN m
  ELSE Combined(Announced(Prepared(m)))

(* GstCollectPads calls back when every pad has a buffer or is at its end  *)
AllCollected(m) ==
  /\ m.mode = "PAUSED" /\ DOMAIN m.pads # {}
  /\ \A l \in DOMAIN m.pads : m.pads[l].holds # <<>> \/ m.pads[l].eos

Checked(m) == IF AllCollected(m) THEN Collected(m) ELSE m

-----------------------------------------------------------------------------
(* request_new_pad: a pad of unknown type, whose buffers are held by a     *)
(* probe.  The second one wakes the state change, which runs start_task:   *)
(* collect_pads_start, and the probes go.                                  *)
Started(m) ==
  [m EXCEPT !.mode = "PAUSED",
            !.pads = [l \in DOMAIN @ |-> [@[l] EXCEPT !.blocked = FALSE]]]

RequestPad(layer) ==
  /\ layer \notin DOMAIN mux.pads
  /\ LET m == [mux EXCEPT !.n = @ + 1,
                          !.pads = [l \in DOMAIN @ \union {layer} |->
                                      IF l = layer THEN InitialPad ELSE @[l]]]
     IN  mux' = IF m.mode = "WAITING" /\ m.n = MAX_STREAMS THEN Started(m) ELSE m

(* change_state, READY->PAUSED *)
ReadyToPaused ==
  /\ mux.mode = "READY"
  /\ mux' = IF mux.n # MAX_STREAMS THEN [mux EXCEPT !.mode = "WAITING"]
            ELSE Started(mux)

(* What GstCollectPads and upstream forget in a flush and at a stop; the    *)
(* end of a pad is forgotten at its own FLUSH_STOP, or at the stop.         *)
Rewound(m) ==
  [m EXCEPT !.round = @ + 1, !.out = <<>>,
            !.told  = [l \in Layers |-> 0], !.shown = [l \in Layers |-> 0],
            !.pads  = [l \in DOMAIN @ |-> [@[l] EXCEPT !.holds = <<>>]]]

(* change_state, PAUSED->READY: collect_pads_stop and state NONE; the pads  *)
(* are deactivated after it, so a FLUSH_STOP on its way may still come in   *)
(* and put the state to WAIT_BL.                                            *)
PausedToReady ==
  /\ mux.mode = "PAUSED" /\ mux.round < MaxRounds
  /\ \E state \in {"NONE"} \union {"WAIT_BL" : l \in mux.flushing} :
       mux' = [Rewound(mux) EXCEPT !.mode = "READY", !.state = state, !.flushing = {},
                 !.pads = [l \in DOMAIN @ |-> [@[l] EXCEPT !.eos = FALSE]]]

(* src_event: a flushing seek, at any time the source pad is active, goes   *)
(* up on the sink pads; the demuxer sends FLUSH_START on both.              *)
SeekDown ==
  /\ mux.mode = "PAUSED" /\ mux.round < MaxRounds /\ mux.flushing = {}
  /\ mux' = [Rewound(mux) EXCEPT !.flushing = DOMAIN mux.pads]

(* sink_event, FLUSH_STOP: the state is WAIT_BL whatever it was             *)
LayerFlushStop_KeepsTurn(l) ==
  /\ l \in mux.flushing
  /\ mux' = [mux EXCEPT !.flushing = @ \ {l}, !.pads[l].eos = FALSE]

LayerFlushStop(l) ==
  /\ l \in mux.flushing
  /\ mux' = [mux EXCEPT !.flushing = @ \ {l}, !.pads[l].eos = FALSE, !.state = "WAIT_BL"]

-----------------------------------------------------------------------------
(* sink_event *)
TakeCaps(m, l) ==
  LET p == [m EXCEPT !.pads[l].caps = TRUE]
  IN  IF m.pads[l].type = "BASE" /\ m.state # "NONE"
      THEN Pushed(p, [kind |-> "caps"])
      ELSE p

TakeSegment(m, l) ==
  IF m.pads[l].type = "BASE" \/ m.state = "NONE"
  THEN [m EXCEPT !.seg = <<[kind |-> "segment", layer |-> l, round |-> m.round]>>]
  ELSE m

TakeTag(m, l) == [m EXCEPT !.tags = @ \union {l}]

(* A layer's thread may come in: its pad is there, the element does not    *)
(* stand still, the demuxer has told both layers that the flush is over,   *)
(* and the frame brought before has been taken.                            *)
MayBring(l) ==
  /\ l \in DOMAIN mux.pads /\ mux.flushing = {}
  /\ mux.mode = "READY" => mux.pads[l].blocked
  /\ mux.pads[l].holds = <<>>

BringEvent(l) ==
  /\ MayBring(l) /\ mux.told[l] < Len(mux.feeds[l].events)
  /\ LET m    == [mux EXCEPT !.told[l] = @ + 1]
         item == mux.feeds[l].events[m.told[l]]
     IN  \/ item.kind = "caps" /\ mux' = TakeCaps(m, l)
         \/ item.kind = "segment" /\ mux' = TakeSegment(m, l)
         \/ item.kind = "tag" /\ mux' = TakeTag(m, l)

BringFrame(l) ==
  /\ MayBring(l) /\ ~mux.pads[l].blocked
  /\ mux.told[l] = Len(mux.feeds[l].events) /\ mux.shown[l] < Len(mux.feeds[l].frames)
  /\ LET nth   == mux.shown[l] + 1
         frame == [layer |-> l, round |-> mux.round, nth |-> nth,
                   frame |-> mux.feeds[l].frames[nth]]
     IN  mux' = Checked([mux EXCEPT !.shown[l] = nth, !.pads[l].holds = <<frame>>])

BringEos(l) ==
  /\ MayBring(l) /\ ~mux.pads[l].blocked /\ ~mux.pads[l].eos
  /\ mux.told[l] = Len(mux.feeds[l].events) /\ mux.shown[l] = Len(mux.feeds[l].frames)
  /\ mux' = Checked([mux EXCEPT !.pads[l].eos = TRUE])

MuxInit == \E feeds \in LayerFeeds : mux = InitialMux(feeds)

MuxNext ==
  \/ ReadyToPaused
  \/ PausedToReady
  \/ SeekDown
  \/ \E layer \in Layers :
       \/ RequestPad(layer) \/ LayerFlushStop(layer)
       \/ BringEvent(layer) \/ BringFrame(layer) \/ BringEos(layer)

MuxSpec == MuxInit /\ [][MuxNext]_muxVars
-----------------------------------------------------------------------------
(* What a demuxer sends: events, which announce a layer and, for the base   *)
(* layer, its segment, then frames.                                         *)
SoundFeed(feed) ==
  /\ feed.events \in Seq([kind : {"caps", "segment", "tag"}])
  /\ \E k \in DOMAIN feed.events : feed.events[k].kind = "caps"
  /\ Len(feed.frames) \in Nat \ {0} /\ DOMAIN feed.frames = 1 .. Len(feed.frames)
  /\ \A k \in DOMAIN feed.frames :
       feed.frames[k].pts \in 0 .. PtsPart * PtsPart * PtsPart * PtsPart - 1
SoundFeeds(feeds) ==
  /\ \A l \in Layers : SoundFeed(feeds[l])
  /\ \E k \in DOMAIN feeds["BASE"].events : feeds["BASE"].events[k].kind = "segment"

OutOf(kind) == {i \in DOMAIN mux.out : mux.out[i].kind = kind}
Frames(layer) == mux.feeds[layer].frames
Common == IF Len(Frames("BASE")) < Len(Frames("ENHANCE"))
          THEN Len(Frames("BASE")) ELSE Len(Frames("ENHANCE"))
Whole(parts) == ((parts[1] * PtsPart + parts[2]) * PtsPart + parts[3]) * PtsPart + parts[4]

(* collected, 678: a FLUSH_STOP that comes before the first pair, or into   *)
(* the stop, leaves a state that says prepare is done, and untyped pads.    *)
Unprepared(m) == m.state # "NONE" /\ \E l \in DOMAIN m.pads : m.pads[l].type = "NONE"

MuxTypeOK ==
  /\ mux.mode \in {"READY", "WAITING", "PAUSED"}
  /\ mux.state \in {"NONE", "WAIT_BL", "WAIT_EL"}
  /\ DOMAIN mux.pads \subseteq Layers /\ mux.n \in 0 .. MAX_STREAMS
  /\ mux.flushing \subseteq DOMAIN mux.pads
  /\ mux.n = MAX_STREAMS <=> DOMAIN mux.pads = Layers

(* process_buffer, choose_best_pad: the buffers pushed since the last flush *)
(* are the first frames of the base layer, each once and in order, each     *)
(* with the enhancement of the same number, both brought after that flush;  *)
(* the decoder reads the time of that back from the four fragments.         *)
PairsMatch ==
  \A i \in OutOf("frame") :
    LET pair == mux.out[i]
        nth  == pair.bl.nth
    IN  /\ pair.bl.layer = "BASE" /\ pair.bl.round = mux.round
        /\ pair.elOf.layer = "ENHANCE" /\ pair.elOf.round = mux.round /\ pair.elOf.nth = nth
        /\ {mux.out[j].bl.nth : j \in {j \in OutOf("frame") : j < i}} = 1 .. nth - 1
        /\ pair.pts = Frames("BASE")[nth].pts
        /\ Whole(pair.el.pts) = Frames("ENHANCE")[nth].pts

(* collected: the first buffer of a round comes after a segment of that     *)
(* round, and behind EOS comes nothing but EOS; EOS comes after every pair, *)
(* unless prepare was skipped: then no pair ever comes, it is the first EOS *)
(* that tells downstream (choose_best_pad finds no pad), until a restart.   *)
WellFramed ==
  /\ \A i \in OutOf("frame") :
       \E j \in OutOf("segment") : j < i /\ mux.out[j].round = mux.round
  /\ \A i \in OutOf("eos") :
       /\ ~Unprepared(mux) => {mux.out[j].bl.nth : j \in OutOf("frame")} = 1 .. Common
       /\ \A j \in i .. Len(mux.out) : mux.out[j].kind = "eos"
  /\ Unprepared(mux) => OutOf("frame") = {}

(* check_collected: when no layer can bring more, the end has been told:    *)
(* no order of the two threads leaves them waiting on each other.           *)
NobodyWaits ==
  (mux.mode = "PAUSED" /\ mux.flushing = {}
     /\ \A l \in DOMAIN mux.pads : mux.pads[l].eos \/ mux.pads[l].holds # <<>>)
    => OutOf("eos") # {}

DolbyTrue == PairsMatch /\ WellFramed /\ NobodyWaits
=============================================================================
