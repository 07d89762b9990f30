------------------------------ MODULE DynAppSrc ------------------------------
(***************************************************************************)
(* dynappsrc: a source bin in which the application puts appsrc elements   *)
(* (new-appsrc) and which gives each of them a ghost pad when it goes to   *)
(* PAUSED.  Three threads meet here: the application's, the one that       *)
(* changes the state, and a downstream thread that seeks.  A state change  *)
(* is the work before the parent's change_state, the parent's, the work    *)
(* after it, and only then the new state.                                  *)
(***************************************************************************)
EXTENDS Integers, Sequences, FiniteSets, SequencesExt

CONSTANTS
  MaxSources,     \* bound: appsrc elements ever made
  MaxTurns,       \* bound: state changes begun
  MaxSourceSeeks, \* bound: seeks
  Polite          \* the application makes its sources before READY->PAUSED

ASSUME SourceAssumption == MaxSourceSeeks \in Nat

VARIABLE source
sourceVars == <<source>>

ToPaused == "READY_TO_PAUSED"
ToReady  == "PAUSED_TO_READY"
ToNull   == "READY_TO_NULL"
NullUp   == "NULL_TO_READY"
Steps == {NullUp, ToPaused, ToReady, ToNull}
From(step) == CASE step = NullUp -> "NULL" [] step \in {ToPaused, ToNull} -> "READY"
                [] step = ToReady -> "PAUSED"
Towards(step) == CASE step = ToPaused -> "PAUSED" [] step = ToNull -> "NULL"
                   [] step \in {NullUp, ToReady} -> "READY"

InitialSource ==
  [state   |-> "NULL",        \* GST_STATE
   step    |-> "none",        \* the change under way
   phase   |-> "none",        \* before, parent, after
   ok      |-> TRUE,          \* what the parent returned
   groups  |-> <<>>,          \* appsrc_list
   n       |-> 0,             \* n_source
   made    |-> 0,
   turns   |-> 0,
   seeks   |-> 0,
   failed  |-> FALSE,         \* the last change to PAUSED failed
   strays  |-> FALSE]         \* the bin has a pad that no group knows

(* GstAppSourceGroup, with what reached its appsrc: `known' is its srcpad   *)
(* not NULL, `inside' its appsrc in the bin and linked to a pad.            *)
NewGroup(id) == [id |-> id, pads |-> 0, blocked |-> FALSE, inside |-> FALSE, known |-> FALSE,
                 seen |-> 0, since |-> 0, eos |-> FALSE]

(* new_appsrc: refused once GST_STATE is PAUSED *)
NewAppsrc ==
  /\ source.made < MaxSources
  /\ Polite => source.step # ToPaused
  /\ source.state # "PAUSED"
  /\ source' = [source EXCEPT !.made = @ + 1, !.n = @ + 1,
                              !.groups = Append(@, NewGroup(source.made + 1))]

-----------------------------------------------------------------------------
(* Begin: a bin with a stray pad is not started again (the new pad has its  *)
(* name, gst_element_add_pad refuses and frees it, and the group goes on    *)
(* with a dangling pointer): an assumption about the application.           *)
Begin(step) ==
  /\ source.step = "none" /\ source.state = From(step)
  /\ step = ToPaused => ~source.strays
  /\ source.turns < MaxTurns
  /\ source' = [source EXCEPT !.step = step, !.phase = "before", !.turns = @ + 1]

Done(s) == [s EXCEPT !.step = "none", !.phase = "none"]

(* setup_source: a ghost pad for each group, its buffers held.  An appsrc   *)
(* that was set up before, for a change that failed, is linked already: no  *)
(* second ghost pad can be made, and srcpad becomes NULL while the bin      *)
(* keeps the first pad, which nothing holds any more.                       *)
GhostPad(g, now) ==
  IF g.inside THEN [g EXCEPT !.known = FALSE]
  ELSE [g EXCEPT !.pads = @ + 1, !.blocked = TRUE, !.inside = TRUE, !.known = TRUE, !.since = now]
WithPads(s) ==
  [s EXCEPT !.groups = [i \in DOMAIN @ |-> GhostPad(@[i], s.seeks)]]

(* change_state, before the parent: no source, no PAUSED *)
Before ==
  /\ source.phase = "before"
  /\ IF source.step # ToPaused THEN source' = [source EXCEPT !.phase = "parent"]
     ELSE IF source.groups = <<>> THEN source' = [Done(source) EXCEPT !.failed = TRUE]
     ELSE source' = [WithPads(source) EXCEPT !.phase = "parent"]

(* the parent's change_state: a child may refuse to go to PAUSED *)
Parent ==
  /\ source.phase = "parent"
  /\ \E ok \in BOOLEAN :
       /\ ~ok => source.step = ToPaused
       /\ source' = [source EXCEPT !.phase = "after", !.ok = ok]

(* remove_blocks *)
Freed(g) == [g EXCEPT !.blocked = FALSE]
Unblocked(s) == [s EXCEPT !.groups = [i \in DOMAIN @ |-> Freed(@[i])]]
(* remove_source: every group goes, with its element and the pad it knows *)
Forgotten(g) == g.pads > 0 /\ ~g.known
Emptied(s) == [s EXCEPT !.groups = <<>>, !.n = 0,
                        !.strays = @ \/ \E i \in DOMAIN s.groups : Forgotten(s.groups[i])]

After ==
  /\ source.phase = "after"
  /\ LET s == CASE source.step = ToPaused -> [Unblocked(source) EXCEPT !.failed = ~source.ok]
                [] source.step \in {ToReady, ToNull} -> Emptied(source)
                [] source.step = NullUp -> source
     IN  source' = Done([s EXCEPT !.state = IF source.ok THEN Towards(source.step) ELSE @,
                                  !.ok = TRUE])

-----------------------------------------------------------------------------
(* handle_src_event: a seek on any pad goes to the target of every pad *)
Repeated(g) == IF g.pads = 0 THEN g ELSE [g EXCEPT !.seen = @ + 1, !.eos = FALSE]
Sought(s) ==
  [s EXCEPT !.seeks = @ + 1, !.groups = [i \in DOMAIN @ |-> Repeated(@[i])]]

SeekSources ==
  /\ source.state = "PAUSED" /\ source.step = "none" /\ source.seeks < MaxSourceSeeks
  /\ \E i \in DOMAIN source.groups : source.groups[i].pads > 0
  /\ source' = Sought(source)

(* end_of_stream: the sources in order, up to the first that refuses (it   *)
(* is flushing); an appsrc outside PAUSED refuses.                         *)
AtEnd(g) == [g EXCEPT !.eos = TRUE]
EndOfStream ==
  /\ source.groups # <<>>
  /\ \E n \in 0 .. Len(source.groups) :
       /\ source.state = "PAUSED" \/ n = 0
       /\ source' = [source EXCEPT !.groups =
                       [i \in DOMAIN @ |-> IF i <= n THEN AtEnd(@[i]) ELSE @[i]]]

SourceInit == source = InitialSource
SourceNext ==
  \/ NewAppsrc \/ Before \/ Parent \/ After \/ SeekSources \/ EndOfStream
  \/ \E step \in Steps : Begin(step)
SourceSpec == SourceInit /\ [][SourceNext]_sourceVars
-----------------------------------------------------------------------------
SourceTypeOK ==
  /\ source.state \in {"NULL", "READY", "PAUSED"}
  /\ source.step \in Steps \union {"none"}
  /\ source.phase \in {"none", "before", "parent", "after"}
  /\ source.n = Len(source.groups)
  /\ source.seeks \in 0 .. MaxSourceSeeks

(* setup_source, remove_blocks, handle_src_event: once PAUSED is reached    *)
(* every source of the application is in the bin with a pad that lets      *)
(* buffers through, and has had every seek since; outside it none plays.   *)
AllPlay ==
  source.state = "PAUSED" /\ source.step = "none" =>
    \A i \in DOMAIN source.groups :
      LET g == source.groups[i]
      IN  g.pads > 0 /\ g.inside /\ ~g.blocked /\ g.seen = source.seeks - g.since

(* change_state, remove_blocks: nothing is left held after a change, also  *)
(* one that failed.                                                        *)
NothingHeld ==
  source.step = "none" => \A i \in DOMAIN source.groups : ~source.groups[i].blocked

SourcesTrue == AllPlay /\ NothingHeld
=============================================================================
