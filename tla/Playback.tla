------------------------------ MODULE Playback ------------------------------
(***************************************************************************)
(* What the download of a stream promises to the one that listens: media   *)
(* from where playback starts to where it ends, without a gap.             *)
(*                                                                         *)
(* A show is [fragments, forward, from, to]: the spans <<start, end>> of   *)
(* media there are, in any representation, and the way to go.  Spans of    *)
(* different representations may overlap; media may be delivered twice.    *)
(***************************************************************************)
EXTENDS Integers

Shows == [fragments : SUBSET (Int \X Int), forward : BOOLEAN, from : Int, to : Int]

VARIABLES
  show,    \* what to play
  heard,   \* the fragment that has been played last
  at,      \* played up to here
  over     \* "no", "complete" or "given up"

Init ==
  /\ show \in Shows
  /\ heard = <<show.from, show.from>> /\ at = show.from
  /\ over = "no"

(* A fragment that holds the place reached is played to its end, ...        *)
Play ==
  /\ over = "no"
  /\ \E f \in show.fragments :
       /\ heard' = f
       /\ IF show.forward THEN f[1] <= at /\ at < f[2] /\ at' = f[2]
          ELSE f[1] < at /\ at <= f[2] /\ at' = f[1]
  /\ UNCHANGED <<show, over>>

(* ... or one that has been played is repeated.                             *)
Repeat ==
  /\ over = "no"
  /\ \E f \in show.fragments :
       /\ heard' = f
       /\ IF show.forward THEN f[2] <= at ELSE at <= f[1]
  /\ UNCHANGED <<show, at, over>>

(* The end is announced when everything has been delivered, ...             *)
Complete ==
  /\ over = "no" /\ at = show.to
  /\ over' = "complete"
  /\ UNCHANGED <<show, heard, at>>

(* ... or the source is given up.                                           *)
GiveUp ==
  /\ over = "no"
  /\ over' = "given up"
  /\ UNCHANGED <<show, heard, at>>

Next == Play \/ Repeat \/ Complete \/ GiveUp

Spec == Init /\ [][Next]_<<show, heard, at, over>>
=============================================================================
