-------------------------- MODULE MCAdaptiveDemux --------------------------
(***************************************************************************)
(* Instances of AdaptiveDemux for TLC.  Two periods are enough for every   *)
(* path: the first has a next period, the second is the last; and so are   *)
(* two streams in a period, which wait for each other.  An end of period   *)
(* that counts twice needs a third.                                        *)
(***************************************************************************)
EXTENDS AdaptiveDemux, TLC

(* Numbers of streams of the periods.                                      *)
OneThenOne == <<1, 1>>
TwoThenOne == <<2, 1>>
TwoThenOneEach == <<2, 1, 1>>
OnlyTwo == <<2>>

(* The threads of all streams run the same code, and the pool is a set.    *)
Symmetry == Permutations(Streams)

=============================================================================
