------------------------------ MODULE Elements ------------------------------
(* The elements beside the demuxers: they share no state, and what one of   *)
(* them pushes does not come to another one.                                *)
EXTENDS DolbyCombiner, StreamIdDemux, DynAppSrc, FakeAdec
-----------------------------------------------------------------------------
(* The combiner pairs the frames of the two layers over seeks and restarts, *)
(* but not when a FLUSH_STOP comes before the first pair: then there is     *)
(* only EOS.  The router sends each stream to a pad of its own, one for as  *)
(* long as it has its table (until the first restart), one per STREAM_START *)
(* after; each buffer goes to one pad made in the same play.  Every source  *)
(* of the application plays, and the stand-in for an audio decoder never    *)
(* sleeps with nobody left to wake it.                                      *)
ElementsRight ==
  /\ MuxTypeOK /\ DolbyTrue
  /\ RouterTypeOK /\ RouterTrue
  /\ SourceTypeOK /\ SourcesTrue
  /\ FakeTypeOK /\ FakeTrue
=============================================================================
