---------------------------- MODULE MCDecProxy ----------------------------
(* Instances of DecProxy for TLC.                                           *)
EXTENDS DecProxy

MCFaults == {"video", "audio"}
NoFaults == {}
===========================================================================
