---------------------------- MODULE MCDashStream ----------------------------
(* Small instances of DashStream: two units of mdat, segments of two.       *)
EXTENDS DashStream

Aligned == <<0, 2, 4, 7>>
MCCuts == <<Aligned, Aligned, <<0, 3, 7>>>>
MCSegments == <<[start |-> 0, duration |-> 2, repeat |-> 1],
                [start |-> 4, duration |-> 2, repeat |-> 0]>>

Start(layout, forward, seek, target, reps) ==
  [layout |-> layout, forward |-> forward, seek |-> seek, target |-> target, reps |-> reps]

FromTheStart == {Start(l, TRUE, FALSE, 0, 3) : l \in {"inline", "indexed", "list", "template"}}
Seeks ==
  {Start("inline", TRUE, TRUE, t, 3) : t \in 0 .. 6}
    \cup {Start(l, TRUE, TRUE, t, 2) : l \in {"list", "template"}, t \in 0 .. 6}
    \cup {Start(l, FALSE, TRUE, t, 2) : l \in {"inline", "template"}, t \in 1 .. 7}
    \cup {Start("list", FALSE, TRUE, t, 2) : t \in 1 .. 6}
OneRep == {[s EXCEPT !.reps = 1] : s \in FromTheStart \cup Seeks}
MCStarts == FromTheStart \cup Seeks \cup OneRep
=============================================================================
