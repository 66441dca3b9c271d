------------------------ MODULE MCIncidentLifecycle ------------------------
(* Small instances of IncidentLifecycle for TLC. *)
EXTENDS IncidentLifecycle, TLC

CONSTANTS r1, r2, r3, a, b, c, d, e1, e2, e3, e4

\* Three open incidents, two with an entity as evidence, and a fresh id; e2 and e3
\* are events yet to come, the first of them with an entity that is known.
TriangleOpening == a :> "new" @@ b :> "investigating" @@ c :> "contained" @@ d :> None
TriangleAttached == {<<a, e1>>, <<b, e4>>}
TheAdditions == {{e1, e2}, {e3}}

\* Splits select evidence of one incident, or of one and a newcomer.
TheSelections == {{e1}, {e1, e3}}

\* The requests are interchangeable.
AnyOrder == Permutations(Requests)
=============================================================================
