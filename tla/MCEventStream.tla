--------------------------- MODULE MCEventStream ---------------------------
(* Small instances of EventStream for TLC. *)
EXTENDS EventStream, TLC

CONSTANTS p1, transition, merge

\* A status transition and a merge of the incident a page shows.
TheKinds == transition :> "incident.transitioned" @@ merge :> "incident.merged"
=============================================================================
