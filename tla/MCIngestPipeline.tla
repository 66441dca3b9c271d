-------------------------- MODULE MCIngestPipeline --------------------------
(* Small instances of IngestPipeline for TLC. *)
EXTENDS IngestPipeline, TLC

CONSTANTS c1, c2, c3, k1, k2, g1, h1, i1, user, host

\* c1 and c2 carry one process.created event, c3 another one of the same
\* host and user without a dedupe key.  With an open identity incident a
\* process event leads to the chain incident g1, without to the host's h1.
RaceKeyOf == c1 :> k1 @@ c2 :> k1 @@ c3 :> NoKey
RaceUpserts == [c \in Calls |-> <<host, user>>]
RaceGroupsOf == [c \in Calls |-> {g1, h1}]
NoJoins == [c \in Calls |-> {}]

\* A process.created event (host upserted before user), a session.started
\* event of the same user and host (user before host), a repeat of the first.
\* The login may open the identity incident i1, which a process event joins.
CircleKeyOf == c1 :> k1 @@ c2 :> k2 @@ c3 :> k1
CircleUpserts == [c \in Calls |-> IF c = c2 THEN <<user, host>> ELSE <<host, user>>]
CircleGroupsOf == [c \in Calls |-> IF c = c2 THEN {i1} ELSE {g1}]
CircleJoinsOf == [c \in Calls |-> IF c = c2 THEN {} ELSE {i1}]

\* Two different endpoint events of one host within one hour.
HostKeyOf == c1 :> k1 @@ c2 :> k2
HostGroupsOf == [c \in Calls |-> {h1}]
=============================================================================
