---------------------------- MODULE MCResponseLoop ----------------------------
(* Small instances of ResponseLoop for TLC. *)
EXTENDS ResponseLoop, TLC

CONSTANTS a1, a2

Act(k, params) == [kind |-> k, params |-> params]
Block(v) == Act("block_observable", <<v>>)
Flag == Act("flag_host_in_lab", <<"host">>)
Quarantine == Act("quarantine_host_lab", <<"host">>)
Kill == Act("kill_process_lab", <<"host", "pid">>)
Invalidate == Act("invalidate_lab_session", <<"user", "host">>)
Evidence == Act("request_evidence", <<"triage_log", "host">>)
Tag == Act("tag_incident", <<"identity-compromise-chain">>)
Elevate == Act("elevate_severity", <<"high">>)

Two(x, y) == a1 :> x @@ a2 :> y
Nothing == Two(None, None)

\* Pairs of actions that meet: in a row, on a host, on a session, in the cache.
ThePairs == {Two(Block("ip1"), Block("ip1")), Two(Block("ip2"), Act("block_observable", <<>>)),
             Two(Flag, Quarantine), Two(Invalidate, Invalidate), Two(Kill, Evidence),
             Two(Tag, Elevate)}

TheWorkloads == ThePairs \cup {Nothing}

Events(f, s, o) == [failed |-> f, succeeded |-> s, other |-> o]

\* With one value blocked twice detectors run on any event; without actions a burst of
\* failures comes, or successes of a new source after a failure.
TheArrivals == [w \in TheWorkloads |->
  CASE w = Nothing -> {Events(4, 0, 0), Events(1, 3, 0)}
    [] w = Two(Block("ip1"), Block("ip1")) -> {Events(0, 0, 1)}
    [] OTHER -> {Events(0, 0, 0)}]

TheLead == [kind |-> "identity_endpoint_chain",
            entities |-> [users |-> <<"user">>, hosts |-> <<"host">>,
                          ips |-> <<"ip1", "ip2">>, observables |-> <<>>],
            techniques |-> {"T1110", "T1078"}]
=============================================================================
