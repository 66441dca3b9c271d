--------------------------- MODULE Recommendations ---------------------------
(***************************************************************************)
(* The recommendation engine: a pure function from an incident, its        *)
(* entities, its ATT&CK techniques and its actions to at most four ranked  *)
(* suggestions.  The summaries and rationales it writes are left out.      *)
(*                                                                         *)
(* Parameters are tuples: <<value>> for block_observable, <<host>> for     *)
(* quarantine and flag, <<user, host>> for a session, <<evidence kind,     *)
(* host>> for evidence.  A technique stands for its prefix, as the table   *)
(* of boosts matches prefixes.                                             *)
(***************************************************************************)
EXTENDS Naturals, Sequences, FiniteSets, FiniteSetsExt

BaseCandidates ==
  [identity_compromise |-> <<"block_observable", "invalidate_lab_session",
                             "flag_host_in_lab", "request_evidence">>,
   endpoint_compromise |-> <<"quarantine_host_lab", "block_observable",
                             "flag_host_in_lab", "request_evidence">>,
   identity_endpoint_chain |-> <<"block_observable", "quarantine_host_lab",
                                 "invalidate_lab_session", "flag_host_in_lab",
                                 "request_evidence">>,
   unknown |-> <<"request_evidence">>]

BaseScore == [block_observable |-> 50, quarantine_host_lab |-> 40,
              invalidate_lab_session |-> 30, flag_host_in_lab |-> 20,
              request_evidence |-> 10]

\* <<technique prefix, action kind, boost>>
TechniqueBoosts == {<<"T1110", "block_observable", 20>>,
                    <<"T1078", "invalidate_lab_session", 20>>,
                    <<"T1059", "quarantine_host_lab", 10>>,
                    <<"T1021", "quarantine_host_lab", 20>>,
                    <<"T1071", "block_observable", 20>>,
                    <<"T1571", "block_observable", 20>>}

MaxResults == 4

Score(k, techniques) ==
  BaseScore[k] + MapThenSumSet(LAMBDA b : b[3],
                               {b \in TechniqueBoosts : b[2] = k /\ b[1] \in techniques})

\* What each kind could be aimed at, in order; users and hosts beyond the first
\* are not considered.
Viable(k, entities) ==
  LET host == IF entities.hosts = <<>> THEN <<>> ELSE <<entities.hosts[1]>>
      first(prefix) == IF host = <<>> THEN <<>> ELSE <<prefix \o host>>
  IN CASE k = "block_observable" ->
            [n \in DOMAIN (entities.ips \o entities.observables) |->
               <<(entities.ips \o entities.observables)[n]>>]
       [] k = "invalidate_lab_session" ->
            IF entities.users = <<>> THEN <<>> ELSE first(<<entities.users[1]>>)
       [] k = "request_evidence" -> first(<<"triage_log">>)
       [] OTHER -> first(<<>>)

\* _exec_key: a blocked value is known by the value alone, whatever its kind;
\* every other action by all its parameters.
ExecKey(k, params) == <<k, params>>

\* The parameter sets not yet acted on, by their positions.
Untried(k, entities, executed) ==
  {n \in DOMAIN Viable(k, entities) : ExecKey(k, Viable(k, entities)[n]) \notin executed}

\* recommend_for_incident: of each kind the first parameter set that is left;
\* executed holds the keys of the actions in status executed or partial.  The
\* sort by score is stable.
Recommend(incidentKind, entities, techniques, executed) ==
  LET base == BaseCandidates[incidentKind]
      left(n) == Untried(base[n], entities, executed)
      open == {n \in DOMAIN base : left(n) # {}}
      Before(m, n) == \/ Score(base[m], techniques) > Score(base[n], techniques)
                      \/ /\ Score(base[m], techniques) = Score(base[n], techniques)
                         /\ m < n
      Rank(n) == 1 + Cardinality({m \in open : Before(m, n)})
  IN {[kind |-> base[n], params |-> Viable(base[n], entities)[Min(left(n))],
       priority |-> Rank(n)] : n \in {m \in open : Rank(m) <= MaxResults}}
=============================================================================
