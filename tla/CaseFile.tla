------------------------------ MODULE CaseFile ------------------------------
(***************************************************************************)
(* What the incident operations promise, each as one step: a status moves  *)
(* along the table of allowed transitions, a merge hands all evidence to   *)
(* the target and leaves the source behind it, a split moves evidence to a *)
(* fresh incident, a correlator adds to an incident that is not settled.   *)
(* A request acts on what it has read: its precondition held for a status  *)
(* the incident has had.  IncidentLifecycle is shown to implement this.    *)
(***************************************************************************)
CONSTANTS Incidents, Evidence,
          Allowed,  \* the table of transitions: pairs of statuses
          Settled,  \* statuses in which the correlators leave an incident alone
          Final,    \* statuses in which merge and split refuse an incident
          None

VARIABLES status,   \* the status of each incident, None before it exists
          parent,   \* the incident each was merged into
          evidence, \* what is linked to each
          past      \* the statuses each has had

vars == <<status, parent, evidence, past>>

Become(i, s) == /\ status' = [status EXCEPT ![i] = s]
                /\ past' = [past EXCEPT ![i] = @ \cup {s}]

Transition(i, s) == /\ \E from \in past[i] : <<from, s>> \in Allowed
                    /\ Become(i, s)
                    /\ UNCHANGED <<parent, evidence>>

Merge(i, j) == /\ i # j
               /\ status[i] \notin {None, "merged"}
               /\ status[j] \notin Final \cup {None}
               /\ evidence' = [evidence EXCEPT ![j] = @ \cup evidence[i]]
               /\ parent' = [parent EXCEPT ![i] = j]
               /\ Become(i, "merged")

Split(i, child, E) ==
  /\ E # {} /\ E \subseteq evidence[i]
  /\ status[i] \notin Final \cup {None} /\ status[child] = None
  /\ evidence' = [evidence EXCEPT ![i] = @ \ E, ![child] = E]
  /\ Become(child, "new")
  /\ UNCHANGED parent

Extend(i, E) == /\ \E s \in past[i] : s \notin Settled
                /\ evidence' = [evidence EXCEPT ![i] = @ \cup E]
                /\ UNCHANGED <<status, parent, past>>

Next == \E i \in Incidents :
          \/ \E s \in {a[2] : a \in Allowed} : Transition(i, s)
          \/ \E j \in Incidents : Merge(i, j)
          \/ \E j \in Incidents, E \in SUBSET Evidence : Split(i, j, E)
          \/ \E E \in SUBSET Evidence : Extend(i, E)

Init == /\ parent = [i \in Incidents |-> None]
        /\ \A i \in Incidents : /\ past[i] = IF status[i] = None THEN {} ELSE {status[i]}
                                /\ status[i] = None => evidence[i] = {}

Spec == Init /\ [][Next]_vars
=============================================================================
