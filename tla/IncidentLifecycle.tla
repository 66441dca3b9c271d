-------------------------- MODULE IncidentLifecycle --------------------------
(***************************************************************************)
(* The requests that change an incident: status transitions, merge and     *)
(* split by analysts, and the evidence a correlator adds to an open        *)
(* incident inside an ingest transaction.  They run concurrently on one    *)
(* PostgreSQL database (external, READ COMMITTED): a plain SELECT or       *)
(* db.get sees committed rows and locks nothing, SELECT ... FOR UPDATE     *)
(* waits for every lock on the row, a junction INSERT takes a key share    *)
(* lock on its incident, which an UPDATE of the incident does not wait for *)
(* and another UPDATE's lock does not hinder, and advisory locks live as   *)
(* long as their transaction.                                              *)
(*                                                                         *)
(* Evidence stands for the events and entities linked to an incident;      *)
(* detections and ATT&CK rows are copied along and never leave one.        *)
(***************************************************************************)
EXTENDS Naturals, FiniteSets

CONSTANTS Requests,
          Incidents,  \* incident ids: those that exist and fresh ones
          Evidence,   \* events and entities
          Kinds,      \* the kinds of request made
          Selections, \* the selections of evidence splits are asked for
          Additions,  \* what correlators add: a new event and its entities
          Opening,    \* the status of each incident at first; None: not opened
          Attached,   \* <<incident, evidence>> pairs at first
          None

Allowed == {<<"new", "triaged">>, <<"new", "closed">>,
            <<"triaged", "investigating">>, <<"triaged", "closed">>,
            <<"investigating", "contained">>, <<"investigating", "resolved">>,
            <<"investigating", "closed">>,
            <<"contained", "resolved">>, <<"contained", "investigating">>,
            <<"contained", "closed">>,
            <<"resolved", "closed">>, <<"resolved", "investigating">>,
            <<"reopened", "investigating">>}

\* The statuses the correlators skip, and those merge and split refuse.
Settled == {"resolved", "closed"}
Final == {"closed", "merged"}

Statuses == {"new", "triaged", "investigating", "contained", "resolved",
             "closed", "reopened", "merged"}

\* At first nothing has been merged, and evidence is linked to incidents only.
ASSUME LifecycleAssumption ==
  /\ Kinds \subseteq {"transition", "merge", "split", "extend"}
  /\ Selections \cup Additions \subseteq (SUBSET Evidence) \ {{}}
  /\ None \notin Incidents \cup Statuses
  /\ Opening \in [Incidents -> (Statuses \ {"merged"}) \cup {None}]
  /\ Attached \subseteq {i \in Incidents : Opening[i] # None} \X Evidence

VARIABLES
  pc,       \* where each request is
  kind,     \* what it does
  on,       \* the incident it acts on: the source of a merge or split
  to,       \* transition: the status it read and the new one; merge: the target
  chosen,   \* split, extend: the evidence
  locked,   \* the incident rows it has locked
  status, parent, \* the committed rows of table incidents
  links,    \* those of incident_events and incident_entities: pairs
  past,     \* history: the statuses each incident has had
  overtaken,\* history: incidents whose status changed between a transition's
            \* read of it and its write
  late      \* history: evidence first linked to an incident already merged

request == <<kind, on, to, chosen>>
rows == <<status, parent, links, past>>
vars == <<pc, request, locked, rows, overtaken, late>>

Init == /\ pc = [r \in Requests |-> "idle"]
        /\ kind = [r \in Requests |-> None]
        /\ on = [r \in Requests |-> None]
        /\ to = [r \in Requests |-> None]
        /\ chosen = [r \in Requests |-> {}]
        /\ locked = [r \in Requests |-> {}]
        /\ status = Opening
        /\ parent = [i \in Incidents |-> None]
        /\ links = Attached
        /\ past = [i \in Incidents |-> IF Opening[i] = None THEN {} ELSE {Opening[i]}]
        /\ overtaken = {} /\ late = {}

Existing == {i \in Incidents : status[i] # None}
Fresh == Incidents \ Existing

Linked(i) == {e \in Evidence : <<i, e>> \in links}
Known == {e \in Evidence : \E i \in Incidents : <<i, e>> \in links}

-----------------------------------------------------------------------------
(* Locks. *)

\* Mutant of AdvisoryKey: the key depends on the direction of the merge.
DirectedKey(r) == IF kind[r] = "merge" THEN <<on[r], to[r]>> ELSE <<on[r]>>

HoldsKey(r) == pc[r] = "rows"

\* The transaction-scoped advisory lock: of the unordered pair, or of the
\* source of a split.
AdvisoryKey(r) == IF kind[r] = "merge" THEN {on[r], to[r]} ELSE {on[r]}

\* The rows a merge or split locks FOR UPDATE, in the order the plan finds them.
ToLock(r) == CASE kind[r] = "merge" -> {on[r], to[r]}
               [] kind[r] = "split" -> {on[r]}
               [] OTHER -> {}

\* A key share lock and the lock of an UPDATE do not exclude each other: those of
\* a correlator whose inserts are done, or are to be done.
Compatible(r, d) == /\ kind[d] = "extend"
                    /\ \/ pc[r] = "attach"
                       \/ pc[r] \in {"touch", "write"} /\ pc[d] = "touch"

\* The requests r has to wait for before it can take the lock on row i.
Holders(r, i) == {d \in Requests \ {r} : i \in locked[d] /\ ~Compatible(r, d)}

WaitsFor(r) ==
  CASE pc[r] = "key"  -> {d \in Requests \ {r} : HoldsKey(d) /\ AdvisoryKey(d) = AdvisoryKey(r)}
    [] pc[r] = "rows" -> IF \E i \in ToLock(r) \ locked[r] : Holders(r, i) = {} THEN {}
                         ELSE UNION {Holders(r, i) : i \in ToLock(r) \ locked[r]}
    [] pc[r] \in {"attach", "touch", "write"} -> Holders(r, on[r])
    [] OTHER -> {}

-----------------------------------------------------------------------------
(* Steps of a request. *)

Goto(r, s) == pc' = [pc EXCEPT ![r] = s]

Answer(r) == /\ Goto(r, "done")
             /\ kind' = [kind EXCEPT ![r] = None]
             /\ on' = [on EXCEPT ![r] = None]
             /\ to' = [to EXCEPT ![r] = None]
             /\ chosen' = [chosen EXCEPT ![r] = {}]

\* Mutant of Finish: the session goes back to the pool with its transaction open.
FinishKeepingLocks(r) == Answer(r) /\ UNCHANGED locked

\* Commit or rollback, which releases the locks, and the answer.
Finish(r) == Answer(r) /\ locked' = [locked EXCEPT ![r] = {}]

NoEffect == UNCHANGED <<rows, overtaken, late>>

Ask(r, k, i, t, E) == /\ kind' = [kind EXCEPT ![r] = k]
                      /\ on' = [on EXCEPT ![r] = i]
                      /\ to' = [to EXCEPT ![r] = t]
                      /\ chosen' = [chosen EXCEPT ![r] = E]
                      /\ UNCHANGED locked /\ NoEffect

\* transition_incident: db.get without a lock, then the table of transitions;
\* a refused one (409, or 422 for a missing reason) changes nothing.
SubmitTransition(r) ==
  /\ pc[r] = "idle" /\ "transition" \in Kinds
  /\ \E i \in Existing, s \in Statuses :
       /\ <<status[i], s>> \in Allowed
       /\ Ask(r, "transition", i, <<status[i], s>>, {})
  /\ Goto(r, "write")

\* merge_into_incident, split_incident_route: nothing is read before the locks,
\* beyond that the ids differ and the selection is not empty (422).
SubmitMerge(r) ==
  /\ pc[r] = "idle" /\ "merge" \in Kinds
  /\ \E i, j \in Existing : i # j /\ Ask(r, "merge", i, j, {})
  /\ Goto(r, "key")

\* Fresh ids bound the splits.
SubmitSplit(r) ==
  /\ pc[r] = "idle" /\ "split" \in Kinds
  /\ Cardinality({d \in Requests : kind[d] = "split"}) < Cardinality(Fresh)
  /\ \E i \in Existing, E \in Selections : Ask(r, "split", i, None, E)
  /\ Goto(r, "key")

\* The join rule finds an incident of the user that is neither resolved nor
\* closed, and adds to it the event, which is new, as the pipeline deduplicates
\* events, and the entities of the event, which other incidents may have too.
SubmitExtend(r) ==
  /\ pc[r] = "idle" /\ "extend" \in Kinds
  /\ \E i \in Existing, E \in Additions :
       /\ status[i] \notin Settled
       /\ \E e \in E : /\ e \notin Known
                       /\ \A d \in Requests : kind[d] = "extend" => e \notin chosen[d]
       /\ Ask(r, "extend", i, None, E)
  /\ Goto(r, "attach")

\* pg_advisory_xact_lock.
TakeKey(r) == /\ pc[r] = "key" /\ WaitsFor(r) = {}
              /\ Goto(r, "rows")
              /\ UNCHANGED <<request, locked>> /\ NoEffect

\* SELECT ... FOR UPDATE locks the rows one by one.
LockRow(r) == /\ pc[r] = "rows"
              /\ \E i \in ToLock(r) \ locked[r] :
                   /\ Holders(r, i) = {}
                   /\ locked' = [locked EXCEPT ![r] = @ \cup {i}]
              /\ UNCHANGED <<pc, request>> /\ NoEffect

Become(i, s) == /\ status' = [status EXCEPT ![i] = s]
                /\ past' = [past EXCEPT ![i] = @ \cup {s}]

\* The junction INSERTs of extend_incident: uncommitted, under a share lock.
Attach(r) == /\ pc[r] = "attach" /\ WaitsFor(r) = {}
             /\ locked' = [locked EXCEPT ![r] = {on[r]}]
             /\ Goto(r, "touch")
             /\ UNCHANGED request /\ NoEffect

\* Its UPDATE of updated_at: the lock of an UPDATE instead.
Touch(r) == /\ pc[r] = "touch" /\ WaitsFor(r) = {}
            /\ Goto(r, "join")
            /\ UNCHANGED <<request, locked>> /\ NoEffect

\* The ingest transaction commits; pairs that were there are left alone (ON
\* CONFLICT DO NOTHING).
CommitExtend(r) ==
  /\ pc[r] = "join"
  /\ links' = links \cup {on[r]} \X chosen[r]
  /\ late' = IF status[on[r]] = "merged" THEN late \cup (chosen[r] \ Known) ELSE late
  /\ UNCHANGED <<status, parent, past, overtaken>>
  /\ Finish(r)

\* The UPDATE and COMMIT of a transition: it writes over whatever the status
\* has become.
WriteTransition(r) ==
  /\ pc[r] = "write" /\ WaitsFor(r) = {}
  /\ Become(on[r], to[r][2])
  /\ overtaken' = IF status[on[r]] = to[r][1] THEN overtaken ELSE overtaken \cup {on[r]}
  /\ UNCHANGED <<parent, links, late>>
  /\ Finish(r)

RowsLocked(r) == pc[r] = "rows" /\ locked[r] = ToLock(r)

\* Mutants of CanMerge and CanSplit: a merged incident passes as a target, or as
\* a source, and the selection is not looked up on the source.
CanMergeAnything(r) == status[on[r]] # "merged" /\ status[to[r]] # "closed"
CanMergeAgain(r) == status[to[r]] \notin Final
CanSplitUnchecked(r) == status[on[r]] \notin Final

CanMerge(r) == status[on[r]] # "merged" /\ status[to[r]] \notin Final

CanSplit(r) == status[on[r]] \notin Final /\ chosen[r] \subseteq Linked(on[r])

\* Mutant of CommitMerge: the evidence is not copied when the target is closed
\* to new evidence.
CommitMergeSkipping(r) ==
  /\ kind[r] = "merge" /\ RowsLocked(r)
  /\ IF CanMerge(r)
       THEN /\ Become(on[r], "merged")
            /\ parent' = [parent EXCEPT ![on[r]] = to[r]]
            /\ links' = IF status[to[r]] \in Settled THEN links
                        ELSE links \cup {to[r]} \X Linked(on[r])
            /\ UNCHANGED <<overtaken, late>>
       ELSE NoEffect
  /\ Finish(r)

\* merge_incidents: validate under the locks, copy every junction row the target
\* does not have, set status and parent of the source; then the commit.
CommitMerge(r) ==
  /\ kind[r] = "merge" /\ RowsLocked(r)
  /\ IF CanMerge(r)
       THEN /\ Become(on[r], "merged")
            /\ parent' = [parent EXCEPT ![on[r]] = to[r]]
            /\ links' = links \cup {to[r]} \X Linked(on[r])
            /\ UNCHANGED <<overtaken, late>>
       ELSE NoEffect
  /\ Finish(r)

\* split_incident: validate, create a child, move the selection; then the commit.
CommitSplit(r) ==
  /\ kind[r] = "split" /\ RowsLocked(r)
  /\ IF CanSplit(r)
       THEN \E child \in Fresh :
              /\ Become(child, "new")
              /\ links' = (links \ {on[r]} \X chosen[r]) \cup {child} \X chosen[r]
              /\ UNCHANGED <<parent, overtaken, late>>
       ELSE NoEffect
  /\ Finish(r)

AtWork(r) == pc[r] \notin {"idle", "done"}

\* A statement fails: the transaction is rolled back and the request answered
\* with an error.
Fail(r) == AtWork(r) /\ Finish(r) /\ NoEffect

\* Requests that wait for each other in a circle, each for another of them.
Circle(D) == D # {} /\ \A r \in D : WaitsFor(r) \cap D # {}

\* PostgreSQL aborts one transaction of the circle.
DeadlockVictim(r) == /\ \E D \in SUBSET Requests : r \in D /\ Circle(D)
                     /\ Finish(r) /\ NoEffect

Submit(r) == SubmitTransition(r) \/ SubmitMerge(r) \/ SubmitSplit(r) \/ SubmitExtend(r)

Step(r) == \/ TakeKey(r) \/ LockRow(r) \/ Attach(r) \/ Touch(r) \/ CommitExtend(r)
           \/ WriteTransition(r) \/ CommitMerge(r) \/ CommitSplit(r)

Next == \E r \in Requests : Submit(r) \/ Step(r) \/ DeadlockVictim(r) \/ Fail(r)

Spec == Init /\ [][Next]_vars

-----------------------------------------------------------------------------
(* Properties *)

\* Every variable keeps its shape; requests hold only locks on what they act on.
TypeOK == /\ pc \in [Requests -> {"idle", "write", "key", "rows", "attach", "touch", "join", "done"}]
          /\ kind \in [Requests -> Kinds \cup {None}]
          /\ on \in [Requests -> Incidents \cup {None}]
          /\ to \in [Requests -> Incidents \cup {None} \cup Allowed]
          /\ chosen \in [Requests -> SUBSET Evidence]
          /\ locked \in [Requests -> SUBSET Incidents]
          /\ \A r \in Requests : locked[r] \subseteq {on[r], to[r]}
          /\ status \in [Incidents -> Statuses \cup {None}]
          /\ parent \in [Incidents -> Incidents \cup {None}]
          /\ links \subseteq Incidents \X Evidence
          /\ past \in [Incidents -> SUBSET Statuses]
          /\ overtaken \subseteq Incidents /\ late \subseteq Evidence

\* However merges, splits and correlators interleave, linked evidence stays
\* linked to an incident that has not been merged away, so that the default
\* list still leads to it; but for what a correlator adds to a merged incident
\* and no other incident had.
EvidenceStaysLive ==
  \A e \in Evidence \ late :
    (\E i \in Incidents : <<i, e>> \in links)
      => \E j \in Incidents : <<j, e>> \in links /\ status[j] # "merged"

\* A merged incident names the one it went into, only merged ones do, and
\* following the names never comes round in a circle, unless a transition wrote
\* over a status it had not read: it may revive a merged incident, which can
\* then take in its own target.
MergeForest ==
  /\ \A i \in Incidents : status[i] = "merged" => parent[i] # None
  /\ \A i \in Incidents \ overtaken : parent[i] # None => status[i] = "merged"
  /\ \A S \in (SUBSET Incidents) \ {{}} :
       (\A i \in S : parent[i] \in S) => (S \cap overtaken # {})

\* A merge is one-way: nothing but such a transition changes the status or the
\* parent of a merged incident again.
MergeIsFinal ==
  [][\A i \in Incidents : parent[i] # None /\ i \notin overtaken'
                            => parent'[i] = parent[i] /\ status'[i] = status[i]]_vars

\* Two requests never wait for each other: opposite merges of one pair, and a
\* merge and a split, are put in line by the advisory and the row locks.
PairsNeverDeadlock ==
  \A r, d \in Requests : d \in WaitsFor(r) => r \notin WaitsFor(d)

\* Each request does one of the steps of CaseFile, or none.
Case == INSTANCE CaseFile WITH evidence <- [i \in Incidents |-> Linked(i)]
ImplementsCaseFile == Case!Spec

\* As long as a request is at work, some request can go on: nobody waits for a
\* lock that is not given back.  Three merges around a triangle may lock rows in
\* a circle, and then one of them is aborted.  Every step takes a request on, so
\* all of them are answered if the steps that can be taken are.
SomeoneProceeds ==
  (\E r \in Requests : AtWork(r))
    => \/ \E r \in Requests : AtWork(r) /\ WaitsFor(r) = {}
       \/ \E D \in SUBSET Requests : Circle(D)

=============================================================================
