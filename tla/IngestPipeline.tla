--------------------------- MODULE IngestPipeline ---------------------------
(***************************************************************************)
(* The event ingest path of the backend: with_ingest_retry around          *)
(* ingest_normalized_event, run concurrently by the HTTP ingest route and  *)
(* by the Wazuh poller on one PostgreSQL database and one Redis.           *)
(*                                                                         *)
(* One call is a sequence of statements of one transaction (dedup SELECT,  *)
(* event INSERT, detectors, correlator SELECT or Redis SETNX, incident     *)
(* INSERT, COMMIT), then the auto-actions of the touched incident in a     *)
(* second transaction, then the answer.  Between two of them any other     *)
(* call may run, the connection may drop, Redis may fail or the process    *)
(* may die.  PostgreSQL is external: READ COMMITTED, where an INSERT into  *)
(* a unique index waits for a concurrent uncommitted INSERT of the same    *)
(* key and fails if that one commits.                                      *)
(***************************************************************************)
EXTENDS Naturals, Sequences, FiniteSets

CONSTANTS Calls,      \* calls of the pipeline
          Keys,       \* dedupe keys
          NoKey,      \* dedupe_key None
          Entities,   \* users, hosts and addresses
          Groups,     \* incident dedupe keys (rule, user or host, hour)
          NoGroup,    \* no incident
          Standalone, \* the groups of endpoint_compromise_standalone
          KeyOf,      \* the dedupe key of each call's event
          Upserts,    \* the entities of each call's event, in upsert order
          GroupsOf,   \* the incident dedupe keys each call's event may lead to
          JoinsOf,    \* the incidents endpoint_compromise_join may extend with it
          MaxDbFaults,    \* bound on database faults
          MaxRedisFaults, \* bound on Redis faults
          MaxCrashes      \* bound on crashes of the backend process

ASSUME PipelineAssumption ==
  /\ NoKey \notin Keys
  /\ NoGroup \notin Groups
  /\ Standalone \subseteq Groups
  /\ KeyOf \in [Calls -> Keys \cup {NoKey}]
  /\ Upserts \in [Calls -> Seq(Entities)]
  /\ GroupsOf \in [Calls -> SUBSET Groups]
  /\ JoinsOf \in [Calls -> SUBSET Groups]
  /\ \A c \in Calls : JoinsOf[c] \cap GroupsOf[c] = {}
  /\ MaxDbFaults \in Nat /\ MaxRedisFaults \in Nat /\ MaxCrashes \in Nat

VARIABLES
  pc,          \* where each call is
  attempt,     \* 1, or 2 after with_ingest_retry started over
  linked,      \* how many entities each call has upserted
  touch,       \* incident_id of each call: none, opened by it, or joined
  group,       \* the dedupe key of that incident
  reply,       \* what each call answered
  rows,        \* committed events: <<call, attempt>>
  incidents,   \* committed incidents: <<call, attempt, dedupe key>>
  acted,       \* committed auto-action batches: <<call, attempt, dedupe key>>
  flags,       \* Redis keys endpoint_compromise:<host>:<hour>
  dbFaults, redisFaults, crashes

locals == <<linked, touch, group>>
db == <<rows, incidents, acted>>
vars == <<pc, attempt, linked, touch, group, reply, rows, incidents, acted,
          flags, dbFaults, redisFaults, crashes>>

Stages == {"idle", "lookup", "insert", "link", "detect", "open", "extend",
           "commit", "load", "auto", "done"}
Locking == {"link", "detect", "open", "extend", "commit"}
Attempts == {1, 2}

SameKey(c, d) == KeyOf[c] # NoKey /\ KeyOf[c] = KeyOf[d]

\* Mutant of RowExists: the SELECT also finds uncommitted events.
RowExistsDirty(c) == \/ \E r \in rows : SameKey(r[1], c)
                     \/ \E d \in Calls \ {c} :
                           SameKey(c, d) /\ pc[d] \in Locking

\* The unique indexes as a statement sees them.
RowExists(c) == \E r \in rows : SameKey(r[1], c)
IncidentExists(g) == \E i \in incidents : i[3] = g

\* Mutant of HoldsRow: the session of a failed call is never closed.
HoldsRowAfterError(c) == \/ pc[c] \in Locking
                         \/ pc[c] = "done" /\ reply[c] = "error"

\* What the open transaction of a call holds against the others: its event,
\* the entity rows it has upserted, the incident it opens, the one it has extended.
HoldsRow(c) == pc[c] \in Locking
HoldsEntity(c, e) == HoldsRow(c) /\ \E i \in 1..linked[c] : Upserts[c][i] = e
HoldsIncident(c, g) == pc[c] = "commit" /\ touch[c] = "opened" /\ group[c] = g
HoldsExtended(c, g) == pc[c] = "commit" /\ touch[c] = "joined" /\ group[c] = g
                       /\ g \in JoinsOf[c]

NextEntity(c) == Upserts[c][linked[c] + 1]

\* The calls whose transaction c has to wait for before its next statement.
WaitsFor(c) ==
  {d \in Calls \ {c} :
     \/ pc[c] = "insert" /\ SameKey(c, d) /\ HoldsRow(d)
     \/ pc[c] = "link" /\ HoldsEntity(d, NextEntity(c))
     \/ pc[c] = "open" /\ HoldsIncident(d, group[c])
     \/ pc[c] \in {"extend", "auto"} /\ HoldsExtended(d, group[c])}

Blocked == {c \in Calls : WaitsFor(c) # {}}

Goto(c, s) == pc' = [pc EXCEPT ![c] = s]

\* The local state of an attempt is gone when the attempt ends.
Forget(c) == /\ linked' = [linked EXCEPT ![c] = 0]
             /\ touch' = [touch EXCEPT ![c] = "none"]
             /\ group' = [group EXCEPT ![c] = NoGroup]

Proceed(c, s) == Goto(c, s) /\ UNCHANGED <<attempt, reply>>

Finish(c, a) == /\ Goto(c, "done")
                /\ reply' = [reply EXCEPT ![c] = a]
                /\ Forget(c)
                /\ UNCHANGED attempt

NoFault == UNCHANGED <<dbFaults, redisFaults, crashes>>
DbFault == /\ dbFaults < MaxDbFaults
           /\ dbFaults' = dbFaults + 1
           /\ UNCHANGED <<redisFaults, crashes>>

Init == /\ pc = [c \in Calls |-> "idle"]
        /\ attempt = [c \in Calls |-> 1]
        /\ linked = [c \in Calls |-> 0]
        /\ touch = [c \in Calls |-> "none"]
        /\ group = [c \in Calls |-> NoGroup]
        /\ reply = [c \in Calls |-> "open"]
        /\ rows = {} /\ incidents = {} /\ acted = {} /\ flags = {}
        /\ dbFaults = 0 /\ redisFaults = 0 /\ crashes = 0

-----------------------------------------------------------------------------
(* The statements of a call, in program order. *)

Submit(c) == /\ pc[c] = "idle"
             /\ Proceed(c, "lookup")
             /\ NoFault /\ UNCHANGED <<locals, db, flags>>

\* find_duplicate: a plain SELECT, it sees committed rows only.
Lookup(c) == /\ pc[c] = "lookup"
             /\ IF RowExists(c)
                  THEN Finish(c, "dup")
                  ELSE Proceed(c, "insert") /\ UNCHANGED locals
             /\ NoFault /\ UNCHANGED <<db, flags>>

\* Mutant of Insert: no unique index, only the SELECT guards the key.
InsertUnguarded(c) == /\ pc[c] = "insert"
                      /\ Proceed(c, IF Upserts[c] = <<>> THEN "detect" ELSE "link")
                      /\ NoFault /\ UNCHANGED <<locals, db, flags>>

\* db.add(event); flush: waits for the key, IntegrityError when it is taken.
Insert(c) == /\ pc[c] = "insert"
             /\ WaitsFor(c) = {}
             /\ IF RowExists(c)
                  THEN Finish(c, "error")
                  ELSE /\ Proceed(c, IF Upserts[c] = <<>> THEN "detect" ELSE "link")
                       /\ UNCHANGED locals
             /\ NoFault /\ UNCHANGED <<db, flags>>

\* One INSERT ... ON CONFLICT DO UPDATE of extract_and_link_entities: the
\* entity's row stays locked until the transaction ends.
Link(c) == /\ pc[c] = "link"
           /\ WaitsFor(c) = {}
           /\ linked' = [linked EXCEPT ![c] = @ + 1]
           /\ Proceed(c, IF linked[c] + 1 = Len(Upserts[c]) THEN "detect" ELSE "link")
           /\ NoFault /\ UNCHANGED <<touch, group, db, flags>>

\* run_detectors finds nothing, or no correlator wants the detections.
DetectNothing(c) == /\ pc[c] = "detect"
                    /\ Proceed(c, "commit")
                    /\ NoFault /\ UNCHANGED <<locals, db, flags>>

\* A detection fires and the identity or chain correlator SELECTs an
\* incident with its dedupe key: the incident it finds is only touched.
Correlate(c) ==
  /\ pc[c] = "detect"
  /\ \E g \in GroupsOf[c] \ Standalone :
       /\ group' = [group EXCEPT ![c] = g]
       /\ IF IncidentExists(g)
            THEN Proceed(c, "commit") /\ touch' = [touch EXCEPT ![c] = "joined"]
            ELSE Proceed(c, "open") /\ UNCHANGED touch
  /\ NoFault /\ UNCHANGED <<linked, db, flags>>

\* endpoint_compromise_join finds an open identity incident of the user.
Join(c) == /\ pc[c] = "detect"
           /\ \E g \in JoinsOf[c] : /\ IncidentExists(g)
                                   /\ group' = [group EXCEPT ![c] = g]
           /\ Proceed(c, "extend")
           /\ NoFault /\ UNCHANGED <<linked, touch, db, flags>>

\* extend_incident flushes an UPDATE of the incident's row, which stays locked
\* until the transaction ends; then the incident is tagged in it.
Extend(c) == /\ pc[c] = "extend"
             /\ WaitsFor(c) = {}
             /\ touch' = [touch EXCEPT ![c] = "joined"]
             /\ Proceed(c, "commit")
             /\ NoFault /\ UNCHANGED <<linked, group, db, flags>>

\* The standalone correlator asks Redis, before anything is committed.
\* A call that fails (breaker open, outage, timeout) goes on without the
\* answer; one that timed out may have set the key all the same.
ClaimHour(c) ==
  /\ pc[c] = "detect"
  /\ \E g \in GroupsOf[c] \cap Standalone :
       \/ /\ g \in flags
          /\ Proceed(c, "commit")
          /\ NoFault /\ UNCHANGED <<group, flags>>
       \/ /\ g \notin flags
          /\ Proceed(c, "open")
          /\ group' = [group EXCEPT ![c] = g]
          /\ flags' = flags \cup {g}
          /\ NoFault
       \/ /\ redisFaults < MaxRedisFaults
          /\ redisFaults' = redisFaults + 1
          /\ Proceed(c, "open")
          /\ group' = [group EXCEPT ![c] = g]
          /\ flags' \in {flags, flags \cup {g}}
          /\ UNCHANGED <<dbFaults, crashes>>
  /\ UNCHANGED <<linked, touch, db>>

\* Mutants of Open: no unique index on dedupe_key; auto-actions run in their
\* own transaction as soon as the incident is flushed.
OpenUnguarded(c) == /\ pc[c] = "open"
                    /\ Proceed(c, "commit")
                    /\ touch' = [touch EXCEPT ![c] = "opened"]
                    /\ NoFault /\ UNCHANGED <<linked, group, db, flags>>

OpenActsEarly(c) == /\ pc[c] = "open" /\ WaitsFor(c) = {}
                    /\ ~IncidentExists(group[c])
                    /\ Proceed(c, "commit")
                    /\ touch' = [touch EXCEPT ![c] = "opened"]
                    /\ acted' = acted \cup {<<c, attempt[c], group[c]>>}
                    /\ NoFault /\ UNCHANGED <<linked, group, rows, incidents, flags>>

\* db.add(incident); flush: waits for the dedupe key, IntegrityError when
\* it is taken, and nothing catches it on the way out of the pipeline.
Open(c) == /\ pc[c] = "open"
           /\ WaitsFor(c) = {}
           /\ IF IncidentExists(group[c])
                THEN Finish(c, "error")
                ELSE /\ Proceed(c, "commit")
                     /\ touch' = [touch EXCEPT ![c] = "opened"]
                     /\ UNCHANGED <<linked, group>>
           /\ NoFault /\ UNCHANGED <<db, flags>>

Commit(c) == /\ pc[c] = "commit"
             /\ rows' = rows \cup {<<c, attempt[c]>>}
             /\ incidents' = IF touch[c] = "opened"
                              THEN incidents \cup {<<c, attempt[c], group[c]>>}
                              ELSE incidents
             /\ Proceed(c, "load")
             /\ NoFault /\ UNCHANGED <<locals, acted, flags>>

\* After the commit: without an incident the call publishes and answers,
\* with one it reads it back first (db.get in the same session).
Load(c) == /\ pc[c] = "load"
           /\ IF touch[c] = "none"
                THEN Finish(c, "new")
                ELSE Proceed(c, "auto") /\ UNCHANGED locals
           /\ NoFault /\ UNCHANGED <<db, flags>>

\* propose_and_execute_auto_actions, in its own commit; then the publishes
\* and the answer.  A batch is what its actions that did not fail have left.  A
\* database error there is swallowed and rolled back, and the batch is lost
\* with it, unless it hit the answer to the COMMIT only.  Rolled back, the
\* incident object is expired: reading it for the publish may then raise, an
\* error no retry is made for.
AutoActions(c) ==
  /\ pc[c] = "auto" /\ WaitsFor(c) = {}
  /\ LET Batch == acted \cup {<<c, attempt[c], group[c]>>}
     IN \/ /\ acted' = Batch
           /\ Finish(c, "new")
           /\ NoFault
        \/ /\ \E a \in {"new", "error"} : Finish(c, a)
           /\ acted' \in {acted, Batch}
           /\ DbFault
  /\ UNCHANGED <<rows, incidents, flags>>

-----------------------------------------------------------------------------
(* What can go wrong under a call. *)

UsesDb(c) == pc[c] \in {"lookup", "insert", "load"} \cup Locking

\* Mutant of ConnectionLost: every loss is retried.
ConnectionLostRetriesAll(c) ==
  /\ UsesDb(c)
  /\ Goto(c, "lookup")
  /\ attempt' = [attempt EXCEPT ![c] = @ + 1]
  /\ Forget(c)
  /\ DbFault /\ UNCHANGED <<reply, db, flags>>

\* The connection drops under a statement and its transaction is gone, or,
\* at "load", with the answer to a COMMIT that happened.  with_ingest_retry
\* makes one more attempt with a fresh session.
ConnectionLost(c) ==
  /\ UsesDb(c)
  /\ IF attempt[c] = 1
       THEN /\ Goto(c, "lookup")
            /\ attempt' = [attempt EXCEPT ![c] = 2]
            /\ Forget(c)
            /\ UNCHANGED reply
       ELSE Finish(c, "error")
  /\ DbFault /\ UNCHANGED <<db, flags>>

\* Any other database error (pool timeout, statement error): no retry.
StatementFails(c) == /\ UsesDb(c)
                     /\ Finish(c, "error")
                     /\ DbFault /\ UNCHANGED <<db, flags>>

\* Calls that wait for each other in a circle.
Circle(D) == \A c \in D : /\ \E d \in D : d \in WaitsFor(c)
                         /\ \E d \in D : c \in WaitsFor(d)

\* PostgreSQL's deadlock detector aborts one transaction of the circle; the
\* connection stays valid, so the error is not retried.
DeadlockVictim(c) == /\ WaitsFor(c) # {}
                     /\ \E D \in SUBSET Blocked : c \in D /\ Circle(D)
                     /\ Finish(c, "error")
                     /\ NoFault /\ UNCHANGED <<db, flags>>

Running(c) == pc[c] \notin {"idle", "done"}

\* The backend process dies; PostgreSQL and Redis keep what they have.
Crash == /\ crashes < MaxCrashes
         /\ \E c \in Calls : Running(c)
         /\ crashes' = crashes + 1
         /\ pc' = [c \in Calls |-> IF Running(c) THEN "done" ELSE pc[c]]
         /\ reply' = [c \in Calls |-> IF Running(c) THEN "lost" ELSE reply[c]]
         /\ linked' = [c \in Calls |-> 0]
         /\ touch' = [c \in Calls |-> "none"]
         /\ group' = [c \in Calls |-> NoGroup]
         /\ UNCHANGED <<attempt, db, flags, dbFaults, redisFaults>>

Step(c) == \/ Lookup(c) \/ Insert(c) \/ Link(c) \/ DetectNothing(c)
           \/ Correlate(c) \/ Join(c) \/ Extend(c) \/ ClaimHour(c) \/ Open(c) \/ Commit(c)
           \/ Load(c) \/ AutoActions(c)

Fault(c) == ConnectionLost(c) \/ StatementFails(c)

Next == \/ \E c \in Calls : Submit(c) \/ Step(c) \/ Fault(c) \/ DeadlockVictim(c)
        \/ Crash

Spec == Init /\ [][Next]_vars

\* The event loop keeps running the calls it has started, and PostgreSQL
\* resolves deadlocks.
FairSpec == Spec /\ \A c \in Calls : WF_vars(Step(c)) /\ WF_vars(DeadlockVictim(c))

-----------------------------------------------------------------------------
(* Properties *)

\* Every variable keeps its shape; the retry wrapper never starts a third
\* attempt and the fault counters stay within their bounds.
TypeOK == /\ pc \in [Calls -> Stages]
          /\ attempt \in [Calls -> Attempts]
          /\ linked \in [Calls -> Nat]
          /\ touch \in [Calls -> {"none", "opened", "joined"}]
          /\ group \in [Calls -> Groups \cup {NoGroup}]
          /\ reply \in [Calls -> {"open", "new", "dup", "error", "lost"}]
          /\ rows \subseteq Calls \X Attempts
          /\ incidents \subseteq Calls \X Attempts \X (Groups \cup {NoGroup})
          /\ acted \subseteq Calls \X Attempts \X (Groups \cup {NoGroup})
          /\ flags \subseteq Standalone
          /\ dbFaults \in 0..MaxDbFaults
          /\ redisFaults \in 0..MaxRedisFaults
          /\ crashes \in 0..MaxCrashes

\* Concurrent calls, retries and replays with one dedupe key leave one row.
OneRowPerKey == \A r, s \in rows : SameKey(r[1], s[1]) => r = s

\* However the correlators interleave, and whether or not Redis answers,
\* one dedupe key has one incident.
OneIncidentPerGroup ==
  \A i, j \in incidents : i[3] = j[3] => i = j

\* Auto-actions run for a committed event on a committed incident, and at
\* most once for a dedupe key however often the event is sent again.
AutoActionsOncePerEvent ==
  /\ \A a \in acted : <<a[1], a[2]>> \in rows /\ IncidentExists(a[3])
  /\ \A a, b \in acted : SameKey(a[1], b[1]) => a = b

-----------------------------------------------------------------------------
(* The inductive invariant behind them. *)

\* A transaction with an uncommitted event shuts out every other one with
\* that key; one with an uncommitted incident every other one with its key.
KeyGuard == \A c \in Calls : HoldsRow(c) =>
              /\ ~RowExists(c)
              /\ \A d \in Calls \ {c} : SameKey(c, d) => ~HoldsRow(d)
IncidentGuard == \A c \in Calls : HoldsIncident(c, group[c]) =>
                   /\ ~IncidentExists(group[c])
                   /\ \A d \in Calls \ {c} : ~HoldsIncident(d, group[c])

\* A call answers when it ends, after its own commit it has a row, and a
\* row is of an attempt that got as far as its commit.
Progress == \A c \in Calls :
              /\ pc[c] # "done" => reply[c] = "open"
              /\ pc[c] \in {"load", "auto"} => <<c, attempt[c]>> \in rows
RowsArePast == \A r \in rows : \/ r[2] # attempt[r[1]] /\ attempt[r[1]] = 2
                               \/ /\ r[2] = attempt[r[1]]
                                  /\ pc[r[1]] \in {"load", "auto", "done"}

\* The incident a call touched is, after the commit, in the database.
TouchedExists == \A c \in Calls :
  /\ pc[c] \in {"idle", "lookup", "insert", "link", "detect", "open", "extend"}
       => touch[c] = "none"
  /\ pc[c] = "auto" => touch[c] # "none"
  /\ pc[c] = "extend" \/ touch[c] = "joined" => IncidentExists(group[c])
  /\ pc[c] \in {"load", "auto"} /\ touch[c] # "none" => IncidentExists(group[c])

ActedIsDone == \A a \in acted : /\ pc[a[1]] = "done"
                               /\ <<a[1], a[2]>> \in rows
                               /\ IncidentExists(a[3])
ActedOnce == \A a, b \in acted : a[1] = b[1] => a = b

IInv == /\ TypeOK
        /\ KeyGuard /\ IncidentGuard /\ Progress /\ RowsArePast
        /\ TouchedExists /\ ActedIsDone /\ ActedOnce
        /\ OneRowPerKey /\ OneIncidentPerGroup

-----------------------------------------------------------------------------
\* The pipeline implements the promise of EventIntake.
Intake == INSTANCE EventIntake
ImplementsIntake == Intake!Spec

\* Every submitted call is answered or dies with the process: no set of
\* transactions waits on each other's keys for ever.
EveryCallEnds == \A c \in Calls : pc[c] = "lookup" ~> pc[c] = "done"

-----------------------------------------------------------------------------
(* What the repository says of this path, and the code does not keep. *)

\* redis_state.py: the ingest path survives Redis being down, events still
\* land in PostgreSQL.  So a call the database did not fail ends stored.
EventsLandWithoutRedis ==
  \A c \in Calls : reply[c] = "error" /\ dbFaults = 0
                     => RowExists(c) \/ <<c, attempt[c]>> \in rows

\* endpoint_compromise_standalone.py: "if already set, a standalone
\* incident opened this hour".  So once no call is running, a set key
\* means an incident.
HourKeyMeansIncident ==
  (\A c \in Calls : ~Running(c)) =>
    \A g \in flags : IncidentExists(g)
=============================================================================
