--------------------------- MODULE ResponseExecutor ---------------------------
(***************************************************************************)
(* Response actions of one incident: proposed, executed and reverted by    *)
(* concurrent requests.  A request reads the action without a lock, runs   *)
(* the handler of its kind and commits; what the handler does outside the  *)
(* database, the deletion of a cache key and the active-response command,  *)
(* happens before the commit and is not rolled back with it.               *)
(*                                                                         *)
(* One lab host, one user with one session on it, one incident.  The notes *)
(* of the host are the set of markers in the text, None when the host is   *)
(* not registered; a host registered anew is another row.  The entities of *)
(* the user and the host are known, as the session is.  The list of        *)
(* blocked observables is cached in Redis; who fills the cache is the      *)
(* business of module RedisDetectors.                                      *)
(***************************************************************************)
EXTENDS Recommendations

CONSTANTS Actions,
          Requests,    \* 1..N: the requests, taken on in this order
          Workloads,   \* what may be proposed: kind and params of each action
          ArEnabled,   \* settings.wazuh_ar_enabled
          Lead,        \* the incident: [kind, entities, techniques]
          MaxOutages,  \* bound on failing Redis calls
          None

Classification ==
  [tag_incident |-> "auto_safe", elevate_severity |-> "auto_safe",
   flag_host_in_lab |-> "reversible", invalidate_lab_session |-> "reversible",
   block_observable |-> "reversible", quarantine_host_lab |-> "disruptive",
   kill_process_lab |-> "disruptive", request_evidence |-> "suggest_only"]

Statuses == {"proposed", "executed", "failed", "partial", "reverted"}

ASSUME ExecutorAssumption ==
  /\ IsFiniteSet(Requests) /\ Requests = 1..Cardinality(Requests)
  /\ \A w \in Workloads, a \in Actions :
       w[a] = None \/ w[a].kind \in DOMAIN Classification
  /\ Lead.kind \in DOMAIN BaseCandidates
  /\ Lead.entities \in [users : Seq(STRING), hosts : Seq(STRING),
                        ips : Seq(STRING), observables : Seq(STRING)]
  /\ ArEnabled \in BOOLEAN /\ MaxOutages \in Nat
  /\ None \notin Actions \cup Statuses


\* The kinds whose host must be registered, and those that send a command.
HostScoped == {"flag_host_in_lab", "quarantine_host_lab", "kill_process_lab"}
Commanding == {"quarantine_host_lab", "kill_process_lab"}

VARIABLES
  work,      \* the kind and params of each action
  status,    \* of each action, None before it is proposed
  logs,      \* action_logs: sets of [at, result, undo]
  notes,     \* lab_assets: the host
  enrolled,  \* lab_assets: whether the user is registered
  tags, severity, noted, \* incidents, notes
  blocked,   \* blocked_observables: [id, by, value, active]
  sessions,  \* lab_sessions: [id, by]; by is None or who invalidated it
  evidence,  \* evidence_requests: [id, by, status, collected, dismissed]
  cache,     \* the Redis list of blocked values: None or [values, expires]
  outages,
  req,       \* the requests
  delivered, \* external: how often the agent got the command of an action
  abandoned, \* history: actions whose command was sent by a request rolled back
  overlapped \* history: actions committed from a status that was no longer theirs

database == <<status, logs, notes, enrolled, tags, severity, noted, blocked, sessions, evidence>>
execVars == <<work, database, req, delivered, abandoned, overlapped>>

Idle == [pc |-> "idle", op |-> None, target |-> None, read |-> None, seen |-> None,
         result |-> None, undo |-> None, at |-> 0]

ExecInit == /\ work \in Workloads
            /\ status = [a \in Actions |-> None]
            /\ logs = [a \in Actions |-> {}]
            /\ notes = {} /\ enrolled = TRUE /\ tags = {} /\ severity = "medium" /\ noted = {}
            /\ blocked = {} /\ evidence = {}
            /\ sessions = {[id |-> 0, by |-> None]}
            /\ cache = None /\ outages = 0
            /\ req = [r \in Requests |-> Idle]
            /\ delivered = [a \in Actions |-> 0]
            /\ abandoned = {} /\ overlapped = {}

Kind(a) == work[a].kind
ActiveValues == {b.value : b \in {x \in blocked : x.active}}

\* Requests are interchangeable until they are taken on.
NextUp(r) == req[r].pc = "idle" /\ \A q \in Requests : q < r => req[q].pc # "idle"

\* _check_lab_scope: the asset of the kind's table must be registered.
InScope(a) == /\ Kind(a) \in HostScoped => notes # None
              /\ Kind(a) = "invalidate_lab_session" => enrolled

-----------------------------------------------------------------------------
(* The first half of a request: checks against what it reads. *)

\* propose_action: out of scope is a 422; the policy table classifies.
Propose(a) == /\ status[a] = None /\ work[a] # None /\ InScope(a)
              /\ status' = [status EXCEPT ![a] = "proposed"]
              /\ UNCHANGED <<work, logs, notes, enrolled, tags, severity, noted, blocked,
                             sessions, evidence, req, delivered, abandoned, overlapped,
                             cache, outages>>

\* read: the status it found.
Take(r, op, target, read, undo) ==
  /\ req' = [req EXCEPT ![r] = [Idle EXCEPT !.pc = IF op \in {"execute", "revert"} THEN "handle"
                                                  ELSE "commit",
                               !.op = op, !.target = target, !.read = read, !.undo = undo]]
  /\ UNCHANGED <<work, database, delivered, abandoned, overlapped, cache, outages>>

\* Mutant of Executable: an action that did not succeed may be tried again.
ExecutableAgain(a) == status[a] \in {"proposed", "failed", "partial"}

Executable(a) == status[a] = "proposed"

\* execute_action up to its handler.
BeginExecute(r) ==
  /\ NextUp(r)
  /\ \E a \in Actions : Executable(a) /\ InScope(a) /\ Take(r, "execute", a, status[a], None)

\* The log that revert_action goes by: the latest one with result ok.
Latest(L) == CHOOSE l \in L : \A m \in L : m.at <= l.at

OkLogs(a) == {l \in logs[a] : l.result = "ok"}

Reversible(a) == /\ status[a] = "executed"
                 /\ Classification[Kind(a)] = "reversible"
                 /\ OkLogs(a) # {} /\ Latest(OkLogs(a)).undo # None

\* revert_action up to its handler.
BeginRevert(r) ==
  /\ NextUp(r)
  /\ \E a \in Actions :
       Reversible(a) /\ Take(r, "revert", a, status[a], Latest(OkLogs(a)).undo)

Open(e) == e.status = "open"

\* collect_evidence_request, dismiss_evidence_request.
BeginSettle(r) ==
  /\ NextUp(r)
  /\ \E e \in evidence, op \in {"collect", "dismiss"} :
       Open(e) /\ Take(r, op, e.id, e.status, None)

-----------------------------------------------------------------------------
(* The handlers: what they read, what they answer, and what they do outside *)
(* of the transaction.                                                      *)

\* datetime.now: later than every execution of a so far.
Now(a) == 1 + Max({0} \cup {l.at : l \in logs[a]}
                      \cup {req[q].at : q \in {p \in Requests : req[p].target = a}})

\* seen: the row read; result and undo: the answer; at: the time of the log row.
Answer(r, seen, result, undo) ==
  /\ req' = [req EXCEPT ![r].pc = "commit", ![r].seen = seen, ![r].result = result,
                        ![r].undo = undo, ![r].at = Now(req[r].target)]
  /\ UNCHANGED <<work, database, abandoned, overlapped>>

Executes(r, k) == /\ req[r].pc = "handle" /\ req[r].op = "execute"
                  /\ Kind(req[r].target) = k
Reverts(r, k) == /\ req[r].pc = "handle" /\ req[r].op = "revert"
                 /\ Kind(req[r].target) = k

NoCommand == UNCHANGED delivered
CacheAlone == UNCHANGED <<cache, outages>>

\* _invalidate_cache: any error is swallowed.
InvalidateCache == \/ cache' = None /\ UNCHANGED outages
                   \/ outages < MaxOutages /\ outages' = outages + 1 /\ UNCHANGED cache

\* Parameters the handler refuses make a failed action.
ExecuteBlock(r) ==
  /\ Executes(r, "block_observable")
  /\ IF work[req[r].target].params = <<>>
       THEN Answer(r, None, "fail", None) /\ CacheAlone
       ELSE Answer(r, None, "ok", r) /\ InvalidateCache
  /\ NoCommand

\* Mutant of RevertBlock: the cache is not invalidated.
RevertBlockQuietly(r) ==
  /\ Reverts(r, "block_observable")
  /\ Answer(r, None, "ok", req[r].undo)
  /\ CacheAlone /\ NoCommand

RevertBlock(r) ==
  /\ Reverts(r, "block_observable")
  /\ Answer(r, None, "ok", req[r].undo)
  /\ InvalidateCache /\ NoCommand

ExecuteFlag(r) ==
  /\ Executes(r, "flag_host_in_lab")
  /\ IF notes = None THEN Answer(r, None, "fail", None) ELSE Answer(r, notes, "ok", notes)
  /\ CacheAlone /\ NoCommand

RevertFlag(r) ==
  /\ Reverts(r, "flag_host_in_lab")
  /\ Answer(r, notes, IF notes = None THEN "fail" ELSE "ok", req[r].undo)
  /\ CacheAlone /\ NoCommand

\* The latest session not yet invalidated, or a new one.
ExecuteInvalidate(r) ==
  /\ Executes(r, "invalidate_lab_session")
  /\ LET live == {s.id : s \in {x \in sessions : x.by = None}}
         s == IF live = {} THEN r ELSE Max(live)
     IN IF notes = None \/ ~enrolled THEN Answer(r, None, "fail", None)
        ELSE Answer(r, s, "ok", s)
  /\ CacheAlone /\ NoCommand

RevertInvalidate(r) ==
  /\ Reverts(r, "invalidate_lab_session")
  /\ Answer(r, req[r].undo, "ok", req[r].undo)
  /\ CacheAlone /\ NoCommand

\* dispatch_ar: the command reaches the agent or not; a failure may be a timeout
\* of a command that did.  The manager's token and the one retry after a 401
\* decide which of these it is.
Dispatch(r) ==
  \/ /\ Answer(r, notes, "ok", r)
     /\ delivered' = [delivered EXCEPT ![req[r].target] = @ + 1]
  \/ /\ Answer(r, notes, "partial", r)
     /\ \/ NoCommand
        \/ delivered' = [delivered EXCEPT ![req[r].target] = @ + 1]

\* agent_id_for_host finds no agent, or no manager to ask: the command is skipped.
Skip(r) == Answer(r, notes, "partial", r) /\ NoCommand

\* The host must be registered; the rows the handler writes follow at the commit.
Command(r) ==
  /\ IF notes = None THEN Answer(r, None, "fail", None) /\ NoCommand
     ELSE IF ArEnabled THEN Dispatch(r) \/ Skip(r)
     ELSE Answer(r, notes, "ok", r) /\ NoCommand
  /\ CacheAlone

ExecuteQuarantine(r) == Executes(r, "quarantine_host_lab") /\ Command(r)
ExecuteKill(r) == Executes(r, "kill_process_lab") /\ Command(r)

\* Three handlers that work on the incident alone.
OnRecord(r, seen, undo) == Answer(r, seen, "ok", undo) /\ CacheAlone /\ NoCommand

ExecuteTag(r) == Executes(r, "tag_incident") /\ OnRecord(r, tags, work[req[r].target].params)
ExecuteElevate(r) == Executes(r, "elevate_severity") /\ OnRecord(r, severity, severity)
ExecuteRequest(r) == Executes(r, "request_evidence") /\ OnRecord(r, None, r)

Handle(r) == \/ ExecuteBlock(r) \/ RevertBlock(r)
             \/ ExecuteFlag(r) \/ RevertFlag(r)
             \/ ExecuteInvalidate(r) \/ RevertInvalidate(r)
             \/ ExecuteQuarantine(r) \/ ExecuteKill(r)
             \/ ExecuteTag(r) \/ ExecuteElevate(r) \/ ExecuteRequest(r)

-----------------------------------------------------------------------------
(* The second half: the rows written at the commit. *)

Does(r, k) == /\ req[r].op = "execute" /\ Kind(req[r].target) = k
              /\ req[r].result # "fail"
Undoes(r, k) == /\ req[r].op = "revert" /\ Kind(req[r].target) = k
                /\ req[r].result # "fail"

\* The markers the host has once r is through.
NotesAfter(r) == CASE Does(r, "flag_host_in_lab") -> req[r].seen \cup {"under-investigation"}
                   [] Does(r, "quarantine_host_lab") -> req[r].seen \cup {"quarantined"}
                   [] Undoes(r, "flag_host_in_lab") -> req[r].undo
                   [] OTHER -> req[r].seen

WritesNotes(r) == /\ \/ Does(r, "flag_host_in_lab") \/ Does(r, "quarantine_host_lab")
                     \/ Undoes(r, "flag_host_in_lab")
                  /\ NotesAfter(r) # req[r].seen

\* Mutant of BlockedAfter: a revert deletes no row and disables none.
BlockedKept(r) ==
  IF Does(r, "block_observable")
    THEN blocked \cup {[id |-> r, by |-> req[r].target,
                        value |-> work[req[r].target].params[1], active |-> TRUE]}
    ELSE blocked

BlockedAfter(r) ==
  CASE Does(r, "block_observable") ->
         blocked \cup {[id |-> r, by |-> req[r].target,
                        value |-> work[req[r].target].params[1], active |-> TRUE]}
    [] Undoes(r, "block_observable") ->
         {IF b.id = req[r].undo THEN [b EXCEPT !.active = FALSE] ELSE b : b \in blocked}
    [] OTHER -> blocked

\* Mutant of SessionsAfter: the session is written as a new row.
SessionsAdded(r) ==
  IF Does(r, "invalidate_lab_session")
    THEN sessions \cup {[id |-> req[r].seen, by |-> req[r].target]}
    ELSE sessions

SessionsAfter(r) ==
  LET with(by) == {s \in sessions : s.id # req[r].seen} \cup {[id |-> req[r].seen, by |-> by]}
  IN CASE Does(r, "invalidate_lab_session") -> with(req[r].target)
       [] Undoes(r, "invalidate_lab_session") -> with(None)
       [] OTHER -> sessions

EvidenceAfter(r) ==
  IF Does(r, "request_evidence") \/ Does(r, "kill_process_lab")
    THEN evidence \cup {[id |-> r, by |-> req[r].target, status |-> "open",
                         collected |-> FALSE, dismissed |-> FALSE]}
    ELSE evidence

\* Mutant of Outcome: what was not delivered counts as executed too.
OutcomeOptimistic(r) == IF req[r].op = "revert" THEN "reverted"
                        ELSE IF req[r].result = "fail" THEN "failed" ELSE "executed"

\* The status and the log row; a revert is logged without an undo record and
\* ends in reverted whatever its handler says.
Outcome(r) == IF req[r].op = "revert" THEN "reverted"
              ELSE [ok |-> "executed", fail |-> "failed", partial |-> "partial"][req[r].result]

LogRow(r) == [at |-> req[r].at, result |-> req[r].result,
              undo |-> IF req[r].op = "revert" THEN None ELSE req[r].undo]

Finish(r) == req' = [req EXCEPT ![r] = [Idle EXCEPT !.pc = "done"]]

Commit(r) ==
  LET a == req[r].target IN
  /\ req[r].pc = "commit" /\ req[r].op \in {"execute", "revert"}
  /\ notes' = IF WritesNotes(r) THEN NotesAfter(r) ELSE notes
  /\ noted' = IF Does(r, "quarantine_host_lab") THEN noted \cup {a} ELSE noted
  /\ tags' = IF Does(r, "tag_incident") /\ work[a].params \notin req[r].seen
                THEN req[r].seen \cup {work[a].params} ELSE tags
  /\ severity' = IF Does(r, "elevate_severity") /\ work[a].params # <<req[r].seen>>
                    THEN work[a].params[1] ELSE severity
  /\ blocked' = BlockedAfter(r)
  /\ sessions' = SessionsAfter(r)
  /\ evidence' = EvidenceAfter(r)
  /\ status' = [status EXCEPT ![a] = Outcome(r)]
  /\ logs' = [logs EXCEPT ![a] = @ \cup {LogRow(r)}]
  /\ overlapped' = IF status[a] = req[r].read THEN overlapped ELSE overlapped \cup {a}
  /\ Finish(r)
  /\ UNCHANGED <<work, enrolled, delivered, abandoned>> /\ CacheAlone

\* The commit of collect or dismiss; of two that found the request open the later
\* one has its way, and the marks of both stay.
Settle(r) ==
  /\ req[r].pc = "commit" /\ req[r].op \in {"collect", "dismiss"}
  /\ \E e \in evidence :
       /\ e.id = req[r].target
       /\ evidence' = (evidence \ {e}) \cup
            {IF req[r].op = "collect"
               THEN [e EXCEPT !.status = "collected", !.collected = TRUE]
               ELSE [e EXCEPT !.status = "dismissed", !.dismissed = TRUE]}
  /\ Finish(r)
  /\ UNCHANGED <<work, status, logs, notes, enrolled, tags, severity, noted, blocked,
                 sessions, delivered, abandoned, overlapped>>
  /\ CacheAlone

\* The transactions of R are rolled back; commands that they sent are not.
RollBack(R) ==
  /\ req' = [r \in Requests |-> IF r \in R THEN [Idle EXCEPT !.pc = "done"] ELSE req[r]]
  /\ abandoned' = abandoned \cup
       {a \in Actions : \E r \in R : /\ req[r].pc = "commit" /\ req[r].target = a
                                     /\ Kind(a) \in Commanding}

\* An error, a lost connection or a crash.
Abandon(r) ==
  /\ req[r].pc \in {"handle", "commit"}
  /\ RollBack({r})
  /\ UNCHANGED <<work, database, delivered, overlapped>> /\ CacheAlone

\* The requests that are to UPDATE the row of the host.
Updating == {r \in Requests : req[r].pc = "commit" /\ WritesNotes(r)}

HostMatters == \E a \in Actions : /\ work[a] # None
                                  /\ Kind(a) \in HostScoped \cup {"invalidate_lab_session"}

ButTheHost == UNCHANGED <<work, status, logs, enrolled, tags, severity, noted, blocked,
                          sessions, evidence, delivered, overlapped, cache, outages>>

\* register_lab_asset: a row of its own, without markers.
RegisterHost == /\ HostMatters /\ notes = None
                /\ notes' = {}
                /\ UNCHANGED <<req, abandoned>> /\ ButTheHost

\* deregister_lab_asset: an UPDATE of the row then matches none and raises, also
\* when the host has been registered anew.
DeregisterHost == /\ HostMatters /\ notes # None
                  /\ notes' = None
                  /\ RollBack(Updating) /\ ButTheHost

\* The same two for the user, whose row nobody updates.
RegisterUser ==
  /\ \E a \in Actions : work[a] # None /\ Kind(a) = "invalidate_lab_session"
  /\ enrolled' = ~enrolled
  /\ UNCHANGED <<work, status, logs, notes, tags, severity, noted, blocked, sessions, evidence,
                 req, delivered, abandoned, overlapped, cache, outages>>

Begin(r) == BeginExecute(r) \/ BeginRevert(r) \/ BeginSettle(r)
Proceed(r) == Handle(r) \/ Commit(r) \/ Settle(r)

ExecNext == \/ \E a \in Actions : Propose(a)
            \/ \E r \in Requests : Begin(r) \/ Proceed(r) \/ Abandon(r)
            \/ RegisterHost \/ DeregisterHost \/ RegisterUser

-----------------------------------------------------------------------------
(* Properties *)

Results == {"ok", "fail", "partial"}
Markers == {"under-investigation", "quarantined"}

UniqueIds(rows) == \A x, y \in rows : x.id = y.id => x = y

\* Every variable keeps its shape, and the rows of a table their ids.
ExecTypeOK ==
  /\ work \in Workloads
  /\ status \in [Actions -> Statuses \cup {None}]
  /\ logs = [a \in Actions |-> logs[a]]
  /\ \A a \in Actions : \A l \in logs[a] : l.at \in Nat /\ l.result \in Results
  /\ notes = None \/ notes \subseteq Markers
  /\ enrolled \in BOOLEAN
  /\ noted \subseteq Actions
  /\ UniqueIds(blocked) /\ UniqueIds(sessions) /\ UniqueIds(evidence)
  /\ \A b \in blocked : b.id \in Requests /\ b.by \in Actions /\ b.active \in BOOLEAN
  /\ \A s \in sessions : s.id \in {0} \cup Requests /\ s.by \in Actions \cup {None}
  /\ \A e \in evidence : e.id \in Requests /\ e.status \in {"open", "collected", "dismissed"}
  /\ req = [r \in Requests |-> req[r]]
  /\ \A r \in Requests : /\ DOMAIN req[r] = DOMAIN Idle
                         /\ req[r].pc \in {"idle", "handle", "commit", "done"}
                         /\ req[r].at \in Nat
  /\ delivered \in [Actions -> Nat]
  /\ outages \in 0..MaxOutages

\* What an action did is there while the action counts as executed, and gone
\* once it is reverted: one active row per blocking action, no session left
\* invalidated by a reverted one, no evidence asked for by one that failed or
\* was rolled back.  The exception is a request that committed over a status it
\* had not read.
EffectsMatchStatus ==
  \A a \in Actions \ overlapped :
    LET rows == {b \in blocked : b.by = a /\ b.active} IN
    /\ work[a] # None /\ Kind(a) = "block_observable"
         => Cardinality(rows) = IF status[a] = "executed" THEN 1 ELSE 0
    /\ \A s \in sessions : s.by = a => status[a] = "executed"
    /\ a \in noted \/ (\E e \in evidence : e.by = a) => status[a] \in {"executed", "partial"}

\* The audit trail and the status tell one story: no log while proposed, the
\* last one that of the execution, and of the revert after it.
AuditTellsStatus ==
  \A a \in Actions \ overlapped :
    CASE status[a] \in {None, "proposed"} -> logs[a] = {}
      [] status[a] = "executed" -> Cardinality(logs[a]) = 1 /\ Latest(logs[a]).result = "ok"
      [] status[a] = "partial" -> {l.result : l \in logs[a]} = {"partial"}
      [] status[a] = "failed" -> {l.result : l \in logs[a]} = {"fail"}
      [] OTHER -> /\ Cardinality(logs[a]) = 2
                  /\ Latest(logs[a]).undo = None
                  /\ \E l \in logs[a] : l.result = "ok" /\ l.undo # None

\* A command that reached the agent is accounted for: by a log row, unless the
\* request that sent it was rolled back after the dispatch; and with active
\* response on, no action counts as executed whose command did not arrive.
DispatchIsAudited ==
  \A a \in Actions :
    /\ delivered[a] > 0 => \/ logs[a] # {} \/ a \in abandoned
                           \/ \E r \in Requests : req[r].pc = "commit" /\ req[r].target = a
    /\ ArEnabled /\ status[a] = "executed" /\ Kind(a) \in Commanding => delivered[a] > 0

\* Mutant of ExecutedKeys: actions in status partial are forgotten.
ExecutedKeysInFull == {ExecKey(Kind(a), work[a].params) :
                         a \in {b \in Actions : status[b] = "executed"}}

ExecutedKeys == {ExecKey(Kind(a), work[a].params) :
                   a \in {b \in Actions : status[b] \in {"executed", "partial"}}}

Recommended == Recommend(Lead.kind, Lead.entities, Lead.techniques, ExecutedKeys)

\* Whether something of what a did is still in the database.
Stands(a) == \/ \E b \in blocked : b.by = a /\ b.active
             \/ \E s \in sessions : s.by = a
             \/ \E e \in evidence : e.by = a
             \/ a \in noted

\* Nothing is recommended that an action of this incident did and nobody has
\* undone.
WhatStandsIsNotRecommended ==
  LET standing == {a \in Actions \ overlapped : Stands(a)} IN
  standing # {} => {work[a] : a \in standing} \cap
                     {[kind |-> c.kind, params |-> c.params] : c \in Recommended} = {}
=============================================================================
