# CyberCat in TLA+

CyberCat is an incident-response platform: agents and a Wazuh bridge deliver
security events, a FastAPI backend stores them in PostgreSQL, runs detection
rules, correlates detections into incidents and takes response actions; a
Next.js frontend follows along over server-sent events. Redis holds windows,
claims and caches, and carries the event stream.

This directory has TLA+ models of the parts of that system in which order,
failure and concurrency matter, TLC configurations that check them on small
instances, and TLAPS proofs for instances of any size. `PROJECT.json` names
the runs, the source lines behind every definition, the hazards and the
theorems.

    tlc -config IngestRace.cfg MCIngestPipeline.tla     # model-check one run
    tlapm IngestPipelineProofs.tla                      # check the proofs

## 1. The system

Paths are relative to `src/backend/app` unless they start with `agent/` or
`frontend/` (`src/agent/cct_agent`, `src/frontend/app`).

| Component | State | Operations | Interacts with | Hard part | Correct when |
|---|---|---|---|---|---|
| Ingest pipeline (`ingest/`, `api/routers/events.py`) | tables events, entities, detections; the open transaction | ingest one event: dedup, insert, link, detect, correlate, commit, auto-act | called by the route and the poller; calls detectors, correlators, executor, publisher | concurrent calls, retry after a lost connection, crash between two commits, lock order | one row per dedupe key, true answers, every call ends |
| Correlation (`correlation/`) | table incidents and its junctions, Redis hour keys | find, open, extend, join an incident | runs in the ingest transaction | check-then-insert races, Redis claim before commit | one incident per dedupe key |
| Wazuh poller (`ingest/wazuh_poller.py`) | wazuh_cursor row, breaker, backoff, `_prev_reachable` | poll once, save cursor, report status | Wazuh indexer, ingest pipeline, event stream | partial batches, lost saves, restarts | cursor passes only what was dealt with, counters true, progress |
| Incident lifecycle (`api/routers/incidents.py`, `correlation/merge.py`, `split.py`) | incident status, parent, evidence links | transition, note, merge, split | correlators extend the same rows | unlocked reads, lock order, events published before commit | legal status history, no evidence lost |
| Response (`response/`) | actions, action_logs, blocked_observables, lab notes, evidence_requests | propose, execute, revert, collect, dismiss | auto-actions, Wazuh active response, observable cache | double execution, failed reverts, stale snapshots | one execution per action, revert undoes exactly it |
| Redis detectors (`detection/rules/`, `db/redis_state.py`) | windows, cooldowns, cache, breaker | one detector call per event | ingest pipeline, response (cache) | lost expiry, stale cache, timed-out calls that took effect | bounded staleness, at most one alarm per cooldown |
| Event bus and SSE (`streaming/`, `api/routers/streaming.py`) | Redis subscription, a queue per client | publish, consume, reconnect, register | frontend hooks | reconnect, slow clients | a connected client hears of every change or is told to reload |
| Agent (`agent/sources/tail.py`, `checkpoint.py`, `shipper.py`, `__main__.py`) | file offset, checkpoint file, in-memory queue | tail, checkpoint, enqueue, ship | log files, `POST /v1/events/raw` | rotation, crash with a full queue, retry limits | at-least-once delivery |
| Agent parsers (`agent/parsers/`, `process_state.py`) | partial audit records, process table | feed a line | agent sources | interleaved records, eviction | every complete record group gives one event |
| Recommendations, Sigma compiler | none | pure functions | incident view, detectors | case analysis | agree with a reference definition |
| Authentication (`auth/`) | users, tokens | login, OIDC callback, token check | every route | just-in-time user creation | one user per identity |
| Frontend hooks (`frontend/lib/`) | stream connection, fetched data | subscribe, refetch, poll | SSE stream | debounce, overlapping fetches | shown data is eventually current |

Schema, configuration, read-only routes, rendering, seeding and the lab
simulator keep no state of their own that another part races with.

## 2. Modules

    EventIntake            what the ingest path promises its callers
    IngestPipeline         the pipeline, implements EventIntake
    MCIngestPipeline       its small instances
    IngestPipelineProofs   TLAPS proofs about it
    WazuhPoller            the poller; its configurations are its instances
    WazuhPollerProofs      TLAPS proofs about it
    AgentPipeline          the endpoint agent, from the log to the backend
    MCAgentPipeline        its small instances
    AgentPipelineProofs    TLAPS proofs about it
    CaseFile               what transitions, merges, splits and correlators promise
    IncidentLifecycle      the requests with their locks, implements CaseFile
    MCIncidentLifecycle    its small instance
    IncidentLifecycleProofs TLAPS proofs about it
    Recommendations        the recommendation engine, a pure operator
    ResponseExecutor       actions, handlers, evidence; extends Recommendations
    ResponseExecutorProofs TLAPS: what every step of the executor keeps
    RedisDetectors         the detectors with state in Redis
    ResponseLoop           executor and detectors on one Redis
    MCResponseLoop         its small instance
    ResponseLoopProofs     TLAPS proofs about executor and detectors
    EventStream            from a commit to what a page of the frontend shows
    MCEventStream          its small instance
    EventStreamProofs      TLAPS proofs about it

Two modules are composed of others: `ResponseLoop` extends `ResponseExecutor` and
instantiates `RedisDetectors` with the blocked values of the executor's table;
`IngestPipeline` and `IncidentLifecycle` instantiate their abstract
specifications, the second with the evidence of an incident read off the
junction rows (`evidence <- [i \in Incidents |-> Linked(i)]`).

### EventIntake

The promise, with no transaction in it: `Store` makes an event with a fresh key
a row, `Answer` says "new" only for a row of this call, "dup" only when a row
with the key is committed, "error" at any time, and at most once; `Lose` is the
death of the process.

### IngestPipeline

One call of `ingest_normalized_event` inside `with_ingest_retry`. `pc` is the
next statement of each call:

| action | code |
|---|---|
| `Submit` | the route or the poller starts a call |
| `Lookup` | `find_duplicate`: sees committed rows; answers "dup" |
| `Insert` | `db.add(event); flush`: waits for a concurrent INSERT of the key, fails if it commits |
| `Link` | one entity upsert; its row stays locked until the transaction ends |
| `DetectNothing`, `Correlate`, `ClaimHour` | detectors and correlators: nothing to do; an incident found or to be opened by dedupe key; the Redis SETNX of the standalone rule with its outage and lost-answer outcomes |
| `Join`, `Extend` | the join rule finds an incident; `extend_incident` updates its row, which stays locked until the transaction ends |
| `Open` | `db.add(incident); flush` under the unique dedupe key |
| `Commit` | the row and the incident become visible together |
| `Load`, `AutoActions` | after the commit: read the incident back, act in a second commit, publish, answer; the second commit may fail, or take effect unanswered |
| `ConnectionLost`, `StatementFails` | a fault under any statement; the first is retried once with a new session, also when the lost answer was that of the COMMIT |
| `DeadlockVictim` | PostgreSQL aborts one transaction of a waiting circle |
| `Crash` | the process dies; PostgreSQL and Redis stay |

PostgreSQL is external: READ COMMITTED, unique indexes that make the second
INSERT wait, row locks, deadlock detection (`WaitsFor`, `Circle`). An incident's
dedupe key stands for rule, user or host, and hour; `GroupsOf` says which keys
an event may lead to, so the choice of rule is nondeterministic and the
configurations need no rule syntax; `JoinsOf` are the incidents the join rule may
extend. An entry of `acted` is a batch of auto-actions, of which those that failed
have left nothing. `lab_sessions`, detections and the junction
rows ride in the same transaction and have no variable of their own.

### WazuhPoller

Alerts are numbers in the indexer's sort order and become visible in any order
(`Index`). A cycle is `Fetch`, then one action per hit (`Drop`, `Ingest`,
`IngestFails`, `DecodeRaises`), `Save`, and `Trip` or `Report`; `Recover` is the
exception handler of `poller_loop` with its backoff. `HttpError`, `QueryRaises`,
`SaveFails`, `StartFails` are the faults, `Stop` a shutdown or crash anywhere.
`streak` is the set of hits behind `consecutive_ingest_failures`, which lets a
property ask where they are. An ingest has the outcomes `EventIntake` allows:
stored, duplicate, or an error with or without a row; `IngestRetried` is the
duplicate that is the row of its own first attempt, which nobody counts.
`SaveFails` and `Recover` keep apart the UPDATE of the cycle, which may have taken
effect, and that of the handler, which may fail. `seen` and `failed` are
history variables of the properties.

### AgentPipeline

One source of `cct_agent` and the shipper. The log has an inode, complete lines
and perhaps a begun one; offsets count half lines, so that an offset inside a
line can be told from one at its end. A turn of `tail_lines` is `Poll` (stat,
rotation, truncation), `Read`, one `Feed` per line and `EndRead`. `Feed` is the
whole body of the source's loop: it moves the offset, gives the line to the
parser, the process table and `build_event`, enqueues what comes out and saves
the checkpoint. No `await` in it suspends, so the shipper (`Take`, `Flush`, and a
post that is `Accepted`, `Unanswered` or `Refused`, `GiveUp`) waits for the end of
the read. `ReadRaises` ends the agent as any exception of a source does; `Stop`
is SIGTERM, `Kill` everything harsher, `Start` loads the checkpoint.

The sources differ by two constants: a line of sshd or conntrack is an event
(`PerEvent` 1), an event of auditd ends with its last record and needs its first
one (`PerEvent` 2); the source of auditd or conntrack is started only if its file
exists (`Gated`). `Kind` says what the parser makes of an event. The backend is
the set `store`; that a repeated post changes nothing is what `EventIntake`
promises. A rotation may fall into the middle of a line, which then ends with the
old file; a new file may be given the inode of an old one and looks like a
truncation then. `fed`, `out`, `cut`, `stale` and `hidden` are history variables:
`hidden` are the lines behind the offset when a file truncated, or new under the
old inode, has grown past it again, which its size cannot show.

### CaseFile and IncidentLifecycle

`CaseFile` has no requests, locks or commits: a status moves along the table of
transitions, `Merge` hands all evidence to the target, `Split` moves evidence to a
fresh incident, `Extend` adds to an incident that was open. `Transition` and
`Extend` may go by a status the incident has had (`past`), which is what a read
without a lock gives; `Merge` and `Split` go by the current one.

`IncidentLifecycle` has the requests of `api/routers/incidents.py` and the
correlators:

| action | code |
|---|---|
| `SubmitTransition`, `WriteTransition` | `transition_incident`: `db.get` and the table of transitions, then UPDATE and COMMIT |
| `SubmitMerge`, `SubmitSplit`, `TakeKey`, `LockRow` | the advisory lock of the unordered pair or of the source, then `SELECT ... FOR UPDATE`, row by row |
| `CommitMerge`, `CommitSplit` | validation under the locks; copy or move of the junction rows; status and parent; COMMIT |
| `SubmitExtend`, `Attach`, `Touch`, `CommitExtend` | the join rule finds an incident; `extend_incident` writes uncommitted junction rows under a key share lock, then updates the incident's `updated_at`; the ingest transaction commits |
| `Fail`, `DeadlockVictim` | a statement fails; PostgreSQL aborts one of a circle |

Events and entities are both "evidence". A correlator adds a set of them: a new
event and its entities, which other incidents may have too (`Additions`). Its key
share lock lets an UPDATE of the incident pass and waits only for a merge or split
(`Compatible`). Detections and ATT&CK rows are copied
along by a merge and never leave an incident. `overtaken` and `late` are history
variables: incidents whose status changed between a transition's read and its
write, and evidence that an incident already merged was the first to have.

### Recommendations and ResponseExecutor

`Recommend` is `recommend_for_incident` without its texts. `ResponseExecutor` has
two actions whose kinds and parameters a configuration chooses (`Workloads`), and
requests that execute, revert, collect or dismiss. A request is `Begin...`, the
checks on what it reads without a lock; one action per handler (`ExecuteBlock`,
`RevertFlag`, `ExecuteKill`, ...), which fixes what the handler read, its answer
and undo record, and has the effects outside the transaction (cache, command);
and `Commit` or `Settle`, where the rows appear. `Abandon` is any error or crash
before that. The lab host and the lab user come and go (`RegisterHost`,
`DeregisterHost`, `RegisterUser`); a host registered anew is another row, so its
deregistration ends every request that is to update the old one. `delivered` is external:
how often the agent got the command; a command may be delivered and its answer
lost. `overlapped` collects the actions a request committed from a status that was
no longer theirs, `abandoned` the actions whose command went out with a request that was
rolled back.

### RedisDetectors and ResponseLoop

`auth_failed_burst` (`CheckCooldown`, `Count`, `ExpireWindow`, `Fire`),
`auth_anomalous_source_success` (`CheckFailures`, `CheckSource`) and
`blocked_observable_check` (`LookUp`, `Query`, `Fill`), one Redis call or query per
action, run by ingest tasks. A call that fails may have taken effect. An ingest
ends with its commit (`Conclude`) or at any step before that without one (`Abort`:
a crash, a cancellation, a rollback), and what it did in Redis stays. The clock is
left out: a key with a time to live goes at some moment (`Drop...`), one without
stays. What a login says of its own time, `occurred_at`, is one of `Times`, in any
order of arrival: `Precedes` are the successes the rule counts, those of an earlier
time within the lookback. `irregular` counts the logins for which none of the
committed successes is one. `ResponseLoop` puts the executor's DEL and the detectors' GET and SET on
one key; `raced` records that a list was read or filled around a commit whose
DEL had already been, by a handler that did not fail.

### EventStream

Numbers instead of resources: a page shows how many committed changes its data
contains. `Publish` and `Commit` come in the order of the route (`IsEarly`: merge
and split publish first). `Deliver`, `ConsumerCrashes` and `Reopen` are the bus and
its supervisor; a handle without a subscription makes the loop spin (`Wedged`),
and then the event loop runs nothing else. `Connect`, `Receive`, `ConnectionDrops`
are the SSE generator and EventSource; `Refetch`, `Poll`, `Serve`, `Show`, `Hide`,
`Unhide` the hooks `useStream` and `usePolling`, with fetches that overtake each
other. A fetch that fails (`FetchFails`, `Restart`) leaves the data and sets `error`,
which the next one that is shown takes away. `missed` is a history variable: why a page may be behind.

## 3. What the runs check

| run | instance | shows |
|---|---|---|
| `IngestRace` | 3 calls, 2 with one key; a shared and a standalone incident key; 2 database faults, 1 Redis fault, 1 crash | `TypeOK`, `OneRowPerKey`, `OneIncidentPerGroup`, `AutoActionsOncePerEvent`, and the step simulation `ImplementsIntake` |
| `IngestCircle` | 3 calls, opposite lock orders on entities, and an incident to join; 1 database fault, 1 crash | `EveryCallEnds` under fairness |
| `IngestRedisDown` | 2 calls of one host, 2 Redis faults, no database fault | violated: `EventsLandWithoutRedis` |
| `IngestHourKey` | the same, 1 database fault | violated: `HourKeyMeansIncident` |
| `PollerCursor` | 4 alerts (one rejected, one malformed), batches of 3, breaker at 2, 2 faults, 1 stop | `CursorSound`, `CursorRests`, `CountsRows`, `PassedIsCounted`, `CursorMonotone`, `StatusAgreesWithRow`, and `AlertsArePassed` under fairness |
| `PollerTrip` | 3 alerts, the middle one rejected, breaker at 2 | violated: `TripKeepsFailedHits` |
| `AgentTail` | auditd: 3 events of 2 records (two processes start, the first exits), queue, batch and process table of 1, 2 attempts, 2 faults, 1 rotation or truncation, 1 stop or kill | `NothingSkipped`, `ResumesAfterLastLine`, `LossesAreCounted`, `ExitsHaveProvenance`, and `LinesAreFed` under fairness |
| `AgentBadBytes` | sshd: 3 lines, the first with bytes that are not UTF-8 | violated: `ResumesAfterLastLine` |
| `AgentCrash` | sshd: 3 lines, no fault | violated: `UnshippedIsReread` |
| `Lifecycle` | 3 requests of any kind, 3 open incidents and a fresh one, 4 pieces of evidence, additions of a new event alone or with an entity another incident has | `EvidenceStaysLive`, `MergeForest`, `MergeIsFinal`, `PairsNeverDeadlock`, `SomeoneProceeds`, and the refinement `ImplementsCaseFile` |
| `ResponseLoop` | 2 actions (6 pairs of kinds, or none), 3 requests, 2 ingest tasks, 1 failing Redis call, 1 ingest without a commit, threshold 2; up to 4 failed logins, or 3 successes at 3 times with a lookback of 1 | `EffectsMatchStatus`, `AuditTellsStatus`, `DispatchIsAudited`, `WhatStandsIsNotRecommended`, `CacheMatchesTable`, `AlarmsNotRepeated`, `NewSourceNotRepeated`, and `DetectorsCatchUp` under fairness |
| `StreamCatchUp` | 1 page, a transition and a merge, a queue of 1, 1 outage, 2 lost connections, failed fetches or restarts, failure limit 2 | `QuietPageIsCurrent`, and `PagesCatchUp` under fairness |

Bounds. Three calls are the least with two contenders for one key and a third
for the same incident, and the least for a lock circle with a bystander; two
database faults let one call use up its retry or two calls fail in turn; one
crash separates a before and an after. `FailLimit` is 2 instead of 10: what
matters is that a streak can be broken, spread over a rejected hit, or reach
the limit. Four alerts and batches of three leave a tail behind a batch. Six records
give reads that end inside an event and start there; a process table of one
forgets the first process when the second starts, so its exit has no start; a queue of
one sheds as soon as two events come out of a read; one stop lets a restart fall
between a truncation and the save that would notice it. Three requests are the
least for a circle of merges around a triangle of incidents, and for a
transition that is overtaken by one merge and revives the source of another.
Three requests execute an action twice at a time and revert it, or execute two
and revert one; the pairs of `ThePairs` are those that write the same row, note,
session or cache. The burst threshold is 2 instead of 4 and the failure limit of
the stream 2 instead of 3: what matters is below, at and above. Three times with a
lookback of one are equal, in the lookback and out of it. A queue of 1
instead of 256 overflows with the second event. Where a run's `cfg` sets `CHECK_DEADLOCK FALSE`
it is because calls end, requests are used up and alerts run out; `StreamCatchUp`
has no such end and checks for deadlock.

Fairness. `FairSpec` of the pipeline: the event loop runs every started call
and PostgreSQL resolves a deadlock (`WF` of each call's `Step` and of
`DeadlockVictim`). `FairSpec` of the poller: the loop task is scheduled, and a
stopped container is started again (`restart: unless-stopped` in
`infra/compose/docker-compose.yml`). The agent's: its source task is scheduled, a
stopped agent exits (it waits 10 s at most for the shipper) and its container is
started again; nothing is asked of the shipper. `ResponseLoop`: a request or task under way is
run to its end by the event loop, and Redis ends a key with a time to live.
`EventStream`: requests under way, the supervisor, and a page's connection,
timers and fetches go on; Redis need not come back, tabs need not be shown.
`PagesCatchUp` assumes further, in its statement, a page that stays in the
foreground and a supervisor that is not stuck for good. Nothing fair is asked of faults, of the
indexer or of time, and both faults and stops are finite by their bounds.

### Where code and documentation part

- `IngestRedisDown`: with Redis failing, the standalone rule goes on to INSERT an
  incident that may exist; the unique index refuses it and the transaction,
  event included, is rolled back. `db/redis_state.py` promises that events still
  land in PostgreSQL.
- `IngestHourKey`: the hour key is claimed before the commit it belongs to. After
  a rollback the key says "an incident opened this hour", and none did; the
  host's endpoint events open no incident until the hour is over.
- `PollerTrip`: a rejected hit in the middle of a failing streak moves the cursor
  past failed hits although the breaker trips, which its comment excludes. These
  alerts are counted as dropped and not read again.

- `AgentBadBytes`: the tail counts a line it has decoded with replacement
  characters by its length encoded again. Until the end of the read the saved
  checkpoint is ahead of the line, and a restart begins inside a later one.
- `AgentCrash`: the sources save the checkpoint when an event is queued, not when
  it is shipped; a crash or a stop loses what waits. The contract of `tail.py`
  says it causes a re-read.

Further differences that the models show and no run is spent on:

- `streaming/bus.py:24` says that after an outage the supervisor "re-subscribes,
  and resumes". `_open_pubsub` assigns the new handle before `psubscribe` has
  succeeded; if that raises, the next round finds a handle without a
  subscription, `listen()` returns at once, and the loop spins without
  suspending (`Wedged`). `docs/runbook.md:698` reports the effect as a reconnect
  loop that "can wedge". `PagesCatchUp` therefore excludes it.
- `frontend/lib/streaming.ts:25` has no listener for `incident.merged` and
  `incident.split`, which `streaming/events.py:22` sends: an open page hears of a
  merge only by polling (`Listened` in `EventStream`, `"unheard"` in `missed`).
- ADR-0015 calls a merged source "a closed chapter". The join and chain rules
  skip only resolved and closed incidents (`Settled`), so a merged one is still
  extended; `EvidenceStaysLive` excepts what is added that way (`late`).
- `docs/api-contract.md:231` has closed as terminal; a transition that read its
  status before another one closed the incident takes it out again
  (`overtaken`), and one that raced a merge revives the merged source.
- `docs/data-model.md:306` says that after a revert "the detection stops firing
  immediately (cache invalidated)". The cache is deleted before the commit, so a
  detector may cache the old list again; it is wrong for at most 30 seconds
  (`CacheMatchesTable`, `DetectorsCatchUp`).
- `docs/architecture.md:134` says a revert clears the marker of
  `flag_host_in_lab`. It writes back the whole text of the time of execution,
  and a marker another action added since is lost.
- The comment at `response/recommendations.py:266` counts proposed, failed and
  skipped actions as "already accounted for"; line 268 filters only executed and
  partial ones. And a `request_evidence` of the auto-actions has no target host,
  so the evidence the recommendation names differs from it and is suggested too.
- `docs/detection.md:18` calls the window of `py.auth.failed_burst` sliding. It is
  fixed: it begins with a first failure and ends 60 seconds later. And it may have
  no end: if the EXPIRE after the first INCR fails, or the ingest is cancelled or
  dies between the two (`ExpireWindow`, `Abort`), the key stays, and failures of
  different days add up to a burst. No property bounds it, since all that could be
  claimed excepts this case.
- `collect` and `dismiss` of one evidence request check its status without a lock:
  two that find it open both succeed, the later status stays, and the row carries
  the marks of both (`Settle`).
- `py.auth.anomalous_source_success` takes a source for known by committed successes of
  an earlier `occurred_at`. Logins handled at once, delivered out of order, with
  equal times, or after an ingest that was rolled back report it again;
  `NewSourceNotRepeated` bounds the reports by these.

Smaller things the models made visible, stated as hazards: an error before the
poller's loop ends the task for the life of the process; an alert whose
decoding raises blocks everything behind it; alerts may age out of the
first-run lookback before the first cursor is saved, which is why `CursorSound`
starts above `aged`; a transaction chosen as deadlock victim is not retried.

## 4. What is proved

Every invariant and every action property of the passing runs, and both
refinements, are theorems for all values of the constants. Only liveness is left
to TLC. Each module's proofs have the same shape: an inductive invariant, one
lemma per action (or per group of actions that disturb the same parts), the
theorem that it is inductive (`InvCorrect`, in `AgentPipelineProofs`
`CountCorrect` and `OffsetsCorrect`), and the properties read off it. Before it
was proved, each invariant was checked by TLC on the module's run.

| module | constants that are arbitrary | theorems |
|---|---|---|
| `IngestPipelineProofs` | calls, keys, entities, incident keys, fault bounds | `TypeOK`, `OneRowPerKey`, `OneIncidentPerGroup`, `AutoActionsOncePerEvent`; `Spec => Intake!Spec` |
| `WazuhPollerProofs` | number of alerts, batch size, failure limit, rejected and malformed alerts, faults, stops | `TypeOK`, `CursorSound`, `CursorRests`, `CountsRows`, `PassedIsCounted`; `CursorMonotone`, `StatusAgreesWithRow` |
| `IncidentLifecycleProofs` | requests and their kinds, incidents, evidence, selections and additions, opening state | `TypeOK`, `EvidenceStaysLive`, `MergeForest`, `PairsNeverDeadlock`, `SomeoneProceeds`; `MergeIsFinal`; `Spec => CaseFile!Spec` |
| `ResponseLoopProofs` (steps of the executor in `ResponseExecutorProofs`) | actions, workloads, requests, ingest tasks, login times, lookback, threshold, Redis errors, ingests without a commit | `TypeOK`, `EffectsMatchStatus`, `AuditTellsStatus`, `DispatchIsAudited`, `WhatStandsIsNotRecommended`, `CacheMatchesTable`, `AlarmsNotRepeated`, `NewSourceNotRepeated` |
| `EventStreamProofs` | pages, changes, limits of queues and errors, outages, failed fetches, restarts | `TypeOK`, `QuietPageIsCurrent` |
| `AgentPipelineProofs` | log, records per event, limits, faults, rotations, stops | `TypeOK`, `LossesAreCounted`, `ExitsHaveProvenance`; with `Bad = {}` also `NothingSkipped`, `ResumesAfterLastLine` |

Assumptions. Each module types its constants in one named `ASSUME`, which TLC
evaluates on the instances. What they say beyond types: an incident does not
start merged (`LifecycleAssumption`); an event does not both open and join one
incident (`JoinsOf` and `GroupsOf`, which different kinds of events lead to); changes, requests and tasks are finitely
many, requests are numbered; the kind of an action is one the policy classifies
(`ExecutorAssumption`); the burst threshold is at least 1; no change that is
published before its commit is one the frontend listens for
(`StreamAssumption`, which is so in `frontend/lib/streaming.ts`). The two agent
theorems with `Bad = {}` are about logs without bytes that are not UTF-8: with
such bytes the code breaks `ResumesAfterLastLine`, which `AgentBadBytes` shows.

### Ingest pipeline

Uniqueness of rows is not inductive: a `Commit` adds a row
knowing only what `Insert` saw. `KeyGuard` carries that over: while a
transaction holds an uncommitted event, no row and no other open transaction
has its key. `IncidentGuard` says the same of an uncommitted incident. For the
retry after a commit whose answer was lost, `RowsArePast` says that a row
belongs to an earlier attempt or to a call past its commit, so a second attempt
finds it; `Progress`, `TouchedExists` and `ActedIsDone` tie answers, touched
incidents and auto-actions to committed state. Every action but `Commit`,
`AutoActions` and `Crash` moves one call and leaves the database alone: the
lemma `QuietStep` handles them together, `ForwardQuiet` and `FinishQuiet` reduce
an action to it, and the three others have a lemma each. For the refinement,
`Commit` is `Store`, an action that ends a call is `Answer`, `Crash` is `Lose`,
and all others stutter.

### Wazuh poller

`CursorSound` speaks of the cursor row, which only `Save` and `SaveFails` write;
what they write was fixed hit by hit. `Forward` says that the hits still to come
are behind the last one dealt with and that `last_sort` is an alert stored or
rejected; `Accounted` that everything fetched and no longer to come is stored,
rejected or failed, and counted if it has no row. A batch is dealt with in
order, so `HitStep` moves one alert from ahead to behind and `WriteRowStep`
carries the whole to the row.

### Incident lifecycle

A transition writes on what it read without a lock, a correlator on what it
found: `ReadStatus` and `AddsEvidence` keep of that what nothing can take back (a
status the incident has had, not resolved or closed for a correlator). A merge needs nothing
remembered, since it validates under its row locks; `OwnKey` says that the
advisory lock of a pair is had once, from which `PairsNeverDeadlock` follows, for
a request that waits for its advisory lock holds no row. That parents form no
circle is preserved because a merge's target is not merged at that moment, unless
a late transition has revived it (`overtaken`). `Effects` reduces a step to the
four kinds that touch the tables, which `MergeIsFinal` and the refinement use:
`WriteTransition`, `CommitMerge`, `CommitSplit` and `CommitExtend` are the actions of
`CaseFile`, all others stutter.

### Executor and detectors

An action that two requests have worked on at once is in `overlapped`, and of it
only the types are claimed. Of any other, `OneStory` says how status, log rows,
blocked rows, session, notes and evidence go together; `Asks` and `Answers`, that
a request between handler and commit has read what still holds and carries an
undo record that names its own row. A commit is then a step from one story to
the next (`CommitOwnStory`), and a request whose action was changed meanwhile makes
it overlapped (`CommitRequests`). `Commands` follows a command from the dispatch
that precedes its commit to the log row or the rollback. Recommendations are
positions in finite lists; `RecommendedIsUntried` shows that what is ranked has
passed the filter, for any lists. For the detectors, `BurstsCounted` counts the
alarms of a cooldown by the tasks that had passed its check and the calls that
failed; `SourcesCounted` bounds those about a source by the tasks that handle a
success until the first one is committed, from then on by the tasks still looking,
which all but irregular logins leave without a report; and `Fresh` says that no cached list and no list about to be
cached differs from the committed rows, because a request that will change them
has deleted the list and a fill in between sets `raced`.

### Event stream

`QuietPageIsCurrent` is about quiet pages, so `NoGap` extends it to all: a page
that is behind has something under way that will make it fetch (a timer, an
answer, a message on the wire or in its queue, a change committed and not
published), its last fetch has failed and it says so, or `missed` says why not.
`Ordered` is needed with it: an answer never carries more than was committed, so the
newest one brings the page up to date.

### Agent

`Lost` are the events the counters have to own up to: a step loses at most one
and then counts it, which makes the cardinality inductive. `Provenance` says of
every pid in the process table what `ExitsHaveProvenance` says of exits. For the
offsets, `Sound` says that an offset in the file of now is within its lines and
past none that was not fed or hidden; between `Read` and `EndRead` that needs
`Reading` (what is left of the read are the lines from the offset on, and ends
where the offset will be put), which needs `WholeLines` (no offset inside of a
line, hence `Bad = {}`) and `FileGrows` (a file that is not there has no lines, and an
offset without an inode is 0). `Feed` moves the offset over the line at it; `Complete` appends behind every
offset; `Rotate`, `Create` and `Truncate` leave no offset in the file, or, when the
inode is that of a checkpoint, set the history variables that the properties
except.

### Only model-checked

Liveness: `EveryCallEnds`, `AlertsArePassed`, `LinesAreFed`, `DetectorsCatchUp` and
`PagesCatchUp`, since the prover has no fairness or ENABLED. The violations are
found by TLC. No module declares a RECURSIVE operator.

The proofs led to three changes of the models. `Without` takes a pid out of the
process table by its position, as `resolve_exit` does, where it filtered the
table. What a task does after its count is an IF: as a CASE it was ambiguous
for a threshold of 1. And `CacheMatchesTable` no longer excepts the time between
a request's handler and its commit: the proof does not need it.

## 5. Not modelled

The contents of events, detections and incidents; the syntax and the matching of
rules, Sigma's included; the wait times themselves (only their order and
growth). An alert that becomes visible behind the cursor is never fetched: the
model has it, no property claims it. Of the agent: the regular expressions of
the parsers, the cap of 100 lines on a buffered audit event, the waits between
attempts, two lines of equal bytes (which share a dedupe key and become one
event), and the other sources on the same queue, which only fill it sooner. Further
a truncation in the middle of a line, whose rest would be a line of its own, and a
checkpoint file of valid JSON in another shape, which `save` never writes and which
would end the agent at its start.

Of the incidents: notes, severity, timestamps and the log of transitions, which
are written once and read by nobody who decides; entities and events are not
told apart. Of the responses: the entity attributes `kill_process` writes, the
texts of notes and recommendations, several hosts, users and incidents at once; a
lab host or user without an entity, as one that no event has named yet;
the order of two requests' UPDATEs of one row within their transactions, since
the last commit decides what stays. Of the detectors: the circuit breaker as
such (a run of failing calls is one way for each to fail) and
`process_suspicious_child`, a test of one event; they watch one user and one source.
Of the stream: topics, heartbeats and payloads; the query that a page makes is one
number. A fetch that fails does so before the backend answers it: as it only reads,
an answer lost on its way is no different.

Authentication delegates to libraries and writes single rows under unique
indexes. Seeding, administration, the simulator and the drills are scripts
around the system. The read-only routes format queries.

## 6. Plan

Proofs: the safety that the liveness properties rest on, as invariants of their
own: that a call not at its end has an enabled step or waits for one that has
(`EveryCallEnds`), and that an alert shown by the indexer and not passed is in a
batch or ahead of the cursor (`AlertsArePassed`). The agent's offsets for logs
with `Bad` lines, as long as no stop falls into a read.

Models: `oidc.upsert_oidc_user` against the unique indexes on email and subject;
the revert of `flag_host_in_lab` against a claim that markers of other actions
stay.
