-------------------------- MODULE ResponseLoopProofs --------------------------
(***************************************************************************)
(* What holds of the detectors and the executor together, for any number   *)
(* of actions, requests and ingest tasks, any threshold and any number of  *)
(* Redis errors.  The steps of the executor are in ResponseExecutorProofs. *)
(***************************************************************************)
EXTENDS ResponseLoop, ResponseExecutorProofs

-----------------------------------------------------------------------------
(* The inductive invariant. *)

\* The tasks that may yet raise a burst alarm, those that would find their source
\* new, and those that have looked and not yet committed the success.
Bursting == {t \in Tasks : task[t].pc \in {"count", "expire", "fire"}}
Looking == {t \in Tasks : task[t].pc \in {"recent", "source"} /\ Det!NewSource(t)}
Succeeding == {t \in Tasks : /\ task[t].pc \in {"lookup", "query", "fill", "commit"}
                             /\ task[t].event = "succeeded"}

\* In a cooldown the alarms raised and still to come are of different tasks, or
\* of a failed call; out of it each that was raised is of a failed call.
BurstsCounted ==
  /\ cooldown => alarms + Cardinality(Bursting) <= Cardinality(Tasks) + outages
  /\ ~cooldown => alarms <= outages

\* Before a success is committed each alarm is of a task under way, or of one
\* that did not commit; from then on those raised and still to come are of the
\* tasks that were under way, or of irregular logins.
SourcesCounted ==
  /\ \A t \in Tasks : task[t].pc \in {"recent", "source"} => task[t].event = "succeeded"
  /\ known = {} => anomalies <= Cardinality(Succeeding) + aborts
  /\ known # {} => anomalies + Cardinality(Looking) <= Cardinality(Tasks) + irregular + aborts

\* A request whose commit will change the blocked rows.
Rewrites(r) == /\ Answered(r) /\ Blocks(req[r].target)
               /\ req[r].result # "fail"

\* The cached list, and what a task is about to cache, are the committed rows;
\* there is no list while a request is about to change them.
Fresh ==
  outages = 0 /\ ~raced =>
    /\ cache = None \/ cache.values = ActiveValues
    /\ \A r \in Requests : Rewrites(r) => cache = None
    /\ \A t \in Tasks : task[t].pc = "fill" => task[t].values = ActiveValues

LoopInv == /\ ExecInv /\ Det!DetTypeOK
           /\ BurstsCounted /\ SourcesCounted /\ Fresh

-----------------------------------------------------------------------------
(* The steps of the executor, as the detectors see them. *)

\* Without an error of Redis a step leaves the list or deletes it; it leaves the
\* blocked rows, or is the commit of a request that had deleted the list; and a
\* request that is going to change them has.
SeenFromDetectors ==
  /\ cache' \in {cache, None}
  /\ ActiveValues' = ActiveValues \/ \E r \in Requests : Rewrites(r) /\ cache' = cache
  /\ \A q \in Requests : Rewrites(q)' => Rewrites(q) \/ cache' = None

\* A step of one request that leaves the blocked rows.
LEMMA QuietStep ==
  ASSUME ExecTypeOK, cache' \in {cache, None}, UNCHANGED <<work, blocked>>,
         \A q \in Requests : req'[q] = req[q] \/ ~Rewrites(q)' \/ cache' = None
  PROVE  SeenFromDetectors
<1>1. ActiveValues' = ActiveValues
  BY DEF ActiveValues
<1>2. \A q \in Requests : req'[q] = req[q] => (Rewrites(q)' => Rewrites(q))
  BY DEF Rewrites, Answered, Blocks, Kind
<1>3. QED
  BY <1>1, <1>2 DEF SeenFromDetectors

\* A request that is through rewrites nothing any more.
LEMMA FinishedStep ==
  ASSUME ExecTypeOK, NEW r \in Requests, Finish(r)
  PROVE  \A q \in Requests : req'[q] = req[q] \/ ~Rewrites(q)'
<1>1. \A q \in Requests : q # r => req'[q] = req[q]
  BY FinishSets
<1>2. req'[r].pc = "done"
  BY FinishSets
<1>3. ~Rewrites(r)'
  BY <1>2 DEF Rewrites, Answered
<1>4. QED
  BY <1>1, <1>3

\* A request that starts rewrites nothing yet.
LEMMA TakenStep ==
  ASSUME ExecTypeOK, NEW r \in Requests, NEW op, NEW target, NEW read, NEW undo,
         Take(r, op, target, read, undo)
  PROVE  SeenFromDetectors
<1>1. \A q \in Requests : q # r => req'[q] = req[q]
  BY TakeSets
<1>2. req'[r].op = op /\ req'[r].pc = IF op \in {"execute", "revert"} THEN "handle" ELSE "commit"
  BY TakeSets
<1>3. ~Rewrites(r)'
  BY <1>2 DEF Rewrites, Answered
<1>4. UNCHANGED <<work, blocked, cache>>
  BY DEF Take, database
<1>5. QED
  BY <1>1, <1>3, <1>4, QuietStep

\* The handler of a blocking action has deleted the list when it succeeds.
LEMMA HandledStep ==
  ASSUME ExecInv, NEW r \in Requests, Handle(r), outages' = outages, outages \in Nat
  PROVE  SeenFromDetectors
<1>0. ExecTypeOK
  BY DEF ExecInv
<1>1. PICK seen, result, undo : Handled(r, seen, result, undo)
  BY HandlerFits
<1>2. /\ \A q \in Requests : q # r => req'[q] = req[q]
      /\ req'[r].target = req[r].target
  BY <1>0, <1>1, AnswerSets DEF Handled
<1>3. UNCHANGED <<work, blocked>>
  BY <1>1 DEF Handled, Answer, database
<1>4. cache' \in {cache, None} /\ (Rewrites(r)' => cache' = None)
  <2>1. CASE ExecuteBlock(r)
    <3>1. CASE Answer(r, None, "fail", None) /\ CacheAlone
      <4>1. req'[r].result = "fail"
        BY <1>0, <3>1, AnswerSets
      <4>2. QED
        BY <3>1, <4>1 DEF Rewrites, CacheAlone
    <3>2. CASE InvalidateCache
      BY <3>2 DEF InvalidateCache
    <3>3. QED
      BY <2>1, <3>1, <3>2 DEF ExecuteBlock
  <2>2. CASE RevertBlock(r)
    BY <2>2 DEF RevertBlock, InvalidateCache
  <2>3. CASE ~ExecuteBlock(r) /\ ~RevertBlock(r)
    <3>1. CacheAlone /\ Kind(req[r].target) # "block_observable"
      BY <2>3 DEF Handle, Executes, Reverts, ExecuteFlag, RevertFlag, ExecuteInvalidate,
                  RevertInvalidate, ExecuteQuarantine, ExecuteKill, ExecuteTag,
                  ExecuteElevate, ExecuteRequest, Command, OnRecord
    <3>2. ~Rewrites(r)'
      BY <1>2, <1>3, <3>1 DEF Rewrites, Blocks, Kind
    <3>3. QED
      BY <3>1, <3>2 DEF CacheAlone
  <2>4. QED
    BY <2>1, <2>2, <2>3
<1>5. QED
  BY <1>0, <1>2, <1>3, <1>4, QuietStep

\* A request that commits had deleted the list, if it changes the rows.
LEMMA CommittedStep ==
  ASSUME ExecInv, NEW r \in Requests, Commit(r)
  PROVE  SeenFromDetectors
<1>0. ExecTypeOK
  BY DEF ExecInv
<1>1. Finish(r) /\ UNCHANGED <<work, cache, outages>>
  BY CommitSets DEF CacheAlone
<1>2. CASE Rewrites(r)
  <2>1. \A q \in Requests : req'[q] = req[q] \/ ~Rewrites(q)'
    BY <1>0, <1>1, FinishedStep
  <2>2. \A q \in Requests : Rewrites(q)' => Rewrites(q)
    BY <1>1, <2>1 DEF Rewrites, Answered, Blocks, Kind
  <2>3. QED
    BY <1>1, <1>2, <2>2 DEF SeenFromDetectors
<1>3. CASE ~Rewrites(r)
  <2>1. ~Does(r, "block_observable") /\ ~Undoes(r, "block_observable")
    BY <1>3, Committing DEF Rewrites, Answered, Blocks, Does, Undoes
  <2>2. blocked' = blocked
    BY <2>1, CommitBlocked
  <2>3. QED
    BY <1>0, <1>1, <2>2, FinishedStep, QuietStep
<1>4. QED
  BY <1>2, <1>3

\* Every step of the executor.
LEMMA ExecSeen ==
  ASSUME ExecInv, ExecNext, outages' = outages
  PROVE  SeenFromDetectors
<1>0. ExecTypeOK /\ outages \in Nat
  BY ExecutorAssumption DEF ExecInv, ExecTypeOK
<1>1. ASSUME NEW a \in Actions, Propose(a) PROVE SeenFromDetectors
  BY <1>0, <1>1, QuietStep DEF Propose
<1>2. ASSUME NEW r \in Requests, Begin(r) PROVE SeenFromDetectors
  BY <1>0, <1>2, TakenStep DEF Begin, BeginExecute, BeginRevert, BeginSettle
<1>3. ASSUME NEW r \in Requests, Handle(r) PROVE SeenFromDetectors
  BY <1>0, <1>3, HandledStep
<1>4. ASSUME NEW r \in Requests, Commit(r) PROVE SeenFromDetectors
  BY <1>4, CommittedStep
<1>5. ASSUME NEW r \in Requests, Settle(r) PROVE SeenFromDetectors
  <2>1. Finish(r) /\ UNCHANGED <<work, blocked, cache>>
    BY <1>5 DEF Settle, CacheAlone
  <2>2. QED
    BY <1>0, <2>1, FinishedStep, QuietStep
<1>6. CASE (\E r \in Requests : Abandon(r)) \/ DeregisterHost
  <2>1. PICK R \in SUBSET Requests : RollBack(R)
    BY <1>6 DEF Abandon, DeregisterHost, Updating
  <2>2. \A q \in Requests : req'[q] = req[q] \/ req'[q].pc = "done"
    BY <1>0, <2>1, RollBackSets
  <2>3. UNCHANGED <<work, blocked, cache>>
    BY <1>6 DEF Abandon, DeregisterHost, ButTheHost, CacheAlone, database
  <2>4. QED
    BY <1>0, <2>2, <2>3, QuietStep DEF Rewrites, Answered
<1>7. CASE RegisterHost \/ RegisterUser
  BY <1>0, <1>7, QuietStep DEF RegisterHost, ButTheHost, RegisterUser
<1>8. QED
  BY <1>1, <1>2, <1>3, <1>4, <1>5, <1>6, <1>7 DEF ExecNext, Proceed

\* Errors of Redis are counted, and their count never falls.
LEMMA OutagesOfExec ==
  ASSUME ExecInv, ExecNext
  PROVE  outages' \in {outages, outages + 1}
<1>1. ASSUME NEW r \in Requests, Handle(r) PROVE outages' \in {outages, outages + 1}
  BY <1>1 DEF Handle, ExecuteBlock, RevertBlock, ExecuteFlag, RevertFlag, ExecuteInvalidate,
              RevertInvalidate, ExecuteQuarantine, ExecuteKill, ExecuteTag, ExecuteElevate,
              ExecuteRequest, Command, OnRecord, CacheAlone, InvalidateCache
<1>2. ASSUME NEW r \in Requests, Begin(r) PROVE outages' = outages
  BY <1>2 DEF Begin, BeginExecute, BeginRevert, BeginSettle, Take
<1>3. ASSUME NEW r \in Requests, Commit(r) \/ Settle(r) \/ Abandon(r) PROVE outages' = outages
  BY <1>3 DEF Commit, Settle, Abandon, CacheAlone
<1>4. QED
  BY <1>1, <1>2, <1>3
  DEF ExecNext, Proceed, Propose, RegisterHost, DeregisterHost, ButTheHost, RegisterUser

-----------------------------------------------------------------------------
(* The steps of the detectors: the shape of the variables. *)

\* A detector works on the task of its event.
LEMMA GotoSets ==
  ASSUME Det!DetTypeOK, NEW t \in Tasks, NEW pc, Det!Goto(t, pc)
  PROVE  /\ task' = [u \in Tasks |-> task'[u]]
         /\ \A u \in Tasks : u # t => task'[u] = task[u]
         /\ DOMAIN task'[t] = DOMAIN Det!Free
         /\ task'[t].pc = pc /\ task'[t].event = task[t].event
         /\ task'[t].at = task[t].at /\ task'[t].values = task[t].values
  BY DEF Det!DetTypeOK, Det!Goto, Det!Free

\* A task that goes on with other values.
LEMMA ContinueSets ==
  ASSUME Det!DetTypeOK, NEW t \in Tasks, NEW pc, NEW values, Det!Continue(t, pc, values)
  PROVE  /\ task' = [u \in Tasks |-> task'[u]]
         /\ \A u \in Tasks : u # t => task'[u] = task[u]
         /\ DOMAIN task'[t] = DOMAIN Det!Free
         /\ task'[t].pc = pc /\ task'[t].event = task[t].event
         /\ task'[t].at = task[t].at /\ task'[t].values = values
  BY DEF Det!DetTypeOK, Det!Continue, Det!Free

\* A task that is through.
LEMMA ReleaseSets ==
  ASSUME Det!DetTypeOK, NEW t \in Tasks, Det!Release(t)
  PROVE  /\ task' = [u \in Tasks |-> task'[u]]
         /\ \A u \in Tasks : u # t => task'[u] = task[u]
         /\ DOMAIN task'[t] = DOMAIN Det!Free
         /\ task'[t].pc = "idle"
  BY DEF Det!DetTypeOK, Det!Release, Det!Free

\* A task that starts.
LEMMA ArriveSets ==
  ASSUME Det!DetTypeOK, NEW t \in Tasks, Det!Arrive(t)
  PROVE  /\ task' = [u \in Tasks |-> task'[u]]
         /\ \A u \in Tasks : u # t => task'[u] = task[u]
         /\ DOMAIN task'[t] = DOMAIN Det!Free
         /\ \/ /\ task'[t].pc \in {"cooldown", "lookup"} /\ task'[t].event # "succeeded"
               /\ irregular' = irregular
            \/ /\ task'[t].pc = "recent" /\ task'[t].event = "succeeded"
               /\ task'[t].at \in Times
               /\ irregular' = IF known # {} /\ ~\E o \in known : Det!Precedes(o, task'[t].at)
                                 THEN irregular + 1 ELSE irregular
         /\ task[t].pc = "idle"
<1>1. PICK e \in {"failed", "succeeded", "other"}, pc \in {"cooldown", "recent", "lookup"},
          at \in Times \cup {None} :
        /\ task' = [task EXCEPT ![t] = [Det!Free EXCEPT !.pc = pc, !.event = e, !.at = at]]
        /\ pc = "recent" <=> e = "succeeded"
        /\ e = "succeeded" => at \in Times
        /\ irregular' = IF e = "succeeded" /\ known # {} /\ ~\E o \in known : Det!Precedes(o, at)
                          THEN irregular + 1 ELSE irregular
  BY DEF Det!Arrive
<1>2. task[t].pc = "idle"
  BY DEF Det!Arrive, Det!At
<1>3. /\ task' = [u \in Tasks |-> task'[u]]
      /\ \A u \in Tasks : u # t => task'[u] = task[u]
      /\ DOMAIN task'[t] = DOMAIN Det!Free
      /\ task'[t].pc = pc /\ task'[t].event = e /\ task'[t].at = at
  BY <1>1 DEF Det!DetTypeOK, Det!Free
<1>4. QED
  BY <1>1, <1>2, <1>3

\* The shape of the tasks, when one of them has moved.
LEMMA TasksKeepShape ==
  ASSUME Det!DetTypeOK, NEW t \in Tasks,
         task' = [u \in Tasks |-> task'[u]],
         \A u \in Tasks : u # t => task'[u] = task[u],
         DOMAIN task'[t] = DOMAIN Det!Free,
         task'[t].pc \in {"idle", "cooldown", "count", "expire", "fire",
                          "recent", "source", "lookup", "query", "fill", "commit"},
         task'[t].pc # "idle" /\ task'[t].event = "succeeded" => task'[t].at \in Times
  PROVE  \A u \in Tasks :
           /\ DOMAIN task'[u] = DOMAIN Det!Free
           /\ task'[u].pc \in {"idle", "cooldown", "count", "expire", "fire",
                               "recent", "source", "lookup", "query", "fill", "commit"}
           /\ task'[u].pc # "idle" /\ task'[u].event = "succeeded" => task'[u].at \in Times
  BY DEF Det!DetTypeOK

\* A failing call is counted.
LEMMA CallsCounted ==
  ASSUME Det!DetTypeOK, Det!Up \/ Det!Down
  PROVE  /\ outages' \in 0..MaxOutages
         /\ outages' = 0 => outages = 0 /\ Det!Up /\ ~Det!Down
  BY ExecutorAssumption DEF Det!DetTypeOK, Det!Up, Det!Down

\* A detector makes at most one call.
LEMMA OutagesOfDetect ==
  ASSUME Det!DetTypeOK, Det!DetNext
  PROVE  Det!Up \/ Det!Down
  BY DEF Det!DetNext, Det!Detect, Det!Arrive, Det!CheckCooldown, Det!Count, Det!ExpireWindow,
         Det!Fire, Det!CheckFailures, Det!CheckSource, Det!LookUp, Det!Query, Det!Fill,
         Det!Conclude, Det!Abort, Det!DropCache, Det!DropWindow, Det!DropCooldown, Det!Up

\* The steps of the detectors keep the types.
LEMMA DetTypes ==
  ASSUME Det!DetTypeOK, Det!DetNext
  PROVE  Det!DetTypeOK'
<1> USE DEF Det!Up, Det!history, Det!At
<1>0. outages' \in 0..MaxOutages 
  BY CallsCounted, OutagesOfDetect
<1>1. ASSUME NEW t \in Tasks, Det!Arrive(t) PROVE Det!DetTypeOK'
  <2>1. irregular' \in Nat
    BY <1>1, ArriveSets DEF Det!DetTypeOK
  <2>2. QED
    BY <1>0, <1>1, <2>1, ArriveSets, TasksKeepShape DEF Det!DetTypeOK, Det!Arrive
<1>2. ASSUME NEW t \in Tasks, Det!CheckCooldown(t) PROVE Det!DetTypeOK'
  <2>1. PICK pc \in {"lookup", "count"} : Det!Goto(t, pc)
    BY <1>2 DEF Det!CheckCooldown
  <2>2. QED
    BY <1>0, <1>2, <2>1, GotoSets, TasksKeepShape DEF Det!DetTypeOK, Det!CheckCooldown
<1>3. ASSUME NEW t \in Tasks, Det!Count(t) PROVE Det!DetTypeOK'
  <2>1. PICK pc \in {"expire", "fire", "lookup"} : Det!Goto(t, pc)
    BY <1>3 DEF Det!Count, Det!AfterCount
  <2>2. window' \in {window, Det!Counted} /\ window.count < MaxCount
    BY <1>3 DEF Det!Count
  <2>3. window' \in [count : 0..MaxCount, expires : BOOLEAN]
    BY <2>2, LoopAssumption DEF Det!DetTypeOK, Det!Counted
  <2>4. QED
    BY <1>0, <1>3, <2>1, <2>3, GotoSets, TasksKeepShape DEF Det!DetTypeOK, Det!Count
<1>4. ASSUME NEW t \in Tasks, Det!ExpireWindow(t) PROVE Det!DetTypeOK'
  <2>1. PICK pc \in {"fire", "lookup"} : Det!Goto(t, pc)
    BY <1>4 DEF Det!ExpireWindow
  <2>2. window' \in {window, [window EXCEPT !.expires = TRUE]}
    BY <1>4 DEF Det!ExpireWindow
  <2>3. window' \in [count : 0..MaxCount, expires : BOOLEAN]
    BY <2>2 DEF Det!DetTypeOK
  <2>4. QED
    BY <1>0, <1>4, <2>1, <2>3, GotoSets, TasksKeepShape DEF Det!DetTypeOK, Det!ExpireWindow
<1>5. ASSUME NEW t \in Tasks, Det!Fire(t) PROVE Det!DetTypeOK'
  <2>1. Det!Goto(t, "lookup") /\ cooldown' \in BOOLEAN
    BY <1>5 DEF Det!Fire, Det!DetTypeOK
  <2>2. QED
    BY <1>0, <1>5, <2>1, GotoSets, TasksKeepShape DEF Det!DetTypeOK, Det!Fire
<1>6. ASSUME NEW t \in Tasks, Det!CheckFailures(t) PROVE Det!DetTypeOK'
  <2>1. PICK pc \in {"source", "lookup"} : Det!Goto(t, pc)
    BY <1>6 DEF Det!CheckFailures
  <2>2. QED
    BY <1>0, <1>6, <2>1, GotoSets, TasksKeepShape DEF Det!DetTypeOK, Det!CheckFailures
<1>7. ASSUME NEW t \in Tasks, Det!CheckSource(t) PROVE Det!DetTypeOK'
  BY <1>0, <1>7, GotoSets, TasksKeepShape DEF Det!DetTypeOK, Det!CheckSource
<1>8. ASSUME NEW t \in Tasks, Det!LookUp(t) PROVE Det!DetTypeOK'
  <2>1. PICK pc \in {"query", "commit"} : Det!Goto(t, pc)
    BY <1>8 DEF Det!LookUp
  <2>2. QED
    BY <1>0, <1>8, <2>1, GotoSets, TasksKeepShape DEF Det!DetTypeOK, Det!LookUp
<1>9. ASSUME NEW t \in Tasks, Det!Query(t) PROVE Det!DetTypeOK'
  <2>1. Det!Goto(t, "commit") \/ Det!Continue(t, "fill", ActiveValues)
    BY <1>9 DEF Det!Query
  <2>2. QED
    BY <1>0, <1>9, <2>1, GotoSets, ContinueSets, TasksKeepShape DEF Det!DetTypeOK, Det!Query
<1>10. ASSUME NEW t \in Tasks, Det!Fill(t) PROVE Det!DetTypeOK'
  <2>1. Det!Continue(t, "commit", {})
    BY <1>10 DEF Det!Fill
  <2>2. QED
    BY <1>0, <1>10, <2>1, ContinueSets, TasksKeepShape DEF Det!DetTypeOK, Det!Fill
<1>11. ASSUME NEW t \in Tasks, Det!Conclude(t) PROVE Det!DetTypeOK'
  <2>1. Det!Release(t) /\ known' \subseteq Times
    BY <1>11 DEF Det!Conclude, Det!DetTypeOK
  <2>2. QED
    BY <1>0, <1>11, <2>1, ReleaseSets, TasksKeepShape DEF Det!DetTypeOK, Det!Conclude
<1>12. ASSUME NEW t \in Tasks, Det!Abort(t) PROVE Det!DetTypeOK'
  <2>1. Det!Release(t) /\ aborts' \in 0..MaxAborts
    BY <1>12, LoopAssumption DEF Det!Abort, Det!DetTypeOK
  <2>2. QED
    BY <1>0, <1>12, <2>1, ReleaseSets, TasksKeepShape DEF Det!DetTypeOK, Det!Abort
<1>13. CASE Det!DropCache
  BY <1>0, <1>13 DEF Det!DetTypeOK, Det!DropCache
<1>14. CASE Det!DropWindow
  BY <1>0, <1>14, LoopAssumption DEF Det!DetTypeOK, Det!DropWindow, Det!NoWindow
<1>15. CASE Det!DropCooldown
  BY <1>0, <1>15 DEF Det!DetTypeOK, Det!DropCooldown
<1>16. QED
  BY <1>1, <1>2, <1>3, <1>4, <1>5, <1>6, <1>7, <1>8, <1>9, <1>10, <1>11, <1>12, <1>13, <1>14,
     <1>15
  DEF Det!DetNext, Det!Detect

-----------------------------------------------------------------------------
(* The alarms. *)

\* A set of tasks that one task has joined, or left.
LEMMA OneTaskMoves ==
  ASSUME NEW S \in SUBSET Tasks, NEW T \in SUBSET Tasks, NEW t \in Tasks
  PROVE  /\ IsFiniteSet(S) /\ Cardinality(S) \in Nat
         /\ Cardinality(S) <= Cardinality(Tasks) /\ Cardinality(Tasks) \in Nat
         /\ S \subseteq T => Cardinality(S) <= Cardinality(T)
         /\ t \in T /\ t \notin S /\ S \subseteq T => Cardinality(S) + 1 <= Cardinality(T)
<1>1. IsFiniteSet(S) /\ IsFiniteSet(T) /\ Cardinality(S) <= Cardinality(Tasks)
  BY LoopAssumption, FS_Subset
<1>2. Cardinality(S) \in Nat /\ Cardinality(T) \in Nat /\ Cardinality(Tasks) \in Nat
  BY <1>1, LoopAssumption, FS_CardinalityType
<1>3. S \subseteq T => Cardinality(S) <= Cardinality(T)
  BY <1>1, FS_Subset
<1>4. ASSUME t \in T, t \notin S, S \subseteq T PROVE Cardinality(S) + 1 <= Cardinality(T)
  <2>1. IsFiniteSet(T \ {t}) /\ Cardinality(T \ {t}) = Cardinality(T) - 1
    BY <1>1, <1>4, FS_RemoveElement
  <2>2. Cardinality(S) <= Cardinality(T \ {t})
    BY <1>4, <2>1, FS_Subset
  <2>3. QED
    BY <1>2, <2>1, <2>2
<1>5. QED
  BY <1>1, <1>2, <1>3, <1>4

\* A call of Redis that fails is counted, another is not.
LEMMA OutagesGrow ==
  ASSUME Det!DetTypeOK, Det!DetNext
  PROVE  /\ outages \in Nat /\ outages' \in {outages, outages + 1}
         /\ Det!Down => outages' = outages + 1
  BY OutagesOfDetect, ExecutorAssumption DEF Det!DetTypeOK, Det!Up, Det!Down

\* What a step of a task does that is not about a burst.
LEMMA OutOfBurst ==
  ASSUME Det!DetTypeOK, NEW t \in Tasks,
         \/ Det!Arrive(t) \/ Det!CheckFailures(t) \/ Det!CheckSource(t) \/ Det!LookUp(t)
         \/ Det!Query(t) \/ Det!Fill(t) \/ Det!Conclude(t) \/ Det!Abort(t)
  PROVE  /\ UNCHANGED <<cooldown, alarms>>
         /\ \A u \in Tasks : u # t => task'[u] = task[u]
         /\ task'[t].pc \notin {"count", "expire", "fire"}
<1>1. UNCHANGED <<cooldown, alarms>>
  BY DEF Det!Arrive, Det!CheckFailures, Det!CheckSource, Det!LookUp, Det!Query, Det!Fill,
         Det!Conclude, Det!Abort, Det!history
<1>2. \/ Det!Arrive(t) \/ Det!Release(t)
      \/ \E pc \in {"source", "lookup", "query", "commit"} : Det!Goto(t, pc)
      \/ \E pc \in {"fill", "commit"} : \E values : Det!Continue(t, pc, values)
  BY DEF Det!CheckFailures, Det!CheckSource, Det!LookUp, Det!Query, Det!Fill,
         Det!Conclude, Det!Abort
<1>3. /\ \A u \in Tasks : u # t => task'[u] = task[u]
      /\ task'[t].pc \in {"idle", "cooldown", "recent", "source", "lookup", "query", "fill",
                          "commit"}
  <2>1. CASE Det!Arrive(t) \/ Det!Release(t)
    BY <2>1, ArriveSets, ReleaseSets
  <2>2. CASE \E pc \in {"source", "lookup", "query", "commit"} : Det!Goto(t, pc)
    BY <2>2, GotoSets
  <2>3. CASE \E pc \in {"fill", "commit"} : \E values : Det!Continue(t, pc, values)
    BY <2>3, ContinueSets
  <2>4. QED
    BY <1>2, <2>1, <2>2, <2>3
<1>4. QED
  BY <1>1, <1>3

\* The steps of the detectors and the burst alarms.
LEMMA BurstStep ==
  ASSUME LoopInv, Det!DetNext
  PROVE  BurstsCounted'
<1>0. Det!DetTypeOK /\ alarms \in Nat /\ cooldown \in BOOLEAN
  BY DEF LoopInv, Det!DetTypeOK
<1>1. outages \in Nat /\ outages' \in {outages, outages + 1} /\ (Det!Down => outages' = outages + 1)
  BY <1>0, OutagesGrow
<1>2. /\ cooldown => alarms + Cardinality(Bursting) <= Cardinality(Tasks) + outages
      /\ ~cooldown => alarms <= outages
  BY DEF LoopInv, BurstsCounted
<1>3. Bursting \in SUBSET Tasks /\ Bursting' \in SUBSET Tasks
  BY DEF Bursting
<1>4. Cardinality(Bursting) \in Nat /\ Cardinality(Bursting') \in Nat /\ Cardinality(Tasks) \in Nat
  <2>1. CASE Tasks = {}
    BY <1>3, <2>1, FS_EmptySet
  <2>2. CASE Tasks # {}
    BY <1>3, <2>2, OneTaskMoves
  <2>3. QED
    BY <2>1, <2>2
\* Steps after which no further task is at work on a burst.
<1>5. ASSUME NEW t \in Tasks, UNCHANGED <<cooldown, alarms>>,
             task[t].pc \in {"count", "expire", "fire"}
               \/ task'[t].pc \notin {"count", "expire", "fire"},
             \A u \in Tasks : u # t => task'[u] = task[u]
      PROVE  BurstsCounted'
  <2>1. Bursting' \subseteq Bursting
    BY <1>5 DEF Bursting
  <2>2. Cardinality(Bursting') <= Cardinality(Bursting)
    BY <1>3, <2>1, OneTaskMoves
  <2>3. /\ cooldown' => alarms' + Cardinality(Bursting') <= Cardinality(Tasks) + outages'
        /\ ~cooldown' => alarms' <= outages'
    BY <1>0, <1>1, <1>2, <1>4, <1>5, <2>2
  <2>4. QED
    BY <2>3 DEF BurstsCounted
<1>6. ASSUME NEW t \in Tasks, Det!CheckCooldown(t) PROVE BurstsCounted'
  <2>1. UNCHANGED <<cooldown, alarms>> /\ task[t].pc = "cooldown"
    BY <1>6 DEF Det!CheckCooldown, Det!history, Det!At
  <2>2. CASE Det!Goto(t, "lookup")
    BY <1>0, <1>5, <2>1, <2>2, GotoSets
  <2>3. CASE Det!Goto(t, "count") /\ (cooldown => Det!Down)
    <3>1. t \in Bursting' /\ t \notin Bursting /\ Bursting' \ {t} \subseteq Bursting
      BY <1>0, <2>1, <2>3, GotoSets DEF Bursting
    <3>2. Cardinality(Bursting') <= Cardinality(Bursting) + 1
      <4>1. IsFiniteSet(Bursting') /\ IsFiniteSet(Bursting)
        BY <1>3, OneTaskMoves
      <4>2. Cardinality(Bursting' \ {t}) = Cardinality(Bursting') - 1
        BY <3>1, <4>1, FS_RemoveElement
      <4>3. Cardinality(Bursting' \ {t}) <= Cardinality(Bursting)
        BY <3>1, <4>1, FS_Subset
      <4>4. QED
        BY <1>4, <4>2, <4>3
    <3>3. /\ cooldown' => alarms' + Cardinality(Bursting') <= Cardinality(Tasks) + outages'
          /\ ~cooldown' => alarms' <= outages'
      <4>1. CASE cooldown
        BY <1>0, <1>1, <1>2, <1>4, <2>1, <2>3, <3>2, <4>1
      <4>2. CASE ~cooldown
        BY <1>0, <1>1, <1>2, <2>1, <4>2
      <4>3. QED
        BY <4>1, <4>2
    <3>4. QED
      BY <3>3 DEF BurstsCounted
  <2>4. QED
    BY <1>6, <2>2, <2>3 DEF Det!CheckCooldown
<1>7. ASSUME NEW t \in Tasks, Det!Fire(t) PROVE BurstsCounted'
  <2>1. /\ alarms' = alarms + 1 /\ Det!Goto(t, "lookup") /\ task[t].pc = "fire"
        /\ cooldown' = TRUE \/ (Det!Down /\ cooldown' = cooldown)
    BY <1>7 DEF Det!Fire, Det!At
  <2>2. t \in Bursting /\ t \notin Bursting' /\ Bursting' \subseteq Bursting
    BY <1>0, <2>1, GotoSets DEF Bursting
  <2>3. Cardinality(Bursting') + 1 <= Cardinality(Bursting)
    BY <1>3, <2>2, OneTaskMoves
  <2>4. Cardinality(Bursting) <= Cardinality(Tasks)
    BY <1>3, OneTaskMoves
  <2>5. alarms' + Cardinality(Bursting') <= Cardinality(Tasks) + outages'
    <3>1. CASE cooldown
      BY <1>0, <1>1, <1>2, <1>4, <2>1, <2>3, <3>1
    <3>2. CASE ~cooldown
      BY <1>0, <1>1, <1>2, <1>4, <2>1, <2>3, <2>4, <3>2
    <3>3. QED
      BY <3>1, <3>2
  <2>6. ~cooldown' => alarms' <= outages'
    BY <1>0, <1>1, <1>2, <2>1
  <2>7. QED
    BY <2>5, <2>6 DEF BurstsCounted
<1>8. ASSUME NEW t \in Tasks, Det!Count(t) \/ Det!ExpireWindow(t) PROVE BurstsCounted'
  <2>1. task[t].pc \in {"count", "expire", "fire"} /\ UNCHANGED <<cooldown, alarms>>
    BY <1>8 DEF Det!Count, Det!ExpireWindow, Det!At, Det!history
  <2>2. \E pc : Det!Goto(t, pc)
    BY <1>8 DEF Det!Count, Det!ExpireWindow
  <2>3. QED
    BY <1>0, <1>5, <2>1, <2>2, GotoSets
<1>9. ASSUME NEW t \in Tasks,
             \/ Det!Arrive(t) \/ Det!CheckFailures(t) \/ Det!CheckSource(t) \/ Det!LookUp(t)
             \/ Det!Query(t) \/ Det!Fill(t) \/ Det!Conclude(t) \/ Det!Abort(t)
      PROVE  BurstsCounted'
  BY <1>0, <1>5, <1>9, OutOfBurst
<1>10. CASE Det!DropCache \/ Det!DropWindow
  <2>1. UNCHANGED <<cooldown, alarms, task, outages>>
    BY <1>10 DEF Det!DropCache, Det!DropWindow, Det!history
  <2>2. Bursting' = Bursting
    BY <2>1 DEF Bursting
  <2>3. QED
    BY <1>2, <2>1, <2>2 DEF BurstsCounted
<1>11. CASE Det!DropCooldown
  BY <1>1, <1>11 DEF Det!DropCooldown, BurstsCounted
<1>12. QED
  BY <1>6, <1>7, <1>8, <1>9, <1>10, <1>11 DEF Det!DetNext, Det!Detect

\* The steps of the detectors and the alarms of a source.
LEMMA SourceStep ==
  ASSUME LoopInv, Det!DetNext
  PROVE  SourcesCounted'
<1>0. /\ Det!DetTypeOK /\ SourcesCounted
      /\ anomalies \in Nat /\ irregular \in Nat /\ aborts \in Nat
  BY LoopAssumption DEF LoopInv, Det!DetTypeOK
<1> DEFINE Told == \A u \in Tasks : task[u].pc \in {"recent", "source"}
                                       => task[u].event = "succeeded"
<1>1. /\ Succeeding \in SUBSET Tasks /\ Succeeding' \in SUBSET Tasks
      /\ Looking \in SUBSET Tasks /\ Looking' \in SUBSET Tasks
  BY DEF Succeeding, Looking
<1>2. /\ Cardinality(Succeeding) \in Nat /\ Cardinality(Succeeding') \in Nat
      /\ Cardinality(Looking) \in Nat /\ Cardinality(Looking') \in Nat
      /\ Cardinality(Tasks) \in Nat
  <2>1. CASE Tasks = {}
    BY <1>1, <2>1, FS_EmptySet
  <2>2. CASE Tasks # {}
    BY <1>1, <2>2, OneTaskMoves
  <2>3. QED
    BY <2>1, <2>2
\* Whether another task would find its source new.
<1>3. ASSUME NEW u \in Tasks, task'[u] = task[u], known \subseteq known'
      PROVE  u \in Looking' => u \in Looking
  BY <1>3 DEF Looking, Det!NewSource
\* Steps after which the same tasks are about to commit a success, and more
\* perhaps, and no further one would find its source new.
<1>4. ASSUME NEW t \in Tasks, UNCHANGED <<anomalies, known, aborts, irregular>>,
             \A u \in Tasks : u # t => task'[u] = task[u],
             t \in Succeeding => t \in Succeeding',
             t \in Looking' => t \in Looking,
             task'[t].pc \in {"recent", "source"} => task'[t].event = "succeeded"
      PROVE  SourcesCounted'
  <2>1. Succeeding \subseteq Succeeding' /\ Looking' \subseteq Looking
    <3>1. Succeeding \subseteq Succeeding'
      BY <1>4 DEF Succeeding
    <3>2. \A u \in Tasks : u \in Looking' => u \in Looking
      BY <1>3, <1>4
    <3>3. QED
      BY <1>1, <3>1, <3>2
  <2>2. /\ Cardinality(Succeeding) <= Cardinality(Succeeding')
        /\ Cardinality(Looking') <= Cardinality(Looking)
    BY <1>1, <2>1, OneTaskMoves
  <2>3. known' = {} => anomalies' <= Cardinality(Succeeding') + aborts'
    BY <1>0, <1>2, <1>4, <2>2 DEF SourcesCounted
  <2>4. known' # {} => anomalies' + Cardinality(Looking')
                         <= Cardinality(Tasks) + irregular' + aborts'
    BY <1>0, <1>2, <1>4, <2>2 DEF SourcesCounted
  <2>5. Told'
    BY <1>0, <1>4 DEF SourcesCounted
  <2>6. QED
    BY <2>3, <2>4, <2>5 DEF SourcesCounted
<1>5. ASSUME NEW t \in Tasks, Det!Arrive(t) PROVE SourcesCounted'
  <2>1. UNCHANGED <<anomalies, known, aborts>> /\ t \notin Succeeding /\ t \notin Looking
    BY <1>0, <1>5, ArriveSets DEF Det!Arrive, Succeeding, Looking
  <2>2. \A u \in Tasks : u # t => task'[u] = task[u]
    BY <1>0, <1>5, ArriveSets
  <2>3. CASE irregular' = irregular /\ t \notin Looking'
    BY <1>0, <1>4, <1>5, <2>1, <2>2, <2>3, ArriveSets
  <2>4. CASE t \in Looking'
    <3>1. /\ task'[t].event = "succeeded"
          /\ irregular' = IF known # {} THEN irregular + 1 ELSE irregular
      BY <1>0, <1>5, <2>1, <2>4, ArriveSets DEF Looking, Det!NewSource
    <3>2. Looking' \ {t} \subseteq Looking
      <4>1. \A u \in Tasks : u # t /\ u \in Looking' => u \in Looking
        BY <1>3, <2>1, <2>2
      <4>2. QED
        BY <1>1, <4>1
    <3>3. Cardinality(Looking') <= Cardinality(Looking) + 1
      <4>1. IsFiniteSet(Looking') /\ IsFiniteSet(Looking)
        BY <1>1, OneTaskMoves
      <4>2. Cardinality(Looking' \ {t}) = Cardinality(Looking') - 1
        BY <2>4, <4>1, FS_RemoveElement
      <4>3. Cardinality(Looking' \ {t}) <= Cardinality(Looking)
        BY <3>2, <4>1, FS_Subset
      <4>4. QED
        BY <1>2, <4>2, <4>3
    <3>4. Succeeding \subseteq Succeeding'
      BY <2>1, <2>2 DEF Succeeding
    <3>5. Cardinality(Succeeding) <= Cardinality(Succeeding')
      BY <1>1, <3>4, OneTaskMoves
    <3>6. known' = {} => anomalies' <= Cardinality(Succeeding') + aborts'
      BY <1>0, <1>2, <2>1, <3>5 DEF SourcesCounted
    <3>7. known' # {} => anomalies' + Cardinality(Looking')
                           <= Cardinality(Tasks) + irregular' + aborts'
      BY <1>0, <1>2, <2>1, <3>1, <3>3 DEF SourcesCounted
    <3>8. Told'
      BY <1>0, <2>2, <3>1 DEF SourcesCounted
    <3>9. QED
      BY <3>6, <3>7, <3>8 DEF SourcesCounted
  <2>5. CASE irregular' # irregular /\ t \notin Looking'
    BY <1>0, <1>5, <2>1, <2>5, ArriveSets DEF Looking, Det!NewSource
  <2>6. QED
    BY <2>3, <2>4, <2>5
<1>6. ASSUME NEW t \in Tasks,
             \/ Det!CheckCooldown(t) \/ Det!Count(t) \/ Det!ExpireWindow(t) \/ Det!Fire(t)
      PROVE  SourcesCounted'
  <2>1. PICK pc \in {"lookup", "count", "expire", "fire"} : Det!Goto(t, pc)
    BY <1>6 DEF Det!CheckCooldown, Det!Count, Det!ExpireWindow, Det!Fire, Det!AfterCount
  <2>2. UNCHANGED <<anomalies, known, aborts, irregular>> /\ t \notin Succeeding
    BY <1>6 DEF Det!CheckCooldown, Det!Count, Det!ExpireWindow, Det!Fire, Det!At, Succeeding,
                Det!history
  <2>3. t \notin Looking'
    BY <1>0, <2>1, GotoSets DEF Looking
  <2>4. QED
    BY <1>0, <1>4, <2>1, <2>2, <2>3, GotoSets
<1>7. ASSUME NEW t \in Tasks, Det!CheckFailures(t) PROVE SourcesCounted'
  <2>1. PICK pc \in {"source", "lookup"} : Det!Goto(t, pc)
    BY <1>7 DEF Det!CheckFailures
  <2>2. /\ UNCHANGED <<anomalies, known, aborts, irregular>> /\ t \notin Succeeding
        /\ task[t].pc = "recent" /\ task[t].event = "succeeded"
    BY <1>0, <1>7 DEF Det!CheckFailures, Det!At, Succeeding, SourcesCounted, Det!history
  <2>3. t \in Looking' => t \in Looking
    BY <1>0, <2>1, <2>2, GotoSets DEF Looking, Det!NewSource
  <2>4. QED
    BY <1>0, <1>4, <2>1, <2>2, <2>3, GotoSets
<1>8. ASSUME NEW t \in Tasks, Det!CheckSource(t) PROVE SourcesCounted'
  <2>1. Det!Goto(t, "lookup") /\ task[t].pc = "source" /\ task[t].event = "succeeded"
    BY <1>0, <1>8 DEF Det!CheckSource, Det!At, SourcesCounted
  <2>2. /\ \A u \in Tasks : u # t => task'[u] = task[u]
        /\ task'[t].pc = "lookup" /\ task'[t].event = "succeeded"
    BY <1>0, <2>1, GotoSets
  <2>3. /\ UNCHANGED <<known, aborts, irregular>>
        /\ anomalies' = IF Det!NewSource(t) THEN anomalies + 1 ELSE anomalies
    BY <1>8 DEF Det!CheckSource
  <2>4. CASE Det!NewSource(t)
    <3>1. t \in Succeeding' /\ t \notin Succeeding /\ Succeeding \subseteq Succeeding'
      BY <2>1, <2>2 DEF Succeeding
    <3>2. Cardinality(Succeeding) + 1 <= Cardinality(Succeeding')
      BY <1>1, <3>1, OneTaskMoves
    <3>3. t \in Looking /\ t \notin Looking'
      BY <2>1, <2>2, <2>4 DEF Looking
    <3>4. Looking' \subseteq Looking
      <4>1. \A u \in Tasks : u # t /\ u \in Looking' => u \in Looking
        BY <1>3, <2>2, <2>3
      <4>2. QED
        BY <1>1, <3>3, <4>1
    <3>5. Cardinality(Looking') + 1 <= Cardinality(Looking)
      BY <1>1, <3>3, <3>4, OneTaskMoves
    <3>6. known' = {} => anomalies' <= Cardinality(Succeeding') + aborts'
      BY <1>0, <1>2, <2>3, <2>4, <3>2 DEF SourcesCounted
    <3>7. known' # {} => anomalies' + Cardinality(Looking')
                           <= Cardinality(Tasks) + irregular' + aborts'
      BY <1>0, <1>2, <2>3, <2>4, <3>5 DEF SourcesCounted
    <3>8. Told'
      BY <1>0, <2>2 DEF SourcesCounted
    <3>9. QED
      BY <3>6, <3>7, <3>8 DEF SourcesCounted
  <2>5. CASE ~Det!NewSource(t)
    <3>1. anomalies' = anomalies /\ t \notin Succeeding /\ t \notin Looking'
      BY <2>1, <2>2, <2>3, <2>5 DEF Succeeding, Looking
    <3>2. QED
      BY <1>4, <2>2, <2>3, <3>1
  <2>6. QED
    BY <2>4, <2>5
<1>9. ASSUME NEW t \in Tasks, Det!LookUp(t) \/ Det!Query(t) \/ Det!Fill(t)
      PROVE  SourcesCounted'
  <2>1. UNCHANGED <<anomalies, known, aborts, irregular>>
    BY <1>9 DEF Det!LookUp, Det!Query, Det!Fill, Det!history
  <2>2. \/ \E pc \in {"query", "commit"} : Det!Goto(t, pc)
        \/ \E pc \in {"fill", "commit"} : \E values : Det!Continue(t, pc, values)
    BY <1>9 DEF Det!LookUp, Det!Query, Det!Fill
  <2>3. /\ \A u \in Tasks : u # t => task'[u] = task[u]
        /\ task'[t].pc \in {"query", "fill", "commit"} /\ task'[t].event = task[t].event
    BY <1>0, <2>2, GotoSets, ContinueSets
  <2>4. (t \in Succeeding => t \in Succeeding') /\ t \notin Looking'
    BY <2>3 DEF Succeeding, Looking
  <2>5. QED
    BY <1>4, <2>1, <2>3, <2>4
<1>10. ASSUME NEW t \in Tasks, Det!Conclude(t) PROVE SourcesCounted'
  <2>1. /\ \A u \in Tasks : u # t => task'[u] = task[u]
        /\ task'[t].pc = "idle" /\ task[t].pc = "commit"
        /\ UNCHANGED <<anomalies, aborts, irregular>>
        /\ known' = IF task[t].event = "succeeded" THEN known \cup {task[t].at} ELSE known
    BY <1>0, <1>10, ReleaseSets DEF Det!Conclude, Det!At, Det!history
  <2>2. t \notin Looking'
    BY <2>1 DEF Looking
  <2>3. CASE task[t].event # "succeeded"
    <3>1. t \notin Succeeding /\ known' = known
      BY <2>1, <2>3 DEF Succeeding
    <3>2. QED
      BY <1>4, <2>1, <2>2, <3>1
  <2>4. CASE task[t].event = "succeeded"
    <3>1. known' # {} /\ known \subseteq known'
      BY <2>1, <2>4
    <3>2. Looking' \subseteq Looking
      <4>1. \A u \in Tasks : u # t /\ u \in Looking' => u \in Looking
        BY <1>3, <2>1, <3>1
      <4>2. QED
        BY <1>1, <2>2, <4>1
    <3>3. Cardinality(Looking') <= Cardinality(Looking)
      BY <1>1, <3>2, OneTaskMoves
    <3>4. CASE known # {}
      <4>1. anomalies' + Cardinality(Looking') <= Cardinality(Tasks) + irregular' + aborts'
        BY <1>0, <1>2, <2>1, <3>3, <3>4 DEF SourcesCounted
      <4>2. Told'
        BY <1>0, <2>1 DEF SourcesCounted
      <4>3. QED
        BY <3>1, <4>1, <4>2 DEF SourcesCounted
    <3>5. CASE known = {}
      <4>1. Succeeding \cap Looking' = {} /\ Succeeding \cup Looking' \in SUBSET Tasks
        <5>1. \A u \in Tasks : u \in Looking' => task[u].pc \in {"recent", "source"}
          BY <2>1, <2>2 DEF Looking
        <5>2. QED
          BY <1>1, <5>1 DEF Succeeding
      <4>2. Cardinality(Succeeding) + Cardinality(Looking') <= Cardinality(Tasks)
        <5>1. IsFiniteSet(Succeeding) /\ IsFiniteSet(Looking')
          BY <1>1, OneTaskMoves
        <5>2. Cardinality(Succeeding \cup Looking')
                = Cardinality(Succeeding) + Cardinality(Looking') - Cardinality({})
          BY <4>1, <5>1, FS_Union
        <5>3. Cardinality(Succeeding \cup Looking') <= Cardinality(Tasks)
          BY <4>1, LoopAssumption, FS_Subset
        <5>4. QED
          BY <1>2, <5>2, <5>3, FS_EmptySet
      <4>3. anomalies' + Cardinality(Looking') <= Cardinality(Tasks) + irregular' + aborts'
        BY <1>0, <1>2, <2>1, <3>5, <4>2 DEF SourcesCounted
      <4>4. Told'
        BY <1>0, <2>1 DEF SourcesCounted
      <4>5. QED
        BY <3>1, <4>3, <4>4 DEF SourcesCounted
    <3>6. QED
      BY <3>4, <3>5
  <2>5. QED
    BY <2>3, <2>4
<1>11. ASSUME NEW t \in Tasks, Det!Abort(t) PROVE SourcesCounted'
  <2>1. /\ \A u \in Tasks : u # t => task'[u] = task[u]
        /\ task'[t].pc = "idle" /\ UNCHANGED <<anomalies, known, irregular>>
        /\ aborts' = IF task[t].event = "other" THEN aborts ELSE aborts + 1
    BY <1>0, <1>11, ReleaseSets DEF Det!Abort, Det!history
  <2>2. t \notin Looking'
    BY <2>1 DEF Looking
  <2>3. CASE task[t].event = "other"
    <3>1. t \notin Succeeding
      BY <2>3 DEF Succeeding
    <3>2. QED
      BY <1>4, <2>1, <2>2, <2>3, <3>1
  <2>4. CASE task[t].event # "other"
    <3>1. Succeeding \ {t} \subseteq Succeeding'
      BY <2>1 DEF Succeeding
    <3>2. Cardinality(Succeeding) <= Cardinality(Succeeding') + 1
      <4>1. IsFiniteSet(Succeeding) /\ IsFiniteSet(Succeeding')
        BY <1>1, OneTaskMoves
      <4>2. Cardinality(Succeeding \ {t}) >= Cardinality(Succeeding) - 1
        <5>1. CASE t \in Succeeding
          <6>1. Cardinality(Succeeding \ {t}) = Cardinality(Succeeding) - 1
            BY <4>1, <5>1, FS_RemoveElement
          <6>2. QED
            BY <1>2, <6>1
        <5>2. CASE t \notin Succeeding
          <6>1. Succeeding \ {t} = Succeeding
            BY <5>2
          <6>2. QED
            BY <1>2, <6>1
        <5>3. QED
          BY <5>1, <5>2
      <4>3. Cardinality(Succeeding \ {t}) <= Cardinality(Succeeding')
        BY <3>1, <4>1, FS_Subset
      <4>4. Cardinality(Succeeding \ {t}) \in Nat
        BY <4>1, FS_RemoveElement, FS_CardinalityType
      <4>5. QED
        BY <1>2, <4>2, <4>3, <4>4
    <3>3. Looking' \subseteq Looking
      <4>1. \A u \in Tasks : u # t /\ u \in Looking' => u \in Looking
        BY <1>3, <2>1
      <4>2. QED
        BY <1>1, <2>2, <4>1
    <3>4. Cardinality(Looking') <= Cardinality(Looking)
      BY <1>1, <3>3, OneTaskMoves
    <3>5. known' = {} => anomalies' <= Cardinality(Succeeding') + aborts'
      BY <1>0, <1>2, <2>1, <2>4, <3>2 DEF SourcesCounted
    <3>6. known' # {} => anomalies' + Cardinality(Looking')
                           <= Cardinality(Tasks) + irregular' + aborts'
      BY <1>0, <1>2, <2>1, <2>4, <3>4 DEF SourcesCounted
    <3>7. Told'
      BY <1>0, <2>1 DEF SourcesCounted
    <3>8. QED
      BY <3>5, <3>6, <3>7 DEF SourcesCounted
  <2>5. QED
    BY <2>3, <2>4
<1>12. CASE Det!DropCache \/ Det!DropWindow \/ Det!DropCooldown
  <2>1. UNCHANGED <<anomalies, known, aborts, irregular, task>>
    BY <1>12 DEF Det!DropCache, Det!DropWindow, Det!DropCooldown, Det!history
  <2>2. Succeeding' = Succeeding /\ Looking' = Looking
    BY <2>1 DEF Succeeding, Looking, Det!NewSource
  <2>3. QED
    BY <1>0, <2>1, <2>2 DEF SourcesCounted
<1>13. QED
  BY <1>5, <1>6, <1>7, <1>8, <1>9, <1>10, <1>11, <1>12 DEF Det!DetNext, Det!Detect

-----------------------------------------------------------------------------
(* The cached list. *)

\* The steps of the detectors and the cached list.
LEMMA CacheStep ==
  ASSUME LoopInv, Det!DetNext, UNCHANGED execVars, raced' = (raced \/ Races)
  PROVE  Fresh'
<1> SUFFICES ASSUME outages' = 0, ~raced'
             PROVE  /\ cache' = None \/ cache'.values = ActiveValues'
                    /\ \A r \in Requests : Rewrites(r)' => cache' = None
                    /\ \A t \in Tasks : task'[t].pc = "fill" => task'[t].values = ActiveValues'
  BY DEF Fresh
<1>0. Det!DetTypeOK
  BY DEF LoopInv
<1>1. outages = 0 /\ Det!Up /\ ~Det!Down
  BY <1>0, CallsCounted, OutagesOfDetect
<1>2. /\ cache = None \/ cache.values = ActiveValues
      /\ \A r \in Requests : Rewrites(r) => cache = None
      /\ \A t \in Tasks : task[t].pc = "fill" => task[t].values = ActiveValues
  BY <1>1 DEF LoopInv, Fresh
<1>3. ActiveValues' = ActiveValues /\ \A r \in Requests : Rewrites(r)' <=> Rewrites(r)
  BY DEF execVars, database, ActiveValues, Rewrites, Answered, Blocks, Kind
<1>4. (\E r \in Requests : Rewrites(r)) => cache' \in {None, cache}
  BY DEF Rewrites, Answered, Blocks, Races, Between
\* Steps after which no further task has a list to cache.
<1>5. ASSUME NEW t \in Tasks, cache' = cache, task'[t].pc # "fill",
             \A u \in Tasks : u # t => task'[u] = task[u]
      PROVE  Fresh'
  BY <1>2, <1>3, <1>5 DEF Fresh
<1>6. ASSUME NEW t \in Tasks, Det!Arrive(t) PROVE Fresh'
  BY <1>0, <1>5, <1>6, ArriveSets DEF Det!Arrive
<1>7. ASSUME NEW t \in Tasks,
             \/ Det!CheckCooldown(t) \/ Det!Count(t) \/ Det!ExpireWindow(t) \/ Det!Fire(t)
             \/ Det!CheckFailures(t) \/ Det!CheckSource(t)
      PROVE  Fresh'
  <2>1. PICK pc \in {"lookup", "count", "expire", "fire", "source"} : Det!Goto(t, pc)
    BY <1>7 DEF Det!CheckCooldown, Det!Count, Det!ExpireWindow, Det!Fire, Det!AfterCount,
                Det!CheckFailures, Det!CheckSource
  <2>2. cache' = cache
    BY <1>7 DEF Det!CheckCooldown, Det!Count, Det!ExpireWindow, Det!Fire,
                Det!CheckFailures, Det!CheckSource
  <2>3. /\ \A u \in Tasks : u # t => task'[u] = task[u]
        /\ task'[t].pc # "fill"
    BY <1>0, <2>1, GotoSets
  <2>4. QED
    BY <1>5, <2>2, <2>3
<1>8. ASSUME NEW t \in Tasks, Det!LookUp(t) \/ Det!Conclude(t) \/ Det!Abort(t) PROVE Fresh'
  <2>1. cache' = cache /\ (Det!Release(t) \/ \E pc \in {"query", "commit"} : Det!Goto(t, pc))
    BY <1>8 DEF Det!LookUp, Det!Conclude, Det!Abort
  <2>2. /\ \A u \in Tasks : u # t => task'[u] = task[u]
        /\ task'[t].pc # "fill"
    BY <1>0, <2>1, ReleaseSets, GotoSets
  <2>3. QED
    BY <1>5, <2>1, <2>2
<1>9. ASSUME NEW t \in Tasks, Det!Query(t) PROVE Fresh'
  <2>1. cache' = cache /\ (Det!Goto(t, "commit") \/ Det!Continue(t, "fill", ActiveValues))
    BY <1>9 DEF Det!Query
  <2>2. CASE Det!Goto(t, "commit")
    BY <1>0, <1>5, <2>1, <2>2, GotoSets
  <2>3. CASE Det!Continue(t, "fill", ActiveValues)
    <3>1. /\ \A u \in Tasks : u # t => task'[u] = task[u]
          /\ task'[t].values = ActiveValues
      BY <1>0, <2>3, ContinueSets
    <3>2. QED
      BY <1>2, <1>3, <2>1, <3>1 DEF Fresh
  <2>4. QED
    BY <2>1, <2>2, <2>3
<1>10. ASSUME NEW t \in Tasks, Det!Fill(t) PROVE Fresh'
  <2>1. cache' = Det!Filled(t) /\ Det!Continue(t, "commit", {}) /\ task[t].pc = "fill"
    BY <1>1, <1>10 DEF Det!Fill, Det!At
  <2>2. cache'.values = ActiveValues
    BY <1>2, <2>1 DEF Det!Filled
  <2>3. /\ \A u \in Tasks : u # t => task'[u] = task[u]
        /\ task'[t].pc = "commit"
    BY <1>0, <2>1, ContinueSets
  <2>4. \A r \in Requests : Rewrites(r) => cache' = None
    BY <1>2, <1>4
  <2>5. QED
    BY <1>2, <1>3, <2>2, <2>3, <2>4 DEF Fresh
<1>11. ASSUME Det!DropCache \/ Det!DropWindow \/ Det!DropCooldown PROVE Fresh'
  <2>1. task' = task /\ cache' \in {cache, None}
    BY <1>11 DEF Det!DropCache, Det!DropWindow, Det!DropCooldown
  <2>2. cache' = None \/ (cache' = cache /\ cache.values = ActiveValues)
    BY <1>2, <2>1
  <2>3. \A r \in Requests : Rewrites(r)' => cache' = None
    BY <1>2, <1>3, <2>1
  <2>4. QED
    BY <1>2, <1>3, <2>1, <2>2, <2>3 DEF Fresh
<1>12. Fresh'
  BY <1>6, <1>7, <1>8, <1>9, <1>10, <1>11 DEF Det!DetNext, Det!Detect
<1>13. QED
  BY <1>12 DEF Fresh

-----------------------------------------------------------------------------
(* Every step keeps the invariant. *)

\* Every step of the detectors keeps the invariant.
LEMMA DetectionStep ==
  ASSUME LoopInv, Detection(Det!DetNext)
  PROVE  LoopInv'
<1>1. Det!DetTypeOK /\ ExecInv /\ Det!DetNext /\ UNCHANGED execVars /\ raced' = (raced \/ Races)
  BY DEF LoopInv, Detection
<1>2. Det!DetTypeOK'
  BY <1>1, DetTypes
<1>3. outages' \in 0..MaxOutages
  BY <1>1, CallsCounted, OutagesOfDetect
<1>4. ExecInv'
  BY <1>1, <1>3, OthersStep
<1>5. BurstsCounted' /\ SourcesCounted'
  BY <1>1, BurstStep, SourceStep
<1>6. Fresh'
  BY <1>1, CacheStep
<1>7. QED
  BY <1>2, <1>4, <1>5, <1>6 DEF LoopInv

\* A step of the executor leaves the detectors as they are.
LEMMA ExecutorStep ==
  ASSUME LoopInv, Exec(ExecNext)
  PROVE  LoopInv'
<1>1. /\ ExecInv /\ Det!DetTypeOK /\ ExecNext /\ UNCHANGED detectorsOwn
      /\ raced' = (raced \/ Races)
  BY DEF LoopInv, Exec
<1>2. ExecInv'
  BY <1>1, ExecStep
<1>3. outages' \in 0..MaxOutages
  BY <1>2 DEF ExecInv, ExecTypeOK
<1>4. UNCHANGED <<task, window, cooldown, aborts, known, alarms, anomalies, irregular>>
  BY <1>1 DEF detectorsOwn
<1>5. Det!DetTypeOK'
  BY <1>1, <1>3, <1>4 DEF Det!DetTypeOK
<1>6. outages' = 0 => outages = 0
  BY <1>1, OutagesOfExec, ExecutorAssumption DEF ExecInv, ExecTypeOK
<1>8. BurstsCounted'
  <2>1. Bursting' = Bursting
    BY <1>4 DEF Bursting
  <2>2. outages \in Nat /\ outages' \in {outages, outages + 1} /\ alarms \in Nat
    BY <1>1, OutagesOfExec, ExecutorAssumption DEF ExecInv, ExecTypeOK, Det!DetTypeOK
  <2>3. Cardinality(Bursting) \in Nat /\ Cardinality(Tasks) \in Nat
    <3>1. Bursting \in SUBSET Tasks
      BY DEF Bursting
    <3>2. IsFiniteSet(Bursting)
      BY <3>1, LoopAssumption, FS_Subset
    <3>3. QED
      BY <3>2, LoopAssumption, FS_CardinalityType
  <2>4. QED
    BY <1>4, <2>1, <2>2, <2>3 DEF LoopInv, BurstsCounted
<1>9. SourcesCounted'
  <2>1. Succeeding' = Succeeding /\ Looking' = Looking
    BY <1>4 DEF Succeeding, Looking, Det!NewSource
  <2>2. QED
    BY <1>4, <2>1 DEF LoopInv, SourcesCounted
<1>10. Fresh'
  <2> SUFFICES ASSUME outages' = 0, ~raced'
               PROVE  /\ cache' = None \/ cache'.values = ActiveValues'
                      /\ \A r \in Requests : Rewrites(r)' => cache' = None
                      /\ \A t \in Tasks : task'[t].pc = "fill" => task'[t].values = ActiveValues'
    BY DEF Fresh
  <2>1. ~raced /\ ~Races /\ outages = 0 /\ outages' = outages
    BY <1>1, <1>6
  <2>2. SeenFromDetectors
    BY <1>1, <2>1, ExecSeen
  <2>3. /\ cache = None \/ cache.values = ActiveValues
        /\ \A r \in Requests : Rewrites(r) => cache = None
        /\ \A t \in Tasks : task[t].pc = "fill" => task[t].values = ActiveValues
    BY <2>1 DEF LoopInv, Fresh
  <2>4. cache' = None \/ cache'.values = ActiveValues'
    BY <2>2, <2>3 DEF SeenFromDetectors
  <2>5. \A r \in Requests : Rewrites(r)' => cache' = None
    BY <2>2, <2>3 DEF SeenFromDetectors
  <2>6. ASSUME NEW t \in Tasks, task'[t].pc = "fill" PROVE task'[t].values = ActiveValues'
    BY <1>4, <2>1, <2>3, <2>6 DEF Races, Det!At
  <2>7. QED
    BY <2>4, <2>5, <2>6
<1>11. QED
  BY <1>2, <1>5, <1>8, <1>9, <1>10 DEF LoopInv

\* Stuttering keeps the invariant.
LEMMA IdleStep == LoopInv /\ UNCHANGED vars => LoopInv'
<1> SUFFICES ASSUME LoopInv, UNCHANGED vars PROVE LoopInv'
  OBVIOUS
<1>1. /\ UNCHANGED execVars
      /\ UNCHANGED <<cache, outages, task, window, cooldown, aborts, known, alarms, anomalies,
                     irregular, raced>>
  BY DEF vars, detectorsOwn
<1>2. ExecInv'
  BY <1>1, OthersStep DEF LoopInv, ExecInv, ExecTypeOK
<1>3. Det!DetTypeOK'
  BY <1>1 DEF LoopInv, Det!DetTypeOK
<1>4. BurstsCounted' /\ SourcesCounted'
  BY <1>1 DEF LoopInv, BurstsCounted, Bursting, SourcesCounted, Succeeding, Looking,
              Det!NewSource
<1>5. ActiveValues' = ActiveValues /\ \A r \in Requests : Rewrites(r)' <=> Rewrites(r)
  BY <1>1 DEF execVars, database, ActiveValues, Rewrites, Answered, Blocks, Kind
<1>6. Fresh'
  BY <1>1, <1>5 DEF LoopInv, Fresh
<1>7. QED
  BY <1>2, <1>3, <1>4, <1>6 DEF LoopInv

\* At the start nothing is cached and nothing under way.
LEMMA LoopStart == Init => LoopInv
<1> SUFFICES ASSUME Init PROVE LoopInv
  OBVIOUS
<1>1. ExecInv
  BY ExecStart DEF Init
<1>2. /\ task = [t \in Tasks |-> Det!Free] /\ window = Det!NoWindow
      /\ cooldown = FALSE /\ outages = 0 /\ aborts = 0 /\ known = {}
      /\ alarms = 0 /\ anomalies = 0 /\ irregular = 0 /\ cache = None
  BY DEF Init, Det!DetInit
<1>3. /\ task = [t \in Tasks |-> task[t]]
      /\ \A t \in Tasks : /\ DOMAIN task[t] = DOMAIN Det!Free
                          /\ task[t].pc = "idle"
  BY <1>2 DEF Det!Free
<1>4. Det!DetTypeOK
  <2>1. 0 \in 0..MaxOutages /\ 0 \in 0..MaxCount /\ 0 \in 0..MaxAborts
    BY ExecutorAssumption, LoopAssumption
  <2>2. QED
    BY <1>2, <1>3, <2>1 DEF Det!DetTypeOK, Det!NoWindow
<1>6. BurstsCounted
  BY <1>2 DEF BurstsCounted
<1>7. Cardinality(Tasks) \in Nat /\ Succeeding = {}
  BY <1>3, LoopAssumption, FS_CardinalityType DEF Succeeding
<1>8. SourcesCounted
  BY <1>2, <1>3, <1>7, FS_EmptySet DEF SourcesCounted
<1>9. Fresh
  BY <1>2, <1>3 DEF Fresh
<1>10. QED
  BY <1>1, <1>4, <1>6, <1>8, <1>9 DEF LoopInv

-----------------------------------------------------------------------------
(* The theorems. *)

\* The invariant holds throughout: whatever requests and ingest tasks are under
\* way, each request knows what it undoes, and each task what it caches.
THEOREM InvCorrect == Spec => []LoopInv
<1>1. LoopInv /\ [Next]_vars => LoopInv'
  BY ExecutorStep, DetectionStep, IdleStep DEF Next
<1>2. QED
  BY LoopStart, <1>1, PTL DEF Spec

\* Every variable keeps its shape, and rows of a table do not share an id.
THEOREM TypeCorrect == Spec => []TypeOK
<1>1. LoopInv => TypeOK
  BY DEF LoopInv, ExecInv, TypeOK
<1>2. QED
  BY InvCorrect, <1>1, PTL

\* What execute_action and revert_action leave in the tables is what the status
\* of the action says: rows while executed, none once reverted.
THEOREM EffectsCorrect == Spec => []EffectsMatchStatus
<1>1. LoopInv => EffectsMatchStatus
  BY EffectsFollow DEF LoopInv
<1>2. QED
  BY InvCorrect, <1>1, PTL

\* action_logs and the status of an action tell one story.
THEOREM AuditCorrect == Spec => []AuditTellsStatus
<1>1. LoopInv => AuditTellsStatus
  BY AuditFollows DEF LoopInv
<1>2. QED
  BY InvCorrect, <1>1, PTL

\* dispatch_ar sends no command that neither a log row nor a rolled back request
\* accounts for.
THEOREM DispatchCorrect == Spec => []DispatchIsAudited
<1>1. LoopInv => DispatchIsAudited
  BY DispatchFollows DEF LoopInv
<1>2. QED
  BY InvCorrect, <1>1, PTL

\* recommend_for_incident suggests nothing that stands.
THEOREM RecommendationsCorrect == Spec => []WhatStandsIsNotRecommended
<1>1. LoopInv => WhatStandsIsNotRecommended
  BY RecommendationsFollow DEF LoopInv
<1>2. QED
  BY InvCorrect, <1>1, PTL

\* The list that blocked_observable_check reads is that of the committed rows.
THEOREM CacheCorrect == Spec => []CacheMatchesTable
<1>1. LoopInv => CacheMatchesTable
  BY DEF LoopInv, Fresh, CacheMatchesTable
<1>2. QED
  BY InvCorrect, <1>1, PTL

\* auth_failed_burst does not report a burst again in its cooldown, but for tasks
\* that were past the check together and calls of Redis that failed.
THEOREM AlarmsCorrect == Spec => []AlarmsNotRepeated
<1>1. LoopInv => AlarmsNotRepeated
  <2> SUFFICES ASSUME LoopInv PROVE alarms <= Cardinality(Tasks) + outages
    BY DEF AlarmsNotRepeated, Det!AlarmsNotRepeated, Det!Cardinality, Cardinality
  <2>1. Bursting \in SUBSET Tasks
    BY DEF Bursting
  <2>2. Cardinality(Bursting) \in Nat /\ Cardinality(Tasks) \in Nat
    <3>1. IsFiniteSet(Bursting)
      BY <2>1, LoopAssumption, FS_Subset
    <3>2. QED
      BY <3>1, LoopAssumption, FS_CardinalityType
  <2>3. /\ alarms \in Nat /\ outages \in Nat /\ cooldown \in BOOLEAN
        /\ cooldown => alarms + Cardinality(Bursting) <= Cardinality(Tasks) + outages
        /\ ~cooldown => alarms <= outages
    BY ExecutorAssumption DEF LoopInv, BurstsCounted, Det!DetTypeOK
  <2>4. QED
    BY <2>2, <2>3
<1>2. QED
  BY InvCorrect, <1>1, PTL

\* auth_anomalous_source_success does not report a source again that has
\* succeeded, but for tasks at work together, rolled back ingests and logins that
\* its lookback by occurred_at does not see.
THEOREM NewSourceCorrect == Spec => []NewSourceNotRepeated
<1>1. LoopInv => NewSourceNotRepeated
  <2> SUFFICES ASSUME LoopInv PROVE anomalies <= Cardinality(Tasks) + irregular + aborts
    BY DEF NewSourceNotRepeated, Det!NewSourceNotRepeated, Det!Cardinality, Cardinality
  <2>1. Looking \in SUBSET Tasks /\ Succeeding \in SUBSET Tasks
    BY DEF Looking, Succeeding
  <2>2. /\ Cardinality(Looking) \in Nat /\ Cardinality(Succeeding) \in Nat
        /\ Cardinality(Tasks) \in Nat /\ Cardinality(Succeeding) <= Cardinality(Tasks)
    <3>1. IsFiniteSet(Looking) /\ IsFiniteSet(Succeeding)
      BY <2>1, LoopAssumption, FS_Subset
    <3>2. QED
      BY <2>1, <3>1, LoopAssumption, FS_Subset, FS_CardinalityType
  <2>3. anomalies \in Nat /\ irregular \in Nat /\ aborts \in Nat /\ SourcesCounted
    BY LoopAssumption DEF LoopInv, Det!DetTypeOK
  <2>4. QED
    BY <2>2, <2>3 DEF SourcesCounted
<1>2. QED
  BY InvCorrect, <1>1, PTL

=============================================================================
