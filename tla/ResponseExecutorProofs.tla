------------------------ MODULE ResponseExecutorProofs ------------------------
(***************************************************************************)
(* What every step of ResponseExecutor keeps, for any actions and          *)
(* requests, any workload and any number of Redis errors.  The theorems    *)
(* about whole behaviours are in ResponseLoopProofs, which has the steps   *)
(* of the detectors too.                                                   *)
(***************************************************************************)
EXTENDS ResponseExecutor, FiniteSetTheorems, TLAPS

-----------------------------------------------------------------------------
(* The inductive invariant.  Where two requests have worked on one action,  *)
(* which overlapped tells, only the types are left.                         *)

Blocks(a) == Kind(a) = "block_observable"
Invalidates(a) == Kind(a) = "invalidate_lab_session"

Busy(r) == req[r].pc \in {"handle", "commit"}
Answered(r) == req[r].pc = "commit" /\ req[r].op \in {"execute", "revert"}

\* The blocked row that a request wrote for a, if it is there.
OwnRow(a, r) == r \in Requests /\ req[r].pc = "done" /\ \A b \in blocked : b.id = r => b.by = a

\* What an undo record of a can hold.
Undoable(a, undo) == /\ Blocks(a) => OwnRow(a, undo)
                     /\ Invalidates(a) => undo \in {0} \cup Requests
                     /\ Kind(a) = "flag_host_in_lab" => undo \subseteq Markers

\* What a row of a table says of the action that wrote it.  A row that a
\* request has yet to write has no namesake.
Rows ==
  /\ \A a \in Actions : /\ status[a] # None => work[a] # None
                        /\ IsFiniteSet(logs[a])
                        /\ \A l \in logs[a] : l.result = "ok" /\ l.undo # None =>
                                               Undoable(a, l.undo)
  /\ \A b \in blocked : Blocks(b.by) /\ req[b.id].pc = "done"
  /\ \A s \in sessions : s.by \in Actions => Invalidates(s.by)
  /\ \A e \in evidence : /\ Kind(e.by) \in {"request_evidence", "kill_process_lab"}
                         /\ e.by \in Actions /\ req[e.id].pc = "done"
  /\ \A a \in noted : Kind(a) = "quarantine_host_lab"

\* What a request under way has read and is about to write.
Asks(r) ==
  LET a == req[r].target IN
  CASE req[r].op = "execute" -> /\ a \in Actions /\ status[a] # None
                                /\ req[r].read = "proposed"
    [] req[r].op = "revert" ->
         /\ a \in Actions /\ status[a] # None
         /\ req[r].read = "executed" /\ req[r].undo # None
         /\ Classification[Kind(a)] = "reversible"
         /\ Undoable(a, req[r].undo)
         /\ a \notin overlapped => status[a] \in {"executed", "reverted"}
         /\ a \notin overlapped /\ status[a] = "executed" =>
              \E l \in logs[a] : l.undo = req[r].undo
    [] OTHER -> /\ req[r].op \in {"collect", "dismiss"}
                /\ req[r].pc = "commit" /\ req[r].read = "open"

\* What a handler can answer to r.
Fits(r, seen, result, undo) ==
  LET a == req[r].target IN
  /\ result \in Results
  /\ Blocks(a) \/ Invalidates(a) => result # "partial"
  /\ result = "partial" => Kind(a) \in Commanding
  /\ req[r].op = "execute" /\ result = "ok" =>
       /\ Blocks(a) => undo = r
       /\ Invalidates(a) => undo = seen /\ seen \in {0} \cup Requests
       /\ Kind(a) = "flag_host_in_lab" => undo \subseteq Markers
  /\ req[r].op = "revert" =>
       /\ undo = req[r].undo
       /\ Blocks(a) \/ Invalidates(a) => result = "ok"
       /\ Invalidates(a) => seen = undo
  /\ Kind(a) \in {"flag_host_in_lab", "quarantine_host_lab"} /\ result # "fail"
       => seen \subseteq Markers

\* A request whose handler has answered.
Answers(r) ==
  LET a == req[r].target IN
  /\ Fits(r, req[r].seen, req[r].result, req[r].undo)
  /\ req[r].op = "execute" /\ req[r].result = "ok" /\ Kind(a) \in Commanding /\ ArEnabled
       => delivered[a] > 0
  /\ req[r].op = "revert" /\ a \notin overlapped /\ status[a] = "executed"
       => \A l \in logs[a] : l.at < req[r].at

RequestsFit == \A r \in Requests : /\ Busy(r) => Asks(r)
                                   /\ Answered(r) => Answers(r)
                                   /\ req[r].pc = "handle" => req[r].op \in {"execute", "revert"}

ActiveBy(a) == {b \in blocked : b.by = a /\ b.active}

\* What is left of an action that has done nothing, or was undone.
NothingOf(a) == /\ ActiveBy(a) = {} /\ a \notin noted
                /\ \A s \in sessions : s.by # a
                /\ \A e \in evidence : e.by # a

\* What an action that counts as executed has done: the rows its log names.
DoneBy(a, l) == /\ Blocks(a) => \E b \in ActiveBy(a) : b.id = l.undo /\ ActiveBy(a) = {b}
                /\ \A s \in sessions : s.by = a => s.id = l.undo

\* The status of an action, its logs and its rows go together.
OneStory(a) ==
  CASE status[a] \in {None, "proposed"} -> logs[a] = {} /\ NothingOf(a)
    [] status[a] = "executed" -> \E l \in logs[a] : /\ logs[a] = {l} /\ l.result = "ok"
                                                    /\ DoneBy(a, l)
    [] status[a] = "partial" -> \E l \in logs[a] : /\ logs[a] = {l} /\ l.result = "partial"
                                                   /\ Kind(a) \in Commanding
    [] status[a] = "failed" -> \E l \in logs[a] : /\ logs[a] = {l} /\ l.result = "fail"
                                                  /\ NothingOf(a)
    [] OTHER -> \E l, m \in logs[a] : /\ logs[a] = {l, m} /\ l.at < m.at
                                      /\ l.result = "ok" /\ l.undo # None /\ m.undo = None
                                      /\ NothingOf(a)

Stories == \A a \in Actions \ overlapped : OneStory(a)

\* No command goes unrecorded.
Commands ==
  \A a \in Actions :
    /\ delivered[a] > 0 => \/ logs[a] # {} \/ a \in abandoned
                           \/ \E r \in Requests : req[r].pc = "commit" /\ req[r].target = a
                                                  /\ req[r].op = "execute"
    /\ delivered[a] > 0 => Kind(a) \in Commanding
    /\ ArEnabled /\ status[a] = "executed" /\ Kind(a) \in Commanding => delivered[a] > 0

EvidenceRows == \A e \in evidence : DOMAIN e = {"id", "by", "status", "collected", "dismissed"}
BlockedRows == \A b \in blocked : DOMAIN b = {"id", "by", "value", "active"}

ExecInv == /\ ExecTypeOK /\ Rows /\ RequestsFit /\ Stories /\ Commands /\ EvidenceRows
           /\ BlockedRows

-----------------------------------------------------------------------------
(* The latest of a finite set. *)

\* Of a finite set something comes last in any numbering: what does not come
\* before it is the smallest, by inclusion, of such sets.
LEMMA LastOf ==
  ASSUME NEW S, IsFiniteSet(S), S # {}, NEW f \in [S -> Nat]
  PROVE  \E x \in S : \A y \in S : f[y] <= f[x]
<1> DEFINE From(x) == {y \in S : f[x] <= f[y]}
           T == {From(x) : x \in S}
           R == StrictSubsetOrdering(S)
<1>1. \A x \in S : From(x) \in SUBSET S /\ x \in From(x)
  OBVIOUS
<1>2. T \subseteq FiniteSubsetsOf(S) /\ T # {}
  <2>1. \A x \in S : IsFiniteSet(From(x))
    <3> HIDE DEF From
    <3>1. QED
      BY <1>1, FS_Subset
  <2>2. \A x \in S : From(x) \in FiniteSubsetsOf(S)
    <3> HIDE DEF From
    <3>1. QED
      BY <1>1, <2>1 DEF FiniteSubsetsOf
  <2>3. PICK z \in S : TRUE
    OBVIOUS
  <2>4. From(z) \in T
    OBVIOUS
  <2>5. T \subseteq FiniteSubsetsOf(S)
    <3> HIDE DEF From
    <3>1. QED
      BY <2>2
  <2>6. QED
    BY <2>4, <2>5
<1>3. PICK U \in T : \A V \in T : <<V, U>> \notin R
  <2> HIDE DEF T, R
  <2>1. IsWellFoundedOn(R, FiniteSubsetsOf(S))
    BY FS_StrictSubsetOrderingWellFounded DEF R
  <2>2. QED
    BY <1>2, <2>1, WFMin
<1>4. PICK x \in S : U = From(x)
  OBVIOUS
<1>5. ASSUME NEW y \in S, f[x] < f[y] PROVE FALSE
  <2>1. From(y) \subseteq From(x) /\ From(y) # From(x)
    BY <1>5
  <2>2. <<From(y), From(x)>> \in R
    BY <1>1, <2>1 DEF StrictSubsetOrdering
  <2>3. QED
    BY <1>3, <1>4, <2>2
<1>6. QED
  BY <1>5

\* A finite set of numbers has a largest one.
LEMMA MaxOfNaturals ==
  ASSUME NEW S \in SUBSET Nat, S # {}, IsFiniteSet(S)
  PROVE  Max(S) \in S /\ \A y \in S : y <= Max(S)
<1> DEFINE f == [y \in S |-> y]
<1>1. f \in [S -> Nat]
  OBVIOUS
<1>2. PICK x \in S : \A y \in S : f[y] <= f[x]
  <2> HIDE DEF f
  <2>1. QED
    BY <1>1, LastOf
<1>3. \A y \in S : x >= y
  BY <1>2
<1>4. QED
  BY <1>3 DEF Max

\* A log row with the latest time is one of the rows.
LEMMA LatestOf ==
  ASSUME NEW L, IsFiniteSet(L), L # {}, \A l \in L : l.at \in Nat
  PROVE  Latest(L) \in L /\ \A m \in L : m.at <= Latest(L).at
<1> DEFINE f == [l \in L |-> l.at]
<1>1. f \in [L -> Nat]
  OBVIOUS
<1>2. PICK x \in L : \A y \in L : f[y] <= f[x]
  <2> HIDE DEF f
  <2>1. QED
    BY <1>1, LastOf
<1>3. \A y \in L : y.at <= x.at
  BY <1>2
<1>4. QED
  BY <1>3 DEF Latest

\* The requests are finitely many numbers.
LEMMA RequestsFinite == IsFiniteSet(Requests) /\ Requests \subseteq Nat
  BY ExecutorAssumption, FS_CardinalityType

\* The clock is past every row of the action.
LEMMA NowIsLater ==
  ASSUME ExecTypeOK, Rows, NEW a \in Actions
  PROVE  Now(a) \in Nat /\ \A l \in logs[a] : l.at < Now(a)
<1> DEFINE Q == {p \in Requests : req[p].target = a}
           A == {0} \cup {l.at : l \in logs[a]} \cup {req[q].at : q \in Q}
<1>1. \A l \in logs[a] : l.at \in Nat
  BY DEF ExecTypeOK
<1>2. \A q \in Requests : req[q].at \in Nat
  BY DEF ExecTypeOK
<1>3. \E n \in Nat : \A l \in logs[a] : l.at <= n
  <2>1. CASE logs[a] = {}
    BY <2>1
  <2>2. CASE logs[a] # {}
    BY <1>1, <2>2, LatestOf DEF Rows
  <2>3. QED
    BY <2>1, <2>2
<1>4. \E n \in Nat : \A q \in Requests : req[q].at <= n
  <2> DEFINE f == [q \in Requests |-> req[q].at]
  <2>1. f \in [Requests -> Nat]
    BY <1>2
  <2>2. CASE Requests = {}
    BY <2>2
  <2>3. CASE Requests # {}
    <3>1. PICK x \in Requests : \A y \in Requests : f[y] <= f[x]
      <4> HIDE DEF f
      <4>1. QED
        BY <2>1, <2>3, RequestsFinite, LastOf
    <3>2. QED
      BY <1>2, <3>1
  <2>4. QED
    BY <2>2, <2>3
<1>5. A \in SUBSET Nat /\ A # {}
  BY <1>1, <1>2
<1>6. \E n \in Nat : \A x \in A : x <= n
  <2>1. PICK m \in Nat : \A l \in logs[a] : l.at <= m
    BY <1>3
  <2>2. PICK n \in Nat : \A q \in Requests : req[q].at <= n
    BY <1>4
  <2>3. \A x \in A : x <= m + n
    BY <1>1, <1>2, <2>1, <2>2
  <2>4. QED
    BY <2>3
<1>7. IsFiniteSet(A)
  <2> HIDE DEF A
  <2>1. QED
    BY <1>5, <1>6, FS_BoundedSetOfNaturals
<1>8. Max(A) \in Nat /\ \A x \in A : x <= Max(A)
  <2> HIDE DEF A
  <2>1. QED
    BY <1>5, <1>7, MaxOfNaturals
<1>9. Now(a) = 1 + Max(A)
  BY DEF Now
<1>10. \A l \in logs[a] : l.at \in A
  OBVIOUS
<1>11. QED
  <2> HIDE DEF A
  <2>1. QED
    BY <1>1, <1>8, <1>9, <1>10

-----------------------------------------------------------------------------
(* The handlers. *)

\* A command is sent once, or nothing is.
Sends(r, result) ==
  \/ /\ UNCHANGED delivered
     /\ req[r].op = "execute" /\ Kind(req[r].target) \in Commanding /\ ArEnabled
          => result # "ok"
  \/ /\ delivered' = [delivered EXCEPT ![req[r].target] = @ + 1]
     /\ req[r].op = "execute" /\ Kind(req[r].target) \in Commanding

Handled(r, seen, result, undo) == /\ Answer(r, seen, result, undo)
                                  /\ Fits(r, seen, result, undo) /\ Sends(r, result)
                                  /\ outages' \in 0..MaxOutages

\* Deleting the list keeps the bound on errors.
LEMMA CacheKeepsBound ==
  ASSUME ExecTypeOK, CacheAlone \/ InvalidateCache
  PROVE  outages' \in 0..MaxOutages
  BY ExecutorAssumption DEF ExecTypeOK, CacheAlone, InvalidateCache

\* Whatever its kind, the handler of a request answers what Fits allows.
LEMMA HandlerFits ==
  ASSUME ExecInv, NEW r \in Requests, Handle(r)
  PROVE  /\ req[r].pc = "handle" /\ req[r].op \in {"execute", "revert"}
         /\ \E seen, result, undo : Handled(r, seen, result, undo)
<1> DEFINE a == req[r].target
<1>0. req[r].pc = "handle" /\ req[r].op \in {"execute", "revert"} /\ Asks(r)
  BY DEF Handle, ExecInv, RequestsFit, Busy, Executes, Reverts, ExecuteBlock, RevertBlock,
         ExecuteFlag, RevertFlag, ExecuteInvalidate, RevertInvalidate, ExecuteQuarantine,
         ExecuteKill, ExecuteTag, ExecuteElevate, ExecuteRequest
<1>1. CASE ExecuteBlock(r)
  <2>1. Handled(r, None, "fail", None) \/ Handled(r, None, "ok", r)
    BY <1>1, CacheKeepsBound
    DEF ExecInv, ExecuteBlock, Executes, Handled, Fits, Sends, NoCommand, Blocks, Invalidates,
        Results, Commanding
  <2>2. QED
    BY <1>0, <2>1
<1>2. CASE RevertBlock(r)
  <2>1. Handled(r, None, "ok", req[r].undo)
    BY <1>2, CacheKeepsBound
    DEF ExecInv, RevertBlock, Reverts, Handled, Fits, Sends, NoCommand, Blocks, Invalidates,
        Results, Commanding
  <2>2. QED
    BY <1>0, <2>1
<1>3. CASE ExecuteFlag(r)
  <2>1. Handled(r, None, "fail", None) \/ Handled(r, notes, "ok", notes)
    BY <1>3, CacheKeepsBound
    DEF ExecInv, ExecTypeOK, ExecuteFlag, Executes, Handled, Fits, Sends, NoCommand, Blocks,
        Invalidates, Results, Commanding
  <2>2. QED
    BY <1>0, <2>1
<1>4. CASE RevertFlag(r)
  <2>1. \E result : Handled(r, notes, result, req[r].undo)
    <3>1. Handled(r, notes, IF notes = None THEN "fail" ELSE "ok", req[r].undo)
      BY <1>4, CacheKeepsBound
      DEF ExecInv, ExecTypeOK, RevertFlag, Reverts, Handled, Fits, Sends, NoCommand, Blocks,
          Invalidates, Results, Commanding
    <3>2. QED
      BY <3>1
  <2>2. QED
    BY <1>0, <2>1
<1>5. CASE ExecuteInvalidate(r)
  <2> DEFINE live == {s.id : s \in {x \in sessions : x.by = None}}
             s == IF live = {} THEN r ELSE Max(live)
  <2>1. s \in {0} \cup Requests
    <3>1. live \subseteq {0} \cup Requests
      BY DEF ExecInv, ExecTypeOK
    <3>2. IsFiniteSet({0} \cup Requests) /\ {0} \cup Requests \subseteq Nat
      <4>1. IsFiniteSet(Requests \cup {0}) /\ {0} \cup Requests = Requests \cup {0}
        BY RequestsFinite, FS_AddElement
      <4>2. QED
        BY <4>1, RequestsFinite
    <3>3. live \in SUBSET Nat /\ IsFiniteSet(live)
      <4> HIDE DEF live
      <4>1. QED
        BY <3>1, <3>2, FS_Subset
    <3>4. live # {} => Max(live) \in live
      <4> HIDE DEF live
      <4>1. QED
        BY <3>3, MaxOfNaturals
    <3>5. QED
      BY <3>1, <3>4
  <2>2. Handled(r, None, "fail", None) \/ Handled(r, s, "ok", s)
    <3>1. /\ Executes(r, "invalidate_lab_session") /\ CacheAlone /\ UNCHANGED delivered
          /\ Answer(r, None, "fail", None) \/ Answer(r, s, "ok", s)
      BY <1>5 DEF ExecuteInvalidate, NoCommand
    <3> HIDE DEF s
    <3>2. QED
      BY <2>1, <3>1, CacheKeepsBound
      DEF ExecInv, Executes, Handled, Fits, Sends, Blocks, Invalidates, Results, Commanding
  <2> HIDE DEF s
  <2>3. QED
    BY <1>0, <2>2
<1>6. CASE RevertInvalidate(r)
  <2>1. Handled(r, req[r].undo, "ok", req[r].undo)
    BY <1>6, CacheKeepsBound
    DEF ExecInv, RevertInvalidate, Reverts, Handled, Fits, Sends, NoCommand, Blocks,
        Invalidates, Results, Commanding
  <2>2. QED
    BY <1>0, <2>1
<1>7. CASE ExecuteQuarantine(r) \/ ExecuteKill(r)
  <2>1. /\ req[r].op = "execute" /\ a \in Actions
        /\ Kind(a) \in {"quarantine_host_lab", "kill_process_lab"} /\ Command(r)
    BY <1>0, <1>7 DEF ExecuteQuarantine, ExecuteKill, Executes, Asks
  <2>2. CASE notes = None
    <3>1. Handled(r, None, "fail", None)
      BY <2>1, <2>2, CacheKeepsBound
      DEF ExecInv, Command, Handled, Fits, Sends, NoCommand, Blocks, Invalidates, Results,
          Commanding
    <3>2. QED
      BY <1>0, <3>1
  <2>3. CASE notes # None
    <3>1. notes \subseteq Markers
      BY <2>3 DEF ExecInv, ExecTypeOK
    <3>2. Handled(r, notes, "ok", r) \/ Handled(r, notes, "partial", r)
      BY <2>1, <2>3, <3>1, CacheKeepsBound
      DEF ExecInv, Command, Dispatch, Skip, Handled, Fits, Sends, NoCommand, Blocks,
          Invalidates, Results, Commanding
    <3>3. QED
      BY <1>0, <3>2
  <2>4. QED
    BY <2>2, <2>3
<1>8. CASE ExecuteTag(r) \/ ExecuteElevate(r) \/ ExecuteRequest(r)
  <2>1. ASSUME NEW seen, NEW undo, OnRecord(r, seen, undo), req[r].op = "execute",
               Kind(a) \in {"tag_incident", "elevate_severity", "request_evidence"}
        PROVE  Handled(r, seen, "ok", undo)
    BY <2>1, CacheKeepsBound
    DEF ExecInv, OnRecord, Handled, Fits, Sends, NoCommand, Blocks, Invalidates, Results,
        Commanding
  <2>2. CASE ExecuteTag(r)
    BY <1>0, <2>1, <2>2 DEF ExecuteTag, Executes
  <2>3. CASE ExecuteElevate(r)
    BY <1>0, <2>1, <2>3 DEF ExecuteElevate, Executes
  <2>4. CASE ExecuteRequest(r)
    BY <1>0, <2>1, <2>4 DEF ExecuteRequest, Executes
  <2>5. QED
    BY <1>8, <2>2, <2>3, <2>4
<1>9. QED
  BY <1>1, <1>2, <1>3, <1>4, <1>5, <1>6, <1>7, <1>8 DEF Handle

-----------------------------------------------------------------------------
(* The requests. *)

\* What a request has when it starts.
LEMMA TakeSets ==
  ASSUME ExecTypeOK, NEW r \in Requests, NEW op, NEW target, NEW read, NEW undo,
         Take(r, op, target, read, undo)
  PROVE  /\ req' = [q \in Requests |-> req'[q]]
         /\ \A q \in Requests : DOMAIN req'[q] = DOMAIN Idle
         /\ \A q \in Requests : q # r => req'[q] = req[q]
         /\ req'[r].pc = IF op \in {"execute", "revert"} THEN "handle" ELSE "commit"
         /\ req'[r].op = op /\ req'[r].target = target /\ req'[r].read = read
         /\ req'[r].undo = undo /\ req'[r].at = 0
  BY DEF ExecTypeOK, Take, Idle

\* What a request has when its handler has answered.
LEMMA AnswerSets ==
  ASSUME ExecTypeOK, NEW r \in Requests, NEW seen, NEW result, NEW undo,
         Answer(r, seen, result, undo)
  PROVE  /\ req' = [q \in Requests |-> req'[q]]
         /\ \A q \in Requests : DOMAIN req'[q] = DOMAIN Idle
         /\ \A q \in Requests : q # r => req'[q] = req[q]
         /\ req'[r].pc = "commit" /\ req'[r].at = Now(req[r].target)
         /\ req'[r].op = req[r].op /\ req'[r].target = req[r].target
         /\ req'[r].read = req[r].read
         /\ req'[r].seen = seen /\ req'[r].result = result /\ req'[r].undo = undo
  BY DEF ExecTypeOK, Answer, Idle

\* What a request has when it is through.
LEMMA FinishSets ==
  ASSUME ExecTypeOK, NEW r \in Requests, Finish(r)
  PROVE  /\ req' = [q \in Requests |-> req'[q]]
         /\ \A q \in Requests : DOMAIN req'[q] = DOMAIN Idle
         /\ \A q \in Requests : q # r => req'[q] = req[q]
         /\ req'[r].pc = "done" /\ req'[r].at = 0
  BY DEF ExecTypeOK, Finish, Idle

\* A kind is one of the table of the policy.
LEMMA KindsOfPolicy ==
  ASSUME ExecTypeOK, NEW a \in Actions, work[a] # None
  PROVE  Kind(a) \in DOMAIN Classification
  BY ExecutorAssumption DEF ExecTypeOK, Kind

\* A reversible action is none of those that note, ask for evidence or command.
LEMMA ReversibleKinds ==
  ASSUME ExecTypeOK, NEW a \in Actions, work[a] # None,
         Classification[Kind(a)] = "reversible"
  PROVE  Kind(a) \in {"flag_host_in_lab", "invalidate_lab_session", "block_observable"}
  BY KindsOfPolicy DEF Classification

\* A request that commits has an answer.
LEMMA Committing ==
  ASSUME ExecInv, NEW r \in Requests, Commit(r)
  PROVE  /\ req[r].pc = "commit" /\ req[r].op \in {"execute", "revert"}
         /\ Asks(r) /\ Answers(r)
         /\ req[r].target \in Actions /\ work[req[r].target] # None
         /\ Kind(req[r].target) \in DOMAIN Classification
  BY KindsOfPolicy DEF ExecInv, Commit, RequestsFit, Busy, Answered, Asks, Rows

-----------------------------------------------------------------------------
(* What every step but the commits leaves alone. *)

\* The tables are as they were, but for what became of evidence requests.
Tables == <<work, logs, blocked, sessions, noted>>
SameEvidence == \A e \in evidence' : \E d \in evidence : d.id = e.id /\ d.by = e.by

\* No action but a new one changes its status.
SameStatus == \A a \in Actions : \/ status'[a] = status[a]
                                 \/ status[a] = None /\ work[a] # None /\ status'[a] = "proposed"

DoneStays == \A q \in Requests : req[q].pc = "done" => req'[q].pc = "done"

\* Rows stay what they are when a step adds none.
LEMMA RowsKept ==
  ASSUME ExecTypeOK, Rows, UNCHANGED Tables, SameEvidence, SameStatus, DoneStays
  PROVE  Rows'
<1>1. \A a \in Actions : \A u : Undoable(a, u) => Undoable(a, u)'
  BY DEF Undoable, OwnRow, Tables, Blocks, Invalidates, Kind, DoneStays
<1>2. \A a \in Actions : status'[a] # None => work'[a] # None
  BY DEF Rows, Tables, SameStatus
<1>3. \A e \in evidence' : /\ Kind(e.by)' \in {"request_evidence", "kill_process_lab"}
                           /\ e.by \in Actions /\ req'[e.id].pc = "done"
  BY DEF ExecTypeOK, Rows, SameEvidence, Tables, Kind, DoneStays
<1>4. \A b \in blocked' : Blocks(b.by)' /\ req'[b.id].pc = "done"
  BY DEF ExecTypeOK, Rows, Tables, Blocks, Kind, DoneStays
<1>5. QED
  BY <1>1, <1>2, <1>3, <1>4 DEF Rows, Tables, Invalidates, Kind

\* What a request has read stays true when its action is left alone.
LEMMA AsksKept ==
  ASSUME ExecTypeOK, NEW q \in Requests, Asks(q), UNCHANGED Tables,
         overlapped \subseteq overlapped', req'[q] = req[q], SameStatus, DoneStays
  PROVE  Asks(q)'
<1>1. \A a \in Actions : \A u : Undoable(a, u) => Undoable(a, u)'
  BY DEF Undoable, OwnRow, Tables, Blocks, Invalidates, Kind, DoneStays
<1>2. QED
  BY <1>1 DEF Asks, Tables, Kind, SameStatus

\* So does what its handler has answered.
LEMMA AnswersKept ==
  ASSUME ExecTypeOK, NEW q \in Requests, Answered(q), Asks(q), Answers(q), UNCHANGED Tables,
         overlapped \subseteq overlapped', req'[q] = req[q], SameStatus,
         \A a \in Actions : delivered[a] > 0 => delivered'[a] > 0
  PROVE  Answers(q)'
<1>1. req[q].target \in Actions /\ status[req[q].target] # None
  BY DEF Answered, Asks
<1>2. Fits(q, req[q].seen, req[q].result, req[q].undo)'
  BY DEF Answers, Fits, Tables, Blocks, Invalidates, Kind
<1>3. QED
  BY <1>1, <1>2 DEF Answers, Tables, Kind, SameStatus

\* So does what the rows of an action tell.
LEMMA StoriesKept ==
  ASSUME Stories, UNCHANGED Tables, SameEvidence, overlapped \subseteq overlapped', SameStatus
  PROVE  Stories'
<1> SUFFICES ASSUME NEW a \in Actions \ overlapped PROVE OneStory(a)'
  BY DEF Stories
<1>1. OneStory(a)
  BY DEF Stories
<1>2. NothingOf(a) => NothingOf(a)'
  BY DEF NothingOf, ActiveBy, Tables, SameEvidence
<1>3. \A l : DoneBy(a, l) => DoneBy(a, l)'
  BY DEF DoneBy, ActiveBy, Tables, Blocks, Kind
<1>4. Kind(a)' = Kind(a) /\ logs'[a] = logs[a]
  BY DEF Tables, Kind
<1>5. CASE status'[a] = status[a]
  BY <1>1, <1>2, <1>3, <1>4, <1>5 DEF OneStory
<1>6. CASE status[a] = None /\ status'[a] = "proposed"
  BY <1>1, <1>2, <1>4, <1>6, ExecutorAssumption DEF OneStory, Statuses
<1>7. QED
  BY <1>5, <1>6 DEF SameStatus

\* Together, for a step of one request or of none.
LEMMA LightStep ==
  ASSUME ExecInv, ExecTypeOK', UNCHANGED Tables, SameEvidence, SameStatus, DoneStays,
         overlapped \subseteq overlapped',
         \A a \in Actions : delivered[a] > 0 => delivered'[a] > 0,
         \A q \in Requests : \/ req'[q] = req[q]
                             \/ /\ Busy(q)' => Asks(q)'
                                /\ Answered(q)' => Answers(q)'
                                /\ req'[q].pc = "handle" => req'[q].op \in {"execute", "revert"},
         Commands', EvidenceRows'
  PROVE  ExecInv'
<1>1. Rows' /\ Stories' /\ BlockedRows'
  BY RowsKept, StoriesKept DEF ExecInv, BlockedRows, Tables
<1>2. ASSUME NEW q \in Requests
      PROVE  /\ Busy(q)' => Asks(q)'
             /\ Answered(q)' => Answers(q)'
             /\ req'[q].pc = "handle" => req'[q].op \in {"execute", "revert"}
  <2>1. CASE req'[q] = req[q]
    <3>1. /\ Busy(q) => Asks(q)
          /\ Answered(q) => Answers(q)
          /\ req[q].pc = "handle" => req[q].op \in {"execute", "revert"}
      BY DEF ExecInv, RequestsFit
    <3>2. (Busy(q)' <=> Busy(q)) /\ (Answered(q)' <=> Answered(q)) /\ (Answered(q) => Busy(q))
      BY <2>1 DEF Busy, Answered
    <3>3. ExecTypeOK
      BY DEF ExecInv
    <3>4. QED
      BY <2>1, <3>1, <3>2, <3>3, AsksKept, AnswersKept
  <2>2. QED
    BY <2>1
<1>3. RequestsFit'
  BY <1>2 DEF RequestsFit
<1>4. QED
  BY <1>1, <1>3 DEF ExecInv

-----------------------------------------------------------------------------
(* The steps but the commits. *)

\* So does what became of an evidence request.
LEMMA EvidenceKept == ExecInv /\ UNCHANGED evidence => SameEvidence /\ EvidenceRows'
  BY DEF ExecInv, SameEvidence, EvidenceRows

\* An action is proposed: it has no rows yet.
LEMMA ProposeStep ==
  ASSUME ExecInv, NEW a \in Actions, Propose(a)
  PROVE  ExecInv'
<1>1. ExecTypeOK'
  BY DEF ExecInv, ExecTypeOK, Propose, UniqueIds, Statuses
<1>2. SameStatus
  BY DEF ExecInv, ExecTypeOK, Propose, SameStatus
<1>3. UNCHANGED Tables /\ UNCHANGED <<evidence, overlapped, req, delivered, abandoned>>
  BY DEF Propose, Tables
<1>4. Commands'
  BY <1>2, <1>3 DEF ExecInv, Commands, SameStatus, Tables, Kind
<1>5. QED
  BY <1>1, <1>2, <1>3, <1>4, EvidenceKept, LightStep DEF DoneStays

\* A step outside of the requests: of the registration of the host, or of others.
LEMMA OutsideStep ==
  ASSUME ExecInv, ExecTypeOK',
         UNCHANGED <<work, status, logs, blocked, sessions, evidence, noted, req, delivered,
                     abandoned, overlapped>>
  PROVE  ExecInv'
<1>1. UNCHANGED Tables /\ SameStatus
  BY DEF Tables, SameStatus
<1>2. Commands'
  BY DEF ExecInv, Commands, Kind
<1>3. QED
  BY <1>1, <1>2, EvidenceKept, LightStep DEF DoneStays

\* The lab host comes, the user comes and goes.
LEMMA RegisterStep ==
  ASSUME ExecInv, RegisterHost \/ RegisterUser
  PROVE  ExecInv'
<1>1. CASE RegisterHost
  <2>1. ExecTypeOK'
    BY <1>1 DEF ExecInv, ExecTypeOK, RegisterHost, ButTheHost, UniqueIds
  <2>2. QED
    BY <1>1, <2>1, OutsideStep DEF RegisterHost, ButTheHost
<1>2. CASE RegisterUser
  <2>1. ExecTypeOK'
    BY <1>2 DEF ExecInv, ExecTypeOK, RegisterUser, UniqueIds
  <2>2. QED
    BY <1>2, <2>1, OutsideStep DEF RegisterUser
<1>3. QED
  BY <1>1, <1>2

\* Steps of the detectors, which may meet an error of Redis.
LEMMA OthersStep ==
  ASSUME ExecInv, UNCHANGED execVars, outages' \in 0..MaxOutages
  PROVE  ExecInv'
<1>1. ExecTypeOK'
  BY DEF ExecInv, ExecTypeOK, execVars, database, UniqueIds
<1>2. QED
  BY <1>1, OutsideStep DEF execVars, database

\* What a request takes on.
LEMMA TakeStep ==
  ASSUME ExecInv, NEW r \in Requests, req[r].pc = "idle", NEW op, NEW target, NEW read,
         NEW undo, Take(r, op, target, read, undo),
         op \in {"execute", "revert", "collect", "dismiss"}, Asks(r)'
  PROVE  ExecInv'
<1>0. ExecTypeOK
  BY DEF ExecInv
<1>1. /\ req' = [q \in Requests |-> req'[q]]
      /\ \A q \in Requests : DOMAIN req'[q] = DOMAIN Idle
      /\ \A q \in Requests : q # r => req'[q] = req[q]
      /\ req'[r].pc = IF op \in {"execute", "revert"} THEN "handle" ELSE "commit"
      /\ req'[r].op = op /\ req'[r].at = 0
  BY <1>0, TakeSets
<1>2. UNCHANGED <<work, database, delivered, abandoned, overlapped, cache, outages>>
  BY DEF Take
<1>3. UNCHANGED Tables /\ SameStatus
  BY <1>2 DEF Tables, SameStatus, database
<1>4. \A q \in Requests : /\ req'[q].pc \in {"idle", "handle", "commit", "done"}
                          /\ req'[q].at \in Nat
  BY <1>0, <1>1 DEF ExecTypeOK
<1>5. ExecTypeOK'
  BY <1>0, <1>1, <1>2, <1>4 DEF ExecTypeOK, database, UniqueIds
<1>6. DoneStays
  BY <1>1 DEF DoneStays
<1>7. \A q \in Requests : req[q].pc = "commit" => req'[q] = req[q]
  BY <1>1
<1>8. Commands'
  BY <1>2, <1>7 DEF ExecInv, Commands, database, Kind
<1>9. Answered(r)' => Answers(r)'
  BY <1>1 DEF Answered
<1>10. EvidenceRows' /\ SameEvidence
  BY <1>2, EvidenceKept DEF database
<1>11. \A q \in Requests : \/ req'[q] = req[q]
                           \/ /\ Busy(q)' => Asks(q)'
                              /\ Answered(q)' => Answers(q)'
                              /\ req'[q].pc = "handle" => req'[q].op \in {"execute", "revert"}
  <2> SUFFICES ASSUME NEW q \in Requests, q = r
               PROVE  /\ Busy(q)' => Asks(q)'
                      /\ Answered(q)' => Answers(q)'
                      /\ req'[q].pc = "handle" => req'[q].op \in {"execute", "revert"}
    BY <1>1
  <2>1. QED
    BY <1>1, <1>9
<1>12. QED
  BY <1>2, <1>3, <1>5, <1>6, <1>8, <1>10, <1>11, LightStep

\* A request to execute has found the action proposed.
LEMMA BeginExecuteStep ==
  ASSUME ExecInv, NEW r \in Requests, BeginExecute(r)
  PROVE  ExecInv'
<1>0. ExecTypeOK
  BY DEF ExecInv
<1>1. PICK a \in Actions : Executable(a) /\ Take(r, "execute", a, status[a], None)
  BY DEF BeginExecute
<1>2. req[r].pc = "idle" /\ status[a] = "proposed"
  BY <1>1 DEF BeginExecute, NextUp, Executable
<1>3. req'[r].op = "execute" /\ req'[r].target = a /\ req'[r].read = "proposed"
  BY <1>0, <1>1, <1>2, TakeSets
<1>4. status' = status
  BY <1>1 DEF Take, database
<1>5. Asks(r)'
  BY <1>2, <1>3, <1>4, ExecutorAssumption DEF Asks, Statuses
<1>6. QED
  BY <1>1, <1>2, <1>5, TakeStep

\* A request to revert has found the action executed, and its log with an undo.
LEMMA BeginRevertStep ==
  ASSUME ExecInv, NEW r \in Requests, BeginRevert(r)
  PROVE  ExecInv'
<1>0. ExecTypeOK /\ Rows /\ Stories
  BY DEF ExecInv
<1>1. PICK a \in Actions :
        Reversible(a) /\ Take(r, "revert", a, status[a], Latest(OkLogs(a)).undo)
  BY DEF BeginRevert
<1>2. PICK undo : undo = Latest(OkLogs(a)).undo
  OBVIOUS
<1>3. /\ req[r].pc = "idle" /\ status[a] = "executed" /\ OkLogs(a) # {} /\ undo # None
      /\ Classification[Kind(a)] = "reversible" /\ Take(r, "revert", a, "executed", undo)
  BY <1>1, <1>2 DEF BeginRevert, NextUp, Reversible
<1>4. PICK l \in logs[a] : l = Latest(OkLogs(a)) /\ l.result = "ok" /\ l.undo = undo
  <2>1. OkLogs(a) \subseteq logs[a] /\ IsFiniteSet(OkLogs(a)) /\ \A l \in OkLogs(a) : l.at \in Nat
    BY <1>0, FS_Subset DEF OkLogs, Rows, ExecTypeOK
  <2>2. Latest(OkLogs(a)) \in OkLogs(a)
    BY <1>3, <2>1, LatestOf
  <2>3. QED
    BY <1>2, <2>1, <2>2 DEF OkLogs
<1>5. Undoable(a, undo)
  BY <1>0, <1>3, <1>4 DEF Rows
<1>6. /\ req'[r].op = "revert" /\ req'[r].target = a /\ req'[r].read = "executed"
      /\ req'[r].undo = undo
  BY <1>0, <1>3, TakeSets
<1>7. \A q \in Requests : req[q].pc = "done" => req'[q].pc = "done"
  BY <1>0, <1>3, TakeSets
<1>8. UNCHANGED <<work, database, overlapped>>
  BY <1>3 DEF Take
<1>9. Undoable(a, undo)'
  BY <1>5, <1>7, <1>8 DEF Undoable, OwnRow, database, Blocks, Invalidates, Kind
<1>10. Asks(r)'
  BY <1>3, <1>4, <1>6, <1>8, <1>9, ExecutorAssumption DEF Asks, database, Statuses, Kind
<1>11. QED
  BY <1>3, <1>10, TakeStep

\* A request to collect or dismiss has found the evidence request open.
LEMMA BeginSettleStep ==
  ASSUME ExecInv, NEW r \in Requests, BeginSettle(r)
  PROVE  ExecInv'
<1>0. ExecTypeOK
  BY DEF ExecInv
<1>1. PICK e \in evidence, op \in {"collect", "dismiss"} :
        Open(e) /\ Take(r, op, e.id, e.status, None)
  BY DEF BeginSettle
<1>2. req[r].pc = "idle" /\ e.status = "open"
  BY <1>1 DEF BeginSettle, NextUp, Open
<1>3. req'[r].op = op /\ req'[r].read = "open" /\ req'[r].pc = "commit"
  BY <1>0, <1>1, <1>2, TakeSets
<1>4. Asks(r)'
  BY <1>3 DEF Asks
<1>5. QED
  BY <1>1, <1>2, <1>4, TakeStep

\* A handler answers what fits its action.
LEMMA HandleStep ==
  ASSUME ExecInv, NEW r \in Requests, Handle(r)
  PROVE  ExecInv'
<1>0. ExecTypeOK /\ Rows /\ Asks(r) /\ Commands
  BY HandlerFits DEF ExecInv, RequestsFit, Busy
<1>1. /\ req[r].pc = "handle" /\ req[r].op \in {"execute", "revert"}
      /\ req[r].target \in Actions
  BY <1>0, HandlerFits DEF Asks
<1>2. PICK seen, result, undo : Handled(r, seen, result, undo)
  BY HandlerFits
<1>3. /\ req' = [q \in Requests |-> req'[q]]
      /\ \A q \in Requests : DOMAIN req'[q] = DOMAIN Idle
      /\ \A q \in Requests : q # r => req'[q] = req[q]
      /\ req'[r].pc = "commit" /\ req'[r].at = Now(req[r].target)
      /\ req'[r].op = req[r].op /\ req'[r].target = req[r].target
      /\ req'[r].read = req[r].read
      /\ req'[r].seen = seen /\ req'[r].result = result /\ req'[r].undo = undo
  BY <1>0, <1>2, AnswerSets DEF Handled
<1>4. UNCHANGED <<work, database, abandoned, overlapped>>
  BY <1>2 DEF Handled, Answer
<1>5. UNCHANGED Tables /\ SameStatus /\ SameEvidence /\ EvidenceRows'
  BY <1>4, EvidenceKept DEF Tables, SameStatus, database
<1>6. DoneStays
  BY <1>1, <1>3 DEF DoneStays
<1>7. PICK a \in Actions : a = req[r].target
  BY <1>1
<1>8. Now(a) \in Nat /\ \A l \in logs[a] : l.at < Now(a)
  BY <1>0, NowIsLater
<1>9. /\ delivered' \in [Actions -> Nat]
      /\ \A x \in Actions : delivered[x] > 0 => delivered'[x] > 0
      /\ \A x \in Actions : x # a => delivered'[x] = delivered[x]
      /\ delivered'[a] = delivered[a] \/ (req[r].op = "execute" /\ Kind(a) \in Commanding)
      /\ req[r].op = "execute" /\ Kind(a) \in Commanding /\ ArEnabled /\ result = "ok"
           => delivered'[a] > 0
  BY <1>0, <1>2, <1>7 DEF ExecTypeOK, Handled, Sends
<1>10. \A q \in Requests : /\ req'[q].pc \in {"idle", "handle", "commit", "done"}
                           /\ req'[q].at \in Nat
  BY <1>0, <1>3, <1>7, <1>8 DEF ExecTypeOK
<1>11. ExecTypeOK'
  <2>1. outages' \in 0..MaxOutages
    BY <1>2 DEF Handled
  <2>2. QED
    BY <1>0, <1>3, <1>4, <1>9, <1>10, <2>1 DEF ExecTypeOK, database, UniqueIds
<1>12. Asks(r)'
  <2>1. \A x \in Actions : \A u : Undoable(x, u) => Undoable(x, u)'
    BY <1>4, <1>6 DEF Undoable, OwnRow, database, Blocks, Invalidates, Kind, DoneStays
  <2>2. req[r].op = "revert" => undo = req[r].undo
    BY <1>2 DEF Handled, Fits
  <2>3. QED
    BY <1>0, <1>1, <1>3, <1>4, <2>1, <2>2 DEF Asks, database, Kind
<1>13. Answers(r)'
  <2>1. Fits(r, seen, result, undo)'
    BY <1>2, <1>3, <1>4 DEF Handled, Fits, Blocks, Invalidates, Kind
  <2>2. \A l \in logs'[a] : l.at < req'[r].at
    BY <1>3, <1>4, <1>7, <1>8 DEF database
  <2>3. QED
    BY <1>3, <1>4, <1>7, <1>9, <2>1, <2>2 DEF Answers, Kind
<1>14. Commands'
  <2>1. ASSUME NEW x \in Actions, delivered'[x] > 0
        PROVE  \/ logs'[x] # {} \/ x \in abandoned'
               \/ \E q \in Requests : req'[q].pc = "commit" /\ req'[q].target = x
                                      /\ req'[q].op = "execute"
    <3>1. CASE delivered[x] > 0
      <4>1. \A q \in Requests : req[q].pc = "commit" => req'[q] = req[q]
        BY <1>1, <1>3
      <4>2. QED
        BY <1>0, <1>4, <3>1, <4>1 DEF Commands, database
    <3>2. CASE ~(delivered[x] > 0)
      <4>1. x = a /\ req[r].op = "execute"
        BY <1>9, <2>1, <3>2
      <4>2. QED
        BY <1>3, <1>7, <4>1
    <3>3. QED
      BY <3>1, <3>2
  <2>2. ASSUME NEW x \in Actions, delivered'[x] > 0 PROVE Kind(x)' \in Commanding
    BY <1>0, <1>4, <1>9, <2>2 DEF Commands, Kind
  <2>3. ASSUME NEW x \in Actions, ArEnabled, status'[x] = "executed", Kind(x)' \in Commanding
        PROVE  delivered'[x] > 0
    BY <1>0, <1>4, <1>9, <2>3 DEF Commands, Kind, database
  <2>4. QED
    BY <2>1, <2>2, <2>3 DEF Commands
<1>15. \A q \in Requests : \/ req'[q] = req[q]
                           \/ /\ Busy(q)' => Asks(q)'
                              /\ Answered(q)' => Answers(q)'
                              /\ req'[q].pc = "handle" => req'[q].op \in {"execute", "revert"}
  <2> SUFFICES ASSUME NEW q \in Requests, q = r
               PROVE  /\ Busy(q)' => Asks(q)'
                      /\ Answered(q)' => Answers(q)'
                      /\ req'[q].pc = "handle" => req'[q].op \in {"execute", "revert"}
    BY <1>3
  <2>1. QED
    BY <1>3, <1>12, <1>13
<1>16. overlapped \subseteq overlapped'
  BY <1>4
<1>17. QED
  BY <1>5, <1>6, <1>9, <1>11, <1>14, <1>15, <1>16, LightStep

\* What requests have that are rolled back.
LEMMA RollBackSets ==
  ASSUME ExecTypeOK, NEW R \in SUBSET Requests, RollBack(R)
  PROVE  /\ req' = [q \in Requests |-> req'[q]]
         /\ \A q \in Requests : DOMAIN req'[q] = DOMAIN Idle
         /\ \A q \in Requests \ R : req'[q] = req[q]
         /\ \A q \in R : req'[q].pc = "done" /\ req'[q].at = 0
<1>1. /\ DOMAIN [Idle EXCEPT !.pc = "done"] = DOMAIN Idle
      /\ [Idle EXCEPT !.pc = "done"].pc = "done" /\ [Idle EXCEPT !.pc = "done"].at = 0
  BY DEF Idle
<1>2. QED
  BY <1>1 DEF ExecTypeOK, RollBack

\* Requests that end without having written anything to the tables.
LEMMA EndStep ==
  ASSUME ExecInv, ExecTypeOK', NEW R \in SUBSET Requests,
         \A q \in Requests \ R : req'[q] = req[q], \A q \in R : req'[q].pc = "done",
         UNCHANGED Tables, SameEvidence, UNCHANGED <<status, delivered>>,
         overlapped \subseteq overlapped', abandoned \subseteq abandoned', EvidenceRows',
         \A r \in R, a \in Actions : (/\ req[r].pc = "commit" /\ req[r].target = a
                                      /\ req[r].op = "execute" /\ Kind(a) \in Commanding)
                                       => a \in abandoned'
  PROVE  ExecInv'
<1>2. DoneStays /\ SameStatus
  BY DEF DoneStays, SameStatus
<1>3. Commands'
  <2>1. ASSUME NEW x \in Actions, delivered'[x] > 0
        PROVE  \/ logs'[x] # {} \/ x \in abandoned'
               \/ \E q \in Requests : req'[q].pc = "commit" /\ req'[q].target = x
                                      /\ req'[q].op = "execute"
    <3>1. Kind(x) \in Commanding
      BY <2>1 DEF ExecInv, Commands
    <3>2. CASE logs[x] # {} \/ x \in abandoned
      BY <3>2 DEF Tables
    <3>3. CASE \E q \in Requests : /\ req[q].pc = "commit" /\ req[q].target = x
                                   /\ req[q].op = "execute"
      BY <3>1, <3>3
    <3>4. QED
      BY <2>1, <3>2, <3>3 DEF ExecInv, Commands
  <2>2. QED
    BY <2>1 DEF ExecInv, Commands, Tables, Kind
<1>4. \A q \in Requests : \/ req'[q] = req[q]
                          \/ ~Busy(q)' /\ ~Answered(q)' /\ req'[q].pc # "handle"
  BY DEF Busy, Answered
<1>5. QED
  BY <1>2, <1>3, <1>4, LightStep

\* A request that is through keeps the types.
LEMMA FinishTypes ==
  ASSUME ExecTypeOK, NEW r \in Requests, Finish(r)
  PROVE  /\ req' = [q \in Requests |-> req'[q]]
         /\ \A q \in Requests : /\ DOMAIN req'[q] = DOMAIN Idle
                                /\ req'[q].pc \in {"idle", "handle", "commit", "done"}
                                /\ req'[q].at \in Nat
  BY FinishSets DEF ExecTypeOK

\* Requests that are rolled back leave no row.
LEMMA RollBackStep ==
  ASSUME ExecInv, NEW R \in SUBSET Requests, RollBack(R), notes' \in {None, {}} \cup {notes},
         UNCHANGED <<work, status, logs, enrolled, tags, severity, noted, blocked, sessions,
                     evidence, delivered, overlapped, outages>>
  PROVE  ExecInv'
<1>0. ExecTypeOK
  BY DEF ExecInv
<1>1. /\ req' = [q \in Requests |-> req'[q]]
      /\ \A q \in Requests : DOMAIN req'[q] = DOMAIN Idle
      /\ \A q \in Requests \ R : req'[q] = req[q]
      /\ \A q \in R : req'[q].pc = "done" /\ req'[q].at = 0
  BY <1>0, RollBackSets
<1>2. ExecTypeOK'
  <2>1. \A q \in Requests : /\ req'[q].pc \in {"idle", "handle", "commit", "done"}
                            /\ req'[q].at \in Nat
    BY <1>0, <1>1 DEF ExecTypeOK
  <2>2. notes' = None \/ notes' \subseteq Markers
    BY <1>0 DEF ExecTypeOK
  <2>3. QED
    BY <1>0, <1>1, <2>1, <2>2 DEF ExecTypeOK, UniqueIds
<1>3. \A r \in R, a \in Actions : (/\ req[r].pc = "commit" /\ req[r].target = a
                                   /\ Kind(a) \in Commanding) => a \in abandoned'
  BY DEF RollBack
<1>4. abandoned \subseteq abandoned'
  BY DEF RollBack
<1>5. UNCHANGED Tables
  BY DEF Tables
<1>6. SameEvidence /\ EvidenceRows'
  BY EvidenceKept
<1>7. \A r \in R, a \in Actions : (/\ req[r].pc = "commit" /\ req[r].target = a
                                   /\ req[r].op = "execute" /\ Kind(a) \in Commanding)
                                    => a \in abandoned'
  BY <1>3
<1>8. QED
  BY <1>1, <1>2, <1>4, <1>5, <1>6, <1>7, EndStep

\* One of them, or those that were to update a host that is gone.
LEMMA AbandonStep ==
  ASSUME ExecInv, (\E r \in Requests : Abandon(r)) \/ DeregisterHost
  PROVE  ExecInv'
<1>1. ASSUME NEW r \in Requests, Abandon(r) PROVE ExecInv'
  <2>1. {r} \in SUBSET Requests
    OBVIOUS
  <2>2. QED
    BY <1>1, <2>1, RollBackStep DEF Abandon, database, CacheAlone
<1>2. CASE DeregisterHost
  <2>1. Updating \in SUBSET Requests
    BY DEF Updating
  <2>2. QED
    BY <1>2, <2>1, RollBackStep DEF DeregisterHost, ButTheHost
<1>3. QED
  BY <1>1, <1>2

\* An evidence request is collected or dismissed.
LEMMA SettleStep ==
  ASSUME ExecInv, NEW r \in Requests, Settle(r)
  PROVE  ExecInv'
<1>0. ExecTypeOK /\ EvidenceRows
  BY DEF ExecInv
<1>1. /\ Finish(r) /\ Busy(r) /\ req[r].op \in {"collect", "dismiss"} /\ CacheAlone
      /\ UNCHANGED <<work, status, logs, notes, enrolled, tags, severity, noted, blocked,
                     sessions, delivered, abandoned, overlapped>>
  BY DEF Settle, Busy
<1>2. PICK e \in evidence :
       /\ e.id = req[r].target
       /\ evidence' = (evidence \ {e}) \cup
            {IF req[r].op = "collect"
               THEN [e EXCEPT !.status = "collected", !.collected = TRUE]
               ELSE [e EXCEPT !.status = "dismissed", !.dismissed = TRUE]}
  BY DEF Settle
<1>3. PICK f : f = IF req[r].op = "collect"
                     THEN [e EXCEPT !.status = "collected", !.collected = TRUE]
                     ELSE [e EXCEPT !.status = "dismissed", !.dismissed = TRUE]
  OBVIOUS
<1>4. evidence' = (evidence \ {e}) \cup {f}
  BY <1>2, <1>3
<1>5. /\ DOMAIN f = {"id", "by", "status", "collected", "dismissed"}
      /\ f.id = e.id /\ f.by = e.by /\ f.status \in {"collected", "dismissed"}
  <2>1. DOMAIN e = {"id", "by", "status", "collected", "dismissed"}
    BY <1>0 DEF EvidenceRows
  <2>2. CASE req[r].op = "collect"
    BY <1>0, <1>3, <2>1, <2>2 DEF EvidenceRows
  <2>3. CASE req[r].op # "collect"
    BY <1>0, <1>3, <2>1, <2>3 DEF EvidenceRows
  <2>4. QED
    BY <2>2, <2>3
<1>8. EvidenceRows'
  BY <1>0, <1>4, <1>5 DEF EvidenceRows
<1>9. SameEvidence
  BY <1>4, <1>5 DEF SameEvidence
<1>10. UniqueIds(evidence)'
  BY <1>0, <1>4, <1>5 DEF ExecTypeOK, UniqueIds
<1>11. \A d \in evidence' : d.id \in Requests /\ d.status \in {"open", "collected", "dismissed"}
  BY <1>0, <1>4, <1>5 DEF ExecTypeOK
<1>12. ExecTypeOK'
  BY <1>0, <1>1, <1>10, <1>11, FinishTypes DEF ExecTypeOK, UniqueIds, CacheAlone
<1>13. UNCHANGED Tables
  BY <1>1 DEF Tables
<1>14. UNCHANGED <<status, delivered, abandoned>> /\ req[r].op # "execute"
  BY <1>1
<1>15. /\ {r} \in SUBSET Requests /\ \A q \in Requests \ {r} : req'[q] = req[q]
       /\ \A q \in {r} : req'[q].pc = "done"
  BY <1>0, <1>1, FinishSets
<1>16. QED
  BY <1>1, <1>8, <1>9, <1>12, <1>13, <1>14, <1>15, EndStep

-----------------------------------------------------------------------------
(* The commit of an execution or a revert: what it writes. *)

\* The row that a blocking action adds.
NewRow(r) == [id |-> r, by |-> req[r].target, value |-> work[req[r].target].params[1],
              active |-> TRUE]

\* What a commit makes of the blocked rows.
LEMMA CommitBlocked ==
  ASSUME ExecInv, NEW r \in Requests, Commit(r)
  PROVE  \/ /\ Does(r, "block_observable")
            /\ blocked' = blocked \cup {NewRow(r)}
         \/ /\ Undoes(r, "block_observable")
            /\ blocked' = {IF b.id = req[r].undo THEN [b EXCEPT !.active = FALSE] ELSE b :
                             b \in blocked}
         \/ /\ ~Does(r, "block_observable") /\ ~Undoes(r, "block_observable")
            /\ blocked' = blocked
<1>1. ~(Does(r, "block_observable") /\ Undoes(r, "block_observable"))
  BY DEF Does, Undoes
<1>2. QED
  BY <1>1 DEF Commit, BlockedAfter, NewRow

\* A row keeps its id and the action it is by; only the reverted one is disabled.
LEMMA BlockedRowsAfter ==
  ASSUME ExecInv, NEW r \in Requests, Commit(r), NEW c \in blocked'
  PROVE  \/ Does(r, "block_observable") /\ c = NewRow(r)
         \/ c \in blocked
         \/ /\ Undoes(r, "block_observable")
            /\ \E b \in blocked : /\ b.id = req[r].undo /\ c.id = b.id /\ c.by = b.by
                                  /\ c.active = FALSE
                                  /\ DOMAIN c = {"id", "by", "value", "active"}
<1>1. CASE Does(r, "block_observable") /\ blocked' = blocked \cup {NewRow(r)}
  BY <1>1
<1>2. CASE Undoes(r, "block_observable") /\ blocked' =
             {IF b.id = req[r].undo THEN [b EXCEPT !.active = FALSE] ELSE b : b \in blocked}
  <2>1. PICK b \in blocked : c = IF b.id = req[r].undo THEN [b EXCEPT !.active = FALSE] ELSE b
    BY <1>2
  <2>2. CASE b.id = req[r].undo
    <3>1. DOMAIN b = {"id", "by", "value", "active"}
      BY DEF ExecInv, BlockedRows
    <3>2. c = [b EXCEPT !.active = FALSE]
      BY <2>1, <2>2
    <3>3. /\ c.id = b.id /\ c.by = b.by /\ c.active = FALSE
          /\ DOMAIN c = {"id", "by", "value", "active"}
      BY <3>1, <3>2
    <3>4. QED
      BY <1>2, <2>2, <3>3
  <2>3. CASE b.id # req[r].undo
    BY <2>1, <2>3
  <2>4. QED
    BY <2>2, <2>3
<1>3. CASE blocked' = blocked
  BY <1>3
<1>4. QED
  BY <1>1, <1>2, <1>3, CommitBlocked

\* The rows of an action that the request does not work on stay as they are.
LEMMA OthersRows ==
  ASSUME ExecInv, NEW r \in Requests, Commit(r), NEW a \in Actions, a # req[r].target
  PROVE  ActiveBy(a)' = ActiveBy(a)
<1>1. CASE Does(r, "block_observable") /\ blocked' = blocked \cup {NewRow(r)}
  BY <1>1 DEF ActiveBy, NewRow
<1>2. CASE Undoes(r, "block_observable") /\ blocked' =
             {IF b.id = req[r].undo THEN [b EXCEPT !.active = FALSE] ELSE b : b \in blocked}
  <2>1. \A b \in blocked : b.id = req[r].undo => b.by = req[r].target
    BY <1>2, Committing DEF Undoes, Asks, Undoable, OwnRow, Blocks
  <2>2. \A b \in blocked : b.by = a => b \in blocked'
    BY <1>2, <2>1
  <2>3. ASSUME NEW c \in blocked', c.by = a PROVE c \in blocked
    <3>1. PICK b \in blocked : c = IF b.id = req[r].undo THEN [b EXCEPT !.active = FALSE] ELSE b
      BY <1>2
    <3>2. CASE b.id = req[r].undo
      <4>1. DOMAIN b = {"id", "by", "value", "active"} /\ c = [b EXCEPT !.active = FALSE]
        BY <3>1, <3>2 DEF ExecInv, BlockedRows
      <4>2. c.by = b.by
        BY <4>1
      <4>3. QED
        BY <2>1, <2>3, <3>2, <4>2
    <3>3. CASE b.id # req[r].undo
      BY <3>1, <3>3
    <3>4. QED
      BY <3>2, <3>3
  <2>4. QED
    BY <2>2, <2>3 DEF ActiveBy
<1>3. CASE blocked' = blocked
  BY <1>3 DEF ActiveBy
<1>4. QED
  BY <1>1, <1>2, <1>3, CommitBlocked

\* The session that is written, if one is.
LEMMA SessionRowsAfter ==
  ASSUME ExecInv, NEW r \in Requests, Commit(r), NEW s \in sessions'
  PROVE  \/ /\ Does(r, "invalidate_lab_session")
            /\ s = [id |-> req[r].seen, by |-> req[r].target]
         \/ /\ Undoes(r, "invalidate_lab_session")
            /\ s = [id |-> req[r].seen, by |-> None]
         \/ /\ s \in sessions
            /\ (\/ Does(r, "invalidate_lab_session")
                \/ Undoes(r, "invalidate_lab_session")) => s.id # req[r].seen
  BY DEF Commit, SessionsAfter

\* What a commit makes of the evidence requests.
LEMMA EvidenceRowsAfter ==
  ASSUME ExecInv, NEW r \in Requests, Commit(r), NEW e \in evidence'
  PROVE  \/ e \in evidence
         \/ /\ Does(r, "request_evidence") \/ Does(r, "kill_process_lab")
            /\ e = [id |-> r, by |-> req[r].target, status |-> "open",
                    collected |-> FALSE, dismissed |-> FALSE]
  BY DEF Commit, EvidenceAfter

\* A commit sets the status of its action and of no other.
LEMMA CommitSets ==
  ASSUME ExecInv, NEW r \in Requests, Commit(r)
  PROVE  /\ Finish(r) /\ CacheAlone /\ UNCHANGED <<work, enrolled, delivered, abandoned>>
         /\ status' = [status EXCEPT ![req[r].target] = Outcome(r)]
         /\ logs' = [logs EXCEPT ![req[r].target] = @ \cup {LogRow(r)}]
         /\ overlapped' = IF status[req[r].target] = req[r].read THEN overlapped
                          ELSE overlapped \cup {req[r].target}
         /\ noted' = IF Does(r, "quarantine_host_lab") THEN noted \cup {req[r].target}
                                                       ELSE noted
  BY DEF Commit

\* The outcome of a request is a status.
LEMMA OutcomeIsStatus ==
  ASSUME ExecInv, NEW r \in Requests, Commit(r)
  PROVE  Outcome(r) \in Statuses
  BY Committing DEF Outcome, Answers, Fits, Results, Statuses

-----------------------------------------------------------------------------
(* The commit keeps the types. *)

\* What a commit makes of the notes.
LEMMA CommitNotes ==
  ASSUME ExecInv, NEW r \in Requests, Commit(r)
  PROVE  notes' = None \/ notes' \subseteq Markers
<1>1. CASE WritesNotes(r)
  <2>1. notes' = NotesAfter(r)
    BY <1>1 DEF Commit
  <2>2. CASE Does(r, "flag_host_in_lab")
    <3>1. req[r].seen \subseteq Markers
      BY <2>2, Committing DEF Does, Answers, Fits
    <3>2. NotesAfter(r) = req[r].seen \cup {"under-investigation"}
      BY <2>2 DEF NotesAfter, Does, Undoes
    <3>3. QED
      BY <2>1, <3>1, <3>2 DEF Markers
  <2>3. CASE Does(r, "quarantine_host_lab")
    <3>1. req[r].seen \subseteq Markers
      BY <2>3, Committing DEF Does, Answers, Fits
    <3>2. NotesAfter(r) = req[r].seen \cup {"quarantined"}
      BY <2>3 DEF NotesAfter, Does, Undoes
    <3>3. QED
      BY <2>1, <3>1, <3>2 DEF Markers
  <2>4. CASE Undoes(r, "flag_host_in_lab")
    <3>1. req[r].undo \subseteq Markers
      BY <2>4, Committing DEF Undoes, Asks, Undoable
    <3>2. NotesAfter(r) = req[r].undo
      BY <2>4 DEF NotesAfter, Does, Undoes
    <3>3. QED
      BY <2>1, <3>1, <3>2
  <2>5. QED
    BY <1>1, <2>2, <2>3, <2>4 DEF WritesNotes
<1>2. CASE ~WritesNotes(r)
  BY <1>2 DEF ExecInv, ExecTypeOK, Commit
<1>3. QED
  BY <1>1, <1>2

\* A commit keeps the types.
LEMMA CommitTypes ==
  ASSUME ExecInv, NEW r \in Requests, Commit(r)
  PROVE  ExecTypeOK' /\ BlockedRows' /\ EvidenceRows'
<1>0. ExecTypeOK
  BY DEF ExecInv
<1>1. PICK a \in Actions : a = req[r].target
  BY Committing
<1>2. status' \in [Actions -> Statuses \cup {None}]
  BY <1>0, <1>1, CommitSets, OutcomeIsStatus DEF ExecTypeOK
<1>3. /\ logs' = [x \in Actions |-> logs'[x]]
      /\ \A x \in Actions : \A l \in logs'[x] : l.at \in Nat /\ l.result \in Results
  <2>1. LogRow(r).at \in Nat /\ LogRow(r).result \in Results
    BY <1>0, Committing DEF LogRow, ExecTypeOK, Answers, Fits
  <2>2. logs' = [x \in Actions |-> IF x = a THEN logs[a] \cup {LogRow(r)} ELSE logs[x]]
    BY <1>0, <1>1, CommitSets DEF ExecTypeOK
  <2>3. QED
    BY <1>0, <2>1, <2>2 DEF ExecTypeOK
<1>4. UniqueIds(blocked)' /\ BlockedRows' /\ \A b \in blocked' :
         b.id \in Requests /\ b.by \in Actions /\ b.active \in BOOLEAN
  <2>0. req[r].pc = "commit" /\ \A b \in blocked : req[b.id].pc = "done"
    BY Committing DEF ExecInv, Rows
  <2>1. CASE Does(r, "block_observable") /\ blocked' = blocked \cup {NewRow(r)}
    <3>1. /\ NewRow(r).id = r /\ NewRow(r).by = a /\ NewRow(r).active = TRUE
          /\ DOMAIN NewRow(r) = {"id", "by", "value", "active"}
      BY <1>1 DEF NewRow
    <3>2. \A b \in blocked : b.id # r
      BY <2>0
    <3>3. QED
      BY <1>0, <2>1, <3>1, <3>2 DEF ExecInv, ExecTypeOK, UniqueIds, BlockedRows
  <2>2. CASE Undoes(r, "block_observable") /\ blocked' =
               {IF b.id = req[r].undo THEN [b EXCEPT !.active = FALSE] ELSE b : b \in blocked}
    <3>1. ASSUME NEW b \in blocked, NEW c,
                 c = IF b.id = req[r].undo THEN [b EXCEPT !.active = FALSE] ELSE b
          PROVE  /\ c.id = b.id /\ c.by = b.by /\ c.active \in BOOLEAN
                 /\ DOMAIN c = {"id", "by", "value", "active"}
      <4>1. DOMAIN b = {"id", "by", "value", "active"} /\ b.active \in BOOLEAN
        BY <1>0 DEF ExecInv, BlockedRows, ExecTypeOK
      <4>2. CASE b.id = req[r].undo
        BY <3>1, <4>1, <4>2
      <4>3. CASE b.id # req[r].undo
        BY <3>1, <4>1, <4>3
      <4>4. QED
        BY <4>2, <4>3
    <3>2. ASSUME NEW c \in blocked'
          PROVE  /\ \E b \in blocked : /\ c.id = b.id /\ c.by = b.by
                                       /\ c = IF b.id = req[r].undo
                                                THEN [b EXCEPT !.active = FALSE] ELSE b
                 /\ c.active \in BOOLEAN /\ DOMAIN c = {"id", "by", "value", "active"}
      <4>1. PICK b \in blocked :
              c = IF b.id = req[r].undo THEN [b EXCEPT !.active = FALSE] ELSE b
        BY <2>2
      <4>2. QED
        BY <3>1, <4>1
    <3>3. UniqueIds(blocked)'
      <4> SUFFICES ASSUME NEW c \in blocked', NEW d \in blocked', c.id = d.id PROVE c = d
        BY DEF UniqueIds
      <4>1. PICK b \in blocked : /\ c.id = b.id
                                 /\ c = IF b.id = req[r].undo
                                          THEN [b EXCEPT !.active = FALSE] ELSE b
        BY <3>2
      <4>2. PICK b2 \in blocked : /\ d.id = b2.id
                                  /\ d = IF b2.id = req[r].undo
                                           THEN [b2 EXCEPT !.active = FALSE] ELSE b2
        BY <3>2
      <4>3. b = b2
        BY <1>0, <4>1, <4>2 DEF ExecTypeOK, UniqueIds
      <4>4. QED
        BY <4>1, <4>2, <4>3
    <3>4. QED
      BY <1>0, <3>2, <3>3 DEF ExecTypeOK, BlockedRows
  <2>3. CASE blocked' = blocked
    BY <1>0, <2>3 DEF ExecInv, ExecTypeOK, BlockedRows, UniqueIds
  <2>4. QED
    BY <2>1, <2>2, <2>3, CommitBlocked
<1>5. UniqueIds(sessions)' /\ \A s \in sessions' :
         s.id \in {0} \cup Requests /\ s.by \in Actions \cup {None}
  <2>1. \A s \in sessions' : s.id \in {0} \cup Requests /\ s.by \in Actions \cup {None}
    <3> SUFFICES ASSUME NEW s \in sessions'
                 PROVE  s.id \in {0} \cup Requests /\ s.by \in Actions \cup {None}
      OBVIOUS
    <3>1. Does(r, "invalidate_lab_session") => req[r].seen \in {0} \cup Requests
      BY Committing DEF Does, Answers, Fits, Invalidates, Results
    <3>2. Undoes(r, "invalidate_lab_session") => req[r].seen \in {0} \cup Requests
      BY Committing DEF Undoes, Answers, Fits, Asks, Undoable, Invalidates
    <3>3. QED
      BY <1>0, <1>1, <3>1, <3>2, SessionRowsAfter DEF ExecTypeOK
  <2>2. UniqueIds(sessions)'
    <3> SUFFICES ASSUME NEW s \in sessions', NEW t \in sessions', s.id = t.id PROVE s = t
      BY DEF UniqueIds
    <3>1. ~(Does(r, "invalidate_lab_session") /\ Undoes(r, "invalidate_lab_session"))
      BY DEF Does, Undoes
    <3>2. QED
      BY <1>0, <3>1, SessionRowsAfter DEF ExecTypeOK, UniqueIds
  <2>3. QED
    BY <2>1, <2>2
<1>6. UniqueIds(evidence)' /\ EvidenceRows' /\ \A e \in evidence' :
         e.id \in Requests /\ e.status \in {"open", "collected", "dismissed"}
  <2>1. \A e \in evidence : e.id # r
    BY Committing DEF ExecInv, Rows
  <2>2. \A e \in evidence' :
          \/ e \in evidence
          \/ /\ e.id = r /\ e.status = "open" /\ e.collected = FALSE /\ e.dismissed = FALSE
             /\ DOMAIN e = {"id", "by", "status", "collected", "dismissed"}
             /\ e = [id |-> r, by |-> req[r].target, status |-> "open",
                     collected |-> FALSE, dismissed |-> FALSE]
    <3> SUFFICES ASSUME NEW e \in evidence',
                        e = [id |-> r, by |-> req[r].target, status |-> "open",
                             collected |-> FALSE, dismissed |-> FALSE]
                 PROVE  /\ e.id = r /\ e.status = "open"
                        /\ e.collected = FALSE /\ e.dismissed = FALSE
                        /\ DOMAIN e = {"id", "by", "status", "collected", "dismissed"}
      BY EvidenceRowsAfter
    <3>1. QED
      OBVIOUS
  <2>3. overlapped \subseteq overlapped'
    BY CommitSets
  <2>4. EvidenceRows'
    BY <2>2, <2>3 DEF ExecInv, EvidenceRows
  <2>5. UniqueIds(evidence)'
    BY <1>0, <2>1, <2>2 DEF ExecTypeOK, UniqueIds
  <2>6. \A e \in evidence' : e.id \in Requests /\ e.status \in {"open", "collected", "dismissed"}
    BY <1>0, <2>2 DEF ExecTypeOK
  <2>7. QED
    BY <2>4, <2>5, <2>6
<1>7. noted' \subseteq Actions
  BY <1>0, <1>1, CommitSets DEF ExecTypeOK
<1>8. Finish(r) /\ UNCHANGED <<work, enrolled, delivered, outages>>
  BY CommitSets DEF CacheAlone
<1>9. work' \in Workloads /\ enrolled' \in BOOLEAN /\ delivered' \in [Actions -> Nat] /\ outages' \in 0..MaxOutages
  BY <1>0, <1>8 DEF ExecTypeOK
<1>10. QED
  BY <1>0, <1>2, <1>3, <1>4, <1>5, <1>6, <1>7, <1>8, <1>9, CommitNotes, FinishTypes
  DEF ExecTypeOK

-----------------------------------------------------------------------------
(* The commit keeps the rest. *)

\* What an undo record names stays what it is through a commit.
LEMMA CommitOwnRows ==
  ASSUME ExecInv, NEW r \in Requests, Commit(r), NEW a \in Actions, NEW u, Undoable(a, u)
  PROVE  Undoable(a, u)'
<1>1. /\ \A q \in Requests : q # r => req'[q] = req[q]
      /\ req'[r].pc = "done" /\ req[r].pc = "commit" /\ UNCHANGED work
  BY FinishSets, CommitSets, Committing DEF ExecInv
<1>2. ASSUME OwnRow(a, u) PROVE OwnRow(a, u)'
  <2>1. u \in Requests /\ req[u].pc = "done" /\ u # r
    BY <1>1, <1>2 DEF OwnRow
  <2>2. ASSUME NEW c \in blocked', c.id = u PROVE c.by = a
    <3>1. CASE c = NewRow(r)
      BY <2>1, <2>2, <3>1 DEF NewRow
    <3>2. CASE c \in blocked
      BY <1>2, <2>2, <3>2 DEF OwnRow
    <3>3. CASE \E b \in blocked : c.id = b.id /\ c.by = b.by
      BY <1>2, <2>2, <3>3 DEF OwnRow
    <3>4. QED
      BY <3>1, <3>2, <3>3, BlockedRowsAfter
  <2>3. QED
    BY <1>1, <2>1, <2>2 DEF OwnRow
<1>3. QED
  BY <1>1, <1>2 DEF Undoable, Blocks, Invalidates, Kind

\* The rows a commit writes are of its action, under a fresh id.
LEMMA CommitRows ==
  ASSUME ExecInv, NEW r \in Requests, Commit(r)
  PROVE  Rows'
<1>0. ExecTypeOK /\ Rows
  BY DEF ExecInv
<1>1. PICK a \in Actions : a = req[r].target
  BY Committing
<1>2. /\ \A q \in Requests : q # r => req'[q] = req[q]
      /\ req'[r].pc = "done" /\ UNCHANGED work
      /\ \A q \in Requests : req[q].pc = "done" => req'[q].pc = "done"
  BY <1>0, FinishSets, CommitSets
<1>3. \A x \in Actions : /\ logs'[x] = IF x = a THEN logs[a] \cup {LogRow(r)} ELSE logs[x]
                         /\ status'[x] = IF x = a THEN Outcome(r) ELSE status[x]
  BY <1>0, <1>1, CommitSets DEF ExecTypeOK
<1>4. ASSUME NEW x \in Actions
      PROVE  /\ status'[x] # None => work'[x] # None
             /\ IsFiniteSet(logs'[x])
  <2>1. work[a] # None
    BY <1>1, Committing
  <2>2. IsFiniteSet(logs[a] \cup {LogRow(r)})
    BY <1>0, FS_AddElement DEF Rows
  <2>3. QED
    BY <1>0, <1>2, <1>3, <2>1, <2>2 DEF Rows
<1>5. ASSUME NEW x \in Actions, NEW l \in logs'[x], l.result = "ok", l.undo # None
      PROVE  Undoable(x, l.undo)'
  <2>1. CASE l \in logs[x]
    <3>1. Undoable(x, l.undo)
      BY <1>0, <1>5, <2>1 DEF Rows
    <3>2. QED
      BY <3>1, CommitOwnRows
  <2>2. CASE l \notin logs[x]
    <3>1. x = a /\ l = LogRow(r)
      BY <1>3, <1>5, <2>2
    <3>2. req[r].op = "execute" /\ req[r].result = "ok" /\ l.undo = req[r].undo
      BY <1>5, <3>1, Committing DEF LogRow
    <3>3. /\ Blocks(a) => req[r].undo = r
          /\ Invalidates(a) => req[r].undo \in {0} \cup Requests
          /\ Kind(a) = "flag_host_in_lab" => req[r].undo \subseteq Markers
      BY <1>1, <3>2, Committing DEF Answers, Fits
    <3>4. ASSUME Blocks(a) PROVE OwnRow(a, r)'
      <4>1. \A b \in blocked : b.id # r
        BY <1>0, Committing DEF Rows
      <4>2. ASSUME NEW c \in blocked', c.id = r PROVE c.by = a
        <5>1. CASE c = NewRow(r)
          BY <1>1, <5>1 DEF NewRow
        <5>2. CASE \E b \in blocked : c.id = b.id
          BY <4>1, <4>2, <5>2
        <5>3. QED
          BY <5>1, <5>2, BlockedRowsAfter
      <4>3. QED
        BY <1>2, <4>2 DEF OwnRow
    <3>5. QED
      BY <1>2, <3>1, <3>2, <3>3, <3>4 DEF Undoable, Blocks, Invalidates, Kind
  <2>3. QED
    BY <2>1, <2>2
<1>6. ASSUME NEW c \in blocked' PROVE Blocks(c.by)' /\ req'[c.id].pc = "done"
  <2>1. CASE Does(r, "block_observable") /\ c = NewRow(r)
    BY <1>2, <2>1 DEF NewRow, Does, Blocks, Kind
  <2>2. CASE \E b \in blocked : c.id = b.id /\ c.by = b.by
    BY <1>0, <1>2, <2>2 DEF Rows, ExecTypeOK, Blocks, Kind
  <2>3. QED
    BY <2>1, <2>2, BlockedRowsAfter
<1>7. ASSUME NEW s \in sessions', s.by \in Actions PROVE Invalidates(s.by)'
  <2>1. CASE Does(r, "invalidate_lab_session") /\ s = [id |-> req[r].seen, by |-> req[r].target]
    BY <1>2, <2>1 DEF Does, Invalidates, Kind
  <2>2. CASE s = [id |-> req[r].seen, by |-> None]
    BY <1>7, <2>2, ExecutorAssumption
  <2>3. CASE s \in sessions
    BY <1>0, <1>2, <1>7, <2>3 DEF Rows, Invalidates, Kind
  <2>4. QED
    BY <2>1, <2>2, <2>3, SessionRowsAfter
<1>8. ASSUME NEW e \in evidence'
      PROVE  /\ Kind(e.by)' \in {"request_evidence", "kill_process_lab"}
             /\ e.by \in Actions /\ req'[e.id].pc = "done"
  <2>1. CASE e \in evidence
    BY <1>0, <1>2, <2>1 DEF Rows, ExecTypeOK, Kind
  <2>2. CASE /\ Does(r, "request_evidence") \/ Does(r, "kill_process_lab")
             /\ e = [id |-> r, by |-> req[r].target, status |-> "open",
                     collected |-> FALSE, dismissed |-> FALSE]
    <3>1. e.id = r /\ e.by = a /\ Kind(a) \in {"request_evidence", "kill_process_lab"}
      BY <1>1, <2>2 DEF Does
    <3>2. QED
      BY <1>2, <3>1 DEF Kind
  <2>3. QED
    BY <2>1, <2>2, EvidenceRowsAfter
<1>9. ASSUME NEW x \in noted' PROVE Kind(x)' = "quarantine_host_lab"
  BY <1>0, <1>1, <1>2, <1>9, CommitSets DEF Rows, Does, Kind
<1>10. QED
  BY <1>4, <1>5, <1>6, <1>7, <1>8, <1>9 DEF Rows

\* Of two requests at work on one action the second to commit comes late.
LEMMA CommitRequests ==
  ASSUME ExecInv, NEW r \in Requests, Commit(r)
  PROVE  RequestsFit'
<1>0. ExecTypeOK /\ RequestsFit
  BY DEF ExecInv
<1>1. PICK a \in Actions : a = req[r].target
  BY Committing
<1>2. /\ \A q \in Requests : q # r => req'[q] = req[q]
      /\ req'[r].pc = "done" /\ UNCHANGED <<work, delivered>>
  BY <1>0, FinishSets, CommitSets
<1>3. \A x \in Actions : /\ logs'[x] = IF x = a THEN logs[a] \cup {LogRow(r)} ELSE logs[x]
                         /\ status'[x] = IF x = a THEN Outcome(r) ELSE status[x]
  BY <1>0, <1>1, CommitSets DEF ExecTypeOK
<1>4. Outcome(r) \in Statuses
  BY OutcomeIsStatus
<1>5. overlapped' = IF status[a] = req[r].read THEN overlapped ELSE overlapped \cup {a}
  BY <1>1, CommitSets
<1>6. ASSUME a \notin overlapped'
      PROVE  /\ a \notin overlapped
             /\ \/ status[a] = "proposed" /\ req[r].op = "execute"
                \/ status[a] = "executed" /\ req[r].op = "revert" /\ status'[a] = "reverted"
  <2>1. a \notin overlapped /\ status[a] = req[r].read
    BY <1>5, <1>6
  <2>2. CASE req[r].op = "execute"
    BY <2>1, <2>2, Committing DEF Asks
  <2>3. CASE req[r].op = "revert"
    BY <1>3, <2>1, <2>3, Committing DEF Asks, Outcome
  <2>4. QED
    BY <2>1, <2>2, <2>3, Committing
<1>7. overlapped \subseteq overlapped'
  BY <1>5
<1>8. ASSUME NEW q \in Requests, q # r, Busy(q)
      PROVE  Asks(q)' /\ (Answered(q) => Answers(q)')
  <2>1. Asks(q) /\ req'[q] = req[q]
    BY <1>0, <1>2, <1>8 DEF RequestsFit
  <2>2. CASE req[q].op = "execute"
    <3>1. Asks(q)'
      BY <1>3, <1>4, <2>1, <2>2, ExecutorAssumption DEF Asks, Statuses
    <3>2. Answered(q) => Answers(q)'
      <4>1. Answered(q) => Answers(q)
        BY <1>0 DEF RequestsFit
      <4>2. Answers(q) => Fits(q, req[q].seen, req[q].result, req[q].undo)'
        BY <1>2, <2>1 DEF Answers, Fits, Blocks, Invalidates, Kind
      <4>3. QED
        BY <1>2, <2>1, <2>2, <4>1, <4>2 DEF Answers, Kind
    <3>3. QED
      BY <3>1, <3>2
  <2>3. CASE req[q].op = "revert"
    <3>1. PICK x \in Actions : x = req[q].target
      BY <2>1, <2>3 DEF Asks
    <3>2. /\ status[x] # None /\ req[q].read = "executed" /\ req[q].undo # None
          /\ Classification[Kind(x)] = "reversible" /\ Undoable(x, req[q].undo)
          /\ x \notin overlapped => status[x] \in {"executed", "reverted"}
          /\ x \notin overlapped /\ status[x] = "executed" =>
               \E l \in logs[x] : l.undo = req[q].undo
      BY <2>1, <2>3, <3>1 DEF Asks
    <3>3. Undoable(x, req[q].undo)'
      <4>1. PICK u : u = req[q].undo
        OBVIOUS
      <4>2. Undoable(x, u)'
        BY <3>2, <4>1, CommitOwnRows
      <4>3. QED
        BY <2>1, <4>1, <4>2
    <3>4. /\ x \notin overlapped' => status'[x] \in {"executed", "reverted"}
          /\ x \notin overlapped' => (status'[x] = "executed" =>
                                        status[x] = "executed" /\ logs'[x] = logs[x])
      <4>1. CASE x = a
        BY <1>6, <3>2, <4>1
      <4>2. CASE x # a
        BY <1>3, <1>7, <3>2, <4>2
      <4>3. QED
        BY <4>1, <4>2
    <3>5. status'[x] # None
      BY <1>3, <1>4, <3>2, ExecutorAssumption DEF Statuses
    <3>6. Asks(q)'
      BY <1>2, <1>7, <2>1, <2>3, <3>1, <3>2, <3>3, <3>4, <3>5 DEF Asks, Kind
    <3>7. Answered(q) => Answers(q)'
      <4>1. Answered(q) => Answers(q)
        BY <1>0 DEF RequestsFit
      <4>2. Answers(q) => Fits(q, req[q].seen, req[q].result, req[q].undo)'
        BY <1>2, <2>1 DEF Answers, Fits, Blocks, Invalidates, Kind
      <4>3. QED
        BY <1>7, <2>1, <2>3, <3>1, <3>4, <4>1, <4>2 DEF Answers
    <3>8. QED
      BY <3>6, <3>7
  <2>4. CASE req[q].op \notin {"execute", "revert"}
    BY <2>1, <2>4 DEF Asks, Answered
  <2>5. QED
    BY <2>2, <2>3, <2>4
<1>9. ASSUME NEW q \in Requests
      PROVE  /\ Busy(q)' => Asks(q)'
             /\ Answered(q)' => Answers(q)'
             /\ req'[q].pc = "handle" => req'[q].op \in {"execute", "revert"}
  <2>1. CASE q = r
    BY <1>2, <2>1 DEF Busy, Answered
  <2>2. CASE q # r
    <3>1. req'[q] = req[q]
      BY <1>2, <2>2
    <3>2. (Busy(q)' <=> Busy(q)) /\ (Answered(q)' <=> Answered(q)) /\ (Answered(q) => Busy(q))
      BY <3>1 DEF Busy, Answered
    <3>3. req[q].pc = "handle" => req[q].op \in {"execute", "revert"}
      BY <1>0 DEF RequestsFit
    <3>4. QED
      BY <1>8, <2>2, <3>1, <3>2, <3>3
  <2>3. QED
    BY <2>1, <2>2
<1>10. QED
  BY <1>9 DEF RequestsFit

\* What a committed execution or revert leaves of its own action.
LEMMA CommitOwnStory ==
  ASSUME ExecInv, NEW r \in Requests, Commit(r),
         NEW a \in Actions, a = req[r].target, a \notin overlapped'
  PROVE  OneStory(a)'
<1>0. ExecTypeOK /\ Rows
  BY DEF ExecInv
<1>1. a = req[r].target
  OBVIOUS
<1>2. UNCHANGED work /\ work[a] # None
  BY <1>1, CommitSets, Committing
<1>3. logs'[a] = logs[a] \cup {LogRow(r)} /\ status'[a] = Outcome(r)
  <2>1. status' = [status EXCEPT ![a] = Outcome(r)] /\ DOMAIN status = Actions
    BY <1>0, <1>1, CommitSets DEF ExecTypeOK
  <2>2. logs' = [logs EXCEPT ![a] = @ \cup {LogRow(r)}] /\ DOMAIN logs = Actions
    BY <1>0, <1>1, CommitSets DEF ExecTypeOK
  <2>3. QED
    BY <2>1, <2>2
<1>4. a \notin overlapped /\ status[a] = req[r].read
  BY <1>1, CommitSets
<1>5. OneStory(a)
  BY <1>4 DEF ExecInv, Stories
<1>6. PICK m : m = LogRow(r)
  OBVIOUS
<1>7. Kind(a)' = Kind(a)
  BY <1>2 DEF Kind
<1>8. CASE req[r].op = "execute"
  <2>1. status[a] = "proposed" /\ logs[a] = {} /\ NothingOf(a)
    BY <1>1, <1>4, <1>5, <1>8, Committing, ExecutorAssumption DEF Asks, OneStory, Statuses
  <2>2. logs'[a] = {m} /\ m.result = req[r].result /\ m.undo = req[r].undo
    BY <1>3, <1>6, <1>8, <2>1 DEF LogRow
  <2>3. CASE req[r].result = "ok"
    <3>1. status'[a] = "executed"
      BY <1>3, <1>8, <2>3 DEF Outcome
    <3>2. ASSUME Blocks(a) PROVE \E b \in ActiveBy(a)' : b.id = m.undo /\ ActiveBy(a)' = {b}
      <4>1. Does(r, "block_observable") /\ ~Undoes(r, "block_observable")
        BY <1>1, <1>8, <2>3, <3>2 DEF Does, Undoes, Blocks
      <4>2. blocked' = blocked \cup {NewRow(r)}
        BY <4>1, CommitBlocked
      <4>3. NewRow(r).id = r /\ NewRow(r).by = a /\ NewRow(r).active = TRUE
        BY <1>1 DEF NewRow
      <4>4. ActiveBy(a)' = {NewRow(r)}
        BY <2>1, <4>2, <4>3 DEF NothingOf, ActiveBy
      <4>5. m.undo = r
        BY <1>1, <1>8, <2>2, <2>3, <3>2, Committing DEF Answers, Fits
      <4>6. QED
        BY <4>3, <4>4, <4>5
    <3>3. ASSUME NEW s \in sessions', s.by = a PROVE s.id = m.undo
      <4>1. a # None
        BY ExecutorAssumption
      <4>2. s \notin sessions
        BY <2>1, <3>3 DEF NothingOf
      <4>3. Does(r, "invalidate_lab_session") /\ s.id = req[r].seen
        BY <3>3, <4>1, <4>2, SessionRowsAfter
      <4>4. req[r].undo = req[r].seen
        BY <1>8, <2>3, <4>3, Committing DEF Answers, Fits, Does, Invalidates
      <4>5. QED
        BY <2>2, <4>3, <4>4
    <3>4. DoneBy(a, m)'
      BY <1>7, <3>2, <3>3 DEF DoneBy, Blocks
    <3>5. QED
      BY <2>2, <2>3, <3>1, <3>4, ExecutorAssumption DEF OneStory, Statuses
  <2>4. CASE req[r].result = "partial"
    <3>1. status'[a] = "partial" /\ Kind(a)' \in Commanding
      BY <1>1, <1>3, <1>7, <1>8, <2>4, Committing DEF Outcome, Answers, Fits
    <3>2. QED
      BY <2>2, <2>4, <3>1, ExecutorAssumption DEF OneStory, Statuses
  <2>5. CASE req[r].result = "fail"
    <3>1. status'[a] = "failed"
      BY <1>3, <1>8, <2>5 DEF Outcome
    <3>2. \A k : ~Does(r, k) /\ ~Undoes(r, k)
      BY <2>5 DEF Does, Undoes
    <3>3. blocked' = blocked /\ noted' = noted
      BY <3>2, CommitBlocked, CommitSets
    <3>4. sessions' \subseteq sessions /\ evidence' \subseteq evidence
      BY <3>2, SessionRowsAfter, EvidenceRowsAfter
    <3>5. NothingOf(a)'
      BY <2>1, <3>3, <3>4 DEF NothingOf, ActiveBy
    <3>6. QED
      BY <2>2, <2>5, <3>1, <3>5, ExecutorAssumption DEF OneStory, Statuses
  <2>6. QED
    BY <2>3, <2>4, <2>5, Committing DEF Answers, Fits, Results
<1>9. CASE req[r].op = "revert"
  <2>1. /\ status[a] = "executed" /\ req[r].undo # None
        /\ Classification[Kind(a)] = "reversible"
        /\ \E l \in logs[a] : l.undo = req[r].undo
    BY <1>1, <1>4, <1>9, Committing DEF Asks
  <2>2. Kind(a) \in {"flag_host_in_lab", "invalidate_lab_session", "block_observable"}
    BY <1>0, <1>2, <2>1, ReversibleKinds
  <2>3. PICK l \in logs[a] : logs[a] = {l} /\ l.result = "ok" /\ DoneBy(a, l)
    BY <1>5, <2>1, ExecutorAssumption DEF OneStory, Statuses
  <2>4. l.undo = req[r].undo /\ l.undo # None
    BY <2>1, <2>3
  <2>5. logs'[a] = {l, m} /\ m.undo = None /\ m.at = req[r].at
    BY <1>3, <1>6, <1>9, <2>3 DEF LogRow
  <2>6. l.at < m.at
    BY <1>1, <1>4, <1>9, <2>1, <2>5, Committing DEF Answers
  <2>7. status'[a] = "reverted"
    BY <1>3, <1>9 DEF Outcome
  <2>8. ActiveBy(a)' = {}
    <3>1. CASE Blocks(a)
      <4>1. Undoes(r, "block_observable") /\ ~Does(r, "block_observable")
        BY <1>1, <1>9, <3>1, Committing DEF Undoes, Does, Blocks, Answers, Fits
      <4>2. PICK b \in ActiveBy(a) : b.id = l.undo /\ ActiveBy(a) = {b}
        BY <2>3, <3>1 DEF DoneBy
      <4>3. ASSUME NEW c \in blocked', c.by = a, c.active PROVE FALSE
        <5>1. c # NewRow(r)
          BY <4>1, <4>3, CommitBlocked, BlockedRowsAfter, <1>0, Committing
          DEF Rows, ExecInv, NewRow, Does, Undoes
        <5>2. CASE c \in blocked
          <6>1. c = b
            BY <4>2, <4>3, <5>2 DEF ActiveBy
          <6>2. c.id = req[r].undo
            BY <2>4, <4>2, <6>1
          <6>3. PICK d \in blocked :
                  c = IF d.id = req[r].undo THEN [d EXCEPT !.active = FALSE] ELSE d
            BY <4>1, CommitBlocked
          <6>4. CASE d.id = req[r].undo
            <7>1. DOMAIN d = {"id", "by", "value", "active"} /\ c = [d EXCEPT !.active = FALSE]
              BY <6>3, <6>4 DEF ExecInv, BlockedRows
            <7>2. c.active = FALSE
              BY <7>1
            <7>3. QED
              BY <4>3, <7>2
          <6>5. CASE d.id # req[r].undo
            BY <6>2, <6>3, <6>5
          <6>6. QED
            BY <6>4, <6>5
        <5>3. QED
          BY <4>1, <4>3, <5>1, <5>2, BlockedRowsAfter
      <4>4. QED
        BY <4>3 DEF ActiveBy
    <3>2. CASE ~Blocks(a)
      <4>1. \A b \in blocked : b.by # a
        BY <1>0, <3>2 DEF Rows, Blocks
      <4>2. ~Does(r, "block_observable") /\ ~Undoes(r, "block_observable")
        BY <1>1, <3>2 DEF Does, Undoes, Blocks
      <4>3. blocked' = blocked
        BY <4>2, CommitBlocked
      <4>4. QED
        BY <4>1, <4>3 DEF ActiveBy
    <3>3. QED
      BY <3>1, <3>2
  <2>9. a \notin noted'
    BY <1>0, <1>9, <2>2, CommitSets DEF Rows, Does
  <2>10. \A s \in sessions' : s.by # a
    <3> SUFFICES ASSUME NEW s \in sessions', s.by = a PROVE FALSE
      OBVIOUS
    <3>1. a # None /\ ~Does(r, "invalidate_lab_session")
      BY <1>9, ExecutorAssumption DEF Does
    <3>2. s \in sessions /\ (Undoes(r, "invalidate_lab_session") => s.id # req[r].seen)
      BY <3>1, SessionRowsAfter
    <3>3. Invalidates(a)
      BY <1>0, <3>2 DEF Rows
    <3>4. Undoes(r, "invalidate_lab_session") /\ req[r].seen = req[r].undo
      BY <1>1, <1>9, <3>3, Committing DEF Undoes, Answers, Fits, Invalidates
    <3>5. s.id = l.undo
      BY <2>3, <3>2 DEF DoneBy
    <3>6. QED
      BY <2>4, <3>2, <3>4, <3>5
  <2>11. \A e \in evidence' : e.by # a
    <3>1. \A e \in evidence : e.by # a
      BY <1>0, <2>2 DEF Rows
    <3>2. ~Does(r, "request_evidence") /\ ~Does(r, "kill_process_lab")
      BY <1>9 DEF Does
    <3>3. QED
      BY <3>1, <3>2, EvidenceRowsAfter
  <2>12. NothingOf(a)'
    BY <2>8, <2>9, <2>10, <2>11 DEF NothingOf
  <2>13. QED
    BY <2>3, <2>4, <2>5, <2>6, <2>7, <2>12, ExecutorAssumption DEF OneStory, Statuses
<1>10. QED
  BY <1>8, <1>9, Committing

\* A commit adds to the story of its action what it has done.
LEMMA CommitStories ==
  ASSUME ExecInv, NEW r \in Requests, Commit(r)
  PROVE  Stories'
<1> SUFFICES ASSUME NEW x \in Actions \ overlapped' PROVE OneStory(x)'
  BY DEF Stories
<1>0. ExecTypeOK /\ x \notin overlapped
  BY CommitSets DEF ExecInv
<1>1. CASE x = req[r].target
  BY <1>1, CommitOwnStory
<1>2. CASE x # req[r].target
  <2>1. status'[x] = status[x] /\ logs'[x] = logs[x] /\ UNCHANGED work
    BY <1>0, <1>2, CommitSets DEF ExecTypeOK
  <2>2. ActiveBy(x)' = ActiveBy(x)
    BY <1>2, OthersRows
  <2>3. \A s \in sessions' : s.by = x => s \in sessions
    <3>1. x # None
      BY ExecutorAssumption
    <3>2. QED
      BY <1>2, <3>1, SessionRowsAfter
  <2>4. \A e \in evidence' : e.by = x => e \in evidence
    BY <1>2, EvidenceRowsAfter
  <2>5. x \in noted' => x \in noted
    BY <1>2, CommitSets
  <2>6. NothingOf(x) => NothingOf(x)'
    BY <2>2, <2>3, <2>4, <2>5 DEF NothingOf
  <2>7. \A l : DoneBy(x, l) => DoneBy(x, l)'
    BY <2>1, <2>2, <2>3 DEF DoneBy, Blocks, Kind
  <2>8. OneStory(x) /\ Kind(x)' = Kind(x)
    BY <1>0, <2>1 DEF ExecInv, Stories, Kind
  <2>9. QED
    BY <2>1, <2>6, <2>7, <2>8 DEF OneStory
<1>3. QED
  BY <1>1, <1>2

\* A commit logs the command that went out.
LEMMA CommitCommands ==
  ASSUME ExecInv, NEW r \in Requests, Commit(r)
  PROVE  Commands'
<1>0. ExecTypeOK /\ Commands
  BY DEF ExecInv
<1>1. PICK a \in Actions : a = req[r].target
  BY Committing
<1>2. /\ \A q \in Requests : q # r => req'[q] = req[q]
      /\ UNCHANGED <<work, delivered, abandoned>>
  BY <1>0, FinishSets, CommitSets
<1>3. \A x \in Actions : /\ logs'[x] = IF x = a THEN logs[a] \cup {LogRow(r)} ELSE logs[x]
                         /\ status'[x] = IF x = a THEN Outcome(r) ELSE status[x]
  BY <1>0, <1>1, CommitSets DEF ExecTypeOK
<1>4. ASSUME NEW x \in Actions, delivered'[x] > 0
      PROVE  \/ logs'[x] # {} \/ x \in abandoned'
             \/ \E q \in Requests : req'[q].pc = "commit" /\ req'[q].target = x
                                    /\ req'[q].op = "execute"
  <2>1. CASE x = a
    BY <1>3, <2>1
  <2>2. CASE x # a
    <3>1. CASE logs[x] # {} \/ x \in abandoned
      BY <1>2, <1>3, <3>1
    <3>2. CASE \E q \in Requests : req[q].pc = "commit" /\ req[q].target = x
                                   /\ req[q].op = "execute"
      BY <1>1, <1>2, <2>2, <3>2
    <3>3. QED
      BY <1>0, <1>2, <1>4, <3>1, <3>2 DEF Commands
  <2>3. QED
    BY <2>1, <2>2
<1>5. ASSUME NEW x \in Actions, ArEnabled, status'[x] = "executed", Kind(x)' \in Commanding
      PROVE  delivered'[x] > 0
  <2>1. Kind(x) \in Commanding
    BY <1>2, <1>5 DEF Kind
  <2>2. CASE x = a
    <3>1. Outcome(r) = "executed"
      BY <1>3, <1>5, <2>2
    <3>2. req[r].op = "execute" /\ req[r].result = "ok"
      BY <3>1, Committing DEF Outcome, Answers, Fits, Results
    <3>3. QED
      BY <1>1, <1>2, <1>5, <2>1, <2>2, <3>2, Committing DEF Answers
  <2>3. CASE x # a
    BY <1>0, <1>2, <1>3, <1>5, <2>1, <2>3 DEF Commands
  <2>4. QED
    BY <2>2, <2>3
<1>6. ASSUME NEW x \in Actions, delivered'[x] > 0 PROVE Kind(x)' \in Commanding
  BY <1>0, <1>2, <1>6 DEF Commands, Kind
<1>7. QED
  BY <1>4, <1>5, <1>6 DEF Commands

\* A commit keeps the invariant.
LEMMA CommitStep ==
  ASSUME ExecInv, NEW r \in Requests, Commit(r)
  PROVE  ExecInv'
  BY CommitTypes, CommitRows, CommitRequests, CommitStories, CommitCommands DEF ExecInv

-----------------------------------------------------------------------------
(* Every step, and what follows. *)

\* Every step of the executor keeps the invariant.
LEMMA ExecStep == ExecInv /\ ExecNext => ExecInv'
<1> SUFFICES ASSUME ExecInv, ExecNext PROVE ExecInv'
  OBVIOUS
<1>1. ASSUME NEW a \in Actions, Propose(a) PROVE ExecInv'
  BY <1>1, ProposeStep
<1>2. ASSUME NEW r \in Requests, Begin(r) PROVE ExecInv'
  BY <1>2, BeginExecuteStep, BeginRevertStep, BeginSettleStep DEF Begin
<1>3. ASSUME NEW r \in Requests, Proceed(r) PROVE ExecInv'
  BY <1>3, HandleStep, CommitStep, SettleStep DEF Proceed
<1>4. CASE (\E r \in Requests : Abandon(r)) \/ DeregisterHost
  BY <1>4, AbandonStep
<1>5. CASE RegisterHost \/ RegisterUser
  BY <1>5, RegisterStep
<1>6. QED
  BY <1>1, <1>2, <1>3, <1>4, <1>5 DEF ExecNext

\* At the start there are no actions.
LEMMA ExecStart == ExecInit => ExecInv
<1> SUFFICES ASSUME ExecInit PROVE ExecInv
  OBVIOUS
<1>1. req = [r \in Requests |-> Idle] /\ \A r \in Requests : req[r] = Idle
  BY DEF ExecInit
<1>2. /\ req = [r \in Requests |-> req[r]]
      /\ \A r \in Requests : /\ DOMAIN req[r] = DOMAIN Idle /\ req[r].pc = "idle"
                             /\ req[r].at \in Nat
  BY <1>1 DEF Idle
<1>3. ExecTypeOK
  <2>1. 0 \in 0..MaxOutages /\ \A a \in Actions : logs[a] = {}
    BY ExecutorAssumption DEF ExecInit
  <2>2. QED
    BY <1>2, <2>1 DEF ExecInit, ExecTypeOK, UniqueIds
<1>4. Rows
  <2>1. \A a \in Actions : logs[a] = {} /\ status[a] = None
    BY DEF ExecInit
  <2>2. \A s \in sessions : s.by = None
    BY DEF ExecInit
  <2>3. QED
    BY <2>1, <2>2, FS_EmptySet, ExecutorAssumption DEF ExecInit, Rows
<1>5. RequestsFit
  BY <1>2 DEF RequestsFit, Busy, Answered
<1>6. Stories
  <2>1. ASSUME NEW a \in Actions PROVE OneStory(a)
    <3>1. a # None /\ status[a] = None /\ logs[a] = {}
      BY ExecutorAssumption DEF ExecInit
    <3>2. NothingOf(a)
      BY <3>1 DEF ExecInit, NothingOf, ActiveBy
    <3>3. status[a] \in {None, "proposed"}
      BY <3>1
    <3>4. QED
      BY <3>1, <3>2, <3>3, ExecutorAssumption DEF OneStory, Statuses
  <2>2. QED
    BY <2>1 DEF Stories
<1>7. Commands
  BY ExecutorAssumption DEF ExecInit, Commands, Statuses
<1>8. EvidenceRows /\ BlockedRows
  BY DEF ExecInit, EvidenceRows, BlockedRows
<1>9. QED
  BY <1>3, <1>4, <1>5, <1>6, <1>7, <1>8 DEF ExecInv

-----------------------------------------------------------------------------
(* What follows from the invariant: the properties that the runs check.     *)

\* The rows of an action are what its status says.
LEMMA EffectsFollow == ExecInv => EffectsMatchStatus
<1> SUFFICES ASSUME ExecInv, NEW a \in Actions \ overlapped
             PROVE  /\ work[a] # None /\ Kind(a) = "block_observable"
                         => Cardinality(ActiveBy(a)) = IF status[a] = "executed" THEN 1 ELSE 0
                    /\ \A s \in sessions : s.by = a => status[a] = "executed"
                    /\ a \in noted \/ (\E e \in evidence : e.by = a)
                         => status[a] \in {"executed", "partial"}
  BY DEF EffectsMatchStatus, ActiveBy
<1>1. ExecTypeOK /\ Rows /\ OneStory(a)
  BY DEF ExecInv, Stories
<1>2. CASE status[a] = "executed"
  <2>1. PICK l \in logs[a] : DoneBy(a, l)
    BY <1>1, <1>2, ExecutorAssumption DEF OneStory, Statuses
  <2>2. Blocks(a) => \E b : ActiveBy(a) = {b}
    BY <2>1 DEF DoneBy
  <2>3. QED
    BY <1>2, <2>2, FS_Singleton DEF Blocks
<1>3. CASE status[a] = "partial"
  <2>1. Kind(a) \in Commanding
    BY <1>1, <1>3, ExecutorAssumption DEF OneStory, Statuses
  <2>2. Kind(a) \notin {"block_observable", "invalidate_lab_session"}
    BY <2>1 DEF Commanding
  <2>3. QED
    BY <1>1, <1>3, <2>2 DEF Rows, Invalidates
<1>4. CASE status[a] \notin {"executed", "partial"}
  <2>1. NothingOf(a)
    BY <1>1, <1>4, ExecutorAssumption DEF OneStory, Statuses, ExecTypeOK
  <2>2. QED
    BY <1>4, <2>1, FS_EmptySet DEF NothingOf
<1>5. QED
  BY <1>2, <1>3, <1>4

\* The logs of an action are what its status says.
LEMMA AuditFollows == ExecInv => AuditTellsStatus
<1> SUFFICES ASSUME ExecInv, NEW a \in Actions \ overlapped
             PROVE  CASE status[a] \in {None, "proposed"} -> logs[a] = {}
                      [] status[a] = "executed" -> /\ Cardinality(logs[a]) = 1
                                                   /\ Latest(logs[a]).result = "ok"
                      [] status[a] = "partial" -> {l.result : l \in logs[a]} = {"partial"}
                      [] status[a] = "failed" -> {l.result : l \in logs[a]} = {"fail"}
                      [] OTHER -> /\ Cardinality(logs[a]) = 2
                                  /\ Latest(logs[a]).undo = None
                                  /\ \E l \in logs[a] : l.result = "ok" /\ l.undo # None
  BY DEF AuditTellsStatus
<1>1. ExecTypeOK /\ OneStory(a) /\ \A l \in logs[a] : l.at \in Nat
  BY DEF ExecInv, Stories, ExecTypeOK
<1>2. CASE status[a] \in {None, "proposed"}
  BY <1>1, <1>2, ExecutorAssumption DEF OneStory, Statuses
<1>3. CASE status[a] = "executed"
  <2>1. PICK l \in logs[a] : logs[a] = {l} /\ l.result = "ok"
    BY <1>1, <1>3, ExecutorAssumption DEF OneStory, Statuses
  <2>2. Cardinality(logs[a]) = 1 /\ Latest(logs[a]) = l
    BY <1>1, <2>1, FS_Singleton, LatestOf
  <2>3. QED
    BY <1>3, <2>1, <2>2, ExecutorAssumption DEF Statuses
<1>4. CASE status[a] \in {"partial", "failed"}
  BY <1>1, <1>4, ExecutorAssumption DEF OneStory, Statuses
<1>5. CASE status[a] = "reverted"
  <2>1. PICK l \in logs[a], m \in logs[a] :
          /\ logs[a] = {l, m} /\ l.at < m.at
          /\ l.result = "ok" /\ l.undo # None /\ m.undo = None
    BY <1>1, <1>5, ExecutorAssumption DEF OneStory, Statuses
  <2>2. l # m /\ {l, m} = {l} \cup {m}
    BY <1>1, <2>1
  <2>3. IsFiniteSet({l, m}) /\ Cardinality({l, m}) = 2
    <3>1. IsFiniteSet({l}) /\ Cardinality({l}) = 1 /\ m \notin {l}
      BY <2>2, FS_Singleton
    <3>2. IsFiniteSet({l} \cup {m}) /\ Cardinality({l} \cup {m}) = 1 + 1
      BY <3>1, FS_AddElement
    <3>3. QED
      BY <2>2, <3>2
  <2>4. Latest(logs[a]) \in {l, m} /\ m.at <= Latest(logs[a]).at
    BY <1>1, <2>1, <2>3, LatestOf
  <2>5. Latest(logs[a]) = m
    BY <1>1, <2>1, <2>4
  <2>6. QED
    BY <1>5, <2>1, <2>3, <2>5, ExecutorAssumption DEF Statuses
<1>6. QED
  BY <1>1, <1>2, <1>3, <1>4, <1>5 DEF ExecTypeOK, Statuses

\* A command that went out is logged, or its request rolled back.
LEMMA DispatchFollows == ExecInv => DispatchIsAudited
  BY DEF ExecInv, Commands, DispatchIsAudited

\* The first of some positions is one of them.
LEMMA LeastPosition ==
  ASSUME NEW N \in Nat, NEW S \in SUBSET (1..N), S # {}
  PROVE  Min(S) \in S
<1> DEFINE f == [n \in S |-> N - n]
<1>1. f \in [S -> Nat]
  OBVIOUS
<1>2. IsFiniteSet(S)
  <2>1. IsFiniteSet(1..N)
    BY FS_Interval
  <2>2. QED
    BY <2>1, FS_Subset
<1>3. PICK x \in S : \A y \in S : f[y] <= f[x]
  <2> HIDE DEF f
  <2>1. QED
    BY <1>1, <1>2, LastOf
<1>4. \A y \in S : x =< y
  BY <1>3
<1>5. QED
  BY <1>4 DEF Min

\* The parameter sets of a kind are numbered from one on.
LEMMA ViablePositions ==
  ASSUME NEW k
  PROVE  \E N \in Nat : DOMAIN Viable(k, Lead.entities) = 1..N
<1>1. PICK both : both = Lead.entities.ips \o Lead.entities.observables
  OBVIOUS
<1>2. both \in Seq(STRING)
  BY <1>1, ExecutorAssumption
<1>3. DOMAIN <<>> = 1..0 /\ \A x : DOMAIN <<x>> = 1..1
  OBVIOUS
<1>4. CASE k = "block_observable"
  <2>1. DOMAIN Viable(k, Lead.entities) = DOMAIN both
    BY <1>1, <1>4 DEF Viable
  <2>2. QED
    BY <1>2, <2>1
<1>5. CASE k # "block_observable"
  <2>1. Viable(k, Lead.entities) = <<>> \/ \E x : Viable(k, Lead.entities) = <<x>>
    BY <1>5 DEF Viable
  <2>2. QED
    BY <1>3, <2>1
<1>6. QED
  BY <1>4, <1>5

\* A recommendation is something that no action of the incident has done.
LEMMA RecommendedIsUntried ==
  ASSUME NEW c \in Recommended
  PROVE  ExecKey(c.kind, c.params) \notin ExecutedKeys
<1>1. PICK k : /\ c.kind = k /\ Untried(k, Lead.entities, ExecutedKeys) # {}
               /\ c.params = Viable(k, Lead.entities)
                               [Min(Untried(k, Lead.entities, ExecutedKeys))]
  <2>1. PICK base : base = BaseCandidates[Lead.kind]
    OBVIOUS
  <2>2. PICK n \in DOMAIN base :
          /\ Untried(base[n], Lead.entities, ExecutedKeys) # {}
          /\ \E p : c = [kind |-> base[n],
                         params |-> Viable(base[n], Lead.entities)
                                     [Min(Untried(base[n], Lead.entities, ExecutedKeys))],
                         priority |-> p]
    BY <2>1, Zenon DEF Recommended, Recommend
  <2>3. QED
    BY <2>2
<1>2. PICK S : S = Untried(k, Lead.entities, ExecutedKeys)
  OBVIOUS
<1>3. \A n \in S : /\ n \in DOMAIN Viable(k, Lead.entities)
                   /\ ExecKey(k, Viable(k, Lead.entities)[n]) \notin ExecutedKeys
  BY <1>2 DEF Untried
<1>4. PICK N \in Nat : DOMAIN Viable(k, Lead.entities) = 1..N
  BY ViablePositions
<1>5. Min(S) \in S
  BY <1>1, <1>2, <1>3, <1>4, LeastPosition
<1>6. QED
  BY <1>1, <1>2, <1>3, <1>5

\* What stands has been tried, and what has been tried is not recommended.
LEMMA RecommendationsFollow == ExecInv => WhatStandsIsNotRecommended
<1> SUFFICES ASSUME ExecInv, NEW a \in Actions \ overlapped, Stands(a), NEW c \in Recommended,
                    work[a] = [kind |-> c.kind, params |-> c.params]
             PROVE  FALSE
  BY DEF WhatStandsIsNotRecommended
<1>1. OneStory(a)
  BY DEF ExecInv, Stories
<1>2. ~NothingOf(a)
  BY DEF Stands, NothingOf, ActiveBy
<1>3. status[a] \in {"executed", "partial"}
  BY <1>1, <1>2, ExecutorAssumption DEF OneStory, Statuses
<1>4. ExecKey(Kind(a), work[a].params) \in ExecutedKeys
  BY <1>3 DEF ExecutedKeys
<1>5. Kind(a) = c.kind /\ work[a].params = c.params
  BY DEF Kind
<1>6. QED
  BY <1>4, <1>5, RecommendedIsUntried

=============================================================================
