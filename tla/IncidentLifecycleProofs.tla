----------------------- MODULE IncidentLifecycleProofs -----------------------
(***************************************************************************)
(* Proofs about IncidentLifecycle for any set of requests, incidents and   *)
(* evidence and any opening state without merged incidents: the inductive  *)
(* invariant IInv, the safety properties that follow from it, and that     *)
(* every step implements one of CaseFile or none.                          *)
(***************************************************************************)
EXTENDS IncidentLifecycle, TLAPS

\* What a request at its write, at its locks, or among its inserts has read: it
\* was so, and what of it cannot be undone still is.
ReadStatus(r) == /\ kind[r] = "transition"
                 /\ on[r] \in Existing
                 /\ to[r] \in Allowed
                 /\ to[r][1] \in past[on[r]]

MovesEvidence(r) == /\ on[r] \in Existing
                    /\ \/ kind[r] = "merge" /\ to[r] \in Existing /\ on[r] # to[r]
                       \/ kind[r] = "split" /\ to[r] = None /\ chosen[r] # {}

AddsEvidence(r) == /\ kind[r] = "extend" /\ to[r] = None
                   /\ on[r] \in Existing
                   /\ \E s \in past[on[r]] : s \notin Settled

Matches(r) == /\ pc[r] \in {"idle", "done", "write", "key", "attach"} => locked[r] = {}
              /\ pc[r] = "write" => ReadStatus(r)
              /\ pc[r] \in {"key", "rows"} => MovesEvidence(r)
              /\ pc[r] \in {"attach", "touch", "join"} => AddsEvidence(r)

\* Two requests never hold the same advisory lock.
OwnKey(r, d) == HoldsKey(r) /\ HoldsKey(d) => AdvisoryKey(r) # AdvisoryKey(d)

\* The tables agree: an incident has had the status it has, and evidence is
\* linked to incidents that exist.
Recorded == /\ \A i \in Existing : status[i] \in past[i]
            /\ links \subseteq Existing \X Evidence

Orderly == /\ \A r \in Requests : Matches(r)
           /\ \A r, d \in Requests : r # d => OwnKey(r, d)
           /\ Recorded

IInv == TypeOK /\ Orderly /\ MergeForest /\ EvidenceStaysLive

-----------------------------------------------------------------------------
(* The parts of a step. *)

\* What no step takes back: incidents stay, and statuses once had stay recorded.
Keeps == /\ Existing \subseteq Existing'
         /\ \A i \in Incidents : past[i] \subseteq past'[i]

\* A step of r leaves the other requests where they are.
OthersStay(r) ==
  \A d \in Requests \ {r} :
    /\ pc'[d] = pc[d] /\ kind'[d] = kind[d] /\ on'[d] = on[d]
    /\ to'[d] = to[d] /\ chosen'[d] = chosen[d] /\ locked'[d] = locked[d]

\* A request that ends leaves the others alone and gives its locks back.
LEMMA FinishStays ==
  ASSUME TypeOK, NEW r \in Requests, Finish(r)
  PROVE  /\ OthersStay(r)
         /\ pc'[r] = "done" /\ locked'[r] = {}
         /\ pc' \in [Requests -> {"idle", "write", "key", "rows", "attach", "touch", "join", "done"}]
         /\ kind' \in [Requests -> Kinds \cup {None}]
         /\ on' \in [Requests -> Incidents \cup {None}]
         /\ to' \in [Requests -> Incidents \cup {None} \cup Allowed]
         /\ chosen' \in [Requests -> SUBSET Evidence]
         /\ locked' \in [Requests -> SUBSET Incidents]
         /\ \A d \in Requests : locked'[d] \subseteq {on'[d], to'[d]}
<1>1. /\ OthersStay(r)
      /\ pc'[r] = "done" /\ locked'[r] = {}
  BY DEF TypeOK, Finish, Answer, Goto, OthersStay
<1>2. \A d \in Requests : locked'[d] \subseteq {on'[d], to'[d]}
  BY <1>1 DEF TypeOK, OthersStay
<1>3. QED
  BY <1>1, <1>2 DEF TypeOK, Finish, Answer, Goto

\* A request that starts leaves the others alone.
LEMMA AskStays ==
  ASSUME TypeOK, NEW r \in Requests, Matches(r), pc[r] = "idle",
         NEW s \in {"write", "key", "attach"}, Goto(r, s),
         NEW k \in Kinds, NEW i \in Incidents, NEW t \in Incidents \cup {None} \cup Allowed,
         NEW E \in SUBSET Evidence, Ask(r, k, i, t, E)
  PROVE  /\ OthersStay(r)
         /\ TypeOK'
         /\ pc'[r] = s /\ kind'[r] = k /\ on'[r] = i /\ to'[r] = t /\ chosen'[r] = E
         /\ locked'[r] = {}
<1>1. /\ OthersStay(r)
      /\ pc'[r] = s /\ kind'[r] = k /\ on'[r] = i /\ to'[r] = t /\ chosen'[r] = E
      /\ locked'[r] = {}
  BY DEF TypeOK, Matches, Ask, Goto, OthersStay
<1>2. \A d \in Requests : locked'[d] \subseteq {on'[d], to'[d]}
  BY <1>1 DEF TypeOK, OthersStay
<1>3. QED
  BY <1>1, <1>2 DEF TypeOK, Ask, Goto, NoEffect, rows

\* A request keeps matching what it has read while others take steps.
LEMMA OthersMatch ==
  ASSUME TypeOK, NEW r \in Requests, OthersStay(r), Keeps, Orderly
  PROVE  \A d \in Requests \ {r} : Matches(d)'
<1> TAKE d \in Requests \ {r}
<1>1. /\ pc'[d] = pc[d] /\ kind'[d] = kind[d] /\ on'[d] = on[d]
      /\ to'[d] = to[d] /\ chosen'[d] = chosen[d] /\ locked'[d] = locked[d]
  BY DEF OthersStay
<1>2. Matches(d)
  BY DEF Orderly
<1>3. on[d] \in Existing => past[on[d]] \subseteq past'[on[d]]
  BY DEF Keeps, Existing
<1>4. pc[d] = "write" => ReadStatus(d)'
  BY <1>1, <1>2, <1>3 DEF Matches, ReadStatus, Keeps
<1>5. pc[d] \in {"key", "rows"} => MovesEvidence(d)'
  BY <1>1, <1>2 DEF Matches, MovesEvidence, Keeps
<1>6. pc[d] \in {"attach", "touch", "join"} => AddsEvidence(d)'
  BY <1>1, <1>2, <1>3 DEF Matches, AddsEvidence, Keeps
<1>7. QED
  BY <1>1, <1>2, <1>4, <1>5, <1>6 DEF Matches

\* What the requests have read stays true through a step of one of them.
LEMMA OrderlyStep ==
  ASSUME TypeOK, NEW r \in Requests, OthersStay(r), Keeps, Orderly,
         Matches(r)', Recorded',
         \A d \in Requests \ {r} : OwnKey(r, d)'
  PROVE  Orderly'
<1>1. \A d \in Requests : Matches(d)'
  BY OthersMatch
<1>2. ASSUME NEW d \in Requests, NEW f \in Requests, d # f
      PROVE  OwnKey(d, f)'
  <2>1. CASE d = r
    BY <1>2, <2>1
  <2>2. CASE f = r
    BY <1>2, <2>2 DEF OwnKey
  <2>3. CASE d # r /\ f # r
    <3>1. OwnKey(d, f)
      BY <1>2 DEF Orderly
    <3>2. /\ pc'[d] = pc[d]
          /\ pc'[f] = pc[f]
          /\ AdvisoryKey(d)' = AdvisoryKey(d) /\ AdvisoryKey(f)' = AdvisoryKey(f)
      BY <2>3 DEF OthersStay, AdvisoryKey
    <3>3. QED
      BY <3>1, <3>2 DEF OwnKey, HoldsKey
  <2>4. QED
    BY <2>1, <2>2, <2>3
<1>3. QED
  BY <1>1, <1>2 DEF Orderly

\* A request that is answered holds nothing and blocks nobody.
LEMMA FinishOrderly ==
  ASSUME TypeOK, NEW r \in Requests, Finish(r), Keeps, Orderly, Recorded'
  PROVE  Orderly'
<1>1. OthersStay(r) /\ pc'[r] = "done" /\ locked'[r] = {}
  BY FinishStays
<1>2. Matches(r)'
  BY <1>1 DEF Matches
<1>3. \A d \in Requests \ {r} : OwnKey(r, d)'
  BY <1>1 DEF OwnKey, HoldsKey
<1>4. QED
  BY <1>1, <1>2, <1>3, OrderlyStep

\* A step that leaves the tables alone keeps all that is said of them.
LEMMA NoEffectKeeps ==
  ASSUME IInv, NEW r \in Requests, NoEffect
  PROVE  Keeps /\ Recorded' /\ MergeForest' /\ EvidenceStaysLive'
<1>1. Keeps /\ Recorded'
  BY DEF IInv, Orderly, NoEffect, rows, Keeps, Recorded, Existing
<1>2. MergeForest'
  BY DEF IInv, NoEffect, rows, MergeForest
<1>3. EvidenceStaysLive'
  BY DEF IInv, NoEffect, rows, EvidenceStaysLive
<1>4. QED
  BY <1>1, <1>2, <1>3

\* A request that gives up, by itself or as the victim of a deadlock.
LEMMA GiveUpStep ==
  ASSUME IInv, NEW r \in Requests, Finish(r), NoEffect
  PROVE  IInv'
<1>1. Orderly'
  BY NoEffectKeeps, FinishOrderly DEF IInv
<1>2. TypeOK'
  BY FinishStays DEF IInv, TypeOK, NoEffect, rows
<1>3. QED
  BY <1>1, <1>2, NoEffectKeeps DEF IInv

-----------------------------------------------------------------------------
(* Steps that leave the tables alone. *)

\* A request reads without a lock, and so what was so at that moment.
LEMMA SubmitStep ==
  ASSUME IInv, NEW r \in Requests, Submit(r)
  PROVE  IInv'
<1> USE DEF IInv
<1>0. Matches(r) /\ pc[r] = "idle"
  BY DEF Orderly, Submit, SubmitTransition, SubmitMerge, SubmitSplit, SubmitExtend
<1>1. CASE SubmitTransition(r)
  <2>1. PICK i \in Existing, s \in Statuses :
           /\ <<status[i], s>> \in Allowed
           /\ Ask(r, "transition", i, <<status[i], s>>, {})
    BY <1>1 DEF SubmitTransition
  <2>2. NoEffect /\ Goto(r, "write") /\ i \in Incidents /\ "transition" \in Kinds
    BY <1>1, <2>1 DEF SubmitTransition, Ask, Existing
  <2>3. /\ OthersStay(r) /\ TypeOK'
        /\ pc'[r] = "write" /\ kind'[r] = "transition" /\ on'[r] = i
        /\ to'[r] = <<status[i], s>> /\ chosen'[r] = {} /\ locked'[r] = {}
    BY <1>0, <2>1, <2>2, AskStays
  <2>4. i \in Existing' /\ status[i] \in past'[i]
    BY <2>1, <2>2 DEF Orderly, Recorded, Existing, NoEffect, rows
  <2>5. Matches(r)'
    BY <2>1, <2>3, <2>4 DEF Matches, ReadStatus
  <2>6. \A d \in Requests \ {r} : OwnKey(r, d)'
    BY <2>3 DEF OwnKey, HoldsKey
  <2>7. QED
    BY <2>2, <2>3, <2>5, <2>6, NoEffectKeeps, OrderlyStep
<1>2. CASE SubmitMerge(r)
  <2>1. PICK i \in Existing, j \in Existing : i # j /\ Ask(r, "merge", i, j, {})
    BY <1>2 DEF SubmitMerge
  <2>2. /\ NoEffect /\ Goto(r, "key") /\ i \in Incidents /\ j \in Incidents
        /\ "merge" \in Kinds
    BY <1>2, <2>1 DEF SubmitMerge, Ask, Existing
  <2>3. /\ OthersStay(r) /\ TypeOK'
        /\ pc'[r] = "key" /\ kind'[r] = "merge" /\ on'[r] = i
        /\ to'[r] = j /\ chosen'[r] = {} /\ locked'[r] = {}
    BY <1>0, <2>1, <2>2, AskStays
  <2>4. Matches(r)'
    BY <2>1, <2>2, <2>3 DEF Matches, MovesEvidence, NoEffect, rows, Existing
  <2>5. \A d \in Requests \ {r} : OwnKey(r, d)'
    BY <2>3 DEF OwnKey, HoldsKey
  <2>6. QED
    BY <2>2, <2>3, <2>4, <2>5, NoEffectKeeps, OrderlyStep
<1>3. CASE SubmitSplit(r)
  <2>1. PICK i \in Existing, E \in Selections : Ask(r, "split", i, None, E)
    BY <1>3 DEF SubmitSplit
  <2>2. /\ NoEffect /\ Goto(r, "key") /\ i \in Incidents /\ "split" \in Kinds
        /\ E \in SUBSET Evidence /\ E # {}
    BY <1>3, <2>1, LifecycleAssumption DEF SubmitSplit, Ask, Existing
  <2>3. /\ OthersStay(r) /\ TypeOK'
        /\ pc'[r] = "key" /\ kind'[r] = "split" /\ on'[r] = i
        /\ to'[r] = None /\ chosen'[r] = E /\ locked'[r] = {}
    BY <1>0, <2>1, <2>2, AskStays
  <2>4. Matches(r)'
    BY <2>1, <2>2, <2>3 DEF Matches, MovesEvidence, NoEffect, rows, Existing
  <2>5. \A d \in Requests \ {r} : OwnKey(r, d)'
    BY <2>3 DEF OwnKey, HoldsKey
  <2>6. QED
    BY <2>2, <2>3, <2>4, <2>5, NoEffectKeeps, OrderlyStep
<1>4. CASE SubmitExtend(r)
  <2>1. PICK i \in Existing, E \in Additions :
           /\ status[i] \notin Settled
           /\ Ask(r, "extend", i, None, E)
    BY <1>4 DEF SubmitExtend
  <2>2. /\ NoEffect /\ Goto(r, "attach") /\ i \in Incidents /\ "extend" \in Kinds
        /\ E \in SUBSET Evidence
    BY <1>4, <2>1, LifecycleAssumption DEF SubmitExtend, Ask, Existing
  <2>3. /\ OthersStay(r) /\ TypeOK'
        /\ pc'[r] = "attach" /\ kind'[r] = "extend" /\ on'[r] = i
        /\ to'[r] = None /\ chosen'[r] = E /\ locked'[r] = {}
    BY <1>0, <2>1, <2>2, AskStays
  <2>4. i \in Existing' /\ status[i] \in past'[i]
    BY <2>1, <2>2 DEF Orderly, Recorded, Existing, NoEffect, rows
  <2>5. Matches(r)'
    BY <2>1, <2>3, <2>4 DEF Matches, AddsEvidence
  <2>6. \A d \in Requests \ {r} : OwnKey(r, d)'
    BY <2>3 DEF OwnKey, HoldsKey
  <2>7. QED
    BY <2>2, <2>3, <2>5, <2>6, NoEffectKeeps, OrderlyStep
<1>5. QED
  BY <1>1, <1>2, <1>3, <1>4 DEF Submit

\* An advisory lock is had by one request.
LEMMA TakeKeyStep ==
  ASSUME IInv, NEW r \in Requests, TakeKey(r)
  PROVE  IInv'
<1> USE DEF IInv
<1>1. /\ NoEffect /\ OthersStay(r)
      /\ pc[r] = "key" /\ pc'[r] = "rows" /\ UNCHANGED <<request, locked>>
  BY DEF TakeKey, TypeOK, Goto, OthersStay, request
<1>2. TypeOK'
  BY <1>1 DEF TakeKey, TypeOK, Goto, request, NoEffect, rows
<1>3. Keeps /\ Recorded' /\ MergeForest' /\ EvidenceStaysLive'
  BY <1>1, NoEffectKeeps
<1>4. Matches(r)'
  BY <1>1, <1>3 DEF Orderly, Matches, MovesEvidence, request, Keeps
<1>5. ASSUME NEW d \in Requests \ {r} PROVE OwnKey(r, d)'
  <2>1. HoldsKey(d) => AdvisoryKey(d) # AdvisoryKey(r)
    BY <1>1 DEF TakeKey, WaitsFor
  <2>2. HoldsKey(d)' = HoldsKey(d) /\ UNCHANGED <<AdvisoryKey(d), AdvisoryKey(r)>>
    BY <1>1 DEF OthersStay, HoldsKey, AdvisoryKey, request
  <2>3. QED
    BY <1>1, <2>1, <2>2 DEF OwnKey
<1>6. QED
  BY <1>1, <1>2, <1>3, <1>4, <1>5, OrderlyStep

\* A row lock is added to those of the request.
LEMMA LockRowStep ==
  ASSUME IInv, NEW r \in Requests, LockRow(r)
  PROVE  IInv'
<1> USE DEF IInv
<1>1. PICK i \in ToLock(r) \ locked[r] : locked' = [locked EXCEPT ![r] = @ \cup {i}]
  BY DEF LockRow
<1>2. /\ NoEffect /\ OthersStay(r)
      /\ pc[r] = "rows" /\ UNCHANGED <<pc, request>>
  BY <1>1 DEF LockRow, TypeOK, OthersStay, request
<1>3. i \in {on[r], to[r]} /\ i \in Incidents
  BY <1>2 DEF Orderly, Matches, MovesEvidence, ToLock, Existing
<1>4. TypeOK'
  BY <1>1, <1>2, <1>3 DEF TypeOK, request, NoEffect, rows
<1>5. Keeps /\ Recorded' /\ MergeForest' /\ EvidenceStaysLive'
  BY <1>2, NoEffectKeeps
<1>6. Matches(r)'
  BY <1>2, <1>5 DEF Orderly, Matches, MovesEvidence, request, Keeps
<1>7. ASSUME NEW d \in Requests \ {r} PROVE OwnKey(r, d)'
  BY <1>2 DEF Orderly, OwnKey, HoldsKey, AdvisoryKey, request
<1>8. QED
  BY <1>2, <1>4, <1>5, <1>6, <1>7, OrderlyStep

\* A correlator goes on to its inserts.
LEMMA AttachStep ==
  ASSUME IInv, NEW r \in Requests, Attach(r)
  PROVE  IInv'
<1> USE DEF IInv
<1>1. /\ NoEffect /\ OthersStay(r)
      /\ pc[r] = "attach" /\ pc'[r] = "touch" /\ UNCHANGED request
      /\ locked'[r] = {on[r]} /\ on[r] \in Incidents
  BY DEF Attach, TypeOK, Goto, OthersStay, request, Orderly, Matches, AddsEvidence, Existing
<1>2. TypeOK'
  <2>1. locked' \in [Requests -> SUBSET Incidents]
    BY <1>1 DEF Attach, TypeOK
  <2>2. \A d \in Requests : locked'[d] \subseteq {on'[d], to'[d]}
    BY <1>1 DEF TypeOK, OthersStay, request
  <2>3. QED
    BY <1>1, <2>1, <2>2 DEF Attach, TypeOK, Goto, request, NoEffect, rows
<1>3. Keeps /\ Recorded' /\ MergeForest' /\ EvidenceStaysLive'
  BY <1>1, NoEffectKeeps
<1>4. Matches(r)'
  <2>1. AddsEvidence(r)
    BY <1>1 DEF Orderly, Matches
  <2>2. AddsEvidence(r)'
    BY <1>1, <2>1 DEF AddsEvidence, request, NoEffect, rows, Existing
  <2>3. QED
    BY <1>1, <2>2 DEF Matches
<1>5. ASSUME NEW d \in Requests \ {r} PROVE OwnKey(r, d)'
  BY <1>1 DEF Orderly, OwnKey, HoldsKey, OthersStay, request
<1>6. QED
  BY <1>1, <1>2, <1>3, <1>4, <1>5, OrderlyStep

\* And from there to its commit.
LEMMA TouchStep ==
  ASSUME IInv, NEW r \in Requests, Touch(r)
  PROVE  IInv'
<1> USE DEF IInv
<1>1. /\ NoEffect /\ OthersStay(r)
      /\ pc[r] = "touch" /\ pc'[r] = "join" /\ UNCHANGED <<request, locked>>
  BY DEF Touch, TypeOK, Goto, OthersStay, request
<1>2. TypeOK'
  BY <1>1 DEF Touch, TypeOK, Goto, request, NoEffect, rows
<1>3. Keeps /\ Recorded' /\ MergeForest' /\ EvidenceStaysLive'
  BY <1>1, NoEffectKeeps
<1>4. Matches(r)'
  <2>1. AddsEvidence(r)'
    BY <1>1 DEF Orderly, Matches, AddsEvidence, request, NoEffect, rows, Existing
  <2>2. QED
    BY <1>1, <2>1 DEF Matches
<1>5. ASSUME NEW d \in Requests \ {r} PROVE OwnKey(r, d)'
  BY <1>1 DEF OwnKey, HoldsKey
<1>6. QED
  BY <1>1, <1>2, <1>3, <1>4, <1>5, OrderlyStep

-----------------------------------------------------------------------------
(* The commits. *)

\* The commit of a correlator links what no incident had to one that is not
\* merged, unless it is late.
LEMMA ExtendStep ==
  ASSUME IInv, NEW r \in Requests, CommitExtend(r)
  PROVE  IInv'
<1> USE DEF IInv
<1>1. /\ Finish(r) /\ pc[r] = "join" /\ AddsEvidence(r)
      /\ UNCHANGED <<status, parent, past, overtaken>>
      /\ links' = links \cup {on[r]} \X chosen[r]
  BY DEF CommitExtend, Orderly, Matches
<1>2. /\ on[r] \in Existing /\ on[r] \in Incidents /\ chosen[r] \subseteq Evidence
      /\ links \subseteq links'
  BY <1>1 DEF AddsEvidence, Existing, TypeOK
<1>3. TypeOK'
  <2>1. links' \subseteq Incidents \X Evidence /\ late' \subseteq Evidence
    BY <1>1, <1>2 DEF TypeOK, CommitExtend
  <2>2. QED
    BY <1>1, <2>1, FinishStays DEF TypeOK
<1>4. Recorded'
  <2>1. links' \subseteq Existing' \X Evidence
    BY <1>1, <1>2 DEF Orderly, Recorded, Existing
  <2>2. QED
    BY <1>1, <2>1 DEF Orderly, Recorded, Existing
<1>5. Keeps
  BY <1>1 DEF Keeps, Existing
<1>6. MergeForest'
  BY <1>1 DEF MergeForest
<1>7. EvidenceStaysLive'
  <2> SUFFICES ASSUME NEW f \in Evidence \ late', NEW i \in Incidents, <<i, f>> \in links'
               PROVE  \E j \in Incidents : <<j, f>> \in links' /\ status'[j] # "merged"
    BY DEF EvidenceStaysLive
  <2>1. f \in Evidence \ late
    BY DEF CommitExtend
  <2>2. CASE f \in Known
    <3>1. PICK j \in Incidents : <<j, f>> \in links /\ status[j] # "merged"
      BY <2>1, <2>2 DEF EvidenceStaysLive, Known
    <3>2. QED
      BY <1>1, <1>2, <3>1
  <2>3. CASE f \notin Known
    <3>1. i = on[r] /\ f \in chosen[r]
      BY <1>1, <2>3 DEF Known
    <3>2. status[i] # "merged"
      BY <2>3, <3>1 DEF CommitExtend
    <3>3. QED
      BY <1>1, <3>2
  <2>4. QED
    BY <2>2, <2>3
<1>8. QED
  BY <1>1, <1>3, <1>4, <1>5, <1>6, <1>7, FinishOrderly

\* The write of a transition, perhaps over another status than it read.
LEMMA TransitionStep ==
  ASSUME IInv, NEW r \in Requests, WriteTransition(r)
  PROVE  IInv'
<1> USE DEF IInv
<1> DEFINE i == on[r]
           s == to[r][2]
<1>1. /\ Finish(r) /\ pc[r] = "write" /\ ReadStatus(r)
      /\ UNCHANGED <<parent, links, late>>
  BY DEF WriteTransition, Orderly, Matches
<1>2. /\ i \in Existing /\ i \in Incidents
      /\ to[r][1] # "merged" /\ s \in Statuses /\ s # "merged"
  BY <1>1 DEF ReadStatus, Existing, Allowed, Statuses
<1>3. /\ \A j \in Incidents : j # i => status'[j] = status[j] /\ past'[j] = past[j]
      /\ status'[i] = s /\ past'[i] = past[i] \cup {s}
  BY <1>2 DEF WriteTransition, Become, TypeOK
<1>4. s # None
  BY <1>2, LifecycleAssumption
<1>5. TypeOK'
  BY <1>1, <1>2, FinishStays DEF TypeOK, WriteTransition, Become
<1>6. Existing' = Existing
  BY <1>2, <1>3, <1>4 DEF Existing
<1>7. Recorded'
  BY <1>1, <1>3, <1>6 DEF Orderly, Recorded, Existing
<1>8. Keeps
  BY <1>1, <1>3, <1>6 DEF Keeps
<1>9. overtaken \subseteq overtaken' /\ (i \notin overtaken' => status[i] # "merged")
  BY <1>2 DEF WriteTransition
<1>10. MergeForest'
  <2>1. \A j \in Incidents : status'[j] = "merged" => parent'[j] # None
    BY <1>1, <1>2, <1>3 DEF MergeForest
  <2>2. \A j \in Incidents \ overtaken' : parent'[j] # None => status'[j] = "merged"
    BY <1>1, <1>2, <1>3, <1>9 DEF MergeForest
  <2>3. QED
    BY <1>1, <1>9, <2>1, <2>2 DEF MergeForest
<1>11. EvidenceStaysLive'
  BY <1>1, <1>2, <1>3 DEF EvidenceStaysLive
<1>12. QED
  BY <1>1, <1>5, <1>7, <1>8, <1>10, <1>11, FinishOrderly

\* A merge under its locks hands on all evidence and closes no circle.
LEMMA MergeStep ==
  ASSUME IInv, NEW r \in Requests, CommitMerge(r), CanMerge(r)
  PROVE  IInv'
<1> USE DEF IInv
<1> DEFINE i == on[r]
           j == to[r]
<1>1. /\ Finish(r) /\ MovesEvidence(r) /\ UNCHANGED <<overtaken, late>>
      /\ Become(i, "merged") /\ parent' = [parent EXCEPT ![i] = j]
      /\ links' = links \cup {j} \X Linked(i)
  BY DEF CommitMerge, RowsLocked, Orderly, Matches
<1>2. /\ i \in Existing /\ j \in Existing /\ i # j
      /\ i \in Incidents /\ j \in Incidents /\ i # None /\ j # None
  BY <1>1, LifecycleAssumption DEF MovesEvidence, Existing, CommitMerge
<1>3. /\ \A k \in Incidents : k # i =>
           status'[k] = status[k] /\ past'[k] = past[k] /\ parent'[k] = parent[k]
      /\ status'[i] = "merged" /\ past'[i] = past[i] \cup {"merged"} /\ parent'[i] = j
  BY <1>1, <1>2 DEF Become, TypeOK
<1>4. "merged" \in Statuses /\ "merged" # None
  BY LifecycleAssumption DEF Statuses
<1>5. Linked(i) \subseteq Evidence /\ \A e : e \in Linked(i) => <<i, e>> \in links
  BY DEF Linked
<1>6. TypeOK'
  <2>1. links' \subseteq Incidents \X Evidence
    BY <1>1, <1>2, <1>5 DEF TypeOK
  <2>2. QED
    BY <1>1, <1>2, <1>4, <2>1, FinishStays DEF TypeOK, Become
<1>7. Existing' = Existing
  BY <1>2, <1>3, <1>4 DEF Existing
<1>8. Recorded'
  <2>1. links' \subseteq Existing' \X Evidence
    BY <1>1, <1>2, <1>5, <1>7 DEF Orderly, Recorded
  <2>2. \A k \in Existing' : status'[k] \in past'[k]
    BY <1>3, <1>7 DEF Orderly, Recorded, Existing
  <2>3. QED
    BY <2>1, <2>2 DEF Recorded
<1>9. Keeps
  BY <1>3, <1>7 DEF Keeps
<1>10. status[i] # "merged" /\ status[j] # "merged"
  BY DEF CanMerge, Final
<1>11. MergeForest'
  <2>1. \A k \in Incidents : status'[k] = "merged" => parent'[k] # None
    BY <1>2, <1>3 DEF MergeForest
  <2>2. \A k \in Incidents \ overtaken' : parent'[k] # None => status'[k] = "merged"
    BY <1>1, <1>2, <1>3 DEF MergeForest
  <2>3. ASSUME NEW S \in (SUBSET Incidents) \ {{}}, \A k \in S : parent'[k] \in S
        PROVE  S \cap overtaken' # {}
    <3>1. CASE i \in S
      <4>1. j \in S /\ parent[j] \in S
        BY <1>2, <1>3, <2>3, <3>1
      <4>2. parent[j] # None
        BY <4>1, LifecycleAssumption
      <4>3. j \in overtaken
        BY <1>2, <1>10, <4>2 DEF MergeForest
      <4>4. QED
        BY <1>1, <4>1, <4>3
    <3>2. CASE i \notin S
      BY <1>1, <1>3, <2>3, <3>2 DEF MergeForest
    <3>3. QED
      BY <3>1, <3>2
  <2>4. QED
    BY <2>1, <2>2, <2>3 DEF MergeForest
<1>12. EvidenceStaysLive'
  <2> SUFFICES ASSUME NEW e \in Evidence \ late, NEW k \in Incidents, <<k, e>> \in links'
               PROVE  \E n \in Incidents : <<n, e>> \in links' /\ status'[n] # "merged"
    BY <1>1 DEF EvidenceStaysLive
  <2>1. PICK m \in Incidents : <<m, e>> \in links /\ status[m] # "merged"
    BY <1>1, <1>2, <1>5 DEF EvidenceStaysLive
  <2>2. CASE m = i
    <3>1. <<j, e>> \in links'
      BY <1>1, <2>1, <2>2 DEF Linked
    <3>2. QED
      BY <1>2, <1>3, <1>10, <3>1
  <2>3. CASE m # i
    BY <1>1, <1>3, <2>1, <2>3
  <2>4. QED
    BY <2>2, <2>3
<1>13. QED
  BY <1>1, <1>6, <1>8, <1>9, <1>11, <1>12, FinishOrderly

\* A split moves evidence to an incident of its own.
LEMMA SplitStep ==
  ASSUME IInv, NEW r \in Requests, CommitSplit(r), CanSplit(r)
  PROVE  IInv'
<1> USE DEF IInv
<1> DEFINE i == on[r]
           E == chosen[r]
<1>1. /\ Finish(r) /\ MovesEvidence(r) /\ UNCHANGED <<parent, overtaken, late>>
      /\ i \in Existing /\ i \in Incidents
      /\ E \subseteq Evidence /\ E \subseteq Linked(i)
  BY DEF CommitSplit, RowsLocked, Orderly, Matches, MovesEvidence, Existing, CanSplit, Linked
<1>2. PICK child \in Fresh :
        /\ Become(child, "new")
        /\ links' = (links \ {i} \X E) \cup {child} \X E
  BY DEF CommitSplit
<1>3. child \in Incidents /\ status[child] = None /\ child # i
  BY <1>1 DEF Fresh, Existing
<1>4. /\ \A k \in Incidents : k # child => status'[k] = status[k] /\ past'[k] = past[k]
      /\ status'[child] = "new" /\ past'[child] = past[child] \cup {"new"}
  BY <1>2, <1>3 DEF Become, TypeOK
<1>5. "new" \in Statuses /\ "new" # None /\ "merged" # None
  BY LifecycleAssumption DEF Statuses
<1>6. \A e \in E : <<i, e>> \in links
  BY <1>1 DEF Linked
<1>7. TypeOK'
  <2>1. links' \subseteq Incidents \X Evidence
    BY <1>1, <1>2, <1>3 DEF TypeOK
  <2>2. QED
    BY <1>1, <1>2, <1>3, <1>5, <2>1, FinishStays DEF TypeOK, Become
<1>8. Existing' = Existing \cup {child}
  BY <1>3, <1>4, <1>5 DEF Existing
<1>9. Recorded'
  <2>1. links' \subseteq Existing' \X Evidence
    BY <1>1, <1>2, <1>8 DEF Orderly, Recorded
  <2>2. \A k \in Existing' : status'[k] \in past'[k]
    BY <1>3, <1>4, <1>8 DEF Orderly, Recorded, Existing
  <2>3. QED
    BY <2>1, <2>2 DEF Recorded
<1>10. Keeps
  BY <1>3, <1>4, <1>8 DEF Keeps
<1>11. MergeForest'
  <2>1. \A k \in Incidents : status'[k] = "merged" => parent'[k] # None
    BY <1>1, <1>3, <1>4 DEF MergeForest
  <2>2. \A k \in Incidents \ overtaken' : parent'[k] # None => status'[k] = "merged"
    BY <1>1, <1>3, <1>4, <1>5 DEF MergeForest
  <2>3. QED
    BY <1>1, <2>1, <2>2 DEF MergeForest
<1>12. EvidenceStaysLive'
  <2> SUFFICES ASSUME NEW e \in Evidence \ late, NEW k \in Incidents, <<k, e>> \in links'
               PROVE  \E n \in Incidents : <<n, e>> \in links' /\ status'[n] # "merged"
    BY <1>1 DEF EvidenceStaysLive
  <2>1. CASE e \in E
    BY <1>2, <1>3, <1>4, <2>1
  <2>2. CASE e \notin E
    <3>1. <<k, e>> \in links
      BY <1>2, <2>2
    <3>2. PICK m \in Incidents : <<m, e>> \in links /\ status[m] # "merged"
      BY <3>1 DEF EvidenceStaysLive
    <3>3. <<m, e>> \in links'
      BY <1>2, <2>2, <3>2
    <3>4. status'[m] # "merged"
      BY <1>4, <3>2
    <3>5. QED
      BY <3>3, <3>4
  <2>3. QED
    BY <2>1, <2>2
<1>13. QED
  BY <1>1, <1>7, <1>9, <1>10, <1>11, <1>12, FinishOrderly

-----------------------------------------------------------------------------
(* The invariant. *)

\* The incidents of the start have no parents.
LEMMA InvInit == Init => IInv
<1> SUFFICES ASSUME Init PROVE IInv
  OBVIOUS
<1>1. \A i \in Incidents : Opening[i] # "merged" /\ Opening[i] \in Statuses \cup {None}
  BY LifecycleAssumption DEF Statuses
<1>2. TypeOK
  BY <1>1, LifecycleAssumption DEF Init, TypeOK
<1>3. Recorded
  BY LifecycleAssumption DEF Init, Recorded, Existing
<1>4. Orderly
  BY <1>3 DEF Init, Orderly, Matches, OwnKey, HoldsKey
<1>5. MergeForest
  BY <1>1, LifecycleAssumption DEF Init, MergeForest
<1>6. EvidenceStaysLive
  BY <1>1 DEF Init, EvidenceStaysLive
<1>7. QED
  BY <1>2, <1>4, <1>5, <1>6 DEF IInv

\* Every step keeps the invariant.
LEMMA InvStep == IInv /\ [Next]_vars => IInv'
<1> SUFFICES ASSUME IInv, [Next]_vars PROVE IInv'
  OBVIOUS
<1>1. CASE UNCHANGED vars
  <2> USE <1>1 DEF vars, request, rows
  <2>1. TypeOK' /\ MergeForest' /\ EvidenceStaysLive'
    BY DEF IInv, TypeOK, MergeForest, EvidenceStaysLive
  <2>2. UNCHANGED Existing
    BY DEF Existing
  <2>3. \A r \in Requests : Matches(r)'
    BY <2>2 DEF IInv, Orderly, Matches, ReadStatus, MovesEvidence, AddsEvidence
  <2>4. \A r, d \in Requests : r # d => OwnKey(r, d)'
    BY DEF IInv, Orderly, OwnKey, HoldsKey, AdvisoryKey
  <2>5. Recorded'
    BY <2>2 DEF IInv, Orderly, Recorded
  <2>6. QED
    BY <2>1, <2>3, <2>4, <2>5 DEF IInv, Orderly
<1>2. ASSUME NEW r \in Requests, Step(r) PROVE IInv'
  <2>1. CASE CommitMerge(r)
    <3>1. CASE ~CanMerge(r)
      BY <2>1, <3>1, GiveUpStep DEF CommitMerge
    <3>2. QED
      BY <2>1, <3>1, MergeStep
  <2>2. CASE CommitSplit(r)
    <3>1. CASE ~CanSplit(r)
      BY <2>2, <3>1, GiveUpStep DEF CommitSplit
    <3>2. QED
      BY <2>2, <3>1, SplitStep
  <2>3. QED
    BY <1>2, <2>1, <2>2, TakeKeyStep, LockRowStep, AttachStep, TouchStep,
       ExtendStep, TransitionStep DEF Step
<1>3. ASSUME NEW r \in Requests, DeadlockVictim(r) \/ Fail(r) PROVE IInv'
  BY <1>3, GiveUpStep DEF DeadlockVictim, Fail
<1>4. QED
  BY <1>1, <1>2, <1>3, SubmitStep DEF Next

\* What requests have read, the locks they hold and the tables go together
\* in every reachable state, whatever is under way.
THEOREM InvCorrect == Spec => []IInv
  BY InvInit, InvStep, PTL DEF Spec

\* Every variable keeps its shape, and a request holds locks on nothing but the
\* incidents it acts on, however requests fail, block and overtake each other.
THEOREM TypeCorrect == Spec => []TypeOK
  BY InvCorrect, PTL DEF IInv

\* No interleaving of merges, splits, transitions and correlators leaves linked
\* evidence on merged incidents only, but for what a correlator adds to one.
THEOREM EvidenceStays == Spec => []EvidenceStaysLive
  BY InvCorrect, PTL DEF IInv

\* The parents of merged incidents never form a circle, unless a transition
\* wrote over a merge it had not read.
THEOREM ForestCorrect == Spec => []MergeForest
  BY InvCorrect, PTL DEF IInv

-----------------------------------------------------------------------------
(* Waiting. *)

\* Whoever is waited for holds a row or a key, and whoever holds one is at work.
LEMMA HoldersAtWork ==
  ASSUME IInv, NEW r \in Requests, NEW d \in WaitsFor(r)
  PROVE  d \in Requests /\ AtWork(d) /\ (pc[d] = "rows" \/ locked[d] # {})
<1>1. d \in Requests /\ (pc[d] = "rows" \/ locked[d] # {})
  BY DEF WaitsFor, Holders, HoldsKey
<1>2. QED
  BY <1>1 DEF IInv, Orderly, Matches, AtWork

\* A request that waits for rows has locked none but those of its merge.
LEMMA TwoRows ==
  ASSUME IInv, NEW r \in Requests, pc[r] = "rows", NEW i \in ToLock(r) \ locked[r],
         NEW j \in locked[r]
  PROVE  i # j /\ AdvisoryKey(r) = {i, j}
<1>1. locked[r] \subseteq {on[r], to[r]} /\ j \in Incidents /\ None \notin Incidents
  BY LifecycleAssumption DEF IInv, TypeOK
<1>2. CASE kind[r] = "merge"
  BY <1>1, <1>2 DEF ToLock, AdvisoryKey
<1>3. CASE kind[r] # "merge"
  BY <1>1, <1>3 DEF IInv, Orderly, Matches, MovesEvidence, ToLock
<1>4. QED
  BY <1>2, <1>3

\* Of two requests that want the same pair only one is past its advisory lock.
LEMMA PairsInLine == IInv => PairsNeverDeadlock
<1> SUFFICES ASSUME IInv, NEW r \in Requests, NEW d \in Requests,
                    d \in WaitsFor(r), r \in WaitsFor(d)
             PROVE  FALSE
  BY DEF PairsNeverDeadlock
<1>1. ASSUME NEW p \in Requests, NEW q \in Requests, q \in WaitsFor(p), p \in WaitsFor(q)
      PROVE  pc[p] \in {"rows", "touch"} /\ pc[q] \in {"rows", "touch"}
  <2>1. /\ pc[p] \in {"rows", "touch", "join"}
        /\ pc[q] \in {"rows", "touch", "join"}
    BY <1>1, HoldersAtWork DEF IInv, TypeOK, Orderly, Matches
  <2>2. pc[p] # "join" /\ pc[q] # "join"
    BY <1>1 DEF WaitsFor
  <2>3. QED
    BY <2>1, <2>2
<1>2. ASSUME NEW p \in Requests, NEW q \in Requests, q \in WaitsFor(p), p \in WaitsFor(q)
      PROVE  pc[p] # "touch"
  <2> SUFFICES ASSUME pc[p] = "touch" PROVE FALSE
    OBVIOUS
  <2>1. AddsEvidence(p)
    BY DEF IInv, Orderly, Matches
  <2>2. on[p] \in locked[q] /\ ~Compatible(p, q)
    BY <1>2 DEF WaitsFor, Holders
  <2>3. pc[q] = "rows"
    BY <1>1, <1>2, <2>2 DEF Compatible, IInv, Orderly, Matches, AddsEvidence
  <2>4. PICK i \in ToLock(q) \ locked[q] : i \in locked[p]
    BY <1>2, <2>3 DEF WaitsFor, Holders
  <2>5. i = on[p]
    BY <2>1, <2>4, LifecycleAssumption DEF AddsEvidence, IInv, TypeOK
  <2>6. QED
    BY <2>2, <2>4, <2>5
<1>3. pc[r] = "rows" /\ pc[d] = "rows"
  BY <1>1, <1>2
<1>4. /\ \E i \in ToLock(r) \ locked[r] : d \in Holders(r, i)
      /\ \E j \in ToLock(d) \ locked[d] : r \in Holders(d, j)
  BY <1>3 DEF WaitsFor
<1>5. PICK i \in ToLock(r) \ locked[r] : i \in locked[d] /\ d # r
  BY <1>4 DEF Holders
<1>6. PICK j \in ToLock(d) \ locked[d] : j \in locked[r]
  BY <1>4 DEF Holders
<1>7. AdvisoryKey(r) = {i, j} /\ AdvisoryKey(d) = {j, i}
  BY <1>3, <1>5, <1>6, TwoRows
<1>8. QED
  BY <1>3, <1>5, <1>7 DEF IInv, Orderly, OwnKey, HoldsKey

\* Two requests never wait for each other, for any number of requests and
\* incidents: the advisory lock comes before the rows of a pair, and a request
\* that waits for anything else holds nothing.
THEOREM PairsCorrect == Spec => []PairsNeverDeadlock
  BY InvCorrect, PairsInLine, PTL

\* If all that are at work wait, they wait for each other.
LEMMA NoLostLocks == IInv => SomeoneProceeds
<1> SUFFICES ASSUME IInv, NEW r \in Requests, AtWork(r),
                    \A d \in Requests : AtWork(d) => WaitsFor(d) # {}
             PROVE  \E D \in SUBSET Requests : Circle(D)
  BY DEF SomeoneProceeds
<1> DEFINE D == {d \in Requests : AtWork(d)}
<1>1. \A d \in D : WaitsFor(d) \subseteq D
  BY HoldersAtWork
<1>2. Circle(D)
  BY <1>1 DEF Circle
<1>3. QED
  BY <1>2

\* Locks are given back: as long as a request is at work, one of them need not
\* wait or some of them wait in a circle, which PostgreSQL breaks.
THEOREM LocksGivenBack == Spec => []SomeoneProceeds
  BY InvCorrect, NoLostLocks, PTL

-----------------------------------------------------------------------------
(* What a step may do. *)

\* Only four kinds of step have an effect on the tables.
LEMMA Effects ==
  ASSUME [Next]_vars
  PROVE  \/ NoEffect
         \/ \E r \in Requests :
              \/ CommitExtend(r)
              \/ WriteTransition(r)
              \/ CommitMerge(r) /\ CanMerge(r)
              \/ CommitSplit(r) /\ CanSplit(r)
<1>1. CASE UNCHANGED vars
  BY <1>1 DEF vars, NoEffect
<1>2. ASSUME NEW r \in Requests, Submit(r) \/ DeadlockVictim(r) \/ Fail(r)
      PROVE  NoEffect
  BY <1>2 DEF Submit, SubmitTransition, SubmitMerge, SubmitSplit, SubmitExtend, Ask,
     DeadlockVictim, Fail
<1>3. ASSUME NEW r \in Requests, TakeKey(r) \/ LockRow(r) \/ Attach(r) \/ Touch(r)
      PROVE  NoEffect
  BY <1>3 DEF TakeKey, LockRow, Attach, Touch
<1>4. ASSUME NEW r \in Requests,
             \/ CommitMerge(r) /\ ~CanMerge(r)
             \/ CommitSplit(r) /\ ~CanSplit(r)
      PROVE  NoEffect
  BY <1>4 DEF CommitMerge, CommitSplit
<1>5. CASE Next
  <2>1. PICK r \in Requests : Submit(r) \/ Step(r) \/ DeadlockVictim(r) \/ Fail(r)
    BY <1>5 DEF Next
  <2>2. QED
    BY <1>2, <1>3, <1>4, <2>1 DEF Step
<1>6. QED
  BY <1>1, <1>5

\* A merged incident keeps its parent and is written by a late transition only.
LEMMA MergedIsKept ==
  ASSUME IInv, [Next]_vars, NEW i \in Incidents, parent[i] # None, i \notin overtaken'
  PROVE  parent'[i] = parent[i] /\ status'[i] = status[i]
<1> USE DEF IInv
<1>1. i \notin overtaken => status[i] = "merged"
  BY DEF MergeForest
<1>2. CASE NoEffect
  BY <1>2 DEF NoEffect, rows
<1>3. ASSUME NEW r \in Requests, CommitExtend(r) PROVE UNCHANGED <<parent, status>>
  BY <1>3 DEF CommitExtend
<1>4. ASSUME NEW r \in Requests, WriteTransition(r)
      PROVE  parent' = parent /\ status'[i] = status[i]
  <2>1. status[on[r]] # "merged" \/ on[r] \in overtaken'
    BY <1>4 DEF Orderly, Matches, WriteTransition, ReadStatus, Allowed
  <2>2. i \notin overtaken /\ on[r] # i
    BY <1>1, <1>4, <2>1 DEF WriteTransition
  <2>3. QED
    BY <1>4, <2>2 DEF WriteTransition, Become, TypeOK
<1>5. ASSUME NEW r \in Requests, CommitMerge(r), CanMerge(r)
      PROVE  parent'[i] = parent[i] /\ status'[i] = status[i]
  <2>1. status[i] = "merged" /\ on[r] # i
    BY <1>1, <1>5 DEF CommitMerge, CanMerge
  <2>2. QED
    BY <1>5, <2>1 DEF CommitMerge, Become, TypeOK
<1>6. ASSUME NEW r \in Requests, CommitSplit(r), CanSplit(r)
      PROVE  parent'[i] = parent[i] /\ status'[i] = status[i]
  <2>1. PICK child \in Fresh : Become(child, "new") /\ UNCHANGED <<parent, overtaken>>
    BY <1>6 DEF CommitSplit
  <2>2. status[i] = "merged" /\ child # i
    BY <1>1, <2>1, LifecycleAssumption DEF Fresh, Existing, Statuses
  <2>3. QED
    BY <2>1, <2>2 DEF Become, TypeOK
<1>7. QED
  BY <1>2, <1>3, <1>4, <1>5, <1>6, Effects

\* Nothing but a transition over a status it had not read changes the status or
\* the parent of an incident that was merged.
THEOREM MergesFinal == Spec => MergeIsFinal
<1>1. IInv /\ [Next]_vars =>
        [\A i \in Incidents : parent[i] # None /\ i \notin overtaken'
                              => parent'[i] = parent[i] /\ status'[i] = status[i]]_vars
  BY MergedIsKept
<1>2. QED
  BY <1>1, InvCorrect, PTL DEF Spec, MergeIsFinal

-----------------------------------------------------------------------------
(* The refinement. *)

\* A step of IncidentLifecycle does one of the steps of CaseFile, or none.
LEMMA CaseStep ==
  ASSUME IInv, [Next]_vars
  PROVE  [Case!Next]_(Case!vars)
<1> USE DEF IInv
<1>1. CASE NoEffect
  BY <1>1 DEF NoEffect, rows, Case!vars, Linked
<1>2. ASSUME NEW r \in Requests, CommitExtend(r) PROVE Case!Next
  <2>1. AddsEvidence(r)
    BY <1>2 DEF CommitExtend, Orderly, Matches
  <2>2. PICK i \in Incidents, E \in SUBSET Evidence :
          i = on[r] /\ E = chosen[r] /\ \E s \in past[i] : s \notin Settled
    BY <2>1 DEF AddsEvidence, Existing, TypeOK
  <2>3. links' = links \cup {i} \X E
    BY <1>2, <2>2 DEF CommitExtend
  <2>4. /\ \A k \in Incidents \ {i} : Linked(k)' = Linked(k)
        /\ Linked(i)' = Linked(i) \cup E
    BY <2>3 DEF Linked
  <2>5. Case!Extend(i, E)
    BY <1>2, <2>2, <2>4 DEF Case!Extend, CommitExtend
  <2>6. QED
    BY <2>5 DEF Case!Next
<1>3. ASSUME NEW r \in Requests, WriteTransition(r) PROVE Case!Next
  <2>1. ReadStatus(r)
    BY <1>3 DEF WriteTransition, Orderly, Matches
  <2>2. /\ on[r] \in Incidents /\ to[r] \in Allowed
        /\ <<to[r][1], to[r][2]>> \in Allowed /\ to[r][1] \in past[on[r]]
    BY <2>1 DEF ReadStatus, Existing, Allowed
  <2>3. Case!Transition(on[r], to[r][2])
    BY <1>3, <2>2 DEF Case!Transition, Case!Become, WriteTransition, Become, Linked
  <2>4. QED
    BY <2>2, <2>3 DEF Case!Next
<1>4. ASSUME NEW r \in Requests, CommitMerge(r), CanMerge(r) PROVE Case!Next
  <2>1. MovesEvidence(r) /\ kind[r] = "merge"
    BY <1>4 DEF CommitMerge, RowsLocked, Orderly, Matches
  <2>2. PICK i \in Existing, j \in Existing : i = on[r] /\ j = to[r] /\ i # j
    BY <2>1 DEF MovesEvidence
  <2>3. links' = links \cup {j} \X Linked(i)
    BY <1>4, <2>2 DEF CommitMerge
  <2>4. \A k \in Incidents \ {j} : Linked(k)' = Linked(k)
    BY <2>3 DEF Linked
  <2>5. Linked(j)' = Linked(j) \cup Linked(i)
    BY <2>3 DEF Linked
  <2>6. Case!Merge(i, j)
    BY <1>4, <2>2, <2>4, <2>5
    DEF Case!Merge, Case!Become, CommitMerge, Become, CanMerge, Existing
  <2>7. QED
    BY <2>2, <2>6 DEF Case!Next, Existing
<1>5. ASSUME NEW r \in Requests, CommitSplit(r), CanSplit(r) PROVE Case!Next
  <2>1. MovesEvidence(r) /\ kind[r] = "split"
    BY <1>5 DEF CommitSplit, RowsLocked, Orderly, Matches
  <2>2. PICK i \in Existing, E \in SUBSET Evidence : i = on[r] /\ E = chosen[r] /\ E # {}
    BY <1>5, <2>1 DEF MovesEvidence, CommitSplit, TypeOK
  <2>3. E \subseteq Linked(i)
    BY <1>5, <2>2 DEF CanSplit
  <2>4. PICK child \in Fresh :
          Become(child, "new") /\ links' = (links \ {i} \X E) \cup {child} \X E
    BY <1>5, <2>2 DEF CommitSplit
  <2>5. child \in Incidents /\ child # i /\ status[child] = None /\ Linked(child) = {}
    BY <2>2 DEF Fresh, Existing, Linked, Orderly, Recorded
  <2>6. \A k \in Incidents \ {i, child} : Linked(k)' = Linked(k)
    BY <2>4 DEF Linked
  <2>7. Linked(i)' = Linked(i) \ E
    BY <2>4, <2>5 DEF Linked
  <2>8. Linked(child)' = E
    BY <2>4, <2>5 DEF Linked
  <2>9. Case!Split(i, child, E)
    BY <1>5, <2>2, <2>3, <2>4, <2>5, <2>6, <2>7, <2>8
    DEF Case!Split, Case!Become, CommitSplit, Become, CanSplit, Existing
  <2>10. QED
    BY <2>2, <2>5, <2>9 DEF Case!Next, Existing
<1>6. QED
  BY <1>1, <1>2, <1>3, <1>4, <1>5, Effects

\* Every interleaving of transitions, merges, splits and correlators, with their
\* locks, failures and deadlocks, is a sequence of the atomic steps of CaseFile.
THEOREM LifecycleImplementsCaseFile == Spec => ImplementsCaseFile
<1>1. Init => Case!Init
  BY LifecycleAssumption DEF Init, Case!Init, Linked
<1>2. IInv /\ [Next]_vars => [Case!Next]_(Case!vars)
  BY CaseStep
<1>3. QED
  BY <1>1, <1>2, InvCorrect, PTL DEF Spec, ImplementsCaseFile, Case!Spec

=============================================================================
