----------------------------- MODULE ResponseLoop -----------------------------
(***************************************************************************)
(* The loop from detection to response and back: RedisDetectors look up    *)
(* the values that ResponseExecutor's actions have blocked, both through   *)
(* one Redis and one cached list.  The detectors read the committed rows,  *)
(* the executor deletes the list when it changes them.                     *)
(***************************************************************************)
EXTENDS ResponseExecutor

CONSTANTS Tasks, Times, Lookback, Threshold, MaxCount, MaxAborts,
          Arrivals     \* the events that may come with each workload

ASSUME LoopAssumption ==
  /\ Tasks \subseteq Nat /\ IsFiniteSet(Tasks)
  /\ Times \subseteq Nat /\ Lookback \in Nat
  /\ Threshold \in 1..MaxCount /\ MaxCount \in Nat /\ MaxAborts \in Nat

VARIABLES arrivals, task, window, cooldown, aborts, known, alarms, anomalies, irregular,
          raced   \* history: a task cached rows that were not, or no longer, the
                  \* committed ones

Det == INSTANCE RedisDetectors WITH active <- ActiveValues

detectorsOwn == <<arrivals, task, window, cooldown, aborts, known, alarms, anomalies, irregular>>
vars == <<execVars, cache, outages, detectorsOwn, raced>>

Init == ExecInit /\ Det!DetInit /\ arrivals \in Arrivals[work] /\ raced = FALSE

\* A request has deleted the cached list and not yet committed its change of it.
Between == \E r \in Requests : /\ req[r].pc = "commit" /\ req[r].op \in {"execute", "revert"}
                               /\ Kind(req[r].target) = "block_observable"
                               /\ req[r].result # "fail"

\* The list is filled in that time, or filled later with rows read before it ended.
Races == \/ Between /\ cache' \notin {None, cache}
         \/ ActiveValues' # ActiveValues /\ \E t \in Tasks : Det!At(t, "fill")

\* A step of the executor, one of the detectors.
Exec(A) == A /\ UNCHANGED detectorsOwn /\ raced' = (raced \/ Races)
Detection(A) == A /\ UNCHANGED execVars /\ raced' = (raced \/ Races)

Next == Exec(ExecNext) \/ Detection(Det!DetNext)

Spec == Init /\ [][Next]_vars

\* Requests and tasks run on the event loop; Redis ends keys.
FairSpec == /\ Spec
            /\ \A r \in Requests : WF_vars(Exec(Proceed(r)))
            /\ \A t \in Tasks : WF_vars(Detection(Det!Detect(t)))
            /\ WF_vars(Detection(Det!DropCache))

-----------------------------------------------------------------------------
(* Properties *)

\* Every variable keeps its shape.
TypeOK == ExecTypeOK /\ Det!DetTypeOK

\* The cached list is the committed one, unless a detector read or filled it
\* around the commit of a request that had already deleted it, or Redis failed.
CacheMatchesTable ==
  outages = 0 /\ ~raced => cache = None \/ cache.values = ActiveValues

\* What a detector that runs now matches against.
View == IF cache = None THEN ActiveValues ELSE cache.values

\* However the list went stale, detectors come to see what is blocked and what
\* no longer is, again and again, as a list does not outlive its 30 seconds.
DetectorsCatchUp == []<>(View = ActiveValues)

\* RedisDetectors, in this composition.
AlarmsNotRepeated == Det!AlarmsNotRepeated
NewSourceNotRepeated == Det!NewSourceNotRepeated
=============================================================================
