-------------------------- MODULE WazuhPollerProofs --------------------------
(***************************************************************************)
(* Proofs about WazuhPoller for any number of alerts, any batch size and   *)
(* limit, any alerts that cannot be decoded, and any number of failures    *)
(* and restarts.                                                           *)
(***************************************************************************)
EXTENDS WazuhPoller, FiniteSetTheorems, TLAPS

-----------------------------------------------------------------------------
(* Alerts. *)

\* Alerts are numbered from 1.
LEMMA HitsPositive == \A h \in Hits : h \in Nat /\ h > 0
  BY PollerAssumption DEF Hits

\* A set of alerts can be counted.
LEMMA HitsFinite ==
  ASSUME NEW S \in SUBSET Hits
  PROVE  IsFiniteSet(S) /\ Cardinality(S) \in Nat
<1>1. IsFiniteSet(Hits)
  BY PollerAssumption, FS_Interval, 1 \in Int, MaxHit \in Int DEF Hits
<1>2. IsFiniteSet(S)
  BY <1>1, FS_Subset
<1>3. QED
  BY <1>2, FS_CardinalityType

\* The lowest of a set of alerts is one of them: the alerts up to it are the
\* smallest, by inclusion, of the sets of alerts up to one of the set.
LEMMA LowestHit ==
  ASSUME NEW S \in SUBSET Hits, S # {}
  PROVE  Min(S) \in S /\ \A h \in S : Min(S) <= h
<1> DEFINE T == {1..h : h \in S}
           R == StrictSubsetOrdering(Hits)
<1>1. S \subseteq Nat /\ \A h \in S : 1..h \in SUBSET Hits /\ h \in 1..h
  BY PollerAssumption DEF Hits
<1>2. T \subseteq FiniteSubsetsOf(Hits) /\ T # {}
  BY <1>1, HitsFinite DEF FiniteSubsetsOf
<1>3. PICK U \in T : \A V \in T : <<V, U>> \notin R
  <2> HIDE DEF T, R
  <2>1. IsWellFoundedOn(R, FiniteSubsetsOf(Hits))
    BY FS_StrictSubsetOrderingWellFounded DEF R
  <2>2. QED
    BY <1>2, <2>1, WFMin
<1>4. PICK x \in S : U = 1..x
  OBVIOUS
<1>5. ASSUME NEW y \in S, y < x PROVE FALSE
  <2>1. 1..y \subseteq 1..x /\ 1..y # 1..x
    BY <1>1, <1>5
  <2>2. <<1..y, 1..x>> \in R
    BY <1>1, <2>1 DEF StrictSubsetOrdering
  <2>3. QED
    BY <1>3, <1>4, <2>2
<1>6. \A y \in S : x <= y
  BY <1>1, <1>5
<1>7. QED
  BY <1>6 DEF Min

\* The lesser of two numbers.
LEMMA MinOfTwo ==
  ASSUME NEW a \in Nat, NEW b \in Nat
  PROVE  Min({a, b}) \in {a, b} /\ Min({a, b}) <= a /\ Min({a, b}) <= b
<1>1. \E x \in {a, b} : \A y \in {a, b} : x <= y
  OBVIOUS
<1>2. QED
  BY <1>1 DEF Min

-----------------------------------------------------------------------------
(* Types. *)

\* The handler of poller_loop: the wait is doubled and stays between its bounds.
LEMMA RecoverTypes ==
  ASSUME TypeOK, NEW error \in BOOLEAN, Recover(error)
  PROVE  /\ pc' = "query" /\ Forget
         /\ backoff' \in MinBackoff..MaxBackoff
         /\ lastError' \in BOOLEAN
<1>1. Min({2 * backoff, MaxBackoff}) \in MinBackoff..MaxBackoff
  BY MinOfTwo DEF TypeOK, MinBackoff, MaxBackoff
<1>2. QED
  BY <1>1 DEF TypeOK, Recover

\* The cursor row keeps its type.
LEMMA WriteRowTypes ==
  ASSUME TypeOK, WriteRow
  PROVE  cursor' \in 0..MaxHit /\ ingested' \in Nat /\ droppedTotal' \in Nat
  BY DEF TypeOK, WriteRow

\* The hit that is dealt with is one of the batch.
LEMMA CurrentHit ==
  ASSUME TypeOK, todo # {}
  PROVE  Current \in todo /\ Current \in Hits /\ \A t \in todo : Current <= t
  BY LowestHit DEF TypeOK, Current

\* Every step keeps the types.
LEMMA TypeStep == TypeOK /\ [Next]_vars => TypeOK'
<1> SUFFICES ASSUME TypeOK, [Next]_vars PROVE TypeOK'
  OBVIOUS
<1>1. CASE UNCHANGED vars
  BY <1>1 DEF TypeOK, vars, row, cycle, history
<1>2. ASSUME NEW h \in Hits, Index(h) PROVE TypeOK'
  BY <1>2 DEF TypeOK, Index, row, cycle, history
<1>3. CASE AgeOut
  BY <1>3, PollerAssumption DEF TypeOK, AgeOut, row, cycle, history
<1>4. CASE Start
  BY <1>4 DEF TypeOK, Start, row, cycle, history, MinBackoff, MaxBackoff
<1>5. CASE StartFails
  BY <1>5, PollerAssumption DEF TypeOK, StartFails, Fault, row, cycle, history
<1>6. CASE Fetch
  BY <1>6 DEF TypeOK, Fetch, FirstOf, Matching, row
<1>7. CASE HttpError
  BY <1>7, PollerAssumption DEF TypeOK, HttpError, Fault, cycle, history, MinBackoff, MaxBackoff
<1>8. CASE QueryRaises
  BY <1>8, RecoverTypes, PollerAssumption DEF TypeOK, QueryRaises, Fault, Forget, history
<1>9. CASE Drop
  BY <1>9, CurrentHit, PollerAssumption DEF TypeOK, Drop, row, history, Hits
<1>10. CASE DecodeRaises
  BY <1>10, RecoverTypes, PollerAssumption DEF TypeOK, DecodeRaises, Forget, history
<1>11. CASE Ingest
  <2>1. Current \in Hits
    BY <1>11, CurrentHit DEF Ingest
  <2>2. QED
    BY <1>11, <2>1, PollerAssumption DEF TypeOK, Ingest, row, history, Hits
<1>12. CASE IngestFails
  <2>1. Current \in Hits
    BY <1>12, CurrentHit DEF IngestFails
  <2>2. QED
    BY <1>12, <2>1, PollerAssumption DEF TypeOK, IngestFails, Fault, row
<1>13. CASE Save
  BY <1>13, WriteRowTypes DEF TypeOK, Save, history
<1>14. CASE SaveFails
  <2>1. FALSE \in BOOLEAN /\ lastError \in BOOLEAN
    BY DEF TypeOK
  <2>2. /\ pc' = "query" /\ Forget /\ backoff' \in MinBackoff..MaxBackoff
        /\ lastError' \in BOOLEAN
    BY <1>14, <2>1, RecoverTypes DEF SaveFails
  <2>3. cursor' \in 0..MaxHit /\ ingested' \in Nat /\ droppedTotal' \in Nat
    BY <1>14, WriteRowTypes DEF TypeOK, SaveFails
  <2>4. QED
    BY <1>14, <2>2, <2>3, PollerAssumption DEF TypeOK, SaveFails, Fault, Forget, history
<1>15. CASE Trip
  BY <1>15, RecoverTypes, PollerAssumption DEF TypeOK, Trip, Forget, history
<1>16. CASE Report
  BY <1>16, PollerAssumption DEF TypeOK, Report, Forget, row, history, MinBackoff, MaxBackoff
<1>17. CASE Stop
  BY <1>17, PollerAssumption DEF TypeOK, Stop, Forget, row, history
<1>18. CASE IngestRetried
  <2>1. Current \in Hits
    BY <1>18, CurrentHit DEF IngestRetried
  <2>2. QED
    BY <1>18, <2>1, PollerAssumption DEF TypeOK, IngestRetried, Fault, row, history, Hits
<1>19. QED
  BY <1>1, <1>2, <1>3, <1>4, <1>5, <1>6, <1>7, <1>8, <1>9, <1>10, <1>11, <1>12, <1>13,
     <1>14, <1>15, <1>16, <1>17, <1>18 DEF Next, Poll, Failure

\* At the start the cursor is NULL.
LEMMA TypeInit == Init => TypeOK
<1> SUFFICES ASSUME Init PROVE TypeOK
  OBVIOUS
<1>1. 0 \in 0..MaxHit /\ 0 \in 0..MaxFaults /\ 0 \in 0..MaxStops
  BY PollerAssumption
<1>2. backoff \in MinBackoff..MaxBackoff
  BY DEF Init, MinBackoff, MaxBackoff
<1>3. lastError \in BOOLEAN
  BY DEF Init
<1>4. QED
  BY <1>1, <1>2, <1>3 DEF Init, TypeOK

\* The poller's state keeps its shape, and the wait stays between 5 and 60
\* seconds however often cycles fail.
THEOREM TypeCorrect == Spec => []TypeOK
  BY TypeInit, TypeStep, PTL DEF Spec

-----------------------------------------------------------------------------
(* The cursor. *)

\* What a cycle has done so far: the alerts it will move the cursor over if it
\* is saved now, or will once the alerts before them are done.
Behind == {h \in seen \ todo : /\ aged < h /\ cursor < h
                               /\ h <= lastSort \/ \E t \in todo : h < t}

\* A cycle works through its batch in order, and away from the cursor.
Forward == /\ seen \subseteq indexed
           /\ pc # "hits" => todo = {}
           /\ pc \in {"down", "dead", "query"} => lastSort = 0
           /\ \A t \in todo : lastSort < t /\ cursor < t
           /\ pc = "hits" /\ lastSort # 0 => cursor < lastSort
           /\ lastSort # 0 => lastSort \in stored \cup Rejected
           /\ pc = "emit" => ~lastError

\* It leaves nothing behind that is neither stored nor counted.
Accounted == /\ Behind \subseteq stored \cup Rejected \cup failed
             /\ Cardinality(Behind \ stored) <= dropped

IInv == /\ TypeOK /\ Forward /\ Accounted
        /\ CursorSound /\ CursorRests /\ CountsRows /\ PassedIsCounted

\* A smaller set of alerts has no more members; one more alert, no more than one.
LEMMA FewerHits ==
  ASSUME NEW S \in SUBSET Hits, NEW T \in SUBSET Hits
  PROVE  /\ S \subseteq T => Cardinality(S) <= Cardinality(T)
         /\ \A h : S \subseteq T \cup {h} => Cardinality(S) <= Cardinality(T) + 1
<1>1. IsFiniteSet(S) /\ IsFiniteSet(T) /\ Cardinality(S) \in Nat /\ Cardinality(T) \in Nat
  BY HitsFinite
<1>2. S \subseteq T => Cardinality(S) <= Cardinality(T)
  BY <1>1, FS_Subset
<1>3. ASSUME NEW h, S \subseteq T \cup {h} PROVE Cardinality(S) <= Cardinality(T) + 1
  <2>1. IsFiniteSet(T \cup {h}) /\ Cardinality(T \cup {h}) <= Cardinality(T) + 1
    BY <1>1, FS_AddElement
  <2>2. Cardinality(S) <= Cardinality(T \cup {h}) /\ Cardinality(T \cup {h}) \in Nat
    BY <1>3, <2>1, FS_Subset, FS_CardinalityType
  <2>3. QED
    BY <1>1, <2>1, <2>2
<1>4. QED
  BY <1>2, <1>3

\* The end of a cycle, good or bad, forgets what was not saved.
LEMMA ForgetStep ==
  ASSUME IInv, TypeOK', Forget, pc' \notin {"hits", "emit"},
         UNCHANGED <<indexed, aged, cursor, ingested, droppedTotal, stored, history>>
  PROVE  IInv'
<1> USE DEF IInv
<1>1. Forward'
  BY DEF Forward, Forget, history
<1>2. Behind' = {}
  <2> SUFFICES ASSUME NEW h \in Behind' PROVE FALSE
    OBVIOUS
  <2>1. h \in Hits /\ h <= 0
    BY DEF Behind, Forget, TypeOK, history
  <2>2. QED
    BY <2>1, HitsPositive
<1>3. Accounted'
  BY <1>2, FS_EmptySet DEF Accounted, Forget
<1>4. Passed' = Passed
  BY DEF Passed, history
<1>5. CursorSound' /\ CursorRests' /\ PassedIsCounted'
  BY <1>4 DEF CursorSound, CursorRests, PassedIsCounted, history
<1>6. CountsRows'
  BY HitsFinite DEF CountsRows, Forget, TypeOK
<1>7. QED
  BY <1>1, <1>3, <1>5, <1>6

\* A step between cycles that touches neither the row nor the tables.
LEMMA OutsideStep ==
  ASSUME IInv, TypeOK', indexed \subseteq indexed',
         pc # pc' => pc' \in {"dead", "query"} /\ pc \in {"down", "query"},
         lastError' # lastError => pc' = "query",
         aged <= aged', aged # aged' => cursor = 0,
         UNCHANGED <<cursor, ingested, droppedTotal, cycle, stored, history>>
  PROVE  IInv'
<1> USE DEF IInv
<1>1. Forward'
  BY DEF Forward, cycle, history
<1>2. Behind' \subseteq Behind /\ Behind \subseteq Hits /\ Behind' \subseteq Hits
  <2>1. \A h \in Hits : h \in Nat /\ (aged' < h => aged < h)
    BY HitsPositive, PollerAssumption DEF TypeOK
  <2>2. QED
    BY <2>1 DEF Behind, cycle, history, TypeOK
<1>3. Accounted'
  <2>1. Behind' \subseteq (stored \cup Rejected \cup failed)'
    BY <1>2 DEF Accounted, history
  <2>2. Cardinality((Behind \ stored)') <= Cardinality(Behind \ stored)
    BY <1>2, FewerHits
  <2>3. Cardinality((Behind \ stored)') \in Nat /\ Cardinality(Behind \ stored) \in Nat
    BY <1>2, HitsFinite
  <2>4. QED
    BY <2>1, <2>2, <2>3 DEF Accounted, cycle, TypeOK
<1>4. Passed' = Passed
  <2>1. CASE cursor = 0
    BY <2>1, HitsPositive DEF Passed, history, TypeOK
  <2>2. CASE aged' = aged
    BY <2>2 DEF Passed, history
  <2>3. QED
    BY <2>1, <2>2
<1>5. CursorSound' /\ CursorRests' /\ PassedIsCounted' /\ CountsRows'
  BY <1>4 DEF CursorSound, CursorRests, PassedIsCounted, CountsRows, history, cycle
<1>6. QED
  BY <1>1, <1>3, <1>5

\* A query returns the first alerts behind the cursor: it leaves none behind
\* that comes before one it returned.
LEMMA FetchStep ==
  ASSUME IInv, TypeOK', Fetch
  PROVE  IInv'
<1> USE DEF IInv
<1>1. Matching \subseteq Hits /\ FirstOf(Matching) \subseteq Matching
  BY DEF Matching, FirstOf, TypeOK
<1>2. ASSUME NEW h \in Matching, NEW t \in FirstOf(Matching), h < t
      PROVE  h \in FirstOf(Matching)
  <2> DEFINE Before(x) == {g \in Matching : g < x}
  <2>1. Before(h) \subseteq Before(t) /\ Before(t) \subseteq Hits /\ Before(h) \subseteq Hits
    <3>1. h \in Nat /\ t \in Nat /\ \A g \in Matching : g \in Nat
      BY <1>1, HitsPositive
    <3>2. \A g \in Matching : g < h => g < t
      BY <1>2, <3>1
    <3>3. QED
      BY <1>1, <3>2
  <2>2. Cardinality(Before(h)) <= Cardinality(Before(t))
    BY <2>1, FewerHits
  <2>3. Cardinality(Before(h)) \in Nat /\ Cardinality(Before(t)) \in Nat
    BY <2>1, HitsFinite
  <2>4. Cardinality(Before(t)) < BatchSize
    BY <1>2 DEF FirstOf
  <2>5. QED
    BY <2>2, <2>3, <2>4, PollerAssumption DEF FirstOf
<1>3. /\ pc = "query" /\ pc' = "hits" /\ todo = {} /\ lastSort = 0
      /\ todo' = FirstOf(Matching) /\ seen' = seen \cup Matching
      /\ UNCHANGED <<indexed, aged, row, lastSort, accepted, dropped, stored, failed>>
  BY DEF Fetch, Forward
<1>4. \A t \in Matching : 0 < t /\ cursor < t
  BY <1>1, PollerAssumption DEF Matching, TypeOK, Hits
<1>5. Forward'
  <2>1. seen' \subseteq indexed'
    BY <1>3 DEF Forward, Matching
  <2>2. \A t \in todo' : lastSort' < t /\ cursor' < t
    BY <1>1, <1>3, <1>4 DEF row
  <2>3. QED
    BY <1>3, <2>1, <2>2 DEF Forward
<1>6. Behind' = {}
  <2> SUFFICES ASSUME NEW h \in Behind' PROVE FALSE
    OBVIOUS
  <2>1. h \in seen' /\ h \notin todo' /\ aged < h /\ cursor < h /\ h \in Hits
    BY <1>1, <1>3 DEF Behind, TypeOK, row
  <2>2. h \in Matching
    BY <1>3, <2>1 DEF Forward, Matching
  <2>3. PICK t \in todo' : h < t
    BY <1>3, <1>4, <2>1, <2>2, PollerAssumption DEF Behind, Hits
  <2>4. QED
    BY <1>2, <1>3, <2>1, <2>2, <2>3
<1>7. Accounted'
  BY <1>3, <1>6, FS_EmptySet DEF Accounted, TypeOK
<1>8. Passed' = Passed
  <2>1. \A h \in Matching : ~(h <= cursor)
    BY <1>1, <1>4, HitsPositive DEF TypeOK
  <2>2. QED
    BY <1>3, <2>1 DEF Passed, row
<1>9. CursorSound' /\ CursorRests' /\ PassedIsCounted' /\ CountsRows'
  BY <1>3, <1>8 DEF CursorSound, CursorRests, PassedIsCounted, CountsRows, row
<1>10. QED
  BY <1>5, <1>7, <1>9

\* The alert a cycle deals with comes before all others left of the batch, and
\* what was behind before it stays so; nothing else falls behind.
LEMMA OneHit ==
  ASSUME IInv, pc = "hits", todo # {}, lastSort' \in {lastSort, Current},
         todo' \in {{}, todo \ {Current}},
         UNCHANGED <<pc, indexed, aged, row, seen>>
  PROVE  /\ Current \in Hits
         /\ Behind' \subseteq Behind \cup {Current}
         /\ \A t \in todo' : lastSort' < t /\ cursor' < t
         /\ lastSort' # 0 => cursor' < lastSort'
         /\ Passed' = Passed
<1> USE DEF IInv
<1>1. PICK c \in Hits : c = Current /\ c \in todo /\ \A t \in todo : c <= t
  BY CurrentHit
<1>2. todo \subseteq Hits /\ seen \subseteq Hits /\ lastSort \in Nat /\ cursor \in Nat
  BY PollerAssumption DEF TypeOK
<1>3. /\ lastSort < c /\ cursor < c /\ c \in Nat
      /\ \A h \in todo \cup seen : h \in Nat
      /\ \A t \in todo : lastSort < t
  BY <1>1, <1>2, HitsPositive DEF Forward
<1>4. \A t \in todo' : t \in todo /\ c < t
  <2> TAKE t \in todo'
  <2>1. t \in todo /\ t # c
    BY <1>1
  <2>2. t \in Nat /\ c <= t
    BY <1>1, <1>3, <2>1
  <2>3. QED
    BY <1>3, <2>1, <2>2
<1>5. \A t \in todo' : lastSort' < t /\ cursor' < t
  BY <1>1, <1>3, <1>4 DEF Forward, row
<1>6. lastSort' # 0 => cursor' < lastSort'
  BY <1>1, <1>3 DEF Forward, row
<1>7. ASSUME NEW h \in Behind', h # c PROVE h \in Behind
  <2>1. h \in seen /\ aged < h /\ cursor < h /\ h \in Nat /\ h \notin todo'
    BY <1>3 DEF Behind, row
  <2>2. h <= lastSort' \/ \E t \in todo' : h < t
    BY DEF Behind
  <2>3. CASE h \in todo
    <3>1. c < h /\ todo' = {}
      BY <1>1, <1>3, <1>7, <2>1, <2>3
    <3>2. h <= lastSort' /\ lastSort < h
      BY <1>3, <2>2, <2>3, <3>1
    <3>3. QED
      BY <1>1, <1>2, <1>3, <2>1, <3>1, <3>2
  <2>4. CASE h \notin todo
    <3>1. CASE \E t \in todo' : h < t
      BY <1>4, <2>1, <2>4, <3>1 DEF Behind
    <3>2. CASE h <= lastSort
      BY <2>1, <2>4, <3>2 DEF Behind
    <3>3. CASE h <= lastSort' /\ lastSort' # lastSort
      <4>1. h < c
        BY <1>1, <1>3, <1>7, <2>1, <3>3
      <4>2. QED
        BY <1>1, <2>1, <2>4, <4>1 DEF Behind
    <3>4. QED
      BY <2>2, <3>1, <3>2, <3>3
  <2>5. QED
    BY <2>3, <2>4
<1>8. Passed' = Passed
  BY DEF Passed, row
<1>9. QED
  BY <1>1, <1>5, <1>6, <1>7, <1>8

\* A stored or rejected alert may become the cursor; a failed one is counted.
LEMMA HitStep ==
  ASSUME IInv, TypeOK', Drop \/ Ingest \/ IngestRetried \/ IngestFails
  PROVE  IInv'
<1> USE DEF IInv
<1>1. /\ pc = "hits" /\ todo # {} /\ lastSort' \in {lastSort, Current}
      /\ todo' \in {{}, todo \ {Current}}
      /\ UNCHANGED <<pc, indexed, aged, row, seen>>
      /\ stored \subseteq stored' /\ failed \subseteq failed'
  BY DEF Drop, Ingest, IngestRetried, IngestFails, history
<1>2. /\ Current \in Hits
      /\ Behind' \subseteq Behind \cup {Current}
      /\ \A t \in todo' : lastSort' < t /\ cursor' < t
      /\ lastSort' # 0 => cursor' < lastSort'
      /\ Passed' = Passed
  BY <1>1, OneHit
<1>3. Forward'
  <2>1. lastSort' # lastSort => Current \in stored' \cup Rejected
    BY DEF Drop, Ingest, IngestRetried, IngestFails
  <2>2. QED
    BY <1>1, <1>2, <2>1 DEF Forward, row
<1>4. Behind' \subseteq (stored \cup Rejected \cup failed)'
  <2>1. Current \in (stored \cup Rejected \cup failed)'
    BY DEF Drop, Ingest, IngestRetried, IngestFails
  <2>2. QED
    BY <1>1, <1>2, <2>1 DEF Accounted
<1>5. Cardinality((Behind \ stored)') <= dropped'
  <2>1. Behind \ stored \subseteq Hits /\ (Behind \ stored)' \subseteq Hits
    BY DEF Behind, TypeOK
  <2>2. Cardinality(Behind \ stored) \in Nat /\ Cardinality((Behind \ stored)') \in Nat
    BY <2>1, HitsFinite
  <2>3. Cardinality(Behind \ stored) <= dropped /\ dropped \in Nat
    BY DEF Accounted, TypeOK
  <2>4. CASE Ingest \/ IngestRetried
    <3>1. (Behind \ stored)' \subseteq Behind \ stored /\ dropped' = dropped
      BY <1>1, <1>2, <2>4 DEF Ingest, IngestRetried
    <3>2. Cardinality((Behind \ stored)') <= Cardinality(Behind \ stored)
      BY <2>1, <3>1, FewerHits
    <3>3. QED
      BY <2>2, <2>3, <3>1, <3>2
  <2>5. CASE Drop \/ IngestFails
    <3>1. (Behind \ stored)' \subseteq (Behind \ stored) \cup {Current}
      BY <1>1, <1>2
    <3>2. Cardinality((Behind \ stored)') <= Cardinality(Behind \ stored) + 1
      BY <2>1, <3>1, FewerHits
    <3>3. dropped' = dropped + 1
      BY <2>5 DEF Drop, IngestFails
    <3>4. QED
      BY <2>2, <2>3, <3>2, <3>3
  <2>6. QED
    BY <2>4, <2>5
<1>6. CursorSound' /\ CursorRests'
  BY <1>1, <1>2 DEF CursorSound, CursorRests, row
<1>7. stored \subseteq Hits /\ stored' \subseteq Hits
  BY DEF TypeOK
<1>8. CountsRows'
  <2>1. Cardinality(stored) \in Nat /\ Cardinality(stored') \in Nat
    BY <1>7, HitsFinite
  <2>2. CASE accepted' = accepted
    <3>1. Cardinality(stored) <= Cardinality(stored')
      BY <1>1, <1>7, FewerHits
    <3>2. QED
      BY <1>1, <2>1, <2>2, <3>1 DEF CountsRows, TypeOK, row
  <2>3. CASE accepted' # accepted
    <3>1. Current \notin stored /\ stored' = stored \cup {Current} /\ accepted' = accepted + 1
      BY <2>3 DEF Drop, Ingest, IngestRetried, IngestFails
    <3>2. Cardinality(stored') = Cardinality(stored) + 1
      BY <1>7, <3>1, HitsFinite, FS_AddElement
    <3>3. QED
      BY <1>1, <2>1, <3>1, <3>2 DEF CountsRows, TypeOK, row
  <2>4. QED
    BY <2>2, <2>3
<1>9. PassedIsCounted'
  <2>1. Passed \ stored \subseteq Hits /\ (Passed \ stored)' \subseteq Hits
        /\ (Passed \ stored)' \subseteq Passed \ stored
    BY <1>1, <1>2 DEF Passed, TypeOK
  <2>2. Cardinality((Passed \ stored)') <= Cardinality(Passed \ stored)
    BY <2>1, FewerHits
  <2>3. Cardinality(Passed \ stored) \in Nat /\ Cardinality((Passed \ stored)') \in Nat
    BY <2>1, HitsFinite
  <2>4. QED
    BY <1>1, <2>2, <2>3 DEF PassedIsCounted, TypeOK, row
<1>10. QED
  BY <1>3, <1>4, <1>5, <1>6, <1>8, <1>9 DEF Accounted

\* Saving moves the cursor over what the batch left behind, all of it stored or
\* counted, and never back.
LEMMA WriteRowStep ==
  ASSUME IInv, pc = "hits", todo = {}, WriteRow, UNCHANGED <<aged, stored, history>>
  PROVE  /\ cursor <= cursor' /\ (lastSort # 0 => cursor' = lastSort)
         /\ CursorSound' /\ CursorRests' /\ PassedIsCounted'
         /\ ingested' <= Cardinality(stored)
<1> USE DEF IInv
<1>1. cursor <= cursor' /\ (lastSort # 0 => cursor' = lastSort)
  BY PollerAssumption DEF WriteRow, Forward, TypeOK
<1>2. Passed' \subseteq Passed \cup Behind
  <2> SUFFICES ASSUME NEW h \in Passed', h \notin Passed PROVE h \in Behind
    OBVIOUS
  <2>1. h \in seen /\ aged < h /\ h <= cursor' /\ h \in Nat /\ ~(h <= cursor)
    BY HitsPositive DEF Passed, TypeOK, history
  <2>2. h <= lastSort /\ cursor < h
    BY <2>1, PollerAssumption DEF WriteRow, TypeOK
  <2>3. QED
    BY <2>1, <2>2 DEF Behind
<1>3. CursorSound'
  BY <1>2 DEF CursorSound, Accounted, history
<1>4. CursorRests'
  BY DEF CursorRests, WriteRow, Forward
<1>5. PassedIsCounted'
  <2> DEFINE A == Passed \ stored
             B == Behind \ stored
             C == (Passed \ stored)'
  <2>1. A \subseteq Hits /\ B \subseteq Hits /\ C \subseteq Hits
    BY DEF Passed, Behind, TypeOK, history
  <2>2. C \subseteq A \cup B
    BY <1>2
  <2> HIDE DEF A, B, C
  <2>3. /\ IsFiniteSet(A) /\ IsFiniteSet(B)
        /\ Cardinality(A) \in Nat /\ Cardinality(B) \in Nat /\ Cardinality(C) \in Nat
    BY <2>1, HitsFinite
  <2>4. /\ Cardinality(A \cup B) = Cardinality(A) + Cardinality(B) - Cardinality(A \cap B)
        /\ IsFiniteSet(A \cup B)
    BY <2>3, FS_Union
  <2>5. Cardinality(A \cap B) \in Nat /\ Cardinality(A \cup B) \in Nat
    <3>1. A \cap B \in SUBSET Hits /\ A \cup B \in SUBSET Hits
      BY <2>1
    <3>2. QED
      BY <3>1, HitsFinite
  <2>6. Cardinality(C) <= Cardinality(A \cup B)
    BY <2>2, <2>4, FS_Subset
  <2>7. Cardinality(C) <= Cardinality(A) + Cardinality(B)
    BY <2>3, <2>4, <2>5, <2>6
  <2>8. Cardinality(A) <= droppedTotal /\ Cardinality(B) <= dropped
    BY DEF A, B, PassedIsCounted, Accounted
  <2>9. droppedTotal' = droppedTotal + dropped /\ droppedTotal \in Nat /\ dropped \in Nat
    BY DEF WriteRow, TypeOK
  <2>10. Cardinality(C) <= droppedTotal'
    BY <2>3, <2>7, <2>8, <2>9
  <2>11. QED
    BY <2>10 DEF C, PassedIsCounted
<1>6. ingested' <= Cardinality(stored)
  BY DEF WriteRow, CountsRows
<1>7. QED
  BY <1>1, <1>3, <1>4, <1>5, <1>6

\* The cursor row is written at the end of a batch.
LEMMA SaveStep ==
  ASSUME IInv, TypeOK', Save
  PROVE  IInv'
<1> USE DEF IInv
<1>1. /\ pc = "hits" /\ todo = {} /\ WriteRow /\ pc' \in {"trip", "emit"}
      /\ accepted' = 0 /\ dropped' = 0 /\ lastError' = FALSE
      /\ UNCHANGED <<indexed, aged, todo, lastSort, stored, history>>
  BY DEF Save
<1>2. /\ cursor <= cursor' /\ (lastSort # 0 => cursor' = lastSort)
      /\ CursorSound' /\ CursorRests' /\ PassedIsCounted'
      /\ ingested' <= Cardinality(stored)
  BY <1>1, WriteRowStep
<1>3. Forward'
  BY <1>1 DEF Forward, history
<1>4. Behind' = {}
  <2> SUFFICES ASSUME NEW h \in Behind' PROVE FALSE
    OBVIOUS
  <2>1. h \in Hits /\ h \in Nat /\ cursor' < h /\ h <= lastSort'
    BY <1>1, HitsPositive DEF Behind, TypeOK, history
  <2>2. lastSort # 0 => ~(cursor' < h)
    BY <1>1, <1>2, <2>1, PollerAssumption DEF TypeOK
  <2>3. QED
    BY <1>1, <2>1, <2>2, HitsPositive
<1>5. Accounted'
  BY <1>1, <1>4, FS_EmptySet DEF Accounted
<1>6. CountsRows'
  BY <1>1, <1>2 DEF CountsRows, TypeOK
<1>7. QED
  BY <1>2, <1>3, <1>5, <1>6

\* The write of the cursor row fails, or its answer is lost.
LEMMA SaveFailsStep ==
  ASSUME IInv, TypeOK', SaveFails
  PROVE  IInv'
<1> USE DEF IInv
<1>1. /\ pc = "hits" /\ todo = {} /\ pc' = "query" /\ Forget
      /\ UNCHANGED <<indexed, aged, stored, history>>
      /\ WriteRow \/ UNCHANGED <<cursor, ingested, droppedTotal>>
  BY DEF SaveFails, Recover
<1>2. CASE UNCHANGED <<cursor, ingested, droppedTotal>>
  BY <1>1, <1>2, ForgetStep
<1>3. CASE WriteRow
  <2>1. /\ cursor <= cursor' /\ (lastSort # 0 => cursor' = lastSort)
        /\ CursorSound' /\ CursorRests' /\ PassedIsCounted'
        /\ ingested' <= Cardinality(stored)
    BY <1>1, <1>3, WriteRowStep
  <2>2. Forward'
    BY <1>1 DEF Forward, Forget, history
  <2>3. Behind' = {}
    <3> SUFFICES ASSUME NEW h \in Behind' PROVE FALSE
      OBVIOUS
    <3>1. h \in Hits /\ h <= 0
      BY <1>1 DEF Behind, Forget, TypeOK, history
    <3>2. QED
      BY <3>1, HitsPositive
  <2>4. Accounted'
    BY <1>1, <2>3, FS_EmptySet DEF Accounted, Forget
  <2>5. CountsRows'
    BY <1>1, <2>1 DEF CountsRows, Forget, TypeOK
  <2>6. QED
    BY <2>1, <2>2, <2>4, <2>5
<1>4. QED
  BY <1>1, <1>2, <1>3

-----------------------------------------------------------------------------
(* The invariant. *)

\* At the start nothing is passed.
LEMMA InvInit == Init => IInv
<1> SUFFICES ASSUME Init PROVE IInv
  OBVIOUS
<1>1. TypeOK
  BY TypeInit
<1>2. Behind = {} /\ Passed = {}
  BY DEF Init, Behind, Passed
<1>3. QED
  BY <1>1, <1>2, FS_EmptySet
  DEF Init, IInv, Forward, Accounted, CursorSound, CursorRests, CountsRows, PassedIsCounted

\* Every step keeps the invariant.
LEMMA InvStep == IInv /\ [Next]_vars => IInv'
<1> SUFFICES ASSUME IInv, [Next]_vars PROVE IInv'
  OBVIOUS
<1>0. TypeOK'
  BY TypeStep DEF IInv
<1>1. CASE UNCHANGED vars
  BY <1>0, <1>1, OutsideStep DEF vars, row, cycle, history, IInv, TypeOK
<1>2. ASSUME NEW h \in Hits, Index(h) PROVE IInv'
  BY <1>0, <1>2, OutsideStep DEF Index, row, cycle, history, IInv, TypeOK
<1>3. CASE AgeOut
  BY <1>0, <1>3, OutsideStep DEF AgeOut, row, cycle, history, IInv, TypeOK
<1>4. CASE Start \/ StartFails
  BY <1>0, <1>4, OutsideStep DEF Start, StartFails, row, cycle, history, IInv, TypeOK
<1>5. CASE HttpError
  BY <1>0, <1>5, OutsideStep DEF HttpError, cycle, history, IInv, TypeOK
<1>6. CASE QueryRaises \/ DecodeRaises \/ Trip
  BY <1>0, <1>6, ForgetStep DEF QueryRaises, DecodeRaises, Trip, Recover, history
<1>7. CASE Report \/ Stop
  BY <1>0, <1>7, ForgetStep DEF Report, Stop, row, history
<1>8. QED
  BY <1>0, <1>1, <1>2, <1>3, <1>4, <1>5, <1>6, <1>7, FetchStep, HitStep, SaveStep,
     SaveFailsStep DEF Next, Poll, Failure

\* What the poller holds in memory, the cursor row and the counters go together
\* in every reachable state, whatever is lost and replayed.
THEOREM InvCorrect == Spec => []IInv
  BY InvInit, InvStep, PTL DEF Spec

\* The cursor never passes an alert that is neither stored, nor rejected by the
\* decoder, nor tried and failed, for any batch size, limit and failures.
THEOREM CursorIsSound == Spec => []CursorSound
  BY InvCorrect, PTL DEF IInv

\* It rests on alerts that were dealt with.
THEOREM CursorComesToRest == Spec => []CursorRests
  BY InvCorrect, PTL DEF IInv

\* events_ingested_total counts no event twice and none that is not in the
\* table, whatever is lost and replayed.
THEOREM CountsAreOfRows == Spec => []CountsRows
  BY InvCorrect, PTL DEF IInv

\* Every alert the cursor passed without a row is in events_dropped_total.
THEOREM LossesAreCounted == Spec => []PassedIsCounted
  BY InvCorrect, PTL DEF IInv

-----------------------------------------------------------------------------
(* What a step may do. *)

\* No step takes the cursor back.
LEMMA CursorStep == IInv /\ [Next]_vars => [cursor' >= cursor]_cursor
<1> SUFFICES ASSUME IInv, [Next]_vars PROVE cursor' >= cursor \/ UNCHANGED cursor
  OBVIOUS
<1>1. CASE Save \/ SaveFails
  <2>1. pc = "hits" /\ todo = {} /\ UNCHANGED <<aged, stored, history>>
    BY <1>1 DEF Save, SaveFails
  <2>2. WriteRow \/ UNCHANGED cursor
    BY <1>1 DEF Save, SaveFails
  <2>3. cursor \in Nat /\ cursor' \in Nat
    BY TypeStep, PollerAssumption DEF IInv, TypeOK
  <2>4. QED
    BY <2>1, <2>2, <2>3, WriteRowStep
<1>2. CASE ~(Save \/ SaveFails)
  BY <1>2 DEF Next, vars, Poll, Failure, Index, AgeOut, Start, StartFails, Fetch, HttpError,
     QueryRaises, Drop, DecodeRaises, Ingest, IngestRetried, IngestFails, Trip, Report, Stop, row
<1>3. QED
  BY <1>1, <1>2

\* The cursor never goes back, nor to NULL: what it has passed is not re-read.
THEOREM CursorIsMonotone == Spec => CursorMonotone
  BY CursorStep, InvCorrect, PTL DEF Spec, CursorMonotone

\* A change of the status is reported as the row has it.
LEMMA StatusStep ==
  IInv /\ [Next]_vars => [/\ reachable' = "down" => lastError'
                          /\ reachable' = "up" => ~lastError']_reachable
<1> SUFFICES ASSUME IInv, [Next]_vars, reachable' # reachable
             PROVE  /\ reachable' = "down" => lastError'
                    /\ reachable' = "up" => ~lastError'
  OBVIOUS
<1>1. HttpError \/ Report \/ Stop
  BY DEF Next, vars, Poll, Failure, Index, AgeOut, Start, StartFails, Fetch,
     QueryRaises, Drop, DecodeRaises, Ingest, IngestRetried, IngestFails, Save, SaveFails, Trip
<1>2. CASE HttpError
  BY <1>2 DEF HttpError
<1>3. CASE Report
  BY <1>3 DEF Report, row, IInv, Forward
<1>4. CASE Stop
  BY <1>4 DEF Stop
<1>5. QED
  BY <1>1, <1>2, <1>3, <1>4

\* What a status event says of the indexer is what GET /wazuh/status answers.
THEOREM StatusAgrees == Spec => StatusAgreesWithRow
  BY StatusStep, InvCorrect, PTL DEF Spec, StatusAgreesWithRow

=============================================================================
