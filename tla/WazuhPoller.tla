----------------------------- MODULE WazuhPoller -----------------------------
(***************************************************************************)
(* The Wazuh poller of the backend: one task that reads the alerts of the  *)
(* Wazuh indexer behind a cursor kept in PostgreSQL, feeds each of them to *)
(* the ingest pipeline and moves the cursor.                               *)
(*                                                                         *)
(* Alerts are numbered in the order of the indexer's sort, (@timestamp,    *)
(* _id); they become visible in any order.  The indexer, the pipeline, the *)
(* database and the process may fail between any two steps.  An ingest has *)
(* the outcomes EventIntake allows: stored, duplicate, or an error with or *)
(* without a row (the dedupe key of an alert is its _id, so a row once     *)
(* stored is found again).                                                 *)
(***************************************************************************)
EXTENDS Naturals, FiniteSets, FiniteSetsExt, SequencesExt

CONSTANTS MaxHit,     \* alerts are 1..MaxHit
          Rejected,   \* alerts decode_wazuh_alert answers None for
          Malformed,  \* alerts decode_wazuh_alert raises on
          BatchSize,  \* settings.wazuh_poll_batch_size
          FailLimit,  \* _CONSECUTIVE_INGEST_FAIL_LIMIT
          MaxFaults,  \* bound on failures of the indexer, pipeline, database
          MaxStops    \* bound on shutdowns and crashes of the process

Hits == 1..MaxHit

ASSUME PollerAssumption ==
  /\ MaxHit \in Nat /\ BatchSize \in Nat \ {0} /\ FailLimit \in Nat \ {0}
  /\ Rejected \subseteq Hits /\ Malformed \subseteq Hits \ Rejected
  /\ MaxFaults \in Nat /\ MaxStops \in Nat

VARIABLES
  pc,        \* where poller_loop is
  indexed,   \* alerts the indexer shows
  aged,      \* alerts up to this one are older than the first-run lookback
  cursor,    \* wazuh_cursor.search_after, 0 for NULL
  ingested,  \* wazuh_cursor.events_ingested_total
  droppedTotal, \* wazuh_cursor.events_dropped_total
  lastError, \* wazuh_cursor.last_error is set
  todo,      \* hits of the batch still to do
  lastSort,  \* last_sort of the cycle, 0 for None
  streak,    \* the hits behind consecutive_ingest_failures
  accepted, dropped,  \* the counters of the cycle
  backoff,   \* of poller_loop, in seconds
  reachable, \* _prev_reachable, and what was last published
  stored,    \* alerts with a row in table events
  seen,      \* history: alerts a query found, returned or behind the batch
  failed,    \* history: alerts an ingest has failed for
  faults, stops

cycle == <<todo, lastSort, streak, accepted, dropped>>
row == <<cursor, ingested, droppedTotal, lastError>>
history == <<seen, failed>>
vars == <<pc, indexed, aged, row, cycle, backoff, reachable, stored, history,
          faults, stops>>

MinBackoff == 5
MaxBackoff == 60

\* What build_query asks for: the alerts behind the cursor, or without a
\* cursor those of the last minutes; at most BatchSize of them, in order.
Matching == {h \in indexed : h > (IF cursor = 0 THEN aged ELSE cursor)}
FirstOf(S) == {h \in S : Cardinality({g \in S : g < h}) < BatchSize}

Tripped == Cardinality(streak) >= FailLimit
Current == Min(todo)

Fault == faults < MaxFaults /\ faults' = faults + 1

Forget == /\ todo' = {} /\ lastSort' = 0 /\ streak' = {}
          /\ accepted' = 0 /\ dropped' = 0

\* Mutant of Recover: the wait is doubled without end.
RecoverUncapped(error) == /\ pc' = "query"
                          /\ backoff' = 2 * backoff
                          /\ Forget
                          /\ lastError' \in {TRUE, error}

\* The exception handler of poller_loop: note the error (a failure to do so is
\* ignored, and what the cycle left in last_error stays), wait, double the wait.
Recover(error) == /\ pc' = "query"
                  /\ backoff' = Min({2 * backoff, MaxBackoff})
                  /\ Forget
                  /\ lastError' \in {TRUE, error}

Init == /\ pc = "down" /\ indexed = {} /\ aged = 0
        /\ cursor = 0 /\ ingested = 0 /\ droppedTotal = 0 /\ lastError = FALSE
        /\ todo = {} /\ lastSort = 0 /\ streak = {} /\ accepted = 0 /\ dropped = 0
        /\ backoff = MinBackoff /\ reachable = "unknown"
        /\ stored = {} /\ seen = {} /\ failed = {}
        /\ faults = 0 /\ stops = 0

-----------------------------------------------------------------------------
(* The indexer and time. *)

Index(h) == /\ h \notin indexed
            /\ indexed' = indexed \cup {h}
            /\ UNCHANGED <<pc, aged, row, cycle, backoff, reachable, stored, history,
                           faults, stops>>

AgeOut == /\ cursor = 0 /\ aged < MaxHit
          /\ aged' = aged + 1
          /\ UNCHANGED <<pc, indexed, row, cycle, backoff, reachable, stored, history,
                         faults, stops>>

-----------------------------------------------------------------------------
(* poller_loop *)

\* Mutant of Start: the INSERT without ON CONFLICT DO NOTHING.
StartOnce == /\ pc = "down" /\ cursor = 0
             /\ pc' = "query" /\ backoff' = MinBackoff
             /\ UNCHANGED <<indexed, aged, row, cycle, reachable, stored, history, faults, stops>>

\* The task starts with its process and makes sure the cursor row exists.
Start == /\ pc = "down"
         /\ pc' = "query" /\ backoff' = MinBackoff
         /\ UNCHANGED <<indexed, aged, row, cycle, reachable, stored, history, faults, stops>>

\* An error before the loop ends the task; nothing restarts it but the process.
StartFails == /\ pc = "down"
              /\ Fault
              /\ pc' = "dead"
              /\ UNCHANGED <<indexed, aged, row, cycle, backoff, reachable, stored,
                             history, stops>>

\* Mutant of Fetch: last_sort is taken from the last hit of the page.
FetchTakesLast == /\ pc = "query"
                  /\ pc' = "hits"
                  /\ todo' = FirstOf(Matching)
                  /\ lastSort' = IF todo' = {} THEN 0 ELSE Max(todo')
                  /\ seen' = seen \cup Matching
                  /\ UNCHANGED <<indexed, aged, row, streak, accepted, dropped, backoff,
                                 reachable, stored, failed, faults, stops>>

\* A cycle: read the cursor, query the indexer.
Fetch == /\ pc = "query"
         /\ pc' = "hits"
         /\ todo' = FirstOf(Matching)
         /\ seen' = seen \cup Matching
         /\ UNCHANGED <<indexed, aged, row, lastSort, streak, accepted, dropped, backoff,
                        reachable, stored, failed, faults, stops>>

\* httpx.HTTPError: noted, published, and the cycle returns normally.
HttpError == /\ pc = "query"
             /\ Fault
             /\ lastError' = TRUE
             /\ reachable' = "down"
             /\ backoff' = MinBackoff
             /\ UNCHANGED <<pc, indexed, aged, cursor, ingested, droppedTotal, cycle,
                            stored, history, stops>>

\* Mutant of QueryRaises: it is reported like an HTTP error.
QueryRaisesReports == /\ pc = "query"
                      /\ Fault
                      /\ Recover(lastError)
                      /\ reachable' = "down"
                      /\ UNCHANGED <<indexed, aged, cursor, ingested, droppedTotal,
                                     stored, history, stops>>

\* Any other error up to the hits (cursor read, JSON of the answer).
QueryRaises == /\ pc = "query"
               /\ Fault
               /\ Recover(lastError)
               /\ UNCHANGED <<indexed, aged, cursor, ingested, droppedTotal, reachable,
                              stored, history, stops>>

\* decode_wazuh_alert answers None: the cursor may pass this hit.
Drop == /\ pc = "hits" /\ todo # {} /\ Current \in Rejected
        /\ dropped' = dropped + 1
        /\ lastSort' = Current
        /\ todo' = todo \ {Current}
        /\ UNCHANGED <<pc, indexed, aged, row, streak, accepted, backoff, reachable,
                       stored, history, faults, stops>>

\* It raises: the call is outside the try of the hit and ends the cycle.
DecodeRaises == /\ pc = "hits" /\ todo # {} /\ Current \in Malformed
                /\ Recover(lastError)
                /\ UNCHANGED <<indexed, aged, cursor, ingested, droppedTotal, reachable,
                               stored, history, faults, stops>>

\* The pipeline stores the event, or answers dedup_hit.
Ingest == /\ pc = "hits" /\ todo # {} /\ Current \notin Rejected \cup Malformed
          /\ stored' = stored \cup {Current}
          /\ accepted' = IF Current \in stored THEN accepted ELSE accepted + 1
          /\ streak' = {}
          /\ lastSort' = Current
          /\ todo' = todo \ {Current}
          /\ UNCHANGED <<pc, indexed, aged, row, dropped, backoff, reachable, history,
                         faults, stops>>

\* The first attempt commits and loses the answer: the retry of the pipeline
\* answers dedup_hit for a row that nobody has counted.
IngestRetried == /\ pc = "hits" /\ todo # {} /\ Current \notin Rejected \cup Malformed
                 /\ Fault
                 /\ stored' = stored \cup {Current}
                 /\ streak' = {}
                 /\ lastSort' = Current
                 /\ todo' = todo \ {Current}
                 /\ UNCHANGED <<pc, indexed, aged, row, accepted, dropped, backoff,
                                reachable, history, stops>>

\* Mutant of IngestFails: the cursor may rest on the failed hit.
IngestFailsAdvances ==
  /\ pc = "hits" /\ todo # {} /\ Current \notin Rejected \cup Malformed
  /\ Fault
  /\ stored' \in {stored, stored \cup {Current}}
  /\ failed' = failed \cup {Current}
  /\ dropped' = dropped + 1
  /\ streak' = streak \cup {Current}
  /\ lastSort' = Current
  /\ todo' = IF Cardinality(streak') >= FailLimit THEN {} ELSE todo \ {Current}
  /\ UNCHANGED <<pc, indexed, aged, row, accepted, backoff, reachable, seen, stops>>

\* Mutant of IngestFails: accepted is counted before the pipeline answers.
IngestFailsCounted ==
  /\ pc = "hits" /\ todo # {} /\ Current \notin Rejected \cup Malformed
  /\ Fault
  /\ stored' \in {stored, stored \cup {Current}}
  /\ failed' = failed \cup {Current}
  /\ accepted' = accepted + 1 /\ dropped' = dropped + 1
  /\ streak' = streak \cup {Current}
  /\ todo' = IF Cardinality(streak') >= FailLimit THEN {} ELSE todo \ {Current}
  /\ UNCHANGED <<pc, indexed, aged, row, lastSort, backoff, reachable, seen, stops>>

\* The pipeline raises, possibly after its commit.  The hit is left behind;
\* FailLimit of them in a row end the batch.
IngestFails == /\ pc = "hits" /\ todo # {} /\ Current \notin Rejected \cup Malformed
               /\ Fault
               /\ stored' \in {stored, stored \cup {Current}}
               /\ failed' = failed \cup {Current}
               /\ dropped' = dropped + 1
               /\ streak' = streak \cup {Current}
               /\ todo' = IF Cardinality(streak') >= FailLimit THEN {} ELSE todo \ {Current}
               /\ UNCHANGED <<pc, indexed, aged, row, lastSort, accepted, backoff,
                              reachable, seen, stops>>

\* Mutants of WriteRow: a batch without progress writes NULL; a tripped batch
\* does not count what it dropped.
WriteRowNull == /\ cursor' = lastSort
                /\ ingested' = ingested + accepted
                /\ droppedTotal' = droppedTotal + dropped

WriteRowTripped == /\ cursor' = IF lastSort = 0 THEN cursor ELSE lastSort
                   /\ ingested' = ingested + accepted
                   /\ droppedTotal' = IF Tripped THEN droppedTotal ELSE droppedTotal + dropped

\* The UPDATE of the cursor row after the hits; search_after stays when
\* last_sort is None.
WriteRow == /\ cursor' = IF lastSort = 0 THEN cursor ELSE lastSort
            /\ ingested' = ingested + accepted
            /\ droppedTotal' = droppedTotal + dropped

Save == /\ pc = "hits" /\ todo = {}
        /\ WriteRow
        /\ accepted' = 0 /\ dropped' = 0
        /\ lastError' = FALSE
        /\ pc' = IF Tripped THEN "trip" ELSE "emit"
        /\ UNCHANGED <<indexed, aged, todo, lastSort, streak, backoff, reachable, stored,
                       history, faults, stops>>

\* The UPDATE or its COMMIT fails, or only the answer to the COMMIT is lost and
\* the row, last_error with it, is written.
SaveFails == /\ pc = "hits" /\ todo = {}
             /\ Fault
             /\ \/ WriteRow /\ Recover(FALSE)
                \/ UNCHANGED <<cursor, ingested, droppedTotal>> /\ Recover(lastError)
             /\ UNCHANGED <<indexed, aged, reachable, stored, history, stops>>

\* WazuhPollerCircuitOpen.
Trip == /\ pc = "trip"
        /\ Recover(lastError)
        /\ UNCHANGED <<indexed, aged, cursor, ingested, droppedTotal, reachable, stored,
                       history, faults, stops>>

\* The end of a good cycle.
Report == /\ pc = "emit"
          /\ reachable' = "up"
          /\ pc' = "query" /\ backoff' = MinBackoff
          /\ Forget
          /\ UNCHANGED <<indexed, aged, row, stored, history, faults, stops>>

\* The process ends anywhere: shut down (stop_event, then cancelled) or killed.
Stop == /\ stops < MaxStops
        /\ pc # "down"
        /\ pc' = "down" /\ reachable' = "unknown"
        /\ Forget
        /\ stops' = stops + 1
        /\ UNCHANGED <<indexed, aged, row, backoff, stored, history, faults>>

Poll == Fetch \/ Drop \/ DecodeRaises \/ Ingest \/ Save \/ Trip \/ Report

Failure == \/ StartFails \/ HttpError \/ QueryRaises
           \/ IngestRetried \/ IngestFails \/ SaveFails

Next == \/ \E h \in Hits : Index(h)
        \/ AgeOut \/ Start \/ Poll \/ Failure \/ Stop

Spec == Init /\ [][Next]_vars

\* The event loop runs the task; a stopped container is started again.
FairSpec == Spec /\ WF_vars(Poll) /\ WF_vars(Start)

-----------------------------------------------------------------------------
(* Properties *)

\* Every variable keeps its shape; the wait stays between 5 and 60 seconds.
TypeOK == /\ pc \in {"down", "dead", "query", "hits", "trip", "emit"}
          /\ indexed \subseteq Hits /\ todo \subseteq Hits /\ streak \subseteq Hits
          /\ stored \subseteq Hits /\ seen \subseteq Hits /\ failed \subseteq Hits
          /\ aged \in 0..MaxHit /\ cursor \in 0..MaxHit /\ lastSort \in 0..MaxHit
          /\ ingested \in Nat /\ droppedTotal \in Nat
          /\ accepted \in Nat /\ dropped \in Nat
          /\ lastError \in BOOLEAN
          /\ backoff \in MinBackoff..MaxBackoff
          /\ reachable \in {"unknown", "up", "down"}
          /\ faults \in 0..MaxFaults /\ stops \in 0..MaxStops

\* Alerts a query found and the cursor has passed.  Until there is a cursor an alert may
\* also be lost by ageing out of the lookback before a cycle gets through.
Passed == {h \in seen : aged < h /\ h <= cursor}

\* The cursor passes such an alert only when it is stored, rejected by the
\* decoder, or was tried and failed.  Lost saves and replays included.
CursorSound == Passed \subseteq stored \cup Rejected \cup failed

\* The cursor comes to rest on an alert that was dealt with, never on one
\* whose ingest failed.
CursorRests == cursor # 0 => cursor \in stored \cup Rejected

\* events_ingested_total never claims a row that is not there, and claims none
\* twice, whichever ingests fail, saves are lost and batches are replayed.
CountsRows == ingested + accepted <= Cardinality(stored)

\* An alert the cursor has passed without a row is in events_dropped_total.
PassedIsCounted == Cardinality(Passed \ stored) <= droppedTotal

\* The cursor never goes back, nor to NULL, which would re-read the lookback.
CursorMonotone == [][cursor' >= cursor]_cursor

\* A status event says what GET /wazuh/status answers when it is published.
StatusAgreesWithRow ==
  [][/\ reachable' = "down" => lastError'
     /\ reachable' = "up" => ~lastError']_reachable

\* Behind a cursor every visible alert is in time stored or passed, however
\* the indexer, the pipeline and the database fail, unless the task died
\* before its loop or an alert that cannot be decoded stands before it.
AlertsArePassed ==
  \A h \in Hits : (\A m \in Malformed : h < m) =>
    (h \in indexed /\ cursor # 0 /\ h > cursor
       ~> h <= cursor \/ h \in stored \cup Rejected \/ pc = "dead")

-----------------------------------------------------------------------------
\* The comment on _CONSECUTIVE_INGEST_FAIL_LIMIT: the batch is aborted without
\* advancing the cursor past the failed hits.
TripKeepsFailedHits == pc = "trip" => \A h \in streak : h > cursor
=============================================================================
