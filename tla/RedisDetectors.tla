---------------------------- MODULE RedisDetectors ----------------------------
(***************************************************************************)
(* The detectors that keep state in Redis, run for each event by the tasks *)
(* of the ingest pipeline: the burst of failed logins of a user with its   *)
(* window and cooldown, the success from an unknown source that follows    *)
(* failures, and the lookup of blocked observables with its cache.  Every  *)
(* Redis call goes through safe_redis: when it fails the detector goes on  *)
(* with a default, and a call that timed out may have taken effect.        *)
(*                                                                         *)
(* One user, one source.  The clock is left out: a key with a time to live *)
(* goes at some moment, one without stays.  The time a login tells of      *)
(* itself, occurred_at, is any of a few: events come late and in any       *)
(* order.  The circuit breaker makes calls fail in a row, which is one way *)
(* for each of them to fail.  An ingest may end at any step, by a crash, a *)
(* cancellation or a rollback: what it did in Redis stays.                 *)
(***************************************************************************)
EXTENDS Naturals, FiniteSets

CONSTANTS Tasks,       \* ingest tasks, numbered
          Times,       \* the times of logins: numbers
          Lookback,    \* _LOOKBACK_DAYS
          Threshold,   \* _THRESHOLD
          MaxCount,    \* bound on the window counter
          MaxOutages,  \* bound on failing Redis calls
          MaxAborts,   \* bound on ingests of logins that do not commit
          None

VARIABLES
  arrivals,  \* the failed and successful logins still to come, repeated ones
             \* included; other events come without end, or not at all
  task,      \* each task: [pc, event, at, values]
  cache,     \* cybercat:blocked_observables:active: None or [values, expires]
  window,    \* corr:auth_failures: [count, expires]
  cooldown,  \* corr:rule_cooldown: BOOLEAN
  outages,
  aborts,    \* ingests of logins that did not commit
  known,     \* the times of the committed successes
  alarms,    \* history: burst alarms since the cooldown was last off
  anomalies, \* history: alarms about the source
  irregular, \* history: successes that came when all those committed were of
             \* their time or later, or older than the lookback
  active     \* the values blocked in the database, which others change

history == <<alarms, anomalies, irregular>>
detVars == <<arrivals, task, cache, window, cooldown, outages, aborts, known, history>>

NoWindow == [count |-> 0, expires |-> FALSE]
Free == [pc |-> "idle", event |-> None, at |-> None, values |-> {}]

DetInit == /\ task = [t \in Tasks |-> Free]
           /\ cache = None /\ window = NoWindow /\ cooldown = FALSE
           /\ outages = 0 /\ aborts = 0 /\ known = {}
           /\ alarms = 0 /\ anomalies = 0 /\ irregular = 0

Goto(t, pc) == task' = [task EXCEPT ![t].pc = pc]
At(t, pc) == task[t].pc = pc

\* A Redis call that fails.
Down == outages < MaxOutages /\ outages' = outages + 1
Up == UNCHANGED outages

-----------------------------------------------------------------------------
(* run_detectors for an event: the login detectors by its kind, then the    *)
(* blocked observables.                                                     *)

\* The successes whose occurred_at the rule counts for one of time at.
Precedes(o, at) == o < at /\ at <= o + Lookback

\* The first idle task takes the event: tasks are interchangeable.
Arrive(t) ==
  /\ At(t, "idle") /\ \A u \in Tasks : u < t => ~At(u, "idle")
  /\ \E e \in {"failed", "succeeded", "other"} :
     \E at \in IF e = "succeeded" THEN Times ELSE {None} :
       /\ arrivals[e] > 0
       /\ arrivals' = IF e = "other" THEN arrivals ELSE [arrivals EXCEPT ![e] = @ - 1]
       /\ task' = [task EXCEPT ![t] = [Free EXCEPT !.pc = CASE e = "failed" -> "cooldown"
                                                       [] e = "succeeded" -> "recent"
                                                       [] OTHER -> "lookup",
                                               !.event = e, !.at = at]]
       /\ irregular' = IF e = "succeeded" /\ known # {} /\ ~\E o \in known : Precedes(o, at)
                         THEN irregular + 1 ELSE irregular
  /\ UNCHANGED <<cache, window, cooldown, outages, aborts, known, alarms, anomalies>>

\* EXISTS: in the cooldown nothing is counted; without an answer it is taken to
\* be off.
CheckCooldown(t) ==
  /\ At(t, "cooldown")
  /\ \/ Up /\ Goto(t, IF cooldown THEN "lookup" ELSE "count")
     \/ Down /\ Goto(t, "count")
  /\ UNCHANGED <<arrivals, cache, window, cooldown, aborts, known, history>>

Counted == [window EXCEPT !.count = @ + 1]

\* Where INCR leads: the first failure gives the window its end.
AfterCount(n) == IF n = 1 THEN "expire" ELSE IF n >= Threshold THEN "fire" ELSE "lookup"

\* INCR; a failed call skips the detector though it may have counted.
Count(t) ==
  /\ At(t, "count") /\ window.count < MaxCount
  /\ \/ Up /\ window' = Counted /\ Goto(t, AfterCount(Counted.count))
     \/ Down /\ window' \in {window, Counted} /\ Goto(t, "lookup")
  /\ UNCHANGED <<arrivals, cache, cooldown, aborts, known, history>>

\* EXPIRE, which does nothing to a key that is gone.
ExpireWindow(t) ==
  /\ At(t, "expire")
  /\ LET timed == IF window.count = 0 THEN window ELSE [window EXCEPT !.expires = TRUE]
     IN \/ Up /\ window' = timed
        \/ Down /\ window' \in {window, timed}
  /\ Goto(t, IF Threshold = 1 THEN "fire" ELSE "lookup")
  /\ UNCHANGED <<arrivals, cache, cooldown, aborts, known, history>>

\* Mutant of Fire: the cooldown is not set.
FireAgain(t) ==
  /\ At(t, "fire")
  /\ Up /\ alarms' = alarms + 1 /\ Goto(t, "lookup")
  /\ UNCHANGED <<arrivals, cache, window, cooldown, aborts, known, anomalies, irregular>>

\* SET of the cooldown, and the detection.
Fire(t) ==
  /\ At(t, "fire")
  /\ \/ Up /\ cooldown' = TRUE
     \/ Down /\ cooldown' \in {cooldown, TRUE}
  /\ alarms' = alarms + 1
  /\ Goto(t, "lookup")
  /\ UNCHANGED <<arrivals, cache, window, aborts, known, anomalies, irregular>>

\* auth_anomalous_source_success: GET the window; without an answer, or without
\* failures in it, the source is not looked at.
CheckFailures(t) ==
  /\ At(t, "recent")
  /\ \/ Up /\ Goto(t, IF window.count > 0 THEN "source" ELSE "lookup")
     \/ Down /\ Goto(t, "lookup")
  /\ UNCHANGED <<arrivals, cache, window, cooldown, aborts, known, history>>

\* Mutant of NewSource: a success as old as the lookback is not counted.
NewSourceShort(t) == ~\E o \in known : o < task[t].at /\ task[t].at < o + Lookback

\* Earlier successes of the user from the source, by the committed events.
NewSource(t) == ~\E o \in known : Precedes(o, task[t].at)

CheckSource(t) ==
  /\ At(t, "source")
  /\ anomalies' = IF NewSource(t) THEN anomalies + 1 ELSE anomalies
  /\ Goto(t, "lookup")
  /\ UNCHANGED <<arrivals, cache, window, cooldown, outages, aborts, known, alarms, irregular>>

-----------------------------------------------------------------------------
(* blocked_observable_check, the last detector; the pipeline then commits. *)

Continue(t, pc, values) == task' = [task EXCEPT ![t].pc = pc, ![t].values = values]

\* GET: an answer ends the detector.
LookUp(t) ==
  /\ At(t, "lookup")
  /\ \/ Up /\ Goto(t, IF cache = None THEN "query" ELSE "commit")
     \/ Down /\ Goto(t, "query")
  /\ UNCHANGED <<arrivals, cache, window, cooldown, aborts, known, history>>

\* The committed rows; an empty list is not cached.
Query(t) ==
  /\ At(t, "query")
  /\ IF active = {} THEN Goto(t, "commit") ELSE Continue(t, "fill", active)
  /\ UNCHANGED <<arrivals, cache, window, cooldown, outages, aborts, known, history>>

Filled(t) == [values |-> task[t].values, expires |-> TRUE]

\* Mutant of Fill: the cached list has no time to live.
FillForGood(t) ==
  /\ At(t, "fill")
  /\ Up /\ cache' = [Filled(t) EXCEPT !.expires = FALSE]
  /\ Continue(t, "commit", {})
  /\ UNCHANGED <<arrivals, window, cooldown, aborts, known, history>>

\* SET with a time to live of 30 seconds.
Fill(t) ==
  /\ At(t, "fill")
  /\ \/ Up /\ cache' = Filled(t)
     \/ Down /\ cache' \in {cache, Filled(t)}
  /\ Continue(t, "commit", {})
  /\ UNCHANGED <<arrivals, window, cooldown, aborts, known, history>>

Release(t) == task' = [task EXCEPT ![t] = Free]

\* The end of the ingest: the event is there for others to see.
Conclude(t) ==
  /\ At(t, "commit")
  /\ known' = IF task[t].event = "succeeded" THEN known \cup {task[t].at} ELSE known
  /\ Release(t)
  /\ UNCHANGED <<arrivals, cache, window, cooldown, outages, aborts, history>>

\* A crash, a cancellation or a rollback between any two steps of it.
Abort(t) ==
  /\ ~At(t, "idle")
  /\ IF task[t].event = "other" THEN UNCHANGED aborts
     ELSE aborts < MaxAborts /\ aborts' = aborts + 1
  /\ Release(t)
  /\ UNCHANGED <<arrivals, cache, window, cooldown, outages, known, history>>

-----------------------------------------------------------------------------
(* Redis removes keys at the end of their time. *)

DropCache == /\ cache # None /\ cache.expires
             /\ cache' = None
             /\ UNCHANGED <<arrivals, task, window, cooldown, outages, aborts, known, history>>

DropWindow == /\ window.expires
              /\ window' = NoWindow
              /\ UNCHANGED <<arrivals, task, cache, cooldown, outages, aborts, known, history>>

DropCooldown ==
  /\ cooldown
  /\ cooldown' = FALSE /\ alarms' = 0
  /\ UNCHANGED <<arrivals, task, cache, window, outages, aborts, known, anomalies, irregular>>

Detect(t) == \/ CheckCooldown(t) \/ Count(t) \/ ExpireWindow(t) \/ Fire(t)
             \/ CheckFailures(t) \/ CheckSource(t)
             \/ LookUp(t) \/ Query(t) \/ Fill(t) \/ Conclude(t)

DetNext == \/ \E t \in Tasks : Arrive(t) \/ Detect(t) \/ Abort(t)
           \/ DropCache \/ DropWindow \/ DropCooldown
-----------------------------------------------------------------------------
(* Properties *)

\* Every variable keeps its shape.
DetTypeOK ==
  /\ task = [t \in Tasks |-> task[t]]
  /\ \A t \in Tasks :
       /\ DOMAIN task[t] = DOMAIN Free
       /\ task[t].pc \in {"idle", "cooldown", "count", "expire", "fire",
                          "recent", "source", "lookup", "query", "fill", "commit"}
       /\ task[t].pc # "idle" /\ task[t].event = "succeeded" => task[t].at \in Times
  /\ window \in [count : 0..MaxCount, expires : BOOLEAN]
  /\ cooldown \in BOOLEAN /\ known \subseteq Times
  /\ alarms \in Nat /\ anomalies \in Nat /\ irregular \in Nat
  /\ outages \in 0..MaxOutages /\ aborts \in 0..MaxAborts

\* In a cooldown a burst raises one alarm, but for events that were past the
\* check together, of which each task may have one, and for calls that failed.
AlarmsNotRepeated == alarms <= Cardinality(Tasks) + outages

\* A source is reported as new once, with an alarm of each task at work at the
\* time at most: again for a login that comes out of order, with no earlier time
\* or after the lookback, and where an ingest was rolled back and its success
\* forgotten.  The failed calls of Redis add none.
NewSourceNotRepeated == anomalies <= Cardinality(Tasks) + irregular + aborts
=============================================================================
