----------------------------- MODULE EventStream -----------------------------
(***************************************************************************)
(* How a committed change reaches a page of the frontend: publish() on a   *)
(* Redis channel, the EventBus of the backend process with its supervisor, *)
(* one bounded queue per server-sent-event connection, EventSource in the  *)
(* browser, and the debounced refetch of useStream over usePolling.        *)
(*                                                                         *)
(* The shown resource is one number: how many changes it contains.  Redis  *)
(* pub/sub and redis-py are external: a message reaches only a handle that *)
(* is subscribed at that moment, listen() raises on a lost connection, and *)
(* on a handle without a subscription it returns at once.                  *)
(***************************************************************************)
EXTENDS Naturals, Sequences, FiniteSets

CONSTANTS Pages,       \* pages of the frontend, one stream connection each
          Changes,     \* requests that change the resource
          KindOf,      \* the event type each of them publishes
          Early,       \* event types published before the commit
          Listened,    \* event types the frontend listens to
          QueueLimit,  \* size of a connection's queue
          MaxFailures, \* connection errors after which a page gives up
          MaxOutages,  \* bound on Redis outages
          MaxBreaks    \* bound on lost connections, failed fetches and restarts

\* The frontend has no listener for the types published before the commit.
ASSUME StreamAssumption ==
  /\ QueueLimit \in Nat \ {0} /\ MaxFailures \in Nat \ {0}
  /\ MaxOutages \in Nat /\ MaxBreaks \in Nat
  /\ IsFiniteSet(Changes)
  /\ Early \cap Listened = {}

VARIABLES
  step,      \* where each change is: idle, published, committed, done
  version,   \* committed changes
  redisUp,
  handle,    \* the bus's pub/sub handle
  sup,       \* the supervisor: listening, or waiting to reconnect
  wire,      \* messages Redis has sent to the handle
  registered,\* pages whose queue the bus feeds
  queue,     \* the queue behind each page's connection
  conn,      \* the page's EventSource
  failures,  \* its errors within the failure window
  timer,     \* its debounce timer is set
  asked,     \* its fetches the backend has not answered
  answers,   \* answers on their way to it
  shown,     \* what it shows
  error,     \* and that its last fetch failed
  visible,   \* its tab is in the foreground
  missed,    \* history: why it may be behind the database
  outages, breaks

bus == <<redisUp, handle, sup, wire>>
stream == <<registered, queue, conn, failures>>
view == <<timer, asked, answers, shown, error, visible>>
counts == <<outages, breaks>>
vars == <<step, version, bus, stream, view, missed, counts>>

Versions == 0..Cardinality(Changes)

\* The event types that are published.
Sent == {KindOf[c] : c \in Changes}

\* The supervisor loops over a handle without a subscription: listen() returns
\* at once, nothing in the loop waits, and the event loop runs nothing else.
Wedged == sup = "listening" /\ handle = "unsubscribed"

Init == /\ step = [c \in Changes |-> "idle"]
        /\ version = 0
        /\ redisUp = TRUE /\ handle = "subscribed" /\ sup = "listening"
        /\ wire = <<>>
        /\ registered = {}
        /\ queue = [p \in Pages |-> <<>>]
        /\ conn = [p \in Pages |-> "connecting"]
        /\ failures = [p \in Pages |-> 0]
        /\ timer = [p \in Pages |-> FALSE]
        /\ asked = [p \in Pages |-> 1]
        /\ answers = [p \in Pages |-> {}]
        /\ shown = [p \in Pages |-> 0]
        /\ error = [p \in Pages |-> FALSE]
        /\ visible = [p \in Pages |-> TRUE]
        /\ missed = [p \in Pages |-> {}]
        /\ outages = 0 /\ breaks = 0

-----------------------------------------------------------------------------
(* The publisher. *)

\* Mutant of IsEarly: every request publishes before it commits.
AlwaysEarly(c) == c \in Changes

IsEarly(c) == KindOf[c] \in Early

Miss(P, why) == missed' = [p \in Pages |-> IF p \in P THEN missed[p] \cup {why}
                                                      ELSE missed[p]]

\* A fetch that is still to be made covers everything missed so far.
Caught(p) == missed' = [missed EXCEPT ![p] = {}]

\* publish(): never raises.  Only a subscribed handle gets the message; with
\* Redis away or the breaker open it is lost.
Emit(c) == \/ /\ redisUp
              /\ IF handle = "subscribed"
                   THEN wire' = Append(wire, KindOf[c]) /\ UNCHANGED missed
                   ELSE Miss(Pages, "lost") /\ UNCHANGED wire
           \/ /\ outages > 0
              /\ Miss(Pages, "lost")
              /\ UNCHANGED wire

\* The mapped order: transitions, actions, evidence and ingest commit and then
\* publish; merge and split publish and then commit.
Publish(c) == /\ ~Wedged
              /\ step[c] = IF IsEarly(c) THEN "idle" ELSE "committed"
              /\ step' = [step EXCEPT ![c] = IF IsEarly(c) THEN "published" ELSE "done"]
              /\ Emit(c)
              /\ UNCHANGED <<version, redisUp, handle, sup, stream, view, counts>>

Commit(c) == /\ ~Wedged
             /\ step[c] = IF IsEarly(c) THEN "published" ELSE "idle"
             /\ step' = [step EXCEPT ![c] = IF IsEarly(c) THEN "done" ELSE "committed"]
             /\ version' = version + 1
             /\ IF KindOf[c] \in Listened THEN UNCHANGED missed ELSE Miss(Pages, "unheard")
             /\ UNCHANGED <<bus, stream, view, counts>>

-----------------------------------------------------------------------------
(* The bus. *)

\* Mutant of Deliver: the queues have no limit.
DeliverUnbounded ==
  /\ sup = "listening" /\ handle = "subscribed" /\ wire # <<>>
  /\ queue' = [p \in Pages |-> IF p \in registered THEN Append(queue[p], Head(wire))
                                                  ELSE queue[p]]
  /\ wire' = Tail(wire)
  /\ UNCHANGED <<step, version, redisUp, handle, sup, registered, conn, failures,
                 view, missed, counts>>

\* One message of _consume_once: put into every queue; a connection whose
\* queue is full is not fed any more, and is not told.
Deliver ==
  /\ sup = "listening" /\ handle = "subscribed" /\ wire # <<>>
  /\ LET full == {p \in registered : Len(queue[p]) = QueueLimit}
     IN /\ queue' = [p \in Pages |-> IF p \in registered \ full
                                       THEN Append(queue[p], Head(wire)) ELSE queue[p]]
        /\ registered' = registered \ full
        /\ Miss(Pages \ registered', "unfed")
  /\ wire' = Tail(wire)
  /\ UNCHANGED <<step, version, redisUp, handle, sup, conn, failures, view, counts>>

\* listen() raises: the handle is closed and the supervisor sleeps.
ConsumerCrashes ==
  /\ sup = "listening" /\ handle = "broken"
  /\ handle' = "none"
  /\ sup' = "backoff"
  /\ UNCHANGED <<step, version, redisUp, wire, stream, view, missed, counts>>

\* After the backoff: _open_pubsub makes a new handle and subscribes it.  If
\* Redis is still away psubscribe raises and the loop goes on with the handle.
Reopen ==
  /\ sup = "backoff"
  /\ handle' = IF redisUp THEN "subscribed" ELSE "unsubscribed"
  /\ sup' = "listening"
  /\ UNCHANGED <<step, version, redisUp, wire, stream, view, missed, counts>>

RedisFails ==
  /\ redisUp /\ outages < MaxOutages
  /\ outages' = outages + 1
  /\ redisUp' = FALSE
  /\ handle' = IF handle = "subscribed" THEN "broken" ELSE handle
  /\ wire' = <<>>
  /\ IF wire # <<>> THEN Miss(Pages, "lost") ELSE UNCHANGED missed
  /\ UNCHANGED <<step, version, sup, stream, view, breaks>>

RedisReturns ==
  /\ ~redisUp
  /\ redisUp' = TRUE
  /\ UNCHANGED <<step, version, handle, sup, wire, stream, view, missed, counts>>

-----------------------------------------------------------------------------
(* The connection of a page. *)

\* GET /v1/stream: _generate registers a fresh queue; onopen schedules a
\* refetch for what was missed in between.
Connect(p) ==
  /\ ~Wedged /\ conn[p] \in {"connecting", "reconnecting"}
  /\ conn' = [conn EXCEPT ![p] = "open"]
  /\ registered' = registered \cup {p}
  /\ queue' = [queue EXCEPT ![p] = <<>>]
  /\ timer' = [timer EXCEPT ![p] = TRUE]
  /\ Caught(p)
  /\ UNCHANGED <<step, version, bus, failures, asked, answers, shown,
                 error, visible, counts>>

\* onerror: after too many errors the page closes the stream for good, before
\* that EventSource connects again.
AfterError(p) == IF failures[p] + 1 >= MaxFailures THEN "failed" ELSE "reconnecting"

\* The connection drops; the generator is cancelled and unregisters its queue.
ConnectionDrops(p) ==
  /\ conn[p] # "failed" /\ breaks < MaxBreaks
  /\ breaks' = breaks + 1
  /\ failures' = [failures EXCEPT ![p] = @ + 1]
  /\ conn' = [conn EXCEPT ![p] = AfterError(p)]
  /\ registered' = registered \ {p}
  /\ queue' = [queue EXCEPT ![p] = <<>>]
  /\ Miss({p}, "disconnected")
  /\ UNCHANGED <<step, version, bus, view, outages>>

FailureWindowPasses(p) ==
  /\ failures[p] > 0 /\ conn[p] # "failed"
  /\ failures' = [failures EXCEPT ![p] = 0]
  /\ UNCHANGED <<step, version, bus, registered, queue, conn, view, missed, counts>>

\* The generator yields a message, the browser hands it to the listener of its
\* type, if there is one, which sets the debounce timer anew.
Receive(p) ==
  /\ ~Wedged /\ conn[p] = "open" /\ queue[p] # <<>>
  /\ queue' = [queue EXCEPT ![p] = Tail(@)]
  /\ timer' = [timer EXCEPT ![p] = @ \/ Head(queue[p]) \in Listened]
  /\ UNCHANGED <<step, version, bus, registered, conn, failures, asked, answers,
                 shown, error, visible, missed, counts>>

-----------------------------------------------------------------------------
(* The data of a page. *)

\* The timer fires: useStream's refetch starts a new effect of usePolling, which
\* cancels the fetches of the old one; a hidden tab does not fetch.
Refetch(p) ==
  /\ timer[p]
  /\ timer' = [timer EXCEPT ![p] = FALSE]
  /\ asked' = [asked EXCEPT ![p] = IF visible[p] THEN 1 ELSE 0]
  /\ answers' = [answers EXCEPT ![p] = {}]
  /\ IF visible[p] THEN Caught(p) ELSE UNCHANGED missed
  /\ UNCHANGED <<step, version, bus, stream, shown, error, visible, counts>>

\* Mutant of Poll: only a page that has given up on the stream polls.
PollWhenFailed(p) ==
  /\ visible[p] /\ conn[p] = "failed" /\ asked[p] + Cardinality(answers[p]) < 2
  /\ asked' = [asked EXCEPT ![p] = @ + 1]
  /\ UNCHANGED <<step, version, bus, stream, timer, answers, shown, error, visible,
                 missed, counts>>

\* The interval fires: one more fetch, which cancels nothing.  Two in flight
\* are enough for one to overtake the other.
Poll(p) ==
  /\ visible[p] /\ asked[p] + Cardinality(answers[p]) < 2
  /\ asked' = [asked EXCEPT ![p] = @ + 1]
  /\ UNCHANGED <<step, version, bus, stream, timer, answers, shown, error, visible,
                 missed, counts>>

Serve(p) ==
  /\ ~Wedged /\ asked[p] > 0
  /\ asked' = [asked EXCEPT ![p] = @ - 1]
  /\ answers' = [answers EXCEPT ![p] = @ \cup {version}]
  /\ UNCHANGED <<step, version, bus, stream, timer, shown, error, visible, missed, counts>>

\* setData(result) and setError(undefined), whatever is shown already.
Show(p) ==
  \E v \in answers[p] :
    /\ shown' = [shown EXCEPT ![p] = v]
    /\ error' = [error EXCEPT ![p] = FALSE]
    /\ answers' = [answers EXCEPT ![p] = @ \ {v}]
    /\ missed' = [missed EXCEPT ![p] = IF v = version THEN {}
                                       ELSE IF v < shown[p] THEN @ \cup {"overtaken"} ELSE @]
    /\ UNCHANGED <<step, version, bus, stream, timer, asked, visible, counts>>

\* A fetch fails: the page keeps its data and sets the error.  One whose answer
\* is lost on its way is here one the backend had not answered: it only reads.
FetchFails(p) ==
  /\ asked[p] > 0 /\ breaks < MaxBreaks
  /\ breaks' = breaks + 1
  /\ asked' = [asked EXCEPT ![p] = @ - 1]
  /\ error' = [error EXCEPT ![p] = TRUE]
  /\ UNCHANGED <<step, version, bus, stream, timer, answers, shown, visible, missed,
                 outages>>

Hide(p) ==
  /\ visible[p]
  /\ visible' = [visible EXCEPT ![p] = FALSE]
  /\ UNCHANGED <<step, version, bus, stream, timer, asked, answers, shown, error, missed,
                 counts>>

\* visibilitychange: both hooks fetch; the refetch cancels what was under way.
Unhide(p) ==
  /\ ~visible[p]
  /\ visible' = [visible EXCEPT ![p] = TRUE]
  /\ asked' = [asked EXCEPT ![p] = 1]
  /\ answers' = [answers EXCEPT ![p] = {}]
  /\ Caught(p)
  /\ UNCHANGED <<step, version, bus, stream, timer, shown, error, counts>>

\* The backend is restarted: the new bus subscribes, connections and requests
\* are lost, and so is what a request had left to do; the fetches it has not
\* answered fail.
Restart ==
  /\ redisUp /\ breaks < MaxBreaks
  /\ breaks' = breaks + 1
  /\ handle' = "subscribed" /\ sup' = "listening" /\ wire' = <<>>
  /\ step' = [c \in Changes |-> IF step[c] = "idle" THEN "idle" ELSE "done"]
  /\ registered' = {}
  /\ queue' = [p \in Pages |-> <<>>]
  /\ conn' = [p \in Pages |-> IF conn[p] = "failed" THEN "failed" ELSE AfterError(p)]
  /\ failures' = [p \in Pages |-> IF conn[p] = "failed" THEN failures[p] ELSE failures[p] + 1]
  /\ asked' = [p \in Pages |-> 0]
  /\ error' = [p \in Pages |-> error[p] \/ asked[p] > 0]
  /\ Miss(Pages, "disconnected")
  /\ UNCHANGED <<version, redisUp, timer, answers, shown, visible, outages>>

Client(p) == \/ Connect(p) \/ Receive(p) \/ Refetch(p) \/ Poll(p) \/ Serve(p) \/ Show(p)

Next == \/ \E c \in Changes : Publish(c) \/ Commit(c)
        \/ Deliver \/ ConsumerCrashes \/ Reopen \/ RedisFails \/ RedisReturns
        \/ \E p \in Pages : \/ Client(p) \/ ConnectionDrops(p) \/ FailureWindowPasses(p)
                            \/ FetchFails(p) \/ Hide(p) \/ Unhide(p)
        \/ Restart

Spec == Init /\ [][Next]_vars

\* Requests under way are run to their end, the supervisor is scheduled, and a
\* page's connection, timers and fetches go on.  Nothing is asked of Redis, of
\* tabs, of operators or of new requests.
FairSpec ==
  /\ Spec
  /\ \A c \in Changes : WF_vars(step[c] # "idle" /\ (Publish(c) \/ Commit(c)))
  /\ WF_vars(Deliver) /\ WF_vars(ConsumerCrashes) /\ WF_vars(Reopen)
  /\ \A p \in Pages : /\ WF_vars(Connect(p)) /\ WF_vars(Receive(p)) /\ WF_vars(Refetch(p))
                      /\ WF_vars(Poll(p)) /\ WF_vars(Serve(p)) /\ WF_vars(Show(p))

-----------------------------------------------------------------------------
(* Properties *)

\* Every variable keeps its shape, and no queue outgrows its limit.
TypeOK == /\ step \in [Changes -> {"idle", "published", "committed", "done"}]
          /\ version \in Versions
          /\ redisUp \in BOOLEAN
          /\ handle \in {"subscribed", "broken", "none", "unsubscribed"}
          /\ sup \in {"listening", "backoff"}
          /\ registered \subseteq Pages
          /\ wire \in Seq(Sent) /\ queue \in [Pages -> Seq(Sent)]
          /\ \A p \in Pages : Len(queue[p]) <= QueueLimit
          /\ conn \in [Pages -> {"connecting", "open", "reconnecting", "failed"}]
          /\ failures \in [Pages -> 0..MaxFailures]
          /\ timer \in [Pages -> BOOLEAN] /\ visible \in [Pages -> BOOLEAN]
          /\ asked \in [Pages -> 0..2] /\ answers \in [Pages -> SUBSET Versions]
          /\ shown \in [Pages -> Versions] /\ error \in [Pages -> BOOLEAN]
          /\ missed \in [Pages -> SUBSET {"lost", "unheard", "unfed", "disconnected", "overtaken"}]
          /\ outages \in 0..MaxOutages /\ breaks \in 0..MaxBreaks

Quiet(p) == /\ conn[p] = "open" /\ visible[p] /\ ~timer[p]
            /\ asked[p] = 0 /\ answers[p] = {} /\ queue[p] = <<>> /\ wire = <<>>
            /\ \A c \in Changes : step[c] \in {"idle", "done"}

\* A page whose stream is open and on which nothing is under way shows the
\* database or says that its last fetch failed, polling apart: commit before
\* publish, the refetch on open and the refetch on return to the tab leave no
\* gap, and no older answer takes away the error of the fetch that would have
\* closed one.  The exceptions are what missed names, since the page's last
\* refetch: an event of a type it does not listen to, one lost in Redis, with a
\* restart or to a full queue, and an answer overtaken by an older one.
QuietPageIsCurrent ==
  \A p \in Pages : Quiet(p) /\ missed[p] = {} => shown[p] = version \/ error[p]

\* As long as the supervisor is not stuck, a page left in the foreground
\* ends up showing the database: what the stream and failed fetches lose, polling
\* brings.
PagesCatchUp ==
  \A p \in Pages : (<>[]visible[p] /\ <>[]~Wedged) => <>[](shown[p] = version)

=============================================================================
