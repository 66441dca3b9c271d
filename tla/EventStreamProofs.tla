-------------------------- MODULE EventStreamProofs --------------------------
(***************************************************************************)
(* Proofs about EventStream for any pages, any finite set of changes, any  *)
(* limits of queues and errors, and any number of outages and restarts.    *)
(***************************************************************************)
EXTENDS EventStream, FiniteSetTheorems, TLAPS

-----------------------------------------------------------------------------
(* The inductive invariant. *)

\* Changes that are in the database, or were lost with their request.
Landed == {c \in Changes : step[c] \in {"committed", "done"}}

\* No change is counted twice, and nothing shows or carries more than there is.
Ordered == /\ version <= Cardinality(Landed)
           /\ \A p \in Pages : shown[p] <= version /\ \A v \in answers[p] : v <= version

\* A page that has not given up has an error left.
GivesUpInTime == \A p \in Pages : conn[p] # "failed" => failures[p] < MaxFailures

Heard(s) == \E i \in 1..Len(s) : s[i] \in Listened

\* A change the page listens to is committed and not yet published.
Announced == \E c \in Changes : step[c] = "committed" /\ KindOf[c] \in Listened

\* Something is under way that makes the page fetch, or keeps it from being quiet.
News(p) == \/ conn[p] # "open"
           \/ ~visible[p]
           \/ timer[p]
           \/ Heard(queue[p])
           \/ Heard(wire)
           \/ Announced

\* Every answer on its way is the newest, and there is one, or a fetch, or the
\* last fetch failed.
Fetching(p) == /\ answers[p] \subseteq {version}
               /\ asked[p] > 0 \/ answers[p] # {} \/ error[p]

\* QuietPageIsCurrent for the pages that are not quiet: a page that is behind
\* has something under way, or missed says what went past it.
Covered(p) == shown[p] = version \/ missed[p] # {} \/ News(p) \/ Fetching(p)

NoGap == \A p \in Pages : Covered(p)

IInv == TypeOK /\ Ordered /\ GivesUpInTime /\ NoGap

-----------------------------------------------------------------------------
(* Messages. *)

\* An empty queue has nothing to hear.
LEMMA NothingHeard == ~Heard(<<>>)
  BY DEF Heard

\* What is heard in a queue is heard after an append.
LEMMA HeardAppend ==
  ASSUME NEW S, NEW s \in Seq(S), NEW x \in S
  PROVE  /\ Heard(s) => Heard(Append(s, x))
         /\ x \in Listened => Heard(Append(s, x))
<1>1. Heard(s) => Heard(Append(s, x))
  <2>1. ASSUME NEW i \in 1..Len(s), s[i] \in Listened PROVE Heard(Append(s, x))
    <3>1. i \in 1..Len(Append(s, x)) /\ Append(s, x)[i] = s[i]
      OBVIOUS
    <3>2. QED
      BY <2>1, <3>1 DEF Heard
  <2>2. QED
    BY <2>1 DEF Heard
<1>2. x \in Listened => Heard(Append(s, x))
  <2>1. Len(s) + 1 \in 1..Len(Append(s, x)) /\ Append(s, x)[Len(s) + 1] = x
    OBVIOUS
  <2>2. QED
    BY <2>1 DEF Heard
<1>3. QED
  BY <1>1, <1>2

\* What is heard in a queue is its head or is heard in the tail.
LEMMA HeardTail ==
  ASSUME NEW S, NEW s \in Seq(S), s # <<>>, Heard(s)
  PROVE  Head(s) \in Listened \/ Heard(Tail(s))
<1>1. PICK i \in 1..Len(s) : s[i] \in Listened
  BY DEF Heard
<1>2. CASE i = 1
  BY <1>1, <1>2
<1>3. CASE i # 1
  <2>1. i - 1 \in 1..Len(Tail(s)) /\ Tail(s)[i - 1] = s[i]
    BY <1>3
  <2>2. QED
    BY <1>1, <2>1 DEF Heard
<1>4. QED
  BY <1>2, <1>3

\* A change is sent as what it is.
LEMMA KindIsSent == \A c \in Changes : KindOf[c] \in Sent
  BY DEF Sent

-----------------------------------------------------------------------------
(* Versions. *)

\* The changes that are in the database can be counted.
LEMMA LandedFinite ==
  /\ IsFiniteSet(Landed) /\ Cardinality(Landed) \in Nat
  /\ Cardinality(Changes) \in Nat /\ Cardinality(Landed) <= Cardinality(Changes)
  BY StreamAssumption, FS_Subset, FS_CardinalityType DEF Landed

\* The versions that are on their way to a page can be counted.
LEMMA AnswersFinite ==
  ASSUME TypeOK, NEW p \in Pages
  PROVE  Cardinality(answers[p]) \in Nat
<1>1. IsFiniteSet(Versions)
  BY StreamAssumption, FS_Interval, FS_CardinalityType DEF Versions
<1>2. answers[p] \subseteq Versions
  BY DEF TypeOK
<1>3. QED
  BY <1>1, <1>2, FS_Subset, FS_CardinalityType

\* Only a commit makes a new version, and only of a change without one.
LEMMA LandedCommit ==
  ASSUME TypeOK, NEW c \in Changes, Commit(c)
  PROVE  Landed' = Landed \cup {c} /\ c \notin Landed
  BY DEF TypeOK, Commit, IsEarly, Landed

\* The version is a number.
LEMMA VersionNat == TypeOK => version \in Nat
  BY LandedFinite DEF TypeOK, Versions

\* A commit adds one to the changes that landed.
LEMMA CommitCounts ==
  ASSUME TypeOK, Ordered, NEW c \in Changes, Commit(c)
  PROVE  version' <= Cardinality(Landed') /\ version' \in Versions
<1>1. version' = version + 1 /\ version \in Nat
  BY VersionNat DEF Commit
<1>2. Cardinality(Landed') = Cardinality(Landed) + 1
  BY LandedCommit, LandedFinite, FS_AddElement
<1>3. Landed' \subseteq Changes
  BY DEF Landed
<1>4. Cardinality(Landed') <= Cardinality(Changes)
  BY <1>3, StreamAssumption, FS_Subset
<1>5. QED
  BY <1>1, <1>2, <1>4, LandedFinite DEF Ordered, Versions

-----------------------------------------------------------------------------
(* Types. *)

\* A miss keeps the type of missed.
LEMMA MissTypes ==
  ASSUME TypeOK, NEW P, NEW why \in {"lost", "unheard", "unfed", "disconnected", "overtaken"},
         Miss(P, why)
  PROVE  missed' \in [Pages -> SUBSET {"lost", "unheard", "unfed", "disconnected", "overtaken"}]
  BY DEF TypeOK, Miss

\* A page that has caught up keeps the type of missed.
LEMMA CaughtTypes ==
  ASSUME TypeOK, NEW p \in Pages, Caught(p)
  PROVE  missed' \in [Pages -> SUBSET {"lost", "unheard", "unfed", "disconnected", "overtaken"}]
  BY DEF TypeOK, Caught

\* Every step keeps the types.
LEMMA TypeStep == TypeOK /\ Ordered /\ GivesUpInTime /\ [Next]_vars => TypeOK'
<1> SUFFICES ASSUME TypeOK, Ordered, GivesUpInTime, [Next]_vars PROVE TypeOK'
  OBVIOUS
<1>1. CASE UNCHANGED vars
  BY <1>1 DEF TypeOK, vars, bus, stream, view, counts
<1>2. ASSUME NEW c \in Changes, Publish(c) PROVE TypeOK'
  <2>1. wire' \in Seq(Sent)
    <3>1. wire \in Seq(Sent) /\ KindOf[c] \in Sent
      BY KindIsSent DEF TypeOK
    <3>2. wire' = Append(wire, KindOf[c]) \/ wire' = wire
      BY <1>2 DEF Publish, Emit
    <3>3. QED
      BY <3>1, <3>2
  <2>2. missed' \in [Pages -> SUBSET {"lost", "unheard", "unfed", "disconnected", "overtaken"}]
    BY <1>2, MissTypes DEF TypeOK, Publish, Emit
  <2>3. step' \in [Changes -> {"idle", "published", "committed", "done"}]
    BY <1>2 DEF TypeOK, Publish
  <2>4. QED
    BY <1>2, <2>1, <2>2, <2>3 DEF TypeOK, Publish, stream, view, counts
<1>3. ASSUME NEW c \in Changes, Commit(c) PROVE TypeOK'
  <2>1. version' \in Versions
    BY <1>3, CommitCounts
  <2>2. missed' \in [Pages -> SUBSET {"lost", "unheard", "unfed", "disconnected", "overtaken"}]
    BY <1>3, MissTypes DEF TypeOK, Commit
  <2>3. step' \in [Changes -> {"idle", "published", "committed", "done"}]
    BY <1>3 DEF TypeOK, Commit
  <2>4. QED
    BY <1>3, <2>1, <2>2, <2>3 DEF TypeOK, Commit, bus, stream, view, counts
<1>4. CASE Deliver
  <2>1. wire' \in Seq(Sent) /\ Head(wire) \in Sent
    BY <1>4 DEF TypeOK, Deliver
  <2>2. registered' \subseteq Pages /\ queue' \in [Pages -> Seq(Sent)]
    BY <1>4, <2>1 DEF TypeOK, Deliver
  <2>3. ASSUME NEW p \in Pages PROVE Len(queue'[p]) <= QueueLimit
    <3>1. queue[p] \in Seq(Sent) /\ Len(queue[p]) <= QueueLimit
      BY DEF TypeOK
    <3>2. CASE p \in registered /\ Len(queue[p]) # QueueLimit
      <4>1. queue'[p] = Append(queue[p], Head(wire))
        BY <1>4, <3>2 DEF Deliver
      <4>2. QED
        BY <2>1, <3>1, <3>2, <4>1, StreamAssumption
    <3>3. CASE ~(p \in registered /\ Len(queue[p]) # QueueLimit)
      <4>1. queue'[p] = queue[p]
        BY <1>4, <3>3 DEF Deliver
      <4>2. QED
        BY <3>1, <4>1
    <3>4. QED
      BY <3>2, <3>3
  <2>4. missed' \in [Pages -> SUBSET {"lost", "unheard", "unfed", "disconnected", "overtaken"}]
    BY <1>4, MissTypes DEF Deliver
  <2>5. QED
    BY <1>4, <2>1, <2>2, <2>3, <2>4 DEF TypeOK, Deliver, view, counts
<1>5. CASE ConsumerCrashes
  BY <1>5 DEF TypeOK, ConsumerCrashes, stream, view, counts
<1>6. CASE Reopen
  BY <1>6 DEF TypeOK, Reopen, stream, view, counts
<1>7. CASE RedisFails
  <2>1. missed' \in [Pages -> SUBSET {"lost", "unheard", "unfed", "disconnected", "overtaken"}]
    BY <1>7, MissTypes DEF TypeOK, RedisFails
  <2>2. wire' \in Seq(Sent) /\ outages' \in 0..MaxOutages
    BY <1>7, StreamAssumption DEF TypeOK, RedisFails
  <2>3. QED
    BY <1>7, <2>1, <2>2 DEF TypeOK, RedisFails, stream, view
<1>8. CASE RedisReturns
  BY <1>8 DEF TypeOK, RedisReturns, stream, view, counts
<1>9. ASSUME NEW p \in Pages, Connect(p) PROVE TypeOK'
  <2>1. queue' \in [Pages -> Seq(Sent)] /\ \A q \in Pages : Len(queue'[q]) <= QueueLimit
    BY <1>9, StreamAssumption DEF TypeOK, Connect
  <2>2. QED
    BY <1>9, <2>1, CaughtTypes DEF TypeOK, Connect, bus, counts
<1>10. ASSUME NEW p \in Pages, Receive(p) PROVE TypeOK'
  <2>1. queue[p] \in Seq(Sent) /\ Len(queue[p]) <= QueueLimit /\ queue[p] # <<>>
    BY <1>10 DEF TypeOK, Receive
  <2>2. Tail(queue[p]) \in Seq(Sent) /\ Len(Tail(queue[p])) <= QueueLimit
    BY <2>1, StreamAssumption
  <2>3. queue' \in [Pages -> Seq(Sent)] /\ \A q \in Pages : Len(queue'[q]) <= QueueLimit
    BY <1>10, <2>2 DEF TypeOK, Receive
  <2>4. timer' \in [Pages -> BOOLEAN]
    BY <1>10 DEF TypeOK, Receive
  <2>5. QED
    BY <1>10, <2>3, <2>4 DEF TypeOK, Receive, bus, counts
<1>11. ASSUME NEW p \in Pages, Refetch(p) PROVE TypeOK'
  <2>1. missed' \in [Pages -> SUBSET {"lost", "unheard", "unfed", "disconnected", "overtaken"}]
    BY <1>11, CaughtTypes DEF TypeOK, Refetch
  <2>2. asked' \in [Pages -> 0..2] /\ answers' \in [Pages -> SUBSET Versions]
    BY <1>11 DEF TypeOK, Refetch
  <2>3. QED
    BY <1>11, <2>1, <2>2 DEF TypeOK, Refetch, bus, stream, counts
<1>12. ASSUME NEW p \in Pages, Poll(p) PROVE TypeOK'
  <2>1. asked' \in [Pages -> 0..2]
    <3>1. asked[p] \in 0..2 /\ Cardinality(answers[p]) \in Nat
      BY AnswersFinite DEF TypeOK
    <3>2. asked[p] + 1 \in 0..2
      BY <1>12, <3>1 DEF Poll
    <3>3. QED
      BY <1>12, <3>2 DEF TypeOK, Poll
  <2>2. QED
    BY <1>12, <2>1 DEF TypeOK, Poll, bus, stream, counts
<1>13. ASSUME NEW p \in Pages, Serve(p) PROVE TypeOK'
  <2>1. asked' \in [Pages -> 0..2]
    BY <1>13 DEF TypeOK, Serve
  <2>2. answers' \in [Pages -> SUBSET Versions]
    BY <1>13 DEF TypeOK, Serve
  <2>3. QED
    BY <1>13, <2>1, <2>2 DEF TypeOK, Serve, bus, stream, counts
<1>14. ASSUME NEW p \in Pages, Show(p) PROVE TypeOK'
  <2>1. PICK v \in answers[p] :
          /\ shown' = [shown EXCEPT ![p] = v]
          /\ error' = [error EXCEPT ![p] = FALSE]
          /\ answers' = [answers EXCEPT ![p] = @ \ {v}]
          /\ missed' = [missed EXCEPT ![p] = IF v = version THEN {}
                                ELSE IF v < shown[p] THEN @ \cup {"overtaken"} ELSE @]
          /\ UNCHANGED <<step, version, bus, stream, timer, asked, visible, counts>>
    BY <1>14 DEF Show
  <2>2. v \in Versions
    BY <2>1 DEF TypeOK
  <2>3. missed' \in [Pages -> SUBSET {"lost", "unheard", "unfed", "disconnected", "overtaken"}]
    BY <2>1 DEF TypeOK
  <2>4. /\ shown' \in [Pages -> Versions] /\ answers' \in [Pages -> SUBSET Versions]
        /\ error' \in [Pages -> BOOLEAN]
    BY <2>1, <2>2 DEF TypeOK
  <2>5. QED
    BY <2>1, <2>3, <2>4 DEF TypeOK, bus, stream, counts
<1>15. ASSUME NEW p \in Pages, ConnectionDrops(p) PROVE TypeOK'
  <2>1. failures' \in [Pages -> 0..MaxFailures]
    BY <1>15, StreamAssumption DEF TypeOK, GivesUpInTime, ConnectionDrops
  <2>2. conn' \in [Pages -> {"connecting", "open", "reconnecting", "failed"}]
    BY <1>15 DEF TypeOK, ConnectionDrops, AfterError
  <2>3. queue' \in [Pages -> Seq(Sent)] /\ \A q \in Pages : Len(queue'[q]) <= QueueLimit
    BY <1>15, StreamAssumption DEF TypeOK, ConnectionDrops
  <2>4. missed' \in [Pages -> SUBSET {"lost", "unheard", "unfed", "disconnected", "overtaken"}]
    BY <1>15, MissTypes DEF ConnectionDrops
  <2>5. breaks' \in 0..MaxBreaks
    BY <1>15, StreamAssumption DEF TypeOK, ConnectionDrops
  <2>6. QED
    BY <1>15, <2>1, <2>2, <2>3, <2>4, <2>5 DEF TypeOK, ConnectionDrops, bus, view
<1>16. ASSUME NEW p \in Pages, FailureWindowPasses(p) PROVE TypeOK'
  BY <1>16, StreamAssumption DEF TypeOK, FailureWindowPasses, bus, view, counts
<1>17. ASSUME NEW p \in Pages, Hide(p) PROVE TypeOK'
  BY <1>17 DEF TypeOK, Hide, bus, stream, counts
<1>18. ASSUME NEW p \in Pages, Unhide(p) PROVE TypeOK'
  BY <1>18, CaughtTypes DEF TypeOK, Unhide, bus, stream, counts
<1>19. CASE Restart
  <2>1. failures' \in [Pages -> 0..MaxFailures]
    BY <1>19, StreamAssumption DEF TypeOK, GivesUpInTime, Restart
  <2>2. conn' \in [Pages -> {"connecting", "open", "reconnecting", "failed"}]
    BY <1>19 DEF TypeOK, Restart, AfterError
  <2>3. queue' \in [Pages -> Seq(Sent)] /\ \A q \in Pages : Len(queue'[q]) <= QueueLimit
    BY <1>19, StreamAssumption DEF TypeOK, Restart
  <2>4. missed' \in [Pages -> SUBSET {"lost", "unheard", "unfed", "disconnected", "overtaken"}]
    BY <1>19, MissTypes DEF Restart
  <2>5. breaks' \in 0..MaxBreaks
    BY <1>19, StreamAssumption DEF TypeOK, Restart
  <2>6. step' \in [Changes -> {"idle", "published", "committed", "done"}] /\ wire' \in Seq(Sent)
    BY <1>19 DEF TypeOK, Restart
  <2>7. asked' \in [Pages -> 0..2] /\ error' \in [Pages -> BOOLEAN]
    BY <1>19 DEF TypeOK, Restart
  <2>8. QED
    BY <1>19, <2>1, <2>2, <2>3, <2>4, <2>5, <2>6, <2>7 DEF TypeOK, Restart
<1>20. ASSUME NEW p \in Pages, FetchFails(p) PROVE TypeOK'
  <2>1. asked' \in [Pages -> 0..2]
    BY <1>20 DEF TypeOK, FetchFails
  <2>2. error' \in [Pages -> BOOLEAN] /\ breaks' \in 0..MaxBreaks
    BY <1>20, StreamAssumption DEF TypeOK, FetchFails
  <2>3. QED
    BY <1>20, <2>1, <2>2 DEF TypeOK, FetchFails, bus, stream
<1>21. QED
  BY <1>1, <1>2, <1>3, <1>4, <1>5, <1>6, <1>7, <1>8, <1>9, <1>10, <1>11, <1>12, <1>13,
     <1>14, <1>15, <1>16, <1>17, <1>18, <1>19, <1>20 DEF Next, Client

-----------------------------------------------------------------------------
(* The step of each conjunct. *)

\* A step that makes no version and no answer keeps the order of versions.
LEMMA OrderedKept ==
  ASSUME TypeOK, Ordered, version' = version, Landed \subseteq Landed',
         IsFiniteSet(Landed'),
         \A p \in Pages : shown'[p] \in {shown[p]} \cup answers[p],
         \A p \in Pages : answers'[p] \subseteq answers[p] \cup {version}
  PROVE  Ordered'
<1>1. version \in Nat /\ Cardinality(Landed) \in Nat
  BY VersionNat, LandedFinite
<1>2. Cardinality(Landed) <= Cardinality(Landed') /\ Cardinality(Landed') \in Nat
  BY FS_Subset, FS_CardinalityType
<1>3. version' <= Cardinality(Landed')
  BY <1>1, <1>2 DEF Ordered
<1>4. ASSUME NEW p \in Pages
      PROVE  shown'[p] <= version' /\ \A v \in answers'[p] : v <= version'
  BY <1>1 DEF Ordered
<1>5. QED
  BY <1>3, <1>4 DEF Ordered

\* A step counts no change twice and shows no version that is not there.
LEMMA OrderedStep == TypeOK /\ Ordered /\ [Next]_vars => Ordered'
<1> SUFFICES ASSUME TypeOK, Ordered, [Next]_vars PROVE Ordered'
  OBVIOUS
<1>0. \A T : T \subseteq Changes => IsFiniteSet(T)
  BY StreamAssumption, FS_Subset
<1>1. Landed' \subseteq Changes /\ IsFiniteSet(Landed')
  BY <1>0 DEF Landed
<1>2. ASSUME UNCHANGED <<step, version, shown>>,
             \A p \in Pages : answers'[p] \subseteq answers[p] \cup {version}
      PROVE  Ordered'
  <2>1. Landed' = Landed
    BY <1>2 DEF Landed
  <2>2. QED
    BY <1>1, <1>2, <2>1, OrderedKept
<1>3. ASSUME NEW c \in Changes, Commit(c) PROVE Ordered'
  <2>1. version' = version + 1 /\ version \in Nat /\ UNCHANGED <<shown, answers>>
    BY <1>3, VersionNat DEF Commit, view
  <2>2. \A p \in Pages : shown[p] \in Nat /\ answers[p] \subseteq Nat
    BY LandedFinite DEF TypeOK, Versions
  <2>3. ASSUME NEW p \in Pages
        PROVE  shown'[p] <= version' /\ \A v \in answers'[p] : v <= version'
    BY <2>1, <2>2 DEF Ordered
  <2>4. QED
    BY <1>3, <2>3, CommitCounts DEF Ordered
<1>4. ASSUME NEW c \in Changes, Publish(c) PROVE Ordered'
  <2>1. Landed \subseteq Landed'
    BY <1>4 DEF TypeOK, Publish, IsEarly, Landed
  <2>2. UNCHANGED <<version, shown, answers>>
    BY <1>4 DEF Publish, view
  <2>3. QED
    BY <1>1, <2>1, <2>2, OrderedKept
<1>5. CASE Restart
  <2>1. Landed \subseteq Landed'
    BY <1>5 DEF TypeOK, Restart, Landed
  <2>2. UNCHANGED <<version, shown, answers>>
    BY <1>5 DEF Restart
  <2>3. QED
    BY <1>1, <2>1, <2>2, OrderedKept
<1>6. ASSUME NEW p \in Pages, Show(p) PROVE Ordered'
  <2>1. UNCHANGED <<step, version>>
    BY <1>6 DEF Show
  <2>2. \A q \in Pages : shown'[q] \in {shown[q]} \cup answers[q]
    BY <1>6 DEF TypeOK, Show
  <2>3. \A q \in Pages : answers'[q] \subseteq answers[q] \cup {version}
    BY <1>6 DEF TypeOK, Show
  <2>4. Landed' = Landed
    BY <2>1 DEF Landed
  <2>5. QED
    BY <1>1, <2>1, <2>2, <2>3, <2>4, OrderedKept
<1>7. ASSUME NEW p \in Pages,
             Refetch(p) \/ Serve(p) \/ Unhide(p)
      PROVE  Ordered'
  <2>1. UNCHANGED <<step, version, shown>>
    BY <1>7 DEF Refetch, Serve, Unhide
  <2>2. \A q \in Pages : answers'[q] \subseteq answers[q] \cup {version}
    <3>1. CASE Refetch(p) \/ Unhide(p)
      BY <3>1 DEF TypeOK, Refetch, Unhide
    <3>2. CASE Serve(p)
      BY <3>2 DEF TypeOK, Serve
    <3>3. QED
      BY <1>7, <3>1, <3>2
  <2>3. QED
    BY <1>2, <2>1, <2>2
<1>8. CASE UNCHANGED <<step, version, shown, answers>>
  BY <1>2, <1>8
<1>9. CASE UNCHANGED vars
  BY <1>8, <1>9 DEF vars, view
<1>10. CASE Deliver \/ ConsumerCrashes \/ Reopen \/ RedisFails \/ RedisReturns
  BY <1>8, <1>10 DEF Deliver, ConsumerCrashes, Reopen, RedisFails, RedisReturns, view
<1>11. ASSUME NEW p \in Pages, Connect(p) \/ Receive(p) \/ Poll(p) PROVE Ordered'
  BY <1>8, <1>11 DEF Connect, Receive, Poll
<1>12. ASSUME NEW p \in Pages,
              ConnectionDrops(p) \/ FailureWindowPasses(p) \/ FetchFails(p) \/ Hide(p)
       PROVE  Ordered'
  BY <1>8, <1>12 DEF ConnectionDrops, FailureWindowPasses, FetchFails, Hide, view
<1>13. QED
  BY <1>3, <1>4, <1>5, <1>6, <1>7, <1>9, <1>10, <1>11, <1>12 DEF Next, Client

\* A page gives up with its last error.
LEMMA GivesUpStep == TypeOK /\ GivesUpInTime /\ [Next]_vars => GivesUpInTime'
<1> SUFFICES ASSUME TypeOK, GivesUpInTime, [Next]_vars PROVE GivesUpInTime'
  OBVIOUS
<1>1. CASE UNCHANGED <<conn, failures>>
  BY <1>1 DEF GivesUpInTime
<1>2. ASSUME NEW p \in Pages, Connect(p) PROVE GivesUpInTime'
  BY <1>2 DEF TypeOK, GivesUpInTime, Connect
<1>3. ASSUME NEW p \in Pages, ConnectionDrops(p) PROVE GivesUpInTime'
  BY <1>3, StreamAssumption DEF TypeOK, GivesUpInTime, ConnectionDrops, AfterError
<1>4. ASSUME NEW p \in Pages, FailureWindowPasses(p) PROVE GivesUpInTime'
  BY <1>4, StreamAssumption DEF TypeOK, GivesUpInTime, FailureWindowPasses
<1>5. CASE Restart
  BY <1>5, StreamAssumption DEF TypeOK, GivesUpInTime, Restart, AfterError
<1>6. ASSUME NEW c \in Changes, Publish(c) \/ Commit(c) PROVE GivesUpInTime'
  BY <1>1, <1>6 DEF Publish, Commit, stream
<1>7. CASE Deliver \/ ConsumerCrashes \/ Reopen \/ RedisFails \/ RedisReturns
  BY <1>1, <1>7 DEF Deliver, ConsumerCrashes, Reopen, RedisFails, RedisReturns, stream
<1>8. ASSUME NEW p \in Pages,
             \/ Receive(p) \/ Refetch(p) \/ Poll(p) \/ Serve(p) \/ Show(p)
             \/ FetchFails(p) \/ Hide(p) \/ Unhide(p)
      PROVE  GivesUpInTime'
  BY <1>1, <1>8 DEF Receive, Refetch, Poll, Serve, Show, FetchFails, Hide, Unhide, stream
<1>9. CASE UNCHANGED vars
  BY <1>1, <1>9 DEF vars, stream
<1>10. QED
  BY <1>2, <1>3, <1>4, <1>5, <1>6, <1>7, <1>8, <1>9 DEF Next, Client

-----------------------------------------------------------------------------
(* No change goes past a page unnoticed. *)

\* What is under way for a page stays under way in a step that takes nothing
\* from it.
LEMMA CoveredKept ==
  ASSUME NEW p \in Pages, Covered(p), version' = version,
         shown'[p] = shown[p], missed[p] # {} => missed'[p] # {},
         conn[p] # "open" => conn'[p] # "open",
         ~visible[p] => ~visible'[p],
         timer[p] => timer'[p],
         Fetching(p) => Fetching(p)',
         Heard(queue[p]) => Heard(queue'[p]) \/ timer'[p],
         Heard(wire) => Heard(wire') \/ Heard(queue'[p]) \/ missed'[p] # {},
         Announced => Announced' \/ Heard(wire') \/ missed'[p] # {}
  PROVE  Covered(p)'
  BY DEF Covered, News, Heard

\* A miss is noted for every page it is of.
LEMMA MissesPages ==
  ASSUME NEW P \in SUBSET Pages, NEW why, NEW p \in Pages, Miss(P, why)
  PROVE  (missed[p] # {} => missed'[p] # {}) /\ (p \in P => missed'[p] # {})
  BY DEF Miss

\* A message that is published is heard of, or missed.
LEMMA PublishCovers ==
  ASSUME TypeOK, NoGap, NEW c \in Changes, Publish(c), NEW q \in Pages
  PROVE  Covered(q)'
<1>1. wire \in Seq(Sent) /\ KindOf[c] \in Sent
  BY KindIsSent DEF TypeOK
<1>2. UNCHANGED <<version, stream, view>>
  BY DEF Publish
<1>3. CASE wire' = Append(wire, KindOf[c]) /\ UNCHANGED missed
  <2>1. Heard(wire) => Heard(wire')
    BY <1>1, <1>3, HeardAppend
  <2>2. Announced => Announced' \/ Heard(wire')
    <3>1. ASSUME NEW d \in Changes, step[d] = "committed", KindOf[d] \in Listened
          PROVE  Announced' \/ Heard(wire')
      <4>1. CASE d = c
        BY <1>1, <1>3, <3>1, <4>1, HeardAppend
      <4>2. CASE d # c
        BY <3>1, <4>2 DEF TypeOK, Publish, Announced
      <4>3. QED
        BY <4>1, <4>2
    <3>2. QED
      BY <3>1 DEF Announced
  <2>3. Covered(q)
    BY DEF NoGap
  <2>4. QED
    BY <1>2, <1>3, <2>1, <2>2, <2>3, CoveredKept DEF stream, view, Fetching
<1>4. CASE Miss(Pages, "lost")
  <2>1. missed'[q] # {}
    BY <1>4, MissesPages
  <2>2. QED
    BY <2>1 DEF Covered
<1>5. QED
  BY <1>3, <1>4 DEF Publish, Emit

\* A commit moves the version; its message is out or announced.
LEMMA CommitCovers ==
  ASSUME TypeOK, NEW c \in Changes, Commit(c), NEW q \in Pages
  PROVE  Covered(q)'
<1>1. CASE KindOf[c] \in Listened
  <2>1. ~IsEarly(c)
    BY <1>1, StreamAssumption DEF IsEarly
  <2>2. step'[c] = "committed"
    BY <2>1 DEF TypeOK, Commit
  <2>3. Announced'
    BY <1>1, <2>2 DEF Announced
  <2>4. QED
    BY <2>3 DEF Covered, News
<1>2. CASE KindOf[c] \notin Listened
  <2>1. missed'[q] # {}
    BY <1>2, MissesPages DEF Commit
  <2>2. QED
    BY <2>1 DEF Covered
<1>3. QED
  BY <1>1, <1>2

\* A message moves from the wire to the queues, or is missed.
LEMMA DeliverCovers ==
  ASSUME TypeOK, NoGap, Deliver, NEW q \in Pages
  PROVE  Covered(q)'
<1>1. wire \in Seq(Sent) /\ wire # <<>> /\ wire' = Tail(wire) /\ Head(wire) \in Sent
  BY DEF TypeOK, Deliver
<1>2. UNCHANGED <<step, version, conn, view>>
  BY DEF Deliver
<1>3. Miss(Pages \ registered', "unfed")
  BY DEF Deliver
<1>4. CASE q \in registered'
  <2>1. queue[q] \in Seq(Sent) /\ queue'[q] = Append(queue[q], Head(wire))
    BY <1>4 DEF TypeOK, Deliver
  <2>2. Heard(queue[q]) => Heard(queue'[q])
    BY <1>1, <2>1, HeardAppend
  <2>3. Heard(wire) => Heard(wire') \/ Heard(queue'[q])
    BY <1>1, <2>1, HeardAppend, HeardTail
  <2>4. missed[q] # {} => missed'[q] # {}
    BY <1>3, MissesPages
  <2>5. Announced => Announced'
    BY <1>2 DEF Announced
  <2>6. Covered(q)
    BY DEF NoGap
  <2>7. QED
    BY <1>2, <2>2, <2>3, <2>4, <2>5, <2>6, CoveredKept DEF view, Fetching
<1>5. CASE q \notin registered'
  <2>1. missed'[q] # {}
    BY <1>3, <1>5, MissesPages
  <2>2. QED
    BY <2>1 DEF Covered
<1>6. QED
  BY <1>4, <1>5

\* An answer is shown: the newest one brings the page up to date.
LEMMA ShowCovers ==
  ASSUME TypeOK, Ordered, NoGap, NEW p \in Pages, Show(p)
  PROVE  Covered(p)'
<1>1. PICK v \in answers[p] :
        /\ shown' = [shown EXCEPT ![p] = v]
        /\ error' = [error EXCEPT ![p] = FALSE]
        /\ answers' = [answers EXCEPT ![p] = @ \ {v}]
        /\ missed' = [missed EXCEPT ![p] = IF v = version THEN {}
                              ELSE IF v < shown[p] THEN @ \cup {"overtaken"} ELSE @]
        /\ UNCHANGED <<step, version, bus, stream, timer, asked, visible, counts>>
  BY DEF Show
<1>2. v \in Nat /\ version \in Nat /\ v <= version
  BY <1>1, VersionNat, LandedFinite DEF TypeOK, Ordered, Versions
<1>3. CASE v = version
  <2>1. shown'[p] = version'
    BY <1>1, <1>3 DEF TypeOK
  <2>2. QED
    BY <2>1 DEF Covered
<1>4. CASE v # version /\ shown[p] = version
  <2>1. missed'[p] # {}
    <3>1. v < shown[p]
      BY <1>2, <1>4
    <3>2. missed'[p] = missed[p] \cup {"overtaken"}
      BY <1>1, <1>4, <3>1 DEF TypeOK
    <3>3. QED
      BY <3>2
  <2>2. QED
    BY <2>1 DEF Covered
<1>5. CASE v # version /\ missed[p] # {}
  <2>1. missed'[p] # {}
    BY <1>1, <1>5 DEF TypeOK
  <2>2. QED
    BY <2>1 DEF Covered
<1>6. CASE v # version /\ News(p)
  <2>1. Announced => Announced'
    BY <1>1 DEF Announced
  <2>2. News(p)'
    BY <1>1, <1>6, <2>1 DEF News, Heard, bus, stream
  <2>3. QED
    BY <2>2 DEF Covered
<1>7. CASE v # version /\ Fetching(p)
  BY <1>1, <1>7 DEF Fetching
<1>8. QED
  BY <1>3, <1>4, <1>5, <1>6, <1>7 DEF NoGap, Covered

\* The steps of a page that nothing makes it take.
OtherStep(p) == \/ ConnectionDrops(p) \/ FailureWindowPasses(p)
                \/ FetchFails(p) \/ Hide(p) \/ Unhide(p)

\* A page's step leaves the other pages as they are.
LEMMA OthersCovered ==
  ASSUME TypeOK, NoGap, NEW p \in Pages, NEW q \in Pages, q # p,
         Client(p) \/ OtherStep(p)
  PROVE  Covered(q)'
<1>1. UNCHANGED <<step, version, wire>>
  <2>1. CASE Connect(p) \/ Receive(p) \/ Refetch(p) \/ Poll(p)
    BY <2>1 DEF Connect, Receive, Refetch, Poll, bus
  <2>2. CASE Serve(p) \/ Show(p) \/ ConnectionDrops(p)
    BY <2>2 DEF Serve, Show, ConnectionDrops, bus
  <2>3. CASE FailureWindowPasses(p) \/ FetchFails(p) \/ Hide(p) \/ Unhide(p)
    BY <2>3 DEF FailureWindowPasses, FetchFails, Hide, Unhide, bus
  <2>4. QED
    BY <2>1, <2>2, <2>3 DEF Client, OtherStep
<1>2. /\ conn'[q] = conn[q] /\ queue'[q] = queue[q] /\ timer'[q] = timer[q]
      /\ asked'[q] = asked[q] /\ answers'[q] = answers[q] /\ shown'[q] = shown[q]
      /\ error'[q] = error[q] /\ visible'[q] = visible[q] /\ missed'[q] = missed[q]
  <2>1. CASE Connect(p)
    BY <2>1 DEF TypeOK, Connect, Caught
  <2>2. CASE Receive(p)
    BY <2>2 DEF TypeOK, Receive
  <2>3. CASE Refetch(p)
    BY <2>3 DEF TypeOK, Refetch, Caught, stream
  <2>4. CASE Poll(p)
    BY <2>4 DEF TypeOK, Poll, stream
  <2>5. CASE Serve(p)
    BY <2>5 DEF TypeOK, Serve, stream
  <2>6. CASE Show(p)
    BY <2>6 DEF TypeOK, Show, stream
  <2>7. CASE ConnectionDrops(p)
    BY <2>7 DEF TypeOK, ConnectionDrops, Miss, view
  <2>8. CASE FailureWindowPasses(p)
    BY <2>8 DEF TypeOK, FailureWindowPasses, view
  <2>9. CASE Hide(p)
    BY <2>9 DEF TypeOK, Hide, stream
  <2>10. CASE Unhide(p)
    BY <2>10 DEF TypeOK, Unhide, Caught, stream
  <2>11. CASE FetchFails(p)
    BY <2>11 DEF TypeOK, FetchFails, stream
  <2>12. QED
    BY <2>1, <2>2, <2>3, <2>4, <2>5, <2>6, <2>7, <2>8, <2>9, <2>10, <2>11
       DEF Client, OtherStep
<1>3. Announced' = Announced
  BY <1>1 DEF Announced
<1>4. Covered(q)
  BY DEF NoGap
<1>5. QED
  BY <1>1, <1>2, <1>3, <1>4 DEF Covered, News, Fetching, Heard

\* The steps of a page keep it covered.
LEMMA OwnPageCovered ==
  ASSUME TypeOK, Ordered, NoGap, NEW p \in Pages,
         Client(p) \/ OtherStep(p)
  PROVE  Covered(p)'
<1>0. Covered(p)
  BY DEF NoGap
<1>1. CASE Connect(p)
  BY <1>1 DEF TypeOK, Connect, Covered, News
<1>2. CASE Receive(p)
  <2>1. queue[p] \in Seq(Sent) /\ queue[p] # <<>> /\ queue'[p] = Tail(queue[p])
    BY <1>2 DEF TypeOK, Receive
  <2>2. Head(queue[p]) \in Listened => timer'[p]
    BY <1>2 DEF TypeOK, Receive
  <2>3. Heard(queue[p]) => Heard(queue'[p]) \/ timer'[p]
    BY <2>1, <2>2, HeardTail
  <2>4. timer[p] => timer'[p]
    BY <1>2 DEF TypeOK, Receive
  <2>5. UNCHANGED <<step, version, wire, conn, asked, answers, shown, visible, missed>>
    BY <1>2 DEF Receive, bus
  <2>6. Announced => Announced'
    BY <2>5 DEF Announced
  <2>7. Heard(wire) => Heard(wire')
    BY <2>5 DEF Heard
  <2>8. error' = error
    BY <1>2 DEF Receive
  <2>9. QED
    BY <1>0, <2>3, <2>4, <2>5, <2>6, <2>7, <2>8, CoveredKept DEF Fetching
<1>3. CASE Refetch(p)
  <2>1. CASE visible[p]
    <3>1. asked'[p] = 1 /\ answers'[p] = {}
      BY <1>3, <2>1 DEF TypeOK, Refetch
    <3>2. QED
      BY <3>1 DEF Covered, Fetching
  <2>2. CASE ~visible[p]
    BY <1>3, <2>2 DEF Refetch, Covered, News
  <2>3. QED
    BY <2>1, <2>2
<1>4. CASE Poll(p)
  <2>1. UNCHANGED <<step, version, wire, conn, queue, timer, answers, shown, visible, missed>>
    BY <1>4 DEF Poll, bus, stream
  <2>2. Fetching(p) => Fetching(p)'
    <3>1. asked[p] \in 0..2 /\ asked'[p] = asked[p] + 1
      BY <1>4 DEF TypeOK, Poll
    <3>2. QED
      BY <2>1, <3>1 DEF Fetching
  <2>3. Announced => Announced'
    BY <2>1 DEF Announced
  <2>4. QED
    BY <1>0, <2>2, <2>1, <2>3, CoveredKept DEF Heard
<1>5. CASE Serve(p)
  <2>1. answers'[p] = answers[p] \cup {version}
    BY <1>5 DEF TypeOK, Serve
  <2>2. UNCHANGED <<step, version, wire, conn, queue, timer, shown, visible, missed>>
    BY <1>5 DEF Serve, bus, stream
  <2>3. Fetching(p) => Fetching(p)'
    BY <2>1, <2>2 DEF Fetching
  <2>4. Announced => Announced'
    BY <2>2 DEF Announced
  <2>5. QED
    BY <1>0, <2>2, <2>3, <2>4, CoveredKept DEF Heard
<1>6. CASE Show(p)
  BY <1>6, ShowCovers
<1>7. CASE ConnectionDrops(p)
  BY <1>7 DEF TypeOK, ConnectionDrops, AfterError, Covered, News
<1>8. CASE FailureWindowPasses(p)
  <2>1. UNCHANGED <<step, version, wire, conn, queue, view, missed>>
    BY <1>8 DEF FailureWindowPasses, bus
  <2>2. Announced => Announced'
    BY <2>1 DEF Announced
  <2>3. QED
    BY <1>0, <2>1, <2>2, CoveredKept DEF Heard, view, Fetching
<1>9. CASE Hide(p)
  BY <1>9 DEF TypeOK, Hide, Covered, News
<1>10. CASE Unhide(p)
  <2>1. asked'[p] = 1 /\ answers'[p] = {}
    BY <1>10 DEF TypeOK, Unhide
  <2>2. QED
    BY <2>1 DEF Covered, Fetching
<1>11. CASE FetchFails(p)
  <2>1. error'[p] /\ answers' = answers
    BY <1>11 DEF TypeOK, FetchFails
  <2>2. UNCHANGED <<step, version, wire, conn, queue, timer, shown, visible, missed>>
    BY <1>11 DEF FetchFails, bus, stream
  <2>3. Fetching(p) => Fetching(p)'
    BY <2>1, <2>2 DEF Fetching
  <2>4. Announced => Announced'
    BY <2>2 DEF Announced
  <2>5. QED
    BY <1>0, <2>2, <2>3, <2>4, CoveredKept DEF Heard
<1>12. QED
  BY <1>1, <1>2, <1>3, <1>4, <1>5, <1>6, <1>7, <1>8, <1>9, <1>10, <1>11
     DEF Client, OtherStep

\* No step leaves a page behind with nothing under way.
LEMMA NoGapStep == TypeOK /\ Ordered /\ NoGap /\ [Next]_vars => NoGap'
<1> SUFFICES ASSUME TypeOK, Ordered, NoGap, [Next]_vars, NEW q \in Pages PROVE Covered(q)'
  BY DEF NoGap
<1>0. Covered(q)
  BY DEF NoGap
<1>1. ASSUME UNCHANGED <<step, version, wire, queue, conn, view, missed>> PROVE Covered(q)'
  BY <1>0, <1>1 DEF Covered, News, Fetching, Heard, Announced, view
<1>2. ASSUME NEW c \in Changes, Publish(c) \/ Commit(c) PROVE Covered(q)'
  BY <1>2, PublishCovers, CommitCovers
<1>3. CASE Deliver
  BY <1>3, DeliverCovers
<1>4. CASE ConsumerCrashes \/ Reopen \/ RedisReturns
  BY <1>1, <1>4 DEF ConsumerCrashes, Reopen, RedisReturns, stream
<1>5. CASE RedisFails
  <2>1. CASE wire = <<>>
    <3>1. wire' = wire
      BY <1>5, <2>1 DEF RedisFails
    <3>2. QED
      BY <1>1, <1>5, <2>1, <3>1 DEF RedisFails, stream
  <2>2. CASE wire # <<>>
    BY <1>5, <2>2, MissesPages DEF RedisFails, Covered
  <2>3. QED
    BY <2>1, <2>2
<1>6. ASSUME NEW p \in Pages,
             Client(p) \/ OtherStep(p)
      PROVE  Covered(q)'
  <2>1. CASE p = q
    BY <1>6, <2>1, OwnPageCovered
  <2>2. CASE p # q
    BY <1>6, <2>2, OthersCovered
  <2>3. QED
    BY <2>1, <2>2
<1>7. CASE Restart
  BY <1>7, MissesPages DEF Restart, Covered
<1>8. CASE UNCHANGED vars
  BY <1>1, <1>8 DEF vars, bus, stream
<1>9. QED
  BY <1>2, <1>3, <1>4, <1>5, <1>6, <1>7, <1>8 DEF Next, OtherStep

-----------------------------------------------------------------------------
(* The theorems. *)

\* At the start no change has been made.
LEMMA InvInit == Init => IInv
<1> SUFFICES ASSUME Init PROVE IInv
  OBVIOUS
<1>1. 0 \in Versions /\ 0 \in 0..MaxFailures /\ 0 \in 0..MaxOutages /\ 0 \in 0..MaxBreaks
  BY LandedFinite, StreamAssumption DEF Versions
<1>2. TypeOK
  BY <1>1, StreamAssumption DEF Init, TypeOK
<1>3. Ordered
  BY LandedFinite DEF Init, Ordered
<1>4. GivesUpInTime
  BY StreamAssumption DEF Init, GivesUpInTime
<1>5. NoGap
  BY DEF Init, NoGap, Covered
<1>6. QED
  BY <1>2, <1>3, <1>4, <1>5 DEF IInv

\* Every step keeps the invariant.
LEMMA InvStep == IInv /\ [Next]_vars => IInv'
  BY TypeStep, OrderedStep, GivesUpStep, NoGapStep DEF IInv

\* Every state keeps the types, the order of versions, an error in reserve for
\* each page that has not given up, and nothing uncovered.
THEOREM InvCorrect == Spec => []IInv
<1>1. QED
  BY InvInit, InvStep, PTL DEF Spec

\* The bus, the connections and the pages keep their shape, and no connection's
\* queue outgrows its limit.
THEOREM TypeCorrect == Spec => []TypeOK
<1>1. IInv => TypeOK
  BY DEF IInv
<1>2. QED
  BY <1>1, InvCorrect, PTL

\* On a quiet page, none of the things under way are, and what is left of a
\* fetch is its error.
LEMMA QuietIsCovered == IInv => QuietPageIsCurrent
<1> SUFFICES ASSUME IInv, NEW p \in Pages, Quiet(p), missed[p] = {}
             PROVE  shown[p] = version \/ error[p]
  BY DEF QuietPageIsCurrent
<1>1. ~Heard(queue[p]) /\ ~Heard(wire)
  BY NothingHeard DEF Quiet
<1>2. ~Announced
  BY DEF Quiet, Announced
<1>3. ~(asked[p] > 0) /\ answers[p] = {}
  BY DEF Quiet
<1>4. QED
  BY <1>1, <1>2, <1>3 DEF IInv, NoGap, Covered, News, Fetching, Quiet

\* For any number of pages, changes, outages, failed fetches and restarts: a page
\* on which nothing is under way and past which nothing went that missed names
\* shows the database or that its last fetch failed.
THEOREM QuietPagesAreCurrent == Spec => []QuietPageIsCurrent
  BY InvCorrect, QuietIsCovered, PTL

=============================================================================
