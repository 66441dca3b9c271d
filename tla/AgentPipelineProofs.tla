-------------------------- MODULE AgentPipelineProofs --------------------------
(***************************************************************************)
(* What holds of the agent for any log, any bounds of its queue and table  *)
(* and any number of faults, rotations and stops.                          *)
(***************************************************************************)
EXTENDS AgentPipeline, FiniteSetTheorems, SequenceTheorems, TLAPS

-----------------------------------------------------------------------------
(* The inductive invariants. *)

\* Events enqueued in this life that are neither stored nor on their way.
Lost == out \ (store \cup Range(queue) \cup Range(batch))

LossesBounded == IsFiniteSet(Lost) /\ Cardinality(Lost) <= failed + dropped

\* A pid is in the table because its process was created in this life.
Provenance == \A p \in Range(tracked) :
                \E c \in Events : /\ Pid[c] = p /\ Kind[c] \in {"created", "broken"}
                                  /\ Kind[c] = "created" => c \in out

CountInv == TypeOK /\ LossesBounded /\ Provenance /\ ExitsHaveProvenance

Even(n) == \E k \in Nat : n = 2 * k

\* The checkpoint c is in the file f, and every line it is past is among those
\* that are known.
SoundIn(f, known, c) == f.exists /\ c.inode = f.inode =>
                          /\ c.offset <= 2 * Len(f.lines)
                          /\ \A i \in DOMAIN f.lines :
                               LineStart(i) < c.offset => f.lines[i] \in known

Sound(c) == SoundIn(file, fed \cup hidden, c)

\* A file grows while it is there, and no inode is 0.
FileGrows == /\ ~file.exists => file.lines = <<>> /\ ~file.begun
             /\ file.inode # 0
             /\ cp.inode = 0 => cp.offset = 0
             /\ disk.inode = 0 => disk.offset = 0
             /\ pc \in {"read", "feed"} => cp.inode # 0

\* The lines g of a read are the ones of f behind the offset of c, up to the
\* offset n that the source will trust when it is through.
ReadIn(f, c, g, n) == f.exists /\ c.inode = f.inode =>
                        /\ n = c.offset + 2 * Len(g)
                        /\ n <= 2 * Len(f.lines)
                        /\ \A j \in DOMAIN g, i \in DOMAIN f.lines :
                             LineStart(i) = c.offset + 2 * (j - 1) => g[j] = f.lines[i]

Reading == pc = "feed" /\ ~cut => ReadIn(file, cp, got, newOffset)

\* No offset is inside of a line.
WholeLines == /\ Even(cp.offset) /\ Even(disk.offset) /\ Even(newOffset)
              /\ \A j \in DOMAIN got : got[j] # Fragment

OffsetInv == /\ TypeOK /\ FileGrows /\ WholeLines /\ Reading
             /\ ~cut => Sound(cp)
             /\ ~stale => Sound(disk)

-----------------------------------------------------------------------------
(* Sequences, and the lines of an event. *)

\* What an append adds to the elements of a sequence.
LEMMA RangeOfAppend ==
  ASSUME NEW S, NEW s \in Seq(S), NEW x
  PROVE  Range(Append(s, x)) = Range(s) \cup {x}
<1>1. ASSUME NEW y \in Range(Append(s, x)) PROVE y \in Range(s) \cup {x}
  BY <1>1 DEF Range
<1>2. ASSUME NEW y \in Range(s) PROVE y \in Range(Append(s, x))
  <2>1. PICK i \in 1..Len(s) : y = s[i]
    BY <1>2 DEF Range
  <2>2. i \in DOMAIN Append(s, x) /\ Append(s, x)[i] = y
    BY <2>1
  <2>3. QED
    BY <2>2 DEF Range
<1>3. x \in Range(Append(s, x))
  <2>1. Len(s) + 1 \in DOMAIN Append(s, x) /\ Append(s, x)[Len(s) + 1] = x
    OBVIOUS
  <2>2. QED
    BY <2>1 DEF Range
<1>4. QED
  BY <1>1, <1>2, <1>3

\* The elements of a sequence are its head and those of its tail.
LEMMA RangeOfTail ==
  ASSUME NEW S, NEW s \in Seq(S), s # <<>>
  PROVE  /\ Range(s) = {Head(s)} \cup Range(Tail(s))
         /\ Tail(s) \in Seq(S) /\ Len(Tail(s)) = Len(s) - 1 /\ Head(s) \in S
<1>1. ASSUME NEW y \in Range(s) PROVE y \in {Head(s)} \cup Range(Tail(s))
  <2>1. PICK i \in 1..Len(s) : y = s[i]
    BY <1>1 DEF Range
  <2>2. CASE i = 1
    BY <2>1, <2>2
  <2>3. CASE i # 1
    <3>1. i - 1 \in DOMAIN Tail(s) /\ Tail(s)[i - 1] = y
      BY <2>1, <2>3
    <3>2. QED
      BY <3>1 DEF Range
  <2>4. QED
    BY <2>2, <2>3
<1>2. ASSUME NEW y \in Range(Tail(s)) PROVE y \in Range(s)
  <2>1. PICK i \in 1..(Len(s) - 1) : y = s[i + 1]
    BY <1>2 DEF Range
  <2>2. i + 1 \in DOMAIN s
    BY <2>1
  <2>3. QED
    BY <2>1, <2>2 DEF Range
<1>3. Head(s) \in Range(s)
  <2>1. 1 \in DOMAIN s /\ s[1] = Head(s)
    OBVIOUS
  <2>2. QED
    BY <2>1 DEF Range
<1>4. Tail(s) \in Seq(S) /\ Len(Tail(s)) = Len(s) - 1 /\ Head(s) \in S
  OBVIOUS
<1>5. QED
  BY <1>1, <1>2, <1>3, <1>4

\* The table without a pid is the table but for that.
LEMMA WithoutSets ==
  ASSUME NEW t \in Seq(Nat), NEW p
  PROVE  /\ Without(t, p) \in Seq(Nat) /\ Len(Without(t, p)) <= Len(t)
         /\ p \in Range(t) => Len(Without(t, p)) + 1 = Len(t)
         /\ Range(Without(t, p)) \subseteq Range(t)
<1>1. CASE p \notin Range(t)
  BY <1>1 DEF Without
<1>2. CASE p \in Range(t)
  <2>1. PICK i : i = CHOOSE j \in DOMAIN t : t[j] = p
    OBVIOUS
  <2>2. i \in 1..Len(t) /\ t[i] = p
    BY <1>2, <2>1 DEF Range
  <2>3. PICK a, b : a = SubSeq(t, 1, i - 1) /\ b = SubSeq(t, i + 1, Len(t))
    OBVIOUS
  <2>4. Without(t, p) = a \o b
    BY <1>2, <2>1, <2>3 DEF Without, RemoveAt
  <2>5. /\ a \in Seq(Nat) /\ Len(a) = i - 1 /\ \A j \in 1..(i - 1) : a[j] = t[j]
        /\ b \in Seq(Nat) /\ Len(b) = Len(t) - i
        /\ \A j \in 1..(Len(t) - i) : b[j] = t[i + j]
    <3>1. /\ a \in Seq(Nat)
          /\ Len(a) = IF 1 <= i - 1 THEN (i - 1) - 1 + 1 ELSE 0
          /\ \A j \in 1..((i - 1) - 1 + 1) : a[j] = t[1 + j - 1]
      BY <2>2, <2>3, SubSeqProperties
    <3>2. /\ b \in Seq(Nat)
          /\ Len(b) = IF i + 1 <= Len(t) THEN Len(t) - (i + 1) + 1 ELSE 0
          /\ \A j \in 1..(Len(t) - (i + 1) + 1) : b[j] = t[(i + 1) + j - 1]
      BY <2>2, <2>3, SubSeqProperties
    <3>3. Len(a) = i - 1 /\ Len(b) = Len(t) - i
      BY <2>2, <3>1, <3>2
    <3>4. \A j \in 1..(i - 1) : a[j] = t[j]
      BY <2>2, <3>1
    <3>5. \A j \in 1..(Len(t) - i) : b[j] = t[i + j]
      BY <2>2, <3>2
    <3>6. QED
      BY <3>1, <3>2, <3>3, <3>4, <3>5
  <2>6. /\ a \o b \in Seq(Nat) /\ Len(a \o b) = Len(t) - 1
        /\ \A j \in 1..(Len(t) - 1) : (a \o b)[j] = IF j < i THEN t[j] ELSE t[j + 1]
    <3>1. /\ a \o b \in Seq(Nat) /\ Len(a \o b) = Len(a) + Len(b)
          /\ \A j \in 1..(Len(a) + Len(b)) :
               (a \o b)[j] = IF j <= Len(a) THEN a[j] ELSE b[j - Len(a)]
      BY <2>5, ConcatProperties
    <3>2. PICK c : c = a \o b
      OBVIOUS
    <3>3. ASSUME NEW j \in 1..(Len(t) - 1) PROVE c[j] = IF j < i THEN t[j] ELSE t[j + 1]
      <4>1. CASE j < i
        BY <2>2, <2>5, <3>1, <3>2, <4>1
      <4>2. CASE ~(j < i)
        <5>1. c[j] = b[j - (i - 1)]
          <6>1. j \in 1..(Len(a) + Len(b)) /\ ~(j <= Len(a))
            BY <2>2, <2>5, <4>2
          <6>2. c[j] = b[j - Len(a)]
            BY <3>1, <3>2, <6>1
          <6>3. QED
            BY <2>5, <6>2
        <5>2. j - (i - 1) \in 1..(Len(t) - i) /\ i + (j - (i - 1)) = j + 1
          BY <2>2, <4>2
        <5>3. QED
          BY <2>5, <4>2, <5>1, <5>2
      <4>3. QED
        BY <4>1, <4>2
    <3>4. QED
      BY <2>2, <2>5, <3>1, <3>2, <3>3
  <2>7. \A j \in 1..(Len(t) - 1) : (a \o b)[j] \in Range(t)
    <3> SUFFICES ASSUME NEW j \in 1..(Len(t) - 1) PROVE (a \o b)[j] \in Range(t)
      OBVIOUS
    <3>1. j \in DOMAIN t /\ j + 1 \in DOMAIN t
      OBVIOUS
    <3>2. QED
      BY <2>6, <3>1 DEF Range
  <2>8. Range(a \o b) \subseteq Range(t)
    <3>1. PICK c : c = a \o b
      OBVIOUS
    <3>2. DOMAIN c = 1..(Len(t) - 1) /\ \A j \in 1..(Len(t) - 1) : c[j] \in Range(t)
      BY <2>6, <2>7, <3>1
    <3>3. Range(c) \subseteq Range(t)
      BY <3>2 DEF Range
    <3>4. QED
      BY <3>1, <3>3
  <2>9. QED
    BY <2>4, <2>6, <2>8
<1>3. QED
  BY <1>1, <1>2

\* Every line of the log belongs to an event.
LEMMA EventsOfLines ==
  ASSUME NEW l \in Lines
  PROVE  EventOf(l) \in Events
<1>1. PICK P, n : P = PerEvent /\ n = Len(Kind)
  OBVIOUS
<1>2. P \in Nat /\ P > 0 /\ n \in Nat /\ Events = 1..n
  BY <1>1, AgentAssumption DEF Events
<1>3. l \in Nat /\ 1 <= l /\ l <= P * n
  BY <1>1, <1>2 DEF Lines
<1>4. PICK d : d = (l - 1) \div P
  OBVIOUS
<1>5. d \in Nat /\ P * d <= l - 1
  BY <1>2, <1>3, <1>4, Z3
<1>6. P * d < P * n
  BY <1>2, <1>3, <1>5
<1>7. d < n
  BY <1>2, <1>5, <1>6, Z3
<1>8. EventOf(l) = d + 1
  BY <1>1, <1>4 DEF EventOf
<1>9. QED
  BY <1>2, <1>5, <1>7, <1>8

-----------------------------------------------------------------------------
(* The types. *)

\* The size of the file is that of its lines, with half a line if one is begun.
LEMMA FileSets ==
  ASSUME TypeOK
  PROVE  /\ file.lines \in Seq(Lines) /\ Len(file.lines) \in Nat
         /\ \A i \in DOMAIN file.lines : file.lines[i] \in Lines
         /\ Size \in Nat /\ 2 * Len(file.lines) <= Size /\ Size <= 2 * Len(file.lines) + 1
<1>1. file.lines \in Seq(Lines)
  BY DEF TypeOK
<1>2. /\ Len(file.lines) \in Nat
      /\ \A i \in DOMAIN file.lines : file.lines[i] \in Lines
  BY <1>1
<1>3. PICK n, k : n = Len(file.lines) /\ k = IF file.begun THEN 1 ELSE 0
  OBVIOUS
<1>4. Size = 2 * n + k
  BY <1>3 DEF Size
<1>5. n \in Nat
  BY <1>2, <1>3
<1>6. k = 0 \/ k = 1
  BY <1>3
<1>7. Size \in Nat /\ 2 * n <= Size /\ Size <= 2 * n + 1
  BY <1>4, <1>5, <1>6
<1>8. QED
  BY <1>1, <1>2, <1>3, <1>7

\* A read from any offset finds lines, or the rest of one.
LEMMA LinesFromType ==
  ASSUME TypeOK, NEW o \in Nat
  PROVE  LinesFrom(o) \in Seq({Fragment} \cup Lines)
<1>1. PICK from, s : /\ from = (o \div 2) + 1
                     /\ s = SubSeq(file.lines, from, Len(file.lines))
  OBVIOUS
<1>2. from \in Nat /\ from >= 1
  BY <1>1
<1>3. \A i \in from..Len(file.lines) : file.lines[i] \in Lines
  BY <1>2, FileSets
<1>4. s \in Seq(Lines)
  BY <1>1, <1>2, <1>3, FileSets, SubSeqProperties
<1>5. s \in Seq({Fragment} \cup Lines)
  BY <1>4
<1>6. s # <<>> => <<Fragment>> \o Tail(s) \in Seq({Fragment} \cup Lines)
  BY <1>5
<1>7. QED
  BY <1>1, <1>5, <1>6 DEF LinesFrom

\* The programs that write and rotate the log.
LEMMA LogTypes ==
  ASSUME TypeOK, Environment
  PROVE  TypeOK'
<1> DEFINE F == [exists : BOOLEAN, inode : Nat, lines : Seq(Lines), begun : BOOLEAN]
<1>1. /\ file \in F /\ file.lines \in Seq(Lines) /\ file.inode \in Nat /\ written \in Nat
      /\ <<>> \in Seq(Lines)
  BY DEF TypeOK
<1>2. /\ file' \in F /\ written' \in Nat /\ (file'.begun => written' + 1 \in Lines)
      /\ UNCHANGED <<disk, tail, parser, ship, stop, store, fed, out, hidden>>
      /\ cut' \in BOOLEAN /\ stale' \in BOOLEAN
  <2>1. CASE Begin
    <3>1. file' \in F /\ written' = written /\ written + 1 \in Lines
      BY <1>1, <2>1 DEF Begin
    <3>2. QED
      BY <1>1, <2>1, <3>1 DEF Begin, TypeOK, history
  <2>2. CASE Complete
    <3>1. written + 1 \in Lines
      BY <2>2 DEF Complete, TypeOK
    <3>2. Append(file.lines, written + 1) \in Seq(Lines)
      BY <1>1, <3>1
    <3>3. file' \in F /\ ~file'.begun /\ written' = written + 1
      BY <1>1, <2>2, <3>2 DEF Complete
    <3>4. QED
      BY <1>1, <2>2, <3>3 DEF Complete, TypeOK, history
  <2>3. CASE Rotate
    <3>1. file' \in F /\ ~file'.begun
      BY <1>1, <2>3 DEF Rotate
    <3>2. written' = written \/ written' = written + 1
      BY <2>3 DEF Rotate
    <3>3. written' \in Nat
      BY <1>1, <3>2
    <3>4. QED
      BY <1>1, <2>3, <3>1, <3>3 DEF Rotate, TypeOK, history
  <2>4. CASE Create
    <3>1. PICK n \in 1..(file.inode + 1) :
            /\ file' = [file EXCEPT !.exists = TRUE, !.inode = n]
            /\ cut' = (n = cp.inode) /\ stale' = (n = disk.inode)
      BY <2>4 DEF Create
    <3>2. /\ n \in Nat /\ written' = written
          /\ file' = [file EXCEPT !.exists = TRUE, !.inode = n]
      BY <1>1, <2>4, <3>1 DEF Create
    <3>3. file' \in F /\ file'.begun = file.begun
      BY <1>1, <3>2, Zenon
    <3>4. QED
      BY <1>1, <2>4, <3>1, <3>2, <3>3 DEF Create, TypeOK
  <2>5. CASE Truncate
    <3>1. file' \in F /\ ~file'.begun /\ written' = written
      BY <1>1, <2>5 DEF Truncate
    <3>2. QED
      BY <1>1, <2>5, <3>1 DEF Truncate, TypeOK, history
  <2>6. QED
    BY <2>1, <2>2, <2>3, <2>4, <2>5 DEF Environment
<1>3. QED
  BY <1>2 DEF TypeOK, tail, parser, ship

\* The table after a process is recorded: its pid and what was there.
LEMMA RecordSets ==
  ASSUME TypeOK, NEW e \in Events
  PROVE  /\ Record(e) \in Seq(Nat) /\ Len(Record(e)) <= TableSize
         /\ Range(Record(e)) \subseteq Range(tracked) \cup {Pid[e]}
<1>1. TableSize \in Nat /\ TableSize >= 1 /\ Pid[e] \in Nat /\ Ppid[e] \in Nat
  BY AgentAssumption
<1>2. PICK p, q : p = Pid[e] /\ q = Ppid[e]
  OBVIOUS
<1>3. PICK b : b = Bump(tracked, q)
  OBVIOUS
<1>4. tracked \in Seq(Nat) /\ Len(tracked) \in Nat /\ Len(tracked) <= TableSize
  BY DEF TypeOK
<1>5. b \in Seq(Nat) /\ Len(b) = Len(tracked) /\ Range(b) \subseteq Range(tracked)
  <2>1. CASE q \notin Range(tracked)
    BY <1>3, <1>4, <2>1 DEF Bump
  <2>2. CASE q \in Range(tracked)
    <3>1. PICK w : w = Without(tracked, q)
      OBVIOUS
    <3>2. w \in Seq(Nat) /\ Len(w) + 1 = Len(tracked) /\ Range(w) \subseteq Range(tracked)
      BY <1>4, <2>2, <3>1, WithoutSets
    <3>3. b = Append(w, q)
      BY <1>3, <2>2, <3>1 DEF Bump
    <3>4. q \in Nat
      BY <1>1, <1>2
    <3>5. b \in Seq(Nat) /\ Len(b) = Len(tracked)
      BY <3>2, <3>3, <3>4
    <3>6. Range(b) = Range(w) \cup {q}
      BY <3>2, <3>3, RangeOfAppend
    <3>7. QED
      BY <2>2, <3>2, <3>5, <3>6
  <2>3. QED
    BY <2>1, <2>2
<1>6. PICK w : w = Without(b, p)
  OBVIOUS
<1>7. w \in Seq(Nat) /\ Len(w) <= Len(tracked) /\ Range(w) \subseteq Range(tracked)
  BY <1>5, <1>6, WithoutSets
<1>8. PICK t : t = Append(w, p)
  OBVIOUS
<1>9. t \in Seq(Nat) /\ Len(t) <= TableSize + 1 /\ t # <<>> /\ Len(t) = Len(w) + 1
  BY <1>1, <1>2, <1>4, <1>7, <1>8
<1>10. Range(t) \subseteq Range(tracked) \cup {p}
  BY <1>7, <1>8, RangeOfAppend
<1>11. Record(e) = IF Len(t) > TableSize THEN Tail(t) ELSE t
  BY <1>2, <1>3, <1>6, <1>8 DEF Record
<1>12. Tail(t) \in Seq(Nat) /\ Len(Tail(t)) = Len(t) - 1 /\ Range(Tail(t)) \subseteq Range(t)
  BY <1>9, RangeOfTail
<1>13. CASE Len(t) > TableSize
  BY <1>1, <1>2, <1>9, <1>10, <1>11, <1>12, <1>13
<1>14. CASE ~(Len(t) > TableSize)
  BY <1>1, <1>2, <1>9, <1>10, <1>11, <1>14
<1>15. QED
  BY <1>13, <1>14

\* The table after an event: nothing new in it but the pid of one that was created.
LEMMA TrackedSets ==
  ASSUME TypeOK, NEW e \in Events
  PROVE  /\ Tracked(e) \in Seq(Nat) /\ Len(Tracked(e)) <= TableSize
         /\ Range(Tracked(e)) \subseteq Range(tracked) \cup {Pid[e]}
         /\ Kind[e] \notin {"created", "broken"} => Range(Tracked(e)) \subseteq Range(tracked)
<1>1. tracked \in Seq(Nat) /\ Len(tracked) <= TableSize /\ TableSize \in Nat
  BY AgentAssumption DEF TypeOK
<1>2. CASE Kind[e] \in {"created", "broken"}
  BY <1>2, RecordSets DEF Tracked
<1>3. CASE Kind[e] = "exited"
  <2>1. Tracked(e) = Without(tracked, Pid[e])
    BY <1>3 DEF Tracked
  <2>2. QED
    BY <1>1, <1>3, <2>1, WithoutSets
<1>4. CASE Kind[e] \notin {"created", "broken", "exited"}
  BY <1>1, <1>4 DEF Tracked
<1>5. QED
  BY <1>2, <1>3, <1>4

\* One line: what the source has of it afterwards.
LEMMA FeedSets ==
  ASSUME TypeOK, Feed
  PROVE  /\ got # <<>> /\ Head(got) \in {Fragment} \cup Lines
         /\ got' = Tail(got) /\ got' \in Seq({Fragment} \cup Lines)
         /\ cp' = [cp EXCEPT !.offset = @ + Width(Head(got))]
         /\ cp' \in [inode : Nat, offset : Nat]
         /\ cp'.inode = cp.inode /\ cp'.offset = cp.offset + Width(Head(got))
         /\ fed' = fed \cup ({Head(got)} \ {Fragment})
         /\ Head(got) # Fragment => EventOf(Head(got)) \in Events
         /\ UNCHANGED <<log, pc, newOffset, batch, sending, attempt, failed, stop, store, cut,
                        hidden, turns, stops>>
<1>1. got \in Seq({Fragment} \cup Lines) /\ got # <<>> /\ cp \in [inode : Nat, offset : Nat]
  BY DEF TypeOK, Feed
<1>2. Head(got) \in {Fragment} \cup Lines /\ Tail(got) \in Seq({Fragment} \cup Lines)
  BY <1>1, HeadTailProperties
<1>3. Width(Head(got)) \in Nat
  BY DEF Width
<1>4. /\ got' = Tail(got) /\ cp' = [cp EXCEPT !.offset = @ + Width(Head(got))]
      /\ fed' = fed \cup ({Head(got)} \ {Fragment})
      /\ UNCHANGED <<log, pc, newOffset, batch, sending, attempt, failed, stop, store, cut,
                     hidden, turns, stops>>
  BY DEF Feed
<1>5. Head(got) # Fragment => EventOf(Head(got)) \in Events
  BY <1>2, EventsOfLines
<1>6. QED
  BY <1>1, <1>2, <1>3, <1>4, <1>5

\* What is in the queue after an event is enqueued, and what is lost by it.
LEMMA EnqueueSets ==
  ASSUME TypeOK, NEW e \in Events, Enqueue(e), UNCHANGED <<batch, store>>
  PROVE  /\ queue' \in Seq(Events) /\ Len(queue') <= QueueMax /\ out' = out \cup {e}
         /\ \/ dropped' = dropped /\ Lost' \subseteq Lost
            \/ dropped' = dropped + 1 /\ \E h : Lost' \subseteq Lost \cup {h}
<1>1. queue \in Seq(Events) /\ Len(queue) <= QueueMax /\ QueueMax \in Nat /\ QueueMax > 0
  <2>1. queue \in Seq(Events) /\ Len(queue) <= QueueMax
    BY DEF TypeOK
  <2>2. QED
    BY <2>1, AgentAssumption
<1>2. out' = out \cup {e}
  BY DEF Enqueue
<1>3. CASE Len(queue) < QueueMax
  <2>1. queue' = Append(queue, e) /\ dropped' = dropped
    BY <1>3 DEF Enqueue
  <2>2. queue' \in Seq(Events) /\ Len(queue') <= QueueMax
    BY <1>1, <1>3, <2>1
  <2>3. Range(queue') = Range(queue) \cup {e}
    BY <1>1, <2>1, RangeOfAppend
  <2>4. Lost' \subseteq Lost
    BY <1>2, <2>3 DEF Lost
  <2>5. QED
    BY <1>2, <2>1, <2>2, <2>4
<1>4. CASE ~(Len(queue) < QueueMax)
  <2>1. queue' = Append(Tail(queue), e) /\ dropped' = dropped + 1
    BY <1>4 DEF Enqueue
  <2>2. queue # <<>>
    BY <1>1, <1>4
  <2>3. /\ Range(queue) = {Head(queue)} \cup Range(Tail(queue))
        /\ Tail(queue) \in Seq(Events) /\ Len(Tail(queue)) = Len(queue) - 1
    BY <1>1, <2>2, RangeOfTail
  <2>4. queue' \in Seq(Events) /\ Len(queue') <= QueueMax
    BY <1>1, <2>1, <2>3
  <2>5. Range(queue') = Range(Tail(queue)) \cup {e}
    BY <2>1, <2>3, RangeOfAppend
  <2>6. Lost' \subseteq Lost \cup {Head(queue)}
    BY <1>2, <2>3, <2>5 DEF Lost
  <2>7. QED
    BY <1>2, <2>1, <2>4, <2>6
<1>5. QED
  BY <1>3, <1>4

\* A line gives at most its own event, and a created process that enters the
\* table is enqueued in the same step.
LEMMA FeedEvents ==
  ASSUME TypeOK, Feed
  PROVE  /\ queue' \in Seq(Events) /\ Len(queue') <= QueueMax /\ dropped' \in Nat
         /\ out' \subseteq Events /\ out \subseteq out' /\ buf' \subseteq Events
         /\ \/ disk' = disk /\ stale' = stale
            \/ disk' = cp' /\ stale' = cut
         /\ \/ dropped' = dropped /\ Lost' \subseteq Lost
            \/ dropped' = dropped + 1 /\ \E h : Lost' \subseteq Lost \cup {h}
         /\ \/ tracked' = tracked
            \/ \E e \in Events : /\ tracked' = Tracked(e)
                                 /\ Kind[e] = "created" => e \in out'
         /\ \A e \in out' \ out : Kind[e] = "exited" => Pid[e] \in Range(tracked)
<1>1. PICK l : l = Head(got)
  OBVIOUS
<1>2. PICK e : e = EventOf(l)
  OBVIOUS
<1>3. /\ buf' = Buffered(l)
      /\ tracked' = IF Parsed(l) THEN Tracked(e) ELSE tracked
      /\ IF Parsed(l) /\ Built(e) THEN Enqueue(e) ELSE UNCHANGED <<queue, dropped, out>>
      /\ Save \/ SaveFails
      /\ UNCHANGED <<batch, store>>
  BY <1>1, <1>2 DEF Feed
<1>4. l # Fragment => e \in Events
  BY <1>1, <1>2, FeedSets
<1>5. \/ disk' = disk /\ stale' = stale
      \/ disk' = cp' /\ stale' = cut
  BY <1>3 DEF Save, SaveFails
<1>6. buf' \subseteq Events
  BY <1>2, <1>3, <1>4 DEF Buffered, TypeOK
<1>7. CASE Parsed(l) /\ Built(e)
  <2>1. e \in Events /\ Enqueue(e)
    BY <1>3, <1>4, <1>7 DEF Parsed
  <2>2. /\ queue' \in Seq(Events) /\ Len(queue') <= QueueMax /\ out' = out \cup {e}
        /\ \/ dropped' = dropped /\ Lost' \subseteq Lost
           \/ dropped' = dropped + 1 /\ \E h : Lost' \subseteq Lost \cup {h}
    BY <1>3, <2>1, EnqueueSets
  <2>3. dropped' \in Nat
    BY <2>2 DEF TypeOK
  <2>4. out' \subseteq Events /\ out \subseteq out'
    BY <2>1, <2>2 DEF TypeOK
  <2>5. tracked' = Tracked(e) /\ (Kind[e] = "created" => e \in out')
    BY <1>3, <1>7, <2>2
  <2>6. \A x \in out' \ out : Kind[x] = "exited" => Pid[x] \in Range(tracked)
    BY <1>7, <2>2 DEF Built
  <2>7. QED
    BY <1>5, <1>6, <2>1, <2>2, <2>3, <2>4, <2>5, <2>6
<1>8. CASE ~(Parsed(l) /\ Built(e))
  <2>1. UNCHANGED <<queue, dropped, out, batch, store>>
    BY <1>3, <1>8
  <2>2. Lost' \subseteq Lost
    BY <2>1 DEF Lost
  <2>3. tracked' = tracked \/ (e \in Events /\ tracked' = Tracked(e) /\ Kind[e] # "created")
    BY <1>3, <1>4, <1>8 DEF Parsed, Built
  <2>4. queue' \in Seq(Events) /\ Len(queue') <= QueueMax /\ dropped' \in Nat
    BY <2>1 DEF TypeOK
  <2>5. out' \subseteq Events
    BY <2>1 DEF TypeOK
  <2>6. \/ tracked' = tracked
        \/ \E x \in Events : /\ tracked' = Tracked(x)
                             /\ Kind[x] = "created" => x \in out'
    BY <2>3
  <2>7. QED
    BY <1>5, <1>6, <2>1, <2>2, <2>4, <2>5, <2>6
<1>9. QED
  BY <1>7, <1>8

\* The shipper takes an event from the queue to the batch and from there to
\* the store or to its count of failures.
LEMMA ShipperSets ==
  ASSUME TypeOK, Shipper
  PROVE  /\ queue' \in Seq(Events) /\ Len(queue') <= QueueMax
         /\ batch' \in Seq(Events) /\ Len(batch') <= BatchSize
         /\ sending' \in BOOLEAN /\ (sending' => batch' # <<>>)
         /\ attempt' \in 0..MaxAttempts /\ failed' \in Nat
         /\ store \subseteq store' /\ store' \subseteq Events
         /\ \/ failed' = failed /\ Lost' \subseteq Lost
            \/ failed' = failed + 1 /\ \E h : Lost' \subseteq Lost \cup {h}
         /\ UNCHANGED <<log, disk, tail, parser, dropped, stop, history>>
<1>1. /\ queue \in Seq(Events) /\ Len(queue) <= QueueMax
      /\ batch \in Seq(Events) /\ Len(batch) <= BatchSize
      /\ QueueMax \in Nat /\ BatchSize \in Nat /\ MaxAttempts \in Nat /\ MaxAttempts > 0
      /\ Len(queue) \in Nat /\ Len(batch) \in Nat
  <2>1. /\ queue \in Seq(Events) /\ Len(queue) <= QueueMax
        /\ batch \in Seq(Events) /\ Len(batch) <= BatchSize
    BY DEF TypeOK
  <2>2. QueueMax \in Nat /\ BatchSize \in Nat /\ MaxAttempts \in Nat /\ MaxAttempts > 0
    BY AgentAssumption
  <2>3. Len(queue) \in Nat /\ Len(batch) \in Nat
    BY <2>1
  <2>4. QED
    BY <2>1, <2>2, <2>3
<1>2. failed \in Nat /\ attempt \in 0..MaxAttempts /\ store \subseteq Events
  BY DEF TypeOK
<1>3. sending \in BOOLEAN /\ (sending => batch # <<>>)
  BY DEF TypeOK
<1>4. CASE Take
  <2>1. /\ queue # <<>> /\ Len(batch) < BatchSize /\ ~sending
        /\ batch' = Append(batch, Head(queue)) /\ queue' = Tail(queue)
        /\ UNCHANGED <<sending, attempt, failed, store>>
        /\ UNCHANGED <<log, disk, tail, parser, dropped, stop, history>>
    BY <1>4 DEF Take
  <2>2. /\ Range(queue) = {Head(queue)} \cup Range(Tail(queue))
        /\ Tail(queue) \in Seq(Events) /\ Len(Tail(queue)) = Len(queue) - 1
        /\ Head(queue) \in Events
    BY <1>1, <2>1, RangeOfTail
  <2>3. Range(batch') = Range(batch) \cup {Head(queue)}
    BY <1>1, <2>1, RangeOfAppend
  <2>4. batch' \in Seq(Events) /\ Len(batch') <= BatchSize
    BY <1>1, <2>1, <2>2
  <2>5. queue' \in Seq(Events) /\ Len(queue') <= QueueMax
    BY <1>1, <2>1, <2>2
  <2>6. Lost' \subseteq Lost
    BY <2>1, <2>2, <2>3 DEF Lost, history
  <2>7. sending' \in BOOLEAN /\ (sending' => batch' # <<>>)
    BY <1>3, <2>1
  <2>8. QED
    BY <1>2, <2>1, <2>4, <2>5, <2>6, <2>7
<1>5. CASE Flush
  <2>1. /\ batch # <<>> /\ sending' = TRUE
        /\ UNCHANGED <<queue, batch, attempt, failed, store>>
        /\ UNCHANGED <<log, disk, tail, parser, dropped, stop, history>>
    BY <1>5 DEF Flush
  <2>2. Lost' \subseteq Lost
    BY <2>1 DEF Lost, history
  <2>3. QED
    BY <1>1, <1>2, <2>1, <2>2
<1>6. CASE Unanswered
  <2>1. /\ sending /\ attempt < MaxAttempts
        /\ store' \in {store, store \cup {Head(batch)}} /\ attempt' = attempt + 1
        /\ UNCHANGED <<queue, batch, sending, failed>>
        /\ UNCHANGED <<log, disk, tail, parser, dropped, stop, history>>
    BY <1>6 DEF Unanswered, Posting
  <2>2. Head(batch) \in Events
    BY <1>1, <1>3, <2>1, RangeOfTail
  <2>3. store \subseteq store' /\ store' \subseteq Events
    BY <1>2, <2>1, <2>2
  <2>4. Lost' \subseteq Lost
    BY <2>1, <2>3 DEF Lost, history
  <2>5. attempt' \in 0..MaxAttempts
    BY <1>1, <1>2, <2>1
  <2>6. QED
    BY <1>1, <1>2, <1>3, <2>1, <2>3, <2>4, <2>5
<1>7. CASE Accepted \/ Refused \/ GiveUp
  <2>1. /\ sending /\ Done
        /\ \/ store' = store \cup {Head(batch)} /\ failed' = failed
           \/ store' = store /\ failed' = failed + 1
        /\ UNCHANGED <<log, disk, tail, parser, dropped, stop, history>>
    BY <1>7 DEF Accepted, Refused, GiveUp, Posting, Done
  <2>2. /\ Range(batch) = {Head(batch)} \cup Range(Tail(batch))
        /\ Tail(batch) \in Seq(Events) /\ Len(Tail(batch)) = Len(batch) - 1
        /\ Head(batch) \in Events
    BY <1>1, <1>3, <2>1, RangeOfTail
  <2>3. /\ batch' = Tail(batch) /\ sending' = (Tail(batch) # <<>>) /\ attempt' = 0
        /\ queue' = queue
    BY <2>1 DEF Done
  <2>4. batch' \in Seq(Events) /\ Len(batch') <= BatchSize
    BY <1>1, <2>2, <2>3
  <2>5. store \subseteq store' /\ store' \subseteq Events
    BY <1>2, <2>1, <2>2
  <2>6. \/ failed' = failed /\ Lost' \subseteq Lost
        \/ failed' = failed + 1 /\ Lost' \subseteq Lost \cup {Head(batch)}
    <3>1. out' = out
      BY <2>1 DEF history
    <3>2. Range(batch') = Range(Tail(batch)) /\ Range(queue') = Range(queue)
      BY <2>3
    <3>3. CASE store' = store \cup {Head(batch)} /\ failed' = failed
      BY <2>2, <3>1, <3>2, <3>3 DEF Lost
    <3>4. CASE store' = store /\ failed' = failed + 1
      BY <2>2, <3>1, <3>2, <3>4 DEF Lost
    <3>5. QED
      BY <2>1, <3>3, <3>4
  <2>7. sending' \in BOOLEAN /\ (sending' => batch' # <<>>)
    <3>1. CASE Tail(batch) = <<>>
      <4>1. sending' = FALSE
        BY <2>3, <3>1, Zenon
      <4>2. QED
        BY <4>1
    <3>2. CASE Tail(batch) # <<>>
      <4>1. sending' = TRUE
        BY <2>3, <3>2, Zenon
      <4>2. QED
        BY <2>3, <3>2, <4>1
    <3>3. QED
      BY <3>1, <3>2
  <2>8. attempt' \in 0..MaxAttempts /\ failed' \in Nat
    BY <1>1, <1>2, <2>1, <2>3
  <2>9. QED
    BY <1>1, <2>1, <2>3, <2>4, <2>5, <2>6, <2>7, <2>8
<1>8. QED
  BY <1>4, <1>5, <1>6, <1>7 DEF Shipper

\* The process is gone or starts: nothing it held in memory is left.
LEMMA ProcessSets ==
  ASSUME TypeOK, Process
  PROVE  /\ UNCHANGED <<log, disk, store, fed, stale, hidden>>
         /\ \/ /\ UNCHANGED <<got, newOffset, parser, queue, batch, sending, attempt, failed>>
               /\ UNCHANGED <<dropped, out>>
               /\ \/ pc' = "ended" /\ stop' = TRUE /\ UNCHANGED <<cp, cut>>
                  \/ /\ cp' \in {disk, Cold} /\ cut' = stale /\ stop' = stop
                     /\ pc' \in {"off", "poll"}
            \/ Forget /\ cut' = cut
<1>1. CASE Start
  BY <1>1 DEF Start, Loaded, ship
<1>2. CASE StartCold
  BY <1>2 DEF StartCold, Loaded, ship
<1>3. CASE Stop
  BY <1>3 DEF Stop, ship, history
<1>4. CASE Exit
  BY <1>4 DEF Exit
<1>5. CASE Kill
  BY <1>5 DEF Kill
<1>6. QED
  BY <1>1, <1>2, <1>3, <1>4, <1>5 DEF Process

\* The source: offsets, lines, the buffer of the parser and the queue.
LEMMA TypesOfSource ==
  ASSUME TypeOK, Source
  PROVE  TypeOK'
<1>1. /\ file \in [exists : BOOLEAN, inode : Nat, lines : Seq(Lines), begun : BOOLEAN]
      /\ file.inode \in Nat /\ cp \in [inode : Nat, offset : Nat] /\ cp.inode \in Nat
      /\ cp.offset \in Nat /\ newOffset \in Nat /\ Size \in Nat
      /\ \A i \in DOMAIN file.lines : file.lines[i] \in Lines
      /\ Len(file.lines) \in Nat
  <2>1. /\ file \in [exists : BOOLEAN, inode : Nat, lines : Seq(Lines), begun : BOOLEAN]
        /\ cp \in [inode : Nat, offset : Nat] /\ newOffset \in Nat
    BY DEF TypeOK
  <2>2. QED
    BY <2>1, FileSets
<1>2. CASE Poll
  <2>1. PICK off : off = IF cp.inode \in {0, file.inode} /\ Size >= cp.offset
                         THEN cp.offset ELSE 0
    OBVIOUS
  <2>2. off \in Nat
    BY <1>1, <2>1
  <2>3. /\ cp' = [inode |-> file.inode, offset |-> off] /\ pc' \in {"poll", "read"}
        /\ cut' = FALSE
        /\ UNCHANGED <<log, disk, got, newOffset, parser, ship, stop, store, fed, out, stale>>
    BY <1>2, <2>1 DEF Poll
  <2>4. hidden' \subseteq hidden \cup
                   {file.lines[i] : i \in {j \in DOMAIN file.lines : LineStart(j) < off}}
    BY <1>2, <2>1 DEF Poll
  <2>5. hidden' \subseteq Lines
    BY <1>1, <2>4 DEF TypeOK
  <2>6. cp' \in [inode : Nat, offset : Nat]
    BY <1>1, <2>2, <2>3
  <2>7. QED
    BY <2>3, <2>5, <2>6 DEF TypeOK, log, parser, ship
<1>3. CASE Read
  <2>1. got' = LinesFrom(cp.offset) /\ pc' = "feed"
    BY <1>3 DEF Read
  <2>2. got' \in Seq({Fragment} \cup Lines)
    BY <1>1, <2>1, LinesFromType
  <2>3. newOffset' \in {cp.offset, 2 * Len(file.lines)}
    BY <1>3 DEF Read
  <2>4. newOffset' \in Nat
    BY <1>1, <2>3
  <2>5. QED
    BY <1>3, <2>1, <2>2, <2>4 DEF Read, TypeOK, log, parser, ship, history
<1>4. CASE ReadRaises
  BY <1>4 DEF ReadRaises, TypeOK, log, parser, ship, history
<1>5. CASE Feed
  <2>1. tracked' \in Seq(Nat) /\ Len(tracked') <= TableSize
    BY <1>5, FeedEvents, TrackedSets DEF TypeOK
  <2>2. got' \in Seq({Fragment} \cup Lines) /\ cp' \in [inode : Nat, offset : Nat]
    BY <1>5, FeedSets
  <2>3. fed' \subseteq Lines
    BY <1>5, FeedSets DEF TypeOK
  <2>4. disk' \in [inode : Nat, offset : Nat] /\ stale' \in BOOLEAN
    BY <1>5, <2>2, FeedEvents DEF TypeOK
  <2>5. UNCHANGED <<log, pc, newOffset, batch, sending, attempt, failed, stop, store, cut,
                    hidden>>
    BY <1>5, FeedSets
  <2>6. /\ queue' \in Seq(Events) /\ Len(queue') <= QueueMax /\ dropped' \in Nat
        /\ out' \subseteq Events /\ buf' \subseteq Events
    BY <1>5, FeedEvents
  <2>7. QED
    BY <2>1, <2>2, <2>3, <2>4, <2>5, <2>6 DEF TypeOK, log
<1>6. CASE EndRead
  <2>1. cp' \in [inode : Nat, offset : Nat]
    BY <1>1, <1>6 DEF EndRead
  <2>2. QED
    BY <1>6, <2>1 DEF EndRead, TypeOK, log, parser, ship, history
<1>7. QED
  BY <1>2, <1>3, <1>4, <1>5, <1>6 DEF Source

\* The shipper: the queue and the batch.
LEMMA TypesOfShipper ==
  ASSUME TypeOK, Shipper
  PROVE  TypeOK'
<1>1. UNCHANGED <<log, disk, tail, parser, dropped, stop, history>>
  BY ShipperSets
<1>2. /\ queue' \in Seq(Events) /\ Len(queue') <= QueueMax
      /\ batch' \in Seq(Events) /\ Len(batch') <= BatchSize
      /\ sending' \in BOOLEAN /\ (sending' => batch' # <<>>)
      /\ attempt' \in 0..MaxAttempts /\ failed' \in Nat /\ store' \subseteq Events
  BY ShipperSets
<1>3. QED
  BY <1>1, <1>2 DEF TypeOK, log, tail, parser, history

\* Start, stop and kill.
LEMMA TypesOfProcess ==
  ASSUME TypeOK, Process
  PROVE  TypeOK'
<1>1. UNCHANGED <<log, disk, store, fed, stale, hidden>>
  BY ProcessSets
<1>2. Cold \in [inode : Nat, offset : Nat]
  BY DEF Cold
<1>3. CASE Forget /\ cut' = cut
  <2>1. 0 <= QueueMax /\ 0 <= BatchSize /\ 0 <= TableSize /\ 0 \in 0..MaxAttempts
    BY AgentAssumption
  <2>2. cp' \in [inode : Nat, offset : Nat] /\ pc' = "down"
    BY <1>2, <1>3 DEF Forget
  <2>3. tracked' \in Seq(Nat) /\ Len(tracked') <= TableSize
    BY <1>3, <2>1 DEF Forget
  <2>4. queue' \in Seq(Events) /\ Len(queue') <= QueueMax
    BY <1>3, <2>1 DEF Forget
  <2>5. batch' \in Seq(Events) /\ Len(batch') <= BatchSize
    BY <1>3, <2>1 DEF Forget
  <2>6. got' \in Seq({Fragment} \cup Lines)
    BY <1>3 DEF Forget
  <2>7. /\ newOffset' = 0 /\ buf' = {} /\ sending' = FALSE /\ attempt' = 0 /\ failed' = 0
        /\ dropped' = 0 /\ stop' = FALSE /\ out' = {} /\ cut' = cut
    BY <1>3 DEF Forget
  <2>8. QED
    BY <1>1, <2>1, <2>2, <2>3, <2>4, <2>5, <2>6, <2>7 DEF TypeOK, log
<1>4. CASE /\ UNCHANGED <<got, newOffset, parser, queue, batch, sending, attempt, failed>>
           /\ UNCHANGED <<dropped, out>>
           /\ \/ pc' = "ended" /\ stop' = TRUE /\ UNCHANGED <<cp, cut>>
              \/ /\ cp' \in {disk, Cold} /\ cut' = stale /\ stop' = stop
                 /\ pc' \in {"off", "poll"}
  <2>1. cp' \in [inode : Nat, offset : Nat] /\ cut' \in BOOLEAN
    BY <1>2, <1>4 DEF TypeOK
  <2>2. pc' \in {"off", "poll", "ended"} /\ stop' \in BOOLEAN
    BY <1>4 DEF TypeOK
  <2>3. QED
    BY <1>1, <1>4, <2>1, <2>2 DEF TypeOK, log, parser
<1>5. QED
  BY <1>3, <1>4, ProcessSets

-----------------------------------------------------------------------------
(* What is counted and what is known of a pid. *)

\* A set within another, or within it and one element more, is no larger than that.
LEMMA CardinalityGrows ==
  ASSUME NEW A, NEW B, NEW n \in Nat, IsFiniteSet(B), Cardinality(B) <= n
  PROVE  /\ A \subseteq B => IsFiniteSet(A) /\ Cardinality(A) <= n
         /\ \A h : A \subseteq B \cup {h} => IsFiniteSet(A) /\ Cardinality(A) <= n + 1
<1>1. Cardinality(B) \in Nat
  BY FS_CardinalityType
<1>2. ASSUME A \subseteq B PROVE IsFiniteSet(A) /\ Cardinality(A) <= n
  <2>1. IsFiniteSet(A) /\ Cardinality(A) <= Cardinality(B) /\ Cardinality(A) \in Nat
    BY <1>2, FS_Subset, FS_CardinalityType
  <2>2. QED
    BY <1>1, <2>1
<1>3. ASSUME NEW h, A \subseteq B \cup {h} PROVE IsFiniteSet(A) /\ Cardinality(A) <= n + 1
  <2>1. /\ IsFiniteSet(B \cup {h})
        /\ Cardinality(B \cup {h}) = IF h \in B THEN Cardinality(B) ELSE Cardinality(B) + 1
    BY FS_AddElement
  <2>2. Cardinality(B \cup {h}) <= n + 1
    BY <1>1, <2>1
  <2>3. /\ IsFiniteSet(A) /\ Cardinality(A) <= Cardinality(B \cup {h})
        /\ Cardinality(A) \in Nat /\ Cardinality(B \cup {h}) \in Nat
    BY <1>3, <2>1, FS_Subset, FS_CardinalityType
  <2>4. QED
    BY <2>2, <2>3
<1>4. QED
  BY <1>2, <1>3

\* A step that loses an event counts it.
LEMMA LossesStep ==
  ASSUME TypeOK, LossesBounded, Next
  PROVE  LossesBounded'
<1>1. /\ IsFiniteSet(Lost) /\ Cardinality(Lost) <= failed + dropped
      /\ failed \in Nat /\ dropped \in Nat
  BY DEF LossesBounded, TypeOK
<1>2. ASSUME Lost' \subseteq Lost, failed' = failed, dropped' = dropped
      PROVE  LossesBounded'
  <2>1. PICK a, b, n : a = Lost' /\ b = Lost /\ n = failed + dropped
    OBVIOUS
  <2>2. n \in Nat /\ IsFiniteSet(b) /\ Cardinality(b) <= n /\ a \subseteq b
    BY <1>1, <1>2, <2>1
  <2>3. IsFiniteSet(a) /\ Cardinality(a) <= n
    BY <2>2, CardinalityGrows
  <2>4. failed' + dropped' = n
    BY <1>2, <2>1
  <2>5. QED
    BY <2>1, <2>3, <2>4 DEF LossesBounded
<1>3. ASSUME NEW h, Lost' \subseteq Lost \cup {h},
             \/ failed' = failed + 1 /\ dropped' = dropped
             \/ failed' = failed /\ dropped' = dropped + 1
      PROVE  LossesBounded'
  <2>1. PICK a, b, n : a = Lost' /\ b = Lost /\ n = failed + dropped
    OBVIOUS
  <2>2. n \in Nat /\ IsFiniteSet(b) /\ Cardinality(b) <= n /\ a \subseteq b \cup {h}
    BY <1>1, <1>3, <2>1
  <2>3. IsFiniteSet(a) /\ Cardinality(a) <= n + 1
    BY <2>2, CardinalityGrows
  <2>4. failed' + dropped' = n + 1
    BY <1>1, <1>3, <2>1
  <2>5. QED
    BY <2>1, <2>3, <2>4 DEF LossesBounded
<1>4. CASE Environment \/ Poll \/ Read \/ ReadRaises \/ EndRead
  <2>1. UNCHANGED <<queue, batch, store, out, failed, dropped>>
    BY <1>4 DEF Environment, Begin, Complete, Rotate, Create, Truncate, Poll, Read,
                ReadRaises, EndRead, ship, history
  <2>2. Lost' \subseteq Lost
    BY <2>1 DEF Lost
  <2>3. QED
    BY <1>2, <2>1, <2>2
<1>5. CASE Feed
  <2>1. /\ \/ dropped' = dropped /\ Lost' \subseteq Lost
           \/ dropped' = dropped + 1 /\ \E h : Lost' \subseteq Lost \cup {h}
        /\ failed' = failed
    BY <1>5, FeedEvents, FeedSets
  <2>2. QED
    BY <1>2, <1>3, <2>1
<1>6. CASE Shipper
  <2>1. /\ \/ failed' = failed /\ Lost' \subseteq Lost
           \/ failed' = failed + 1 /\ \E h : Lost' \subseteq Lost \cup {h}
        /\ dropped' = dropped
    BY <1>6, ShipperSets
  <2>2. QED
    BY <1>2, <1>3, <2>1
<1>7. CASE Process
  <2>1. CASE Forget
    <3>1. out' = {} /\ failed' = 0 /\ dropped' = 0
      BY <2>1 DEF Forget
    <3>2. Lost' = {}
      BY <3>1 DEF Lost
    <3>3. QED
      BY <3>1, <3>2, FS_EmptySet DEF LossesBounded
  <2>2. CASE ~Forget
    <3>1. UNCHANGED <<queue, batch, store, out, failed, dropped>>
      BY <1>7, <2>2, ProcessSets
    <3>2. Lost' \subseteq Lost
      BY <3>1 DEF Lost
    <3>3. QED
      BY <1>2, <3>1, <3>2
  <2>3. QED
    BY <2>1, <2>2
<1>8. QED
  BY <1>4, <1>5, <1>6, <1>7 DEF Next, Source

\* A pid enters the table with the creation that is enqueued in the same step.
LEMMA ProvenanceStep ==
  ASSUME TypeOK, TypeOK', Provenance, ExitsHaveProvenance, Next
  PROVE  Provenance' /\ ExitsHaveProvenance'
<1>1. ASSUME UNCHANGED <<tracked, out>>
      PROVE  Provenance' /\ ExitsHaveProvenance'
  BY <1>1 DEF Provenance, ExitsHaveProvenance
<1>2. CASE Environment \/ Poll \/ Read \/ ReadRaises \/ EndRead
  <2>1. UNCHANGED <<tracked, out>>
    BY <1>2 DEF Environment, Begin, Complete, Rotate, Create, Truncate, Poll, Read,
                ReadRaises, EndRead, parser, history
  <2>2. QED
    BY <1>1, <2>1
<1>3. CASE Feed
  <2>1. /\ out \subseteq out'
        /\ \/ tracked' = tracked
           \/ \E e \in Events : /\ tracked' = Tracked(e)
                                /\ Kind[e] = "created" => e \in out'
        /\ \A e \in out' \ out : Kind[e] = "exited" => Pid[e] \in Range(tracked)
    BY <1>3, FeedEvents
  <2>2. ASSUME NEW p \in Range(tracked)
        PROVE  \E c \in Events : /\ Pid[c] = p /\ Kind[c] \in {"created", "broken"}
                                 /\ Kind[c] = "created" => c \in out'
    <3>1. PICK c \in Events : /\ Pid[c] = p /\ Kind[c] \in {"created", "broken"}
                              /\ Kind[c] = "created" => c \in out
      BY <2>2 DEF Provenance
    <3>2. QED
      BY <2>1, <3>1
  <2>3. Provenance'
    <3>1. CASE tracked' = tracked
      BY <2>2, <3>1 DEF Provenance
    <3>2. CASE tracked' # tracked
      <4>1. PICK e \in Events : tracked' = Tracked(e) /\ (Kind[e] = "created" => e \in out')
        BY <2>1, <3>2
      <4>2. PICK t : t = Tracked(e)
        OBVIOUS
      <4>3. /\ Range(t) \subseteq Range(tracked) \cup {Pid[e]}
            /\ Kind[e] \notin {"created", "broken"} => Range(t) \subseteq Range(tracked)
        BY <4>2, TrackedSets
      <4>4. \A p \in Range(t) :
              \E c \in Events : /\ Pid[c] = p /\ Kind[c] \in {"created", "broken"}
                                /\ Kind[c] = "created" => c \in out'
        BY <2>2, <4>1, <4>3
      <4>5. tracked' = t
        BY <4>1, <4>2
      <4>6. QED
        BY <4>4, <4>5 DEF Provenance
    <3>3. QED
      BY <3>1, <3>2
  <2>4. ExitsHaveProvenance'
    <3> SUFFICES ASSUME NEW e \in out', Kind[e] = "exited"
                 PROVE  \E c \in Events : /\ Pid[c] = Pid[e]
                                          /\ Kind[c] \in {"created", "broken"}
                                          /\ Kind[c] = "created" => c \in out'
      BY DEF ExitsHaveProvenance
    <3>1. CASE e \in out
      <4>1. PICK c \in Events : /\ Pid[c] = Pid[e] /\ Kind[c] \in {"created", "broken"}
                                /\ Kind[c] = "created" => c \in out
        BY <3>1 DEF ExitsHaveProvenance
      <4>2. QED
        BY <2>1, <4>1
    <3>2. CASE e \notin out
      BY <2>1, <2>2, <3>2
    <3>3. QED
      BY <3>1, <3>2
  <2>5. QED
    BY <2>3, <2>4
<1>4. CASE Shipper
  BY <1>1, <1>4, ShipperSets DEF parser, history
<1>5. CASE Process
  <2>1. CASE Forget
    <3>1. tracked' = <<>> /\ out' = {}
      BY <2>1 DEF Forget
    <3>2. Range(<<>>) = {}
      BY DEF Range
    <3>3. QED
      BY <3>1, <3>2 DEF Provenance, ExitsHaveProvenance
  <2>2. CASE ~Forget
    <3>1. UNCHANGED <<tracked, out>>
      BY <1>5, <2>2, ProcessSets DEF parser
    <3>2. QED
      BY <1>1, <3>1
  <2>3. QED
    BY <2>1, <2>2
<1>6. QED
  BY <1>2, <1>3, <1>4, <1>5 DEF Next, Source

\* The agent starts down, with nothing read.
LEMMA TypeInit == Init => TypeOK
<1> SUFFICES ASSUME Init PROVE TypeOK
  OBVIOUS
<1> USE AgentAssumption
<1>1. /\ file \in [exists : BOOLEAN, inode : Nat, lines : Seq(Lines), begun : BOOLEAN]
      /\ ~file.begun
  <2>1. <<>> \in Seq(Lines)
    OBVIOUS
  <2>2. QED
    BY <2>1 DEF Init
<1>2. disk \in [inode : Nat, offset : Nat] /\ cp \in [inode : Nat, offset : Nat]
  BY DEF Init, Cold
<1>3. /\ got \in Seq({Fragment} \cup Lines)
      /\ tracked \in Seq(Nat) /\ Len(tracked) <= TableSize
      /\ queue \in Seq(Events) /\ Len(queue) <= QueueMax
      /\ batch \in Seq(Events) /\ Len(batch) <= BatchSize
      /\ attempt \in 0..MaxAttempts
  BY DEF Init
<1>4. QED
  BY <1>1, <1>2, <1>3 DEF Init, TypeOK

\* Every step keeps the types.
LEMMA TypeStep ==
  ASSUME TypeOK, [Next]_vars
  PROVE  TypeOK'
<1>1. CASE UNCHANGED vars
  BY <1>1 DEF vars, log, tail, parser, ship, history, bounds, TypeOK
<1>2. QED
  BY <1>1, LogTypes, TypesOfSource, TypesOfShipper, TypesOfProcess DEF Next

\* The inductive invariant of the counts and of the process table.
THEOREM CountCorrect == Spec => []CountInv
<1>1. Init => CountInv
  <2> SUFFICES ASSUME Init PROVE CountInv
    OBVIOUS
  <2>1. out = {} /\ tracked = <<>> /\ failed = 0 /\ dropped = 0
    BY DEF Init
  <2>2. Lost = {} /\ Range(<<>>) = {}
    BY <2>1 DEF Lost, Range
  <2>3. LossesBounded
    BY <2>1, <2>2, FS_EmptySet DEF LossesBounded
  <2>4. Provenance /\ ExitsHaveProvenance
    BY <2>1, <2>2 DEF Provenance, ExitsHaveProvenance
  <2>5. QED
    BY <2>3, <2>4, TypeInit DEF CountInv
<1>2. CountInv /\ [Next]_vars => CountInv'
  <2> SUFFICES ASSUME CountInv, [Next]_vars PROVE CountInv'
    OBVIOUS
  <2>1. TypeOK'
    BY TypeStep DEF CountInv
  <2>2. CASE Next
    BY <2>1, <2>2, LossesStep, ProvenanceStep DEF CountInv
  <2>3. CASE UNCHANGED vars
    <3>1. UNCHANGED <<queue, batch, store, out, failed, dropped, tracked>>
      BY <2>3 DEF vars, parser, ship, history
    <3>2. QED
      BY <2>1, <3>1 DEF CountInv, LossesBounded, Lost, Provenance, ExitsHaveProvenance
  <2>4. QED
    BY <2>2, <2>3
<1>3. QED
  BY <1>1, <1>2, PTL DEF Spec

\* The queue, the batch and the process table keep within their limits.
THEOREM TypeCorrect == Spec => []TypeOK
<1>1. CountInv => TypeOK
  BY DEF CountInv
<1>2. QED
  BY <1>1, CountCorrect, PTL

\* Whatever the queue sheds and posts fail, the counters own up to every event
\* of this life that is neither stored nor on its way.
THEOREM LossesCorrect == Spec => []LossesAreCounted
<1>1. CountInv => LossesAreCounted
  BY DEF CountInv, LossesBounded, Lost, LossesAreCounted
<1>2. QED
  BY <1>1, CountCorrect, PTL

\* No exit is shipped but of a process whose creation was recorded.
THEOREM ProvenanceCorrect == Spec => []ExitsHaveProvenance
<1>1. CountInv => ExitsHaveProvenance
  BY DEF CountInv
<1>2. QED
  BY <1>1, CountCorrect, PTL

-----------------------------------------------------------------------------
(* What the offsets are past, of a log without bytes that are not UTF-8.    *)

\* Offsets between two lines, in half lines.
LEMMA EvenSums ==
  /\ Even(0)
  /\ \A n \in Nat : Even(n) => Even(n + 2)
  /\ \A n \in Nat : Even(2 * n)
  /\ \A n, k \in Nat : Even(n) /\ n <= 2 * k + 1 => n <= 2 * k
  /\ \A n, k \in Nat : Even(n) /\ n < 2 * k + 2 => n <= 2 * k
<1>1. Even(0)
  <2>1. 0 \in Nat /\ 0 = 2 * 0
    OBVIOUS
  <2>2. QED
    BY <2>1 DEF Even
<1>2. ASSUME NEW n \in Nat, Even(n) PROVE Even(n + 2)
  <2>1. PICK k \in Nat : n = 2 * k
    BY <1>2 DEF Even
  <2>2. k + 1 \in Nat /\ n + 2 = 2 * (k + 1)
    BY <2>1
  <2>3. QED
    BY <2>2 DEF Even
<1>3. ASSUME NEW n, NEW k \in Nat, Even(n), n <= 2 * k + 1 PROVE n <= 2 * k
  <2>1. PICK h \in Nat : n = 2 * h
    BY <1>3 DEF Even
  <2>2. QED
    BY <1>3, <2>1
<1>4. ASSUME NEW n, NEW k \in Nat, Even(n), n < 2 * k + 2 PROVE n <= 2 * k
  <2>1. PICK h \in Nat : n = 2 * h
    BY <1>4 DEF Even
  <2>2. QED
    BY <1>4, <2>1
<1>5. QED
  BY <1>1, <1>2, <1>3, <1>4 DEF Even

\* A log that only grows, by x, keeps what is true of a checkpoint and a read.
LEMMA LogGrows ==
  ASSUME NEW f, NEW f2, NEW S, f.lines \in Seq(S), NEW x \in S, NEW known,
         f2.exists = f.exists, f2.inode = f.inode, f2.lines = Append(f.lines, x)
  PROVE  /\ \A c \in [inode : Nat, offset : Nat] : SoundIn(f, known, c) => SoundIn(f2, known, c)
         /\ \A c \in [inode : Nat, offset : Nat] : \A T, g, n :
              g \in Seq(T) /\ ReadIn(f, c, g, n) => ReadIn(f2, c, g, n)
<1>1. PICK s, m : s = f.lines /\ m = Len(s)
  OBVIOUS
<1>2. /\ s \in Seq(S) /\ m \in Nat /\ DOMAIN s = 1..m
      /\ Len(f2.lines) = m + 1 /\ DOMAIN f2.lines = 1..(m + 1)
      /\ \A i \in 1..m : f2.lines[i] = s[i]
  BY <1>1
<1>3. ASSUME NEW c \in [inode : Nat, offset : Nat], SoundIn(f, known, c)
      PROVE  SoundIn(f2, known, c)
  <2> SUFFICES ASSUME f.exists, c.inode = f.inode
               PROVE  /\ c.offset <= 2 * (m + 1)
                      /\ \A i \in 1..(m + 1) : LineStart(i) < c.offset => f2.lines[i] \in known
    BY <1>2 DEF SoundIn
  <2>1. c.offset \in Nat /\ c.offset <= 2 * m
    BY <1>1, <1>2, <1>3 DEF SoundIn
  <2>2. \A i \in 1..m : LineStart(i) < c.offset => s[i] \in known
    BY <1>1, <1>2, <1>3 DEF SoundIn
  <2>3. ~(LineStart(m + 1) < c.offset)
    BY <1>2, <2>1 DEF LineStart
  <2>4. \A i \in 1..(m + 1) : i \in 1..m \/ i = m + 1
    BY <1>2
  <2>5. c.offset <= 2 * (m + 1)
    BY <1>2, <2>1
  <2>6. QED
    BY <1>2, <2>2, <2>3, <2>4, <2>5
<1>4. ASSUME NEW c \in [inode : Nat, offset : Nat], NEW T, NEW g, NEW n, g \in Seq(T),
             ReadIn(f, c, g, n)
      PROVE  ReadIn(f2, c, g, n)
  <2> SUFFICES ASSUME f.exists, c.inode = f.inode
               PROVE  /\ n = c.offset + 2 * Len(g) /\ n <= 2 * (m + 1)
                      /\ \A j \in DOMAIN g, i \in 1..(m + 1) :
                           LineStart(i) = c.offset + 2 * (j - 1) => g[j] = f2.lines[i]
    BY <1>2 DEF ReadIn
  <2>1. n = c.offset + 2 * Len(g) /\ n <= 2 * m /\ c.offset \in Nat /\ Len(g) \in Nat
    BY <1>1, <1>2, <1>4 DEF ReadIn
  <2>2. \A j \in DOMAIN g, i \in 1..m :
          LineStart(i) = c.offset + 2 * (j - 1) => g[j] = s[i]
    BY <1>1, <1>2, <1>4 DEF ReadIn
  <2>3. \A j \in DOMAIN g : LineStart(m + 1) # c.offset + 2 * (j - 1)
    <3> SUFFICES ASSUME NEW j \in DOMAIN g PROVE LineStart(m + 1) # c.offset + 2 * (j - 1)
      OBVIOUS
    <3>1. j \in 1..Len(g)
      BY <1>4
    <3>2. QED
      BY <1>2, <2>1, <3>1 DEF LineStart
  <2>4. \A i \in 1..(m + 1) : i \in 1..m \/ i = m + 1
    BY <1>2
  <2>5. n <= 2 * (m + 1)
    BY <1>2, <2>1
  <2>6. QED
    BY <1>2, <2>1, <2>2, <2>3, <2>4, <2>5
<1>5. QED
  BY <1>3, <1>4

\* The first line of a read is the one at the offset.
LEMMA OneLineRead ==
  ASSUME NEW f, NEW S, f.lines \in Seq(S), NEW known,
         NEW c \in [inode : Nat, offset : Nat], NEW T, NEW g \in Seq(T), g # <<>>, NEW n,
         Even(c.offset), NEW d \in [inode : Nat, offset : Nat],
         d.inode = c.inode, d.offset = c.offset + 2, ReadIn(f, c, g, n)
  PROVE  /\ SoundIn(f, known, c) => SoundIn(f, known \cup {Head(g)}, d)
         /\ ReadIn(f, d, Tail(g), n)
<1>1. PICK s, m, o, k : s = f.lines /\ m = Len(s) /\ o = c.offset /\ k = Len(g)
  OBVIOUS
<1>2. /\ s \in Seq(S) /\ m \in Nat /\ DOMAIN s = 1..m /\ o \in Nat
      /\ k \in Nat /\ k >= 1 /\ DOMAIN g = 1..k
  BY <1>1
<1>3. CASE ~(f.exists /\ d.inode = f.inode)
  BY <1>3 DEF SoundIn, ReadIn
<1>4. CASE f.exists /\ d.inode = f.inode
  <2>1. /\ n = o + 2 * k /\ n <= 2 * m
        /\ \A j \in 1..k, i \in 1..m : LineStart(i) = o + 2 * (j - 1) => g[j] = s[i]
    <3>1. c.inode = f.inode /\ DOMAIN f.lines = 1..m /\ Len(f.lines) = m
      BY <1>1, <1>2, <1>4
    <3>2. /\ n = c.offset + 2 * Len(g) /\ n <= 2 * Len(f.lines)
          /\ \A j \in DOMAIN g, i \in DOMAIN f.lines :
               LineStart(i) = c.offset + 2 * (j - 1) => g[j] = f.lines[i]
      BY <1>4, <3>1, Zenon DEF ReadIn
    <3>3. QED
      BY <1>1, <1>2, <3>1, <3>2
  <2>2. ASSUME SoundIn(f, known, c) PROVE SoundIn(f, known \cup {Head(g)}, d)
    <3>1. \A i \in 1..m : LineStart(i) < o => s[i] \in known
      BY <1>1, <1>2, <1>4, <2>2 DEF SoundIn
    <3>2. ASSUME NEW i \in 1..m, LineStart(i) < o + 2 PROVE s[i] \in known \cup {Head(g)}
      <4>1. CASE LineStart(i) < o
        BY <3>1, <4>1
      <4>2. CASE ~(LineStart(i) < o)
        <5>1. PICK h \in Nat : o = 2 * h
          BY <1>1 DEF Even
        <5>2. LineStart(i) = o
          BY <1>2, <3>2, <4>2, <5>1 DEF LineStart
        <5>3. 1 \in 1..k /\ LineStart(i) = o + 2 * (1 - 1)
          BY <1>2, <5>2
        <5>4. g[1] = s[i]
          BY <2>1, <5>3
        <5>5. QED
          BY <1>2, <5>4
      <4>3. QED
        BY <4>1, <4>2
    <3>3. o + 2 <= 2 * m
      BY <1>2, <2>1
    <3>4. QED
      BY <1>1, <1>2, <3>2, <3>3 DEF SoundIn
  <2>3. ReadIn(f, d, Tail(g), n)
    <3>1. PICK t : t = Tail(g)
      OBVIOUS
    <3>2. /\ t \in Seq(T) /\ Len(t) = k - 1 /\ DOMAIN t = 1..(k - 1)
          /\ \A j \in 1..(k - 1) : t[j] = g[j + 1]
      BY <1>1, <1>2, <3>1
    <3>3. n = (o + 2) + 2 * (k - 1)
      BY <1>2, <2>1
    <3>4. ASSUME NEW j \in 1..(k - 1), NEW i \in 1..m, LineStart(i) = (o + 2) + 2 * (j - 1)
          PROVE  t[j] = s[i]
      <4>1. j + 1 \in 1..k /\ LineStart(i) = o + 2 * ((j + 1) - 1)
        BY <1>2, <3>4
      <4>2. g[j + 1] = s[i]
        BY <2>1, <4>1
      <4>3. QED
        BY <3>2, <4>2
    <3>5. /\ d.offset = o + 2 /\ DOMAIN f.lines = 1..m /\ Len(f.lines) = m
          /\ \A i \in 1..m : f.lines[i] = s[i]
      BY <1>1, <1>2
    <3>6. n = d.offset + 2 * Len(t) /\ n <= 2 * Len(f.lines)
      BY <2>1, <3>2, <3>3, <3>5
    <3>7. \A j \in DOMAIN t, i \in DOMAIN f.lines :
            LineStart(i) = d.offset + 2 * (j - 1) => t[j] = f.lines[i]
      <4> SUFFICES ASSUME NEW j \in DOMAIN t, NEW i \in DOMAIN f.lines,
                          LineStart(i) = d.offset + 2 * (j - 1)
                   PROVE  t[j] = f.lines[i]
        OBVIOUS
      <4>1. j \in 1..(k - 1) /\ i \in 1..m /\ LineStart(i) = (o + 2) + 2 * (j - 1)
        BY <3>2, <3>5
      <4>2. t[j] = s[i]
        BY <3>4, <4>1
      <4>3. QED
        BY <3>5, <4>1, <4>2
    <3>8. ReadIn(f, d, t, n)
      BY <3>6, <3>7, Zenon DEF ReadIn
    <3>9. QED
      BY <3>1, <3>8
  <2>4. QED
    BY <2>2, <2>3
<1>5. QED
  BY <1>3, <1>4

\* From an offset between two lines, a read finds the lines behind it.
LEMMA LinesFound ==
  ASSUME TypeOK, Even(cp.offset), NEW n,
         n = IF LinesFrom(cp.offset) = <<>> THEN cp.offset ELSE 2 * Len(file.lines)
  PROVE  /\ \A j \in DOMAIN LinesFrom(cp.offset) : LinesFrom(cp.offset)[j] # Fragment
         /\ Even(n)
         /\ SoundIn(file, fed \cup hidden, cp) => ReadIn(file, cp, LinesFrom(cp.offset), n)
<1>1. PICK o, s, m, g : /\ o = cp.offset /\ s = file.lines /\ m = Len(s)
                        /\ g = LinesFrom(cp.offset)
  OBVIOUS
<1>2. s \in Seq(Lines) /\ m \in Nat /\ DOMAIN s = 1..m /\ o \in Nat
  BY <1>1 DEF TypeOK
<1>3. PICK k \in Nat : o = 2 * k
  BY <1>1 DEF Even
<1>4. o \div 2 = k /\ o % 2 = 0
  BY <1>3
<1>5. g = SubSeq(s, k + 1, m)
  <2>1. o % 2 # 1 /\ (o \div 2) + 1 = k + 1
    BY <1>4
  <2>2. LinesFrom(o) = SubSeq(file.lines, (o \div 2) + 1, Len(file.lines))
    BY <2>1, Zenon DEF LinesFrom
  <2>3. QED
    BY <1>1, <2>1, <2>2, Zenon
<1>6. /\ g \in Seq(Lines) /\ Len(g) = IF k + 1 <= m THEN m - (k + 1) + 1 ELSE 0
      /\ \A j \in 1..(m - (k + 1) + 1) : g[j] = s[(k + 1) + j - 1]
  <2>1. k + 1 \in 1..(Len(s) + 1) \/ k + 1 > Len(s)
    BY <1>1, <1>2
  <2>2. \A i \in (k + 1)..m : s[i] \in Lines
    BY <1>2
  <2>3. QED
    BY <1>1, <1>2, <1>5, <2>2, SubSeqProperties
<1>7. \A j \in DOMAIN g : g[j] # Fragment
  <2>1. \A j \in DOMAIN g : g[j] \in Lines
    BY <1>6
  <2>2. Fragment \notin Lines
    <3>1. PICK h : h = PerEvent * Len(Kind)
      OBVIOUS
    <3>2. Fragment \notin 1..h
      BY DEF Fragment
    <3>3. QED
      BY <3>1, <3>2 DEF Lines
  <2>3. QED
    BY <2>1, <2>2
<1>8. Even(n)
  BY <1>1, <1>2, EvenSums
<1>9. ASSUME SoundIn(file, fed \cup hidden, cp) PROVE ReadIn(file, cp, g, n)
  <2> SUFFICES ASSUME file.exists, cp.inode = file.inode
               PROVE  /\ n = o + 2 * Len(g) /\ n <= 2 * m
                      /\ \A j \in DOMAIN g, i \in 1..m :
                           LineStart(i) = o + 2 * (j - 1) => g[j] = s[i]
    BY <1>1, <1>2 DEF ReadIn
  <2>1. o <= 2 * m
    BY <1>1, <1>9 DEF SoundIn
  <2>2. k <= m
    BY <1>2, <1>3, <2>1
  <2>3. Len(g) = m - k /\ DOMAIN g = 1..(m - k) /\ \A j \in 1..(m - k) : g[j] = s[k + j]
    <3>1. Len(g) = m - k
      BY <1>2, <1>6, <2>2
    <3>2. DOMAIN g = 1..(m - k)
      BY <1>6, <3>1
    <3>3. \A j \in 1..(m - k) : j \in 1..(m - (k + 1) + 1) /\ (k + 1) + j - 1 = k + j
      BY <1>2
    <3>4. QED
      BY <1>6, <3>1, <3>2, <3>3
  <2>4. n = o + 2 * (m - k) /\ n <= 2 * m
    <3>1. CASE g = <<>>
      <4>1. n = o /\ m - k = 0
        BY <1>1, <2>3, <3>1
      <4>2. QED
        BY <1>2, <2>1, <4>1
    <3>2. CASE g # <<>>
      <4>1. n = 2 * m
        BY <1>1, <3>2
      <4>2. QED
        BY <1>2, <1>3, <4>1
    <3>3. QED
      BY <3>1, <3>2
  <2>5. ASSUME NEW j \in 1..(m - k), NEW i \in 1..m, LineStart(i) = o + 2 * (j - 1)
        PROVE  g[j] = s[i]
    <3>1. i = k + j
      BY <1>2, <1>3, <2>2, <2>5 DEF LineStart
    <3>2. QED
      BY <2>3, <3>1
  <2>6. QED
    BY <2>3, <2>4, <2>5
<1>10. QED
  BY <1>1, <1>7, <1>8, <1>9

\* A step that moves neither the log nor the tail keeps what holds of them.
LEMMA OffsetsRest ==
  ASSUME OffsetInv, TypeOK', UNCHANGED <<log, disk, cp, got, newOffset, fed, cut, stale, hidden>>,
         pc' = pc \/ pc' \in {"down", "off", "poll", "ended"}
  PROVE  OffsetInv'
<1>1. FileGrows'
  BY DEF OffsetInv, FileGrows, log
<1>2. WholeLines'
  BY DEF OffsetInv, WholeLines
<1>3. Reading'
  BY DEF OffsetInv, Reading, log
<1>4. (~cut => Sound(cp))' /\ (~stale => Sound(disk))'
  BY DEF OffsetInv, Sound, log
<1>5. QED
  BY <1>1, <1>2, <1>3, <1>4 DEF OffsetInv

\* A line written moves no offset; a new file or a truncation leaves none in it.
LEMMA OffsetsOfLog ==
  ASSUME OffsetInv, TypeOK', Environment
  PROVE  OffsetInv'
<1>1. /\ file \in [exists : BOOLEAN, inode : Nat, lines : Seq(Lines), begun : BOOLEAN]
      /\ file.lines \in Seq(Lines) /\ file.inode \in Nat
      /\ cp \in [inode : Nat, offset : Nat] /\ disk \in [inode : Nat, offset : Nat]
      /\ cp.inode \in Nat /\ disk.inode \in Nat
      /\ got \in Seq({Fragment} \cup Lines)
  BY DEF OffsetInv, TypeOK
<1>2. FileGrows /\ WholeLines /\ Reading /\ (~cut => Sound(cp)) /\ (~stale => Sound(disk))
  BY DEF OffsetInv
<1>3. UNCHANGED <<disk, cp, pc, got, newOffset, fed, hidden>>
  BY DEF Environment, Begin, Complete, Rotate, Create, Truncate, tail, history
<1>4. WholeLines'
  BY <1>2, <1>3 DEF WholeLines
<1>5. CASE Begin
  <2>1. /\ file'.exists = file.exists /\ file'.inode = file.inode /\ file'.lines = file.lines
        /\ file.exists /\ UNCHANGED <<cut, stale>>
    BY <1>1, <1>5 DEF Begin, history
  <2>2. FileGrows'
    BY <1>2, <1>3, <2>1 DEF FileGrows
  <2>3. Reading'
    BY <1>2, <1>3, <2>1 DEF Reading, ReadIn
  <2>4. (~cut => Sound(cp))' /\ (~stale => Sound(disk))'
    BY <1>2, <1>3, <2>1 DEF Sound, SoundIn
  <2>5. QED
    BY <1>4, <2>2, <2>3, <2>4 DEF OffsetInv
<1>6. CASE Complete
  <2>1. PICK x : x = written + 1
    OBVIOUS
  <2>2. x \in Lines /\ file.begun
    BY <1>6, <2>1 DEF Complete, OffsetInv, TypeOK
  <2>3. /\ file'.exists = file.exists /\ file'.inode = file.inode
        /\ file'.lines = Append(file.lines, x) /\ UNCHANGED <<cut, stale>>
    BY <1>1, <1>6, <2>1 DEF Complete, history
  <2>4. file.exists
    BY <1>2, <2>2 DEF FileGrows
  <2>5. FileGrows'
    BY <1>2, <1>3, <2>3, <2>4 DEF FileGrows
  <2>6. PICK f, f2, known, c, d, g, n :
          /\ f = file /\ f2 = file' /\ known = fed \cup hidden
          /\ c = cp /\ d = disk /\ g = got /\ n = newOffset
    OBVIOUS
  <2>7. /\ SoundIn(f, known, c) => SoundIn(f2, known, c)
        /\ SoundIn(f, known, d) => SoundIn(f2, known, d)
        /\ ReadIn(f, c, g, n) => ReadIn(f2, c, g, n)
    BY <1>1, <2>2, <2>3, <2>6, LogGrows
  <2>8. Reading'
    BY <1>2, <1>3, <2>3, <2>6, <2>7 DEF Reading
  <2>9. (~cut => Sound(cp))' /\ (~stale => Sound(disk))'
    BY <1>2, <1>3, <2>3, <2>6, <2>7 DEF Sound
  <2>10. QED
    BY <1>4, <2>5, <2>8, <2>9 DEF OffsetInv
<1>7. CASE Rotate
  <2>1. file'.exists = FALSE /\ file'.inode = file.inode /\ file'.lines = <<>> /\ ~file'.begun
    BY <1>1, <1>7 DEF Rotate
  <2>2. FileGrows'
    BY <1>2, <1>3, <2>1 DEF FileGrows
  <2>3. Reading' /\ Sound(cp)' /\ Sound(disk)'
    BY <2>1 DEF Reading, ReadIn, Sound, SoundIn
  <2>4. QED
    BY <1>4, <2>2, <2>3 DEF OffsetInv
<1>8. CASE Create
  <2>1. PICK n \in 1..(file.inode + 1) :
          /\ file' = [file EXCEPT !.exists = TRUE, !.inode = n]
          /\ cut' = (n = cp.inode) /\ stale' = (n = disk.inode)
    BY <1>8 DEF Create
  <2>2. file'.inode = n /\ n # 0 /\ file'.lines = file.lines /\ file'.exists
    BY <1>1, <2>1
  <2>3. FileGrows'
    BY <1>2, <1>3, <2>2 DEF FileGrows
  <2>4. /\ ~cut' => cp'.inode # file'.inode
        /\ ~stale' => disk'.inode # file'.inode
    BY <1>3, <2>1, <2>2
  <2>5. Reading' /\ (~cut => Sound(cp))' /\ (~stale => Sound(disk))'
    BY <2>4 DEF Reading, ReadIn, Sound, SoundIn
  <2>6. QED
    BY <1>4, <2>3, <2>5 DEF OffsetInv
<1>9. CASE Truncate
  <2>1. /\ file'.exists = file.exists /\ file'.inode = file.inode /\ file'.lines = <<>>
        /\ ~file'.begun /\ cut' = TRUE /\ stale' = TRUE
    BY <1>1, <1>9 DEF Truncate
  <2>2. FileGrows'
    BY <1>2, <1>3, <2>1 DEF FileGrows
  <2>3. QED
    BY <1>4, <2>1, <2>2 DEF OffsetInv, Reading
<1>10. QED
  BY <1>5, <1>6, <1>7, <1>8, <1>9 DEF Environment

\* A poll puts the offset into the file of now, and back to 0 if it is not in it.
LEMMA OffsetsOfPoll ==
  ASSUME OffsetInv, TypeOK', Poll
  PROVE  OffsetInv'
<1>1. /\ file.inode \in Nat /\ Len(file.lines) \in Nat /\ Size \in Nat
      /\ Size <= 2 * Len(file.lines) + 1
      /\ cp \in [inode : Nat, offset : Nat] /\ disk \in [inode : Nat, offset : Nat]
      /\ cp.offset \in Nat
  BY FileSets DEF OffsetInv, TypeOK
<1>2. FileGrows /\ WholeLines /\ (~cut => Sound(cp)) /\ (~stale => Sound(disk))
  BY DEF OffsetInv
<1>3. PICK off : off = IF cp.inode \in {0, file.inode} /\ Size >= cp.offset
                       THEN cp.offset ELSE 0
  OBVIOUS
<1>4. /\ file.exists /\ cp' = [inode |-> file.inode, offset |-> off] /\ pc' \in {"poll", "read"}
      /\ hidden' = IF cut THEN hidden \cup
                     {file.lines[i] : i \in {j \in DOMAIN file.lines : LineStart(j) < off}}
                   ELSE hidden
      /\ cut' = FALSE /\ UNCHANGED <<file, disk, got, newOffset, fed, stale>>
  BY <1>3 DEF Poll, log
<1>5. hidden \subseteq hidden'
  BY <1>4
<1>6. cp'.inode = file.inode /\ cp'.offset = off
  BY <1>4
<1>7. off \in Nat /\ Even(off) /\ off <= 2 * Len(file.lines)
  <2>1. CASE off = 0
    BY <1>1, <2>1, EvenSums
  <2>2. CASE off # 0
    <3>1. off = cp.offset /\ Size >= off
      BY <1>3, <2>2
    <3>2. off <= 2 * Len(file.lines) + 1
      BY <1>1, <3>1
    <3>3. QED
      BY <1>1, <1>2, <3>1, <3>2, EvenSums DEF WholeLines
  <2>3. QED
    BY <2>1, <2>2
<1>8. FileGrows'
  <2>1. cp'.inode <= file'.inode /\ cp'.inode # 0
    BY <1>1, <1>2, <1>4, <1>6 DEF FileGrows
  <2>2. QED
    BY <1>2, <1>4, <2>1 DEF FileGrows
<1>9. WholeLines'
  BY <1>2, <1>4, <1>6, <1>7 DEF WholeLines
<1>10. Reading'
  BY <1>4 DEF Reading
<1>11. ASSUME NEW i \in DOMAIN file.lines, LineStart(i) < off
       PROVE  file.lines[i] \in fed \cup hidden'
  <2>1. CASE cut
    BY <1>4, <1>11, <2>1
  <2>2. CASE ~cut
    <3>1. off # 0
      <4>1. Len(file.lines) \in Nat /\ DOMAIN file.lines = 1..Len(file.lines)
        BY FileSets DEF OffsetInv
      <4>2. i \in Nat /\ i >= 1
        BY <4>1
      <4>3. QED
        BY <1>11, <4>2 DEF LineStart
    <3>2. off = cp.offset /\ cp.inode \in {0, file.inode}
      BY <1>3, <3>1
    <3>3. cp.inode = file.inode
      BY <1>2, <3>1, <3>2 DEF FileGrows
    <3>4. QED
      BY <1>2, <1>4, <1>5, <1>11, <2>2, <3>2, <3>3 DEF Sound, SoundIn
  <2>3. QED
    BY <2>1, <2>2
<1>12. Sound(cp)'
  BY <1>4, <1>6, <1>7, <1>11 DEF Sound, SoundIn
<1>13. (~stale => Sound(disk))'
  BY <1>2, <1>4, <1>5 DEF Sound, SoundIn
<1>14. QED
  BY <1>8, <1>9, <1>10, <1>12, <1>13 DEF OffsetInv

\* A read starts at the offset.
LEMMA OffsetsOfRead ==
  ASSUME OffsetInv, TypeOK', Read
  PROVE  OffsetInv'
<1>1. FileGrows /\ WholeLines /\ (~cut => Sound(cp)) /\ (~stale => Sound(disk)) /\ TypeOK
  BY DEF OffsetInv
<1>2. PICK g, n, c, f : /\ g = LinesFrom(cp.offset) /\ c = cp /\ f = file
                        /\ n = IF g = <<>> THEN cp.offset ELSE 2 * Len(file.lines)
  OBVIOUS
<1>3. /\ pc = "read" /\ pc' = "feed" /\ got' = g /\ newOffset' = n
      /\ UNCHANGED <<file, cp, disk, fed, hidden, cut, stale>>
  BY <1>2 DEF Read, log, history
<1>4. /\ \A j \in DOMAIN g : g[j] # Fragment
      /\ Even(n) /\ (Sound(cp) => ReadIn(f, c, g, n))
  BY <1>1, <1>2, LinesFound DEF WholeLines, Sound
<1>5. FileGrows'
  BY <1>1, <1>3 DEF FileGrows
<1>6. WholeLines'
  BY <1>1, <1>3, <1>4 DEF WholeLines
<1>7. Reading'
  BY <1>1, <1>2, <1>3, <1>4 DEF Reading
<1>8. (~cut => Sound(cp))' /\ (~stale => Sound(disk))'
  BY <1>1, <1>3 DEF Sound
<1>9. QED
  BY <1>5, <1>6, <1>7, <1>8 DEF OffsetInv

\* The line fed is the one at the offset, and the offset is behind it after.
LEMMA OffsetsOfFeed ==
  ASSUME Bad = {}, OffsetInv, TypeOK', Feed
  PROVE  OffsetInv'
<1>1. /\ FileGrows /\ WholeLines /\ Reading /\ (~cut => Sound(cp)) /\ (~stale => Sound(disk))
      /\ TypeOK
  BY DEF OffsetInv
<1>2. PICK l : l = Head(got)
  OBVIOUS
<1>3. /\ got # <<>> /\ got' = Tail(got) /\ cp' \in [inode : Nat, offset : Nat]
      /\ cp'.inode = cp.inode /\ cp'.offset = cp.offset + Width(l)
      /\ fed' = fed \cup ({l} \ {Fragment})
      /\ UNCHANGED <<file, pc, newOffset, cut, hidden>>
  BY <1>1, <1>2, FeedSets DEF log
<1>4. /\ got \in Seq({Fragment} \cup Lines) /\ cp \in [inode : Nat, offset : Nat]
      /\ cp.offset \in Nat /\ file.lines \in Seq(Lines)
  BY <1>1, FileSets DEF TypeOK
<1>5. pc = "feed"
  BY DEF Feed
<1>6. \/ disk' = disk /\ stale' = stale
      \/ disk' = cp' /\ stale' = cut
  BY <1>1, FeedEvents
<1>7. l # Fragment
  <2>1. 1 \in DOMAIN got /\ got[1] = l
    BY <1>2, <1>3, <1>4
  <2>2. QED
    BY <1>1, <2>1 DEF WholeLines
<1>8. Width(l) = 2
  BY <1>7 DEF Width
<1>9. cp'.offset = cp.offset + 2 /\ fed' = fed \cup {l}
  BY <1>3, <1>7, <1>8
<1>10. cp.inode # 0
  BY <1>1, <1>5 DEF FileGrows
<1>11. FileGrows'
  <2>1. cp'.inode # 0
    BY <1>1, <1>3, <1>10 DEF FileGrows
  <2>2. disk'.inode = 0 => disk'.offset = 0
    BY <1>1, <1>3, <1>6, <2>1 DEF FileGrows
  <2>3. QED
    BY <1>1, <1>3, <2>1, <2>2 DEF FileGrows
<1>12. WholeLines'
  <2>1. Even(cp'.offset)
    BY <1>1, <1>4, <1>9, EvenSums DEF WholeLines
  <2>2. PICK t : t = Tail(got)
    OBVIOUS
  <2>3. \A j \in DOMAIN t : j + 1 \in DOMAIN got /\ t[j] = got[j + 1]
    BY <1>3, <1>4, <2>2
  <2>4. \A j \in DOMAIN t : t[j] # Fragment
    BY <1>1, <2>3 DEF WholeLines
  <2>5. Even(disk'.offset)
    BY <1>1, <1>6, <2>1 DEF WholeLines
  <2>6. QED
    BY <1>1, <1>3, <2>1, <2>2, <2>4, <2>5 DEF WholeLines
<1>13. PICK f, known, c, d, g, n :
         /\ f = file /\ known = fed \cup hidden /\ c = cp /\ d = cp' /\ g = got /\ n = newOffset
  OBVIOUS
<1>14. ReadIn(f, c, g, n) =>
         /\ SoundIn(f, known, c) => SoundIn(f, known \cup {l}, d)
         /\ ReadIn(f, d, Tail(g), n)
  <2>1. Even(c.offset)
    BY <1>1, <1>13 DEF WholeLines
  <2>2. QED
    BY <1>2, <1>3, <1>4, <1>9, <1>13, <2>1, OneLineRead
<1>15. fed' \cup hidden' = known \cup {l}
  BY <1>3, <1>9, <1>13
<1>16. ~cut => ReadIn(f, c, g, n)
  BY <1>1, <1>5, <1>13 DEF Reading
<1>17. Reading'
  BY <1>3, <1>13, <1>14, <1>16 DEF Reading
<1>18. (~cut => Sound(cp))'
  <2>1. ~cut => SoundIn(f, known \cup {l}, d)
    BY <1>1, <1>13, <1>14, <1>16 DEF Sound
  <2>2. QED
    BY <1>3, <1>13, <1>15, <2>1 DEF Sound
<1>19. (~stale => Sound(disk))'
  <2>1. CASE disk' = disk /\ stale' = stale
    BY <1>1, <1>3, <1>9, <2>1 DEF Sound, SoundIn
  <2>2. CASE disk' = cp' /\ stale' = cut
    BY <1>3, <1>18, <2>2 DEF Sound
  <2>3. QED
    BY <1>6, <2>1, <2>2
<1>20. QED
  BY <1>11, <1>12, <1>17, <1>18, <1>19 DEF OffsetInv

\* At the end of a read the offset is where the read ended already.
LEMMA OffsetsOfEndRead ==
  ASSUME OffsetInv, TypeOK', EndRead
  PROVE  OffsetInv'
<1>1. FileGrows /\ WholeLines /\ Reading /\ (~cut => Sound(cp)) /\ (~stale => Sound(disk))
  BY DEF OffsetInv
<1>2. cp \in [inode : Nat, offset : Nat] /\ cp.offset \in Nat
  BY DEF OffsetInv, TypeOK
<1>3. /\ pc = "feed" /\ got = <<>> /\ pc' = "poll" /\ cp' = [cp EXCEPT !.offset = newOffset]
      /\ UNCHANGED <<file, disk, got, newOffset, fed, hidden, cut, stale>>
  BY DEF EndRead, log, history
<1>4. cp'.inode = cp.inode /\ cp'.offset = newOffset
  BY <1>2, <1>3
<1>5. FileGrows'
  BY <1>1, <1>3, <1>4 DEF FileGrows
<1>6. WholeLines'
  BY <1>1, <1>3, <1>4 DEF WholeLines
<1>7. Reading'
  BY <1>3 DEF Reading
<1>8. (~cut => Sound(cp))'
  <2>1. CASE cut \/ ~file.exists \/ cp.inode # file.inode
    BY <1>3, <1>4, <2>1 DEF Sound, SoundIn
  <2>2. CASE ~(cut \/ ~file.exists \/ cp.inode # file.inode)
    <3>1. newOffset = cp.offset + 2 * Len(got)
      BY <1>1, <1>3, <2>2 DEF Reading, ReadIn
    <3>2. newOffset = cp.offset
      BY <1>2, <1>3, <3>1
    <3>3. QED
      BY <1>1, <1>3, <1>4, <2>2, <3>2 DEF Sound, SoundIn
  <2>3. QED
    BY <2>1, <2>2
<1>9. (~stale => Sound(disk))'
  BY <1>1, <1>3 DEF Sound
<1>10. QED
  BY <1>5, <1>6, <1>7, <1>8, <1>9 DEF OffsetInv

\* A start takes the offset from the checkpoint, or none.
LEMMA OffsetsOfProcess ==
  ASSUME OffsetInv, TypeOK', Process
  PROVE  OffsetInv'
<1>1. FileGrows /\ WholeLines /\ (~cut => Sound(cp)) /\ (~stale => Sound(disk)) /\ TypeOK
  BY DEF OffsetInv
<1>2. file.inode \in Nat /\ Cold.inode = 0 /\ Cold.offset = 0 /\ Even(Cold.offset)
  BY <1>1, FileSets, EvenSums DEF Cold, TypeOK
<1>3. UNCHANGED <<file, disk, fed, stale, hidden>>
  BY <1>1, ProcessSets DEF log
<1>4. (~stale => Sound(disk))'
  BY <1>1, <1>3 DEF Sound
<1>5. CASE pc' = "ended" /\ UNCHANGED <<cp, cut, got, newOffset>>
  BY <1>1, <1>3, <1>5, ProcessSets, OffsetsRest
<1>6. CASE /\ cp' \in {disk, Cold} /\ cut' = stale /\ pc' \in {"off", "poll"}
           /\ UNCHANGED <<got, newOffset>>
  <2>1. FileGrows'
    BY <1>1, <1>2, <1>3, <1>6 DEF FileGrows
  <2>2. WholeLines'
    BY <1>1, <1>2, <1>3, <1>6 DEF WholeLines
  <2>3. (~cut => Sound(cp))'
    BY <1>1, <1>2, <1>3, <1>6 DEF Sound, SoundIn, FileGrows
  <2>4. QED
    BY <1>4, <1>6, <2>1, <2>2, <2>3 DEF OffsetInv, Reading
<1>7. CASE Forget
  <2>1. cp' = Cold /\ got' = <<>> /\ newOffset' = 0 /\ pc' = "down"
    BY <1>7 DEF Forget
  <2>2. FileGrows'
    BY <1>1, <1>2, <1>3, <2>1 DEF FileGrows
  <2>3. WholeLines'
    BY <1>1, <1>2, <1>3, <2>1, EvenSums DEF WholeLines
  <2>4. Sound(cp)'
    BY <1>1, <1>2, <1>3, <2>1 DEF Sound, SoundIn, FileGrows
  <2>5. QED
    BY <1>4, <2>1, <2>2, <2>3, <2>4 DEF OffsetInv, Reading
<1>8. QED
  BY <1>1, <1>5, <1>6, <1>7, ProcessSets

\* The inductive invariant of the offsets, of a log without such bytes.
THEOREM OffsetsCorrect == ASSUME Bad = {} PROVE Spec => []OffsetInv
<1>1. Init => OffsetInv
  <2> SUFFICES ASSUME Init PROVE OffsetInv
    OBVIOUS
  <2>1. /\ file.lines = <<>> /\ file.inode = 1 /\ file.exists /\ pc = "down"
        /\ cp = Cold /\ disk = Cold /\ got = <<>> /\ newOffset = 0
    BY DEF Init
  <2>2. FileGrows
    BY <2>1 DEF FileGrows, Cold
  <2>3. WholeLines
    BY <2>1, EvenSums DEF WholeLines, Cold
  <2>4. Sound(cp) /\ Sound(disk) /\ Reading
    BY <2>1 DEF Sound, SoundIn, Cold, Reading
  <2>5. QED
    BY <2>2, <2>3, <2>4, TypeInit DEF OffsetInv
<1>2. OffsetInv /\ [Next]_vars => OffsetInv'
  <2> SUFFICES ASSUME OffsetInv, [Next]_vars PROVE OffsetInv'
    OBVIOUS
  <2>1. TypeOK /\ TypeOK'
    BY TypeStep DEF OffsetInv
  <2>2. CASE Environment
    BY <2>1, <2>2, OffsetsOfLog
  <2>3. CASE Source
    <3>1. CASE ReadRaises
      BY <2>1, <3>1, OffsetsRest DEF ReadRaises, history
    <3>2. QED
      BY <2>1, <2>3, <3>1, OffsetsOfPoll, OffsetsOfRead, OffsetsOfFeed, OffsetsOfEndRead
         DEF Source
  <2>4. CASE Shipper
    BY <2>1, <2>4, ShipperSets, OffsetsRest DEF tail, history
  <2>5. CASE Process
    BY <2>1, <2>5, OffsetsOfProcess
  <2>6. CASE UNCHANGED vars
    BY <2>1, <2>6, OffsetsRest DEF vars, tail, history
  <2>7. QED
    BY <2>2, <2>3, <2>4, <2>5, <2>6 DEF Next
<1>3. QED
  BY <1>1, <1>2, PTL DEF Spec

\* Of a log without bytes that are not UTF-8, the offset the agent is about to
\* read from is past no line that was neither given to the parser nor hidden
\* by a truncation, however often the log is rotated and the agent killed.
THEOREM NothingIsSkipped == ASSUME Bad = {} PROVE Spec => []NothingSkipped
<1>1. OffsetInv => NothingSkipped
  <2> SUFFICES ASSUME OffsetInv, ~cut PROVE Covered(cp) \subseteq fed \cup hidden
    BY DEF NothingSkipped
  <2>1. CASE file.exists
    BY <2>1 DEF OffsetInv, Sound, SoundIn, Covered
  <2>2. CASE ~file.exists
    <3>1. DOMAIN file.lines = {}
      BY <2>2 DEF OffsetInv, FileGrows
    <3>2. QED
      BY <3>1 DEF Covered
  <2>3. QED
    BY <2>1, <2>2
<1>2. QED
  BY <1>1, OffsetsCorrect, PTL

\* Of such a log, the checkpoint on disk is past no line that was not fed: a
\* restart from it, after a kill at any moment, skips none.
THEOREM CheckpointCorrect == ASSUME Bad = {} PROVE Spec => []ResumesAfterLastLine
<1>1. OffsetInv => ResumesAfterLastLine
  <2> SUFFICES ASSUME OffsetInv, ~stale PROVE Covered(disk) \subseteq fed \cup hidden
    BY DEF ResumesAfterLastLine
  <2>1. CASE file.exists
    BY <2>1 DEF OffsetInv, Sound, SoundIn, Covered
  <2>2. CASE ~file.exists
    <3>1. DOMAIN file.lines = {}
      BY <2>2 DEF OffsetInv, FileGrows
    <3>2. QED
      BY <3>1 DEF Covered
  <2>3. QED
    BY <2>1, <2>2
<1>2. QED
  BY <1>1, OffsetsCorrect, PTL

=============================================================================
