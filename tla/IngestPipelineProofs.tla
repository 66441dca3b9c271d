------------------------ MODULE IngestPipelineProofs ------------------------
(***************************************************************************)
(* Proofs about IngestPipeline for any set of calls, keys, entities and    *)
(* incident keys and any number of faults: the type invariant, the         *)
(* inductive invariant IInv and the safety properties that follow from it. *)
(***************************************************************************)
EXTENDS IngestPipeline, TLAPS

CallTypes == /\ pc \in [Calls -> Stages]
             /\ attempt \in [Calls -> Attempts]
             /\ linked \in [Calls -> Nat]
             /\ touch \in [Calls -> {"none", "opened", "joined"}]
             /\ group \in [Calls -> Groups \cup {NoGroup}]
             /\ reply \in [Calls -> {"open", "new", "dup", "error", "lost"}]

\* Ending a call, and starting it over, keep the types of its state.
LEMMA FinishTypes ==
  ASSUME CallTypes, NEW c \in Calls, NEW a \in {"new", "dup", "error"}, Finish(c, a)
  PROVE  CallTypes'
<1>1. pc' \in [Calls -> Stages] /\ attempt' \in [Calls -> Attempts]
  BY DEF CallTypes, Finish, Goto, Stages
<1>2. linked' \in [Calls -> Nat] /\ touch' \in [Calls -> {"none", "opened", "joined"}]
  BY DEF CallTypes, Finish, Forget
<1>3. group' \in [Calls -> Groups \cup {NoGroup}]
  BY DEF CallTypes, Finish, Forget
<1>4. reply' \in [Calls -> {"open", "new", "dup", "error", "lost"}]
  BY DEF CallTypes, Finish
<1>5. QED
  BY <1>1, <1>2, <1>3, <1>4 DEF CallTypes

\* A call that goes on to its next statement.
LEMMA ProceedTypes ==
  ASSUME CallTypes, NEW c \in Calls, NEW s \in Stages, Proceed(c, s)
  PROVE  /\ pc' \in [Calls -> Stages]
         /\ attempt' \in [Calls -> Attempts]
         /\ reply' \in [Calls -> {"open", "new", "dup", "error", "lost"}]
  BY DEF CallTypes, Proceed, Goto

\* Faults and crashes keep within their bounds.
LEMMA FaultTypes ==
  ASSUME TypeOK, NoFault \/ DbFault
  PROVE  /\ dbFaults' \in 0..MaxDbFaults
         /\ redisFaults' \in 0..MaxRedisFaults
         /\ crashes' \in 0..MaxCrashes
  BY PipelineAssumption DEF TypeOK, NoFault, DbFault

\* Every step keeps the types.
LEMMA TypeStep == TypeOK /\ [Next]_vars => TypeOK'
<1> SUFFICES ASSUME TypeOK, [Next]_vars PROVE TypeOK'
  OBVIOUS
<1>0. CallTypes
  BY DEF TypeOK, CallTypes
<1>1. ASSUME NEW c \in Calls, Submit(c) PROVE TypeOK'
  BY <1>0, <1>1, ProceedTypes, FaultTypes DEF TypeOK, Submit, Stages, locals, db
<1>2. ASSUME NEW c \in Calls, Lookup(c) PROVE TypeOK'
  <2>1. CallTypes'
    BY <1>0, <1>2, ProceedTypes, FinishTypes DEF Lookup, Stages, locals, CallTypes
  <2>2. QED
    BY <1>2, <2>1, FaultTypes DEF TypeOK, CallTypes, Lookup, db
<1>3. ASSUME NEW c \in Calls, Insert(c) PROVE TypeOK'
  <2>1. CallTypes'
    BY <1>0, <1>3, ProceedTypes, FinishTypes DEF Insert, Stages, locals, CallTypes
  <2>2. QED
    BY <1>3, <2>1, FaultTypes DEF TypeOK, CallTypes, Insert, db
<1>4. ASSUME NEW c \in Calls, Link(c) PROVE TypeOK'
  <2>1. CallTypes'
    BY <1>0, <1>4, ProceedTypes DEF Link, Stages, CallTypes
  <2>2. QED
    BY <1>4, <2>1, FaultTypes DEF TypeOK, CallTypes, Link, db
<1>5. ASSUME NEW c \in Calls, DetectNothing(c) PROVE TypeOK'
  BY <1>0, <1>5, ProceedTypes, FaultTypes DEF TypeOK, DetectNothing, Stages, locals, db
<1>6. ASSUME NEW c \in Calls, Correlate(c) PROVE TypeOK'
  <2>1. PICK g \in GroupsOf[c] \ Standalone : Correlate(c)!2!(g)
    BY <1>6 DEF Correlate
  <2>2. g \in Groups
    BY PipelineAssumption
  <2>3. group' \in [Calls -> Groups \cup {NoGroup}]
    BY <2>1, <2>2 DEF TypeOK
  <2>4. CallTypes'
    BY <1>0, <1>6, <2>1, <2>3, ProceedTypes DEF Correlate, Stages, CallTypes
  <2>5. QED
    BY <1>6, <2>4, FaultTypes DEF TypeOK, CallTypes, Correlate, db
<1>7. ASSUME NEW c \in Calls, ClaimHour(c) PROVE TypeOK'
  <2>1. PICK g \in GroupsOf[c] \cap Standalone : ClaimHour(c)!2!(g)
    BY <1>7 DEF ClaimHour
  <2>2. g \in Groups /\ g \in Standalone
    BY PipelineAssumption
  <2>3. group' \in [Calls -> Groups \cup {NoGroup}] /\ flags' \subseteq Standalone
    BY <2>1, <2>2 DEF TypeOK
  <2>4. CallTypes'
    BY <1>0, <1>7, <2>1, <2>3, ProceedTypes DEF ClaimHour, Stages, CallTypes
  <2>5. /\ dbFaults' \in 0..MaxDbFaults
        /\ redisFaults' \in 0..MaxRedisFaults
        /\ crashes' \in 0..MaxCrashes
    BY <2>1, PipelineAssumption DEF TypeOK, NoFault
  <2>6. QED
    BY <1>7, <2>3, <2>4, <2>5 DEF TypeOK, CallTypes, ClaimHour, db
<1>8. ASSUME NEW c \in Calls, Open(c) PROVE TypeOK'
  <2>1. CallTypes'
    BY <1>0, <1>8, ProceedTypes, FinishTypes DEF Open, Stages, CallTypes
  <2>2. QED
    BY <1>8, <2>1, FaultTypes DEF TypeOK, CallTypes, Open, db
<1>9. ASSUME NEW c \in Calls, Commit(c) PROVE TypeOK'
  <2>1. CallTypes'
    BY <1>0, <1>9, ProceedTypes DEF Commit, Stages, locals, CallTypes
  <2>2. rows' \subseteq Calls \X Attempts
    BY <1>9 DEF TypeOK, Commit
  <2>3. incidents' \subseteq Calls \X Attempts \X (Groups \cup {NoGroup})
    BY <1>9 DEF TypeOK, Commit
  <2>4. QED
    BY <1>9, <2>1, <2>2, <2>3, FaultTypes DEF TypeOK, CallTypes, Commit
<1>10. ASSUME NEW c \in Calls, Load(c) PROVE TypeOK'
  <2>1. CallTypes'
    BY <1>0, <1>10, ProceedTypes, FinishTypes DEF Load, Stages, locals, CallTypes
  <2>2. QED
    BY <1>10, <2>1, FaultTypes DEF TypeOK, CallTypes, Load, db
<1>11. ASSUME NEW c \in Calls, AutoActions(c) PROVE TypeOK'
  <2>1. CallTypes'
    BY <1>0, <1>11, FinishTypes DEF AutoActions
  <2>2. acted' \subseteq Calls \X Attempts \X (Groups \cup {NoGroup})
    BY <1>11 DEF TypeOK, AutoActions
  <2>3. QED
    BY <1>11, <2>1, <2>2, FaultTypes DEF TypeOK, CallTypes, AutoActions
<1>12. ASSUME NEW c \in Calls, ConnectionLost(c) PROVE TypeOK'
  <2>1. CASE attempt[c] = 1
    <3>1. pc' \in [Calls -> Stages] /\ attempt' \in [Calls -> Attempts] /\ reply' = reply
      BY <1>12, <2>1 DEF TypeOK, ConnectionLost, Goto, Stages, Attempts
    <3>2. /\ linked' \in [Calls -> Nat]
          /\ touch' \in [Calls -> {"none", "opened", "joined"}]
          /\ group' \in [Calls -> Groups \cup {NoGroup}]
      BY <1>12, <2>1 DEF TypeOK, ConnectionLost, Forget
    <3>3. QED
      BY <1>12, <3>1, <3>2, FaultTypes DEF TypeOK, ConnectionLost, db
  <2>2. CASE attempt[c] # 1
    <3>1. CallTypes'
      BY <1>0, <1>12, <2>2, FinishTypes DEF ConnectionLost
    <3>2. QED
      BY <1>12, <3>1, FaultTypes DEF TypeOK, CallTypes, ConnectionLost, db
  <2>3. QED
    BY <2>1, <2>2
<1>13. ASSUME NEW c \in Calls, StatementFails(c) PROVE TypeOK'
  <2>1. CallTypes'
    BY <1>0, <1>13, FinishTypes DEF StatementFails
  <2>2. QED
    BY <1>13, <2>1, FaultTypes DEF TypeOK, CallTypes, StatementFails, db
<1>14. ASSUME NEW c \in Calls, DeadlockVictim(c) PROVE TypeOK'
  <2>1. CallTypes'
    BY <1>0, <1>14, FinishTypes DEF DeadlockVictim
  <2>2. QED
    BY <1>14, <2>1, FaultTypes DEF TypeOK, CallTypes, DeadlockVictim, db
<1>15. ASSUME Crash PROVE TypeOK'
  BY <1>15, PipelineAssumption DEF TypeOK, Crash, Stages, db
<1>16. ASSUME NEW c \in Calls, Join(c) PROVE TypeOK'
  <2>1. group' \in [Calls -> Groups \cup {NoGroup}]
    <3>1. PICK g \in JoinsOf[c] : group' = [group EXCEPT ![c] = g]
      BY <1>16 DEF Join
    <3>2. g \in Groups
      BY PipelineAssumption
    <3>3. QED
      BY <3>1, <3>2 DEF TypeOK
  <2>2. CallTypes'
    BY <1>0, <1>16, <2>1, ProceedTypes DEF Join, Stages, CallTypes
  <2>3. QED
    BY <1>16, <2>2, FaultTypes DEF TypeOK, CallTypes, Join, db
<1>17. ASSUME NEW c \in Calls, Extend(c) PROVE TypeOK'
  <2>1. CallTypes'
    BY <1>0, <1>17, ProceedTypes DEF Extend, Stages, CallTypes
  <2>2. QED
    BY <1>17, <2>1, FaultTypes DEF TypeOK, CallTypes, Extend, db
<1>18. CASE UNCHANGED vars
  BY <1>18 DEF vars, TypeOK
<1>19. QED
  BY <1>1, <1>2, <1>3, <1>4, <1>5, <1>6, <1>7, <1>8, <1>9, <1>10, <1>11,
     <1>12, <1>13, <1>14, <1>15, <1>16, <1>17, <1>18 DEF Next, Step, Fault

\* At the start no call has been made.
LEMMA TypeInit == Init => TypeOK
  BY PipelineAssumption DEF Init, TypeOK, Stages, Attempts

\* The state keeps its type: no third attempt, no counter above its bound.
THEOREM TypeCorrect == Spec => []TypeOK
  BY TypeInit, TypeStep, PTL DEF Spec

-----------------------------------------------------------------------------
(* IInv is inductive. Every action but Commit, AutoActions and Crash moves *)
(* one call and leaves the database alone; Quiet says what IInv asks of    *)
(* such a move.                                                            *)

OnlyMoves(c) == \A d \in Calls \ {c} :
  /\ pc'[d] = pc[d] /\ attempt'[d] = attempt[d] /\ reply'[d] = reply[d]
  /\ touch'[d] = touch[d] /\ group'[d] = group[d]

EntersRow(c) == /\ ~RowExists(c)
                /\ \A d \in Calls \ {c} : SameKey(c, d) => ~HoldsRow(d)

EntersIncident(c) == /\ ~IncidentExists(group'[c])
                     /\ \A d \in Calls \ {c} : ~HoldsIncident(d, group'[c])

Quiet(c) ==
  /\ OnlyMoves(c) /\ UNCHANGED db
  /\ pc[c] # "done"
  /\ pc'[c] \in Locking => HoldsRow(c) \/ EntersRow(c)
  /\ pc'[c] = "commit" /\ touch'[c] = "opened" => EntersIncident(c)
  /\ pc'[c] # "done" => reply'[c] = "open"
  /\ pc'[c] \in {"load", "auto"} => pc[c] \in {"load", "auto"} /\ attempt'[c] = attempt[c]
  /\ \/ attempt[c] = 1 /\ attempt'[c] = 2
     \/ /\ attempt'[c] = attempt[c]
        /\ pc[c] \in {"load", "auto"} => pc'[c] \in {"load", "auto", "done"}
  /\ pc'[c] \in {"idle", "lookup", "insert", "link", "detect", "open", "extend"} => touch'[c] = "none"
  /\ pc'[c] = "auto" => touch'[c] # "none"
  /\ pc'[c] = "extend" \/ touch'[c] = "joined" => IncidentExists(group'[c])
  /\ pc'[c] \in {"load", "auto"} /\ touch'[c] # "none" => IncidentExists(group'[c])

\* A step of one call that leaves the database alone keeps the invariant.
LEMMA QuietStep ==
  ASSUME IInv, TypeOK', NEW c \in Calls, Quiet(c)
  PROVE  IInv'
<1>0. /\ rows' = rows /\ incidents' = incidents /\ acted' = acted
      /\ TypeOK
  BY DEF Quiet, db, IInv
<1>1. \A x : RowExists(x)' <=> RowExists(x)
  BY <1>0 DEF RowExists, SameKey
<1>2. \A g : IncidentExists(g)' <=> IncidentExists(g)
  BY <1>0 DEF IncidentExists
<1>3. \A d \in Calls \ {c} : HoldsRow(d)' <=> HoldsRow(d)
  BY DEF HoldsRow, Locking, Quiet, OnlyMoves
<1>5. OneRowPerKey' /\ OneIncidentPerGroup'
  BY <1>0 DEF OneRowPerKey, OneIncidentPerGroup, SameKey, IInv
<1>6. KeyGuard'
  <2>1. HoldsRow(c)' => EntersRow(c)
    BY DEF Quiet, HoldsRow, Locking, EntersRow, IInv, KeyGuard
  <2>2. \A d : SameKey(c, d)' <=> SameKey(c, d)
    BY DEF SameKey
  <2>3. \A d \in Calls \ {c} : HoldsRow(d)' /\ SameKey(d, c) => ~HoldsRow(c)'
    BY <2>1, <1>3 DEF EntersRow, SameKey
  <2>4. \A d \in Calls \ {c} : HoldsRow(d)' =>
          /\ ~RowExists(d)
          /\ \A e \in Calls \ {c, d} : SameKey(d, e) => ~HoldsRow(e)'
    BY <1>3 DEF IInv, KeyGuard
  <2>5. HoldsRow(c)' => \A d \in Calls \ {c} : SameKey(c, d) => ~HoldsRow(d)'
    BY <2>1, <1>3 DEF EntersRow
  <2>6. HoldsRow(c)' => ~RowExists(c)
    BY <2>1 DEF EntersRow
  <2>7. \A d, e : SameKey(d, e)' <=> SameKey(d, e)
    BY DEF SameKey
  <2>8. QED
    BY <2>3, <2>4, <2>5, <2>6, <2>7, <1>1 DEF KeyGuard
<1>7. IncidentGuard'
  <2> SUFFICES ASSUME NEW d \in Calls, pc'[d] = "commit", touch'[d] = "opened"
               PROVE  /\ \A i \in incidents : i[3] # group'[d]
                      /\ \A e \in Calls \ {d} :
                           ~(pc'[e] = "commit" /\ touch'[e] = "opened" /\ group'[e] = group'[d])
    BY <1>0 DEF IncidentGuard, HoldsIncident, IncidentExists
  <2>1. CASE d = c
    BY <2>1, <1>0 DEF Quiet, OnlyMoves, EntersIncident, HoldsIncident, IncidentExists
  <2>2. CASE d # c
    <3>1. /\ pc[d] = "commit" /\ touch[d] = "opened" /\ group'[d] = group[d]
      BY <2>2 DEF Quiet, OnlyMoves
    <3>2. /\ \A i \in incidents : i[3] # group[d]
          /\ \A e \in Calls \ {d} :
               ~(pc[e] = "commit" /\ touch[e] = "opened" /\ group[e] = group[d])
      BY <3>1 DEF IInv, IncidentGuard, HoldsIncident, IncidentExists
    <3>3. ASSUME NEW e \in Calls \ {d}, e # c
          PROVE  ~(pc'[e] = "commit" /\ touch'[e] = "opened" /\ group'[e] = group'[d])
      BY <3>1, <3>2, <3>3 DEF Quiet, OnlyMoves
    <3>4. ~(pc'[c] = "commit" /\ touch'[c] = "opened" /\ group'[c] = group'[d])
      BY <2>2, <3>1 DEF Quiet, EntersIncident, HoldsIncident
    <3>5. QED
      BY <3>1, <3>2, <3>3, <3>4
  <2>3. QED
    BY <2>1, <2>2
<1>8. Progress'
  BY <1>0 DEF Progress, IInv, Quiet, OnlyMoves
<1>9. RowsArePast'
  <2> SUFFICES ASSUME NEW r \in rows
               PROVE  \/ r[2] # attempt'[r[1]] /\ attempt'[r[1]] = 2
                      \/ /\ r[2] = attempt'[r[1]]
                         /\ pc'[r[1]] \in {"load", "auto", "done"}
    BY <1>0 DEF RowsArePast
  <2>1. r[1] \in Calls /\ r[2] \in {1, 2} /\ attempt[r[1]] \in {1, 2}
    BY <1>0 DEF TypeOK, Attempts
  <2>2. \/ r[2] # attempt[r[1]] /\ attempt[r[1]] = 2
        \/ r[2] = attempt[r[1]] /\ pc[r[1]] \in {"load", "auto", "done"}
    BY DEF IInv, RowsArePast
  <2>3. CASE r[1] # c
    BY <2>1, <2>2, <2>3 DEF Quiet, OnlyMoves
  <2>4. CASE r[1] = c
    BY <2>1, <2>2, <2>4 DEF Quiet
  <2>5. QED
    BY <2>3, <2>4
<1>10. TouchedExists'
  BY <1>2 DEF TouchedExists, IInv, Quiet, OnlyMoves
<1>11. ActedIsDone' /\ ActedOnce'
  BY <1>0, <1>2 DEF ActedIsDone, ActedOnce, IInv, Quiet, OnlyMoves, TypeOK
<1>12. QED
  BY <1>5, <1>6, <1>7, <1>8, <1>9, <1>10, <1>11 DEF IInv
-----------------------------------------------------------------------------
(* The actions one by one. *)

\* Ending a call is quiet: it gives up what its transaction held.
LEMMA FinishQuiet ==
  ASSUME IInv, NEW c \in Calls, NEW a, Finish(c, a), UNCHANGED db, pc[c] # "done"
  PROVE  Quiet(c)
<1>1. OnlyMoves(c)
  BY DEF IInv, TypeOK, OnlyMoves, Finish, Goto, Forget
<1>2. pc'[c] = "done" /\ attempt'[c] = attempt[c] /\ touch'[c] = "none"
  BY DEF IInv, TypeOK, Finish, Goto, Forget
<1>3. QED
  BY <1>1, <1>2 DEF Quiet, Locking

\* What a forward step does to the stage, the attempt and the answer.
LEMMA ProceedMoves ==
  ASSUME IInv, NEW c \in Calls, NEW s, Proceed(c, s)
  PROVE  /\ \A d \in Calls \ {c} : pc'[d] = pc[d]
         /\ pc'[c] = s /\ attempt' = attempt /\ reply' = reply
  BY DEF IInv, TypeOK, Proceed, Goto

\* A forward step is quiet when what it brings is covered by the
\* transaction or by the database.
LEMMA ForwardQuiet ==
  ASSUME IInv, NEW c \in Calls, NEW s, Proceed(c, s), UNCHANGED db,
         pc[c] # "done", s # "done",
         \A d \in Calls \ {c} : touch'[d] = touch[d] /\ group'[d] = group[d],
         s \in Locking => HoldsRow(c) \/ EntersRow(c),
         s = "commit" /\ touch'[c] = "opened" => EntersIncident(c),
         s \in {"load", "auto"} <=> pc[c] \in {"load", "auto"},
         s \in {"idle", "lookup", "insert", "link", "detect", "open", "extend"} => touch'[c] = "none",
         s = "auto" => touch'[c] # "none",
         s = "extend" \/ touch'[c] = "joined" => IncidentExists(group'[c]),
         s \in {"load", "auto"} /\ touch'[c] # "none" => IncidentExists(group'[c])
  PROVE  Quiet(c)
<1>1. /\ \A d \in Calls \ {c} : pc'[d] = pc[d]
      /\ pc'[c] = s /\ attempt' = attempt /\ reply' = reply
  BY ProceedMoves
<1>2. OnlyMoves(c)
  BY <1>1 DEF OnlyMoves
<1>3. reply'[c] = "open"
  BY <1>1 DEF IInv, Progress
<1>4. QED
  BY <1>1, <1>2, <1>3 DEF Quiet

\* The empty database.
LEMMA InitInv == Init => IInv
<1> SUFFICES ASSUME Init PROVE IInv
  OBVIOUS
<1>1. TypeOK
  BY TypeInit
<1>2. \A c \in Calls : pc[c] = "idle" /\ touch[c] = "none" /\ reply[c] = "open"
  BY DEF Init
<1>3. rows = {} /\ incidents = {} /\ acted = {}
  BY DEF Init
<1>4. KeyGuard /\ IncidentGuard /\ Progress /\ TouchedExists
  BY <1>2 DEF KeyGuard, IncidentGuard, Progress, TouchedExists, HoldsRow, Locking, HoldsIncident
<1>5. RowsArePast /\ ActedIsDone /\ ActedOnce /\ OneRowPerKey /\ OneIncidentPerGroup
  BY <1>3 DEF RowsArePast, ActedIsDone, ActedOnce, OneRowPerKey, OneIncidentPerGroup
<1>6. QED
  BY <1>1, <1>4, <1>5 DEF IInv

\* The three actions that are not quiet. A commit publishes the row and the
\* incident its transaction held the keys of.
LEMMA CommitInv ==
  ASSUME IInv, TypeOK', NEW c \in Calls, Commit(c)
  PROVE  IInv'
<1>0. /\ pc[c] = "commit" /\ HoldsRow(c)
      /\ rows' = rows \cup {<<c, attempt[c]>>}
      /\ acted' = acted /\ touch' = touch /\ group' = group /\ attempt' = attempt
      /\ reply' = reply /\ pc'[c] = "load"
      /\ \A d \in Calls \ {c} : pc'[d] = pc[d]
  BY ProceedMoves DEF Commit, HoldsRow, Locking, locals
<1>1. /\ TypeOK /\ KeyGuard /\ IncidentGuard /\ Progress /\ RowsArePast /\ TouchedExists
      /\ ActedIsDone /\ ActedOnce /\ OneRowPerKey /\ OneIncidentPerGroup
  BY DEF IInv
<1>2. \A g : IncidentExists(g) => IncidentExists(g)'
  BY DEF IncidentExists, Commit
<1>3. ~RowExists(c) /\ \A d \in Calls \ {c} : SameKey(c, d) => ~HoldsRow(d)
  BY <1>0, <1>1 DEF KeyGuard
<1>4. ~HoldsRow(c)' /\ \A d \in Calls \ {c} : HoldsRow(d)' <=> HoldsRow(d)
  BY <1>0 DEF HoldsRow, Locking
<1>5. KeyGuard'
  <2> SUFFICES ASSUME NEW d \in Calls, HoldsRow(d)'
               PROVE  /\ \A r \in rows' : ~SameKey(r[1], d)
                      /\ \A e \in Calls \ {d} : SameKey(d, e) => ~HoldsRow(e)'
    BY DEF KeyGuard, RowExists, SameKey
  <2>1. d # c /\ HoldsRow(d)
    BY <1>4
  <2>2. ~RowExists(d) /\ \A e \in Calls \ {d} : SameKey(d, e) => ~HoldsRow(e)
    BY <1>1, <2>1 DEF KeyGuard
  <2>3. ~SameKey(c, d)
    BY <1>3, <2>1
  <2>4. QED
    BY <1>0, <1>4, <2>2, <2>3 DEF RowExists
<1>6. IncidentGuard'
  <2> SUFFICES ASSUME NEW d \in Calls, pc'[d] = "commit", touch'[d] = "opened"
               PROVE  /\ \A i \in incidents' : i[3] # group'[d]
                      /\ \A e \in Calls \ {d} :
                           ~(pc'[e] = "commit" /\ touch'[e] = "opened" /\ group'[e] = group'[d])
    BY DEF IncidentGuard, HoldsIncident, IncidentExists
  <2>1. d # c /\ pc[d] = "commit" /\ touch[d] = "opened" /\ group'[d] = group[d]
    BY <1>0
  <2>2. /\ \A i \in incidents : i[3] # group[d]
        /\ \A e \in Calls \ {d} :
             ~(pc[e] = "commit" /\ touch[e] = "opened" /\ group[e] = group[d])
    BY <1>1, <2>1 DEF IncidentGuard, HoldsIncident, IncidentExists
  <2>3. touch[c] = "opened" => group[c] # group[d]
    BY <1>0, <2>1, <2>2
  <2>4. \A i \in incidents' : i[3] # group[d]
    BY <2>2, <2>3 DEF Commit
  <2>5. QED
    BY <1>0, <2>1, <2>2, <2>4
<1>7. Progress'
  BY <1>0, <1>1 DEF Progress
<1>8. RowsArePast'
  <2> SUFFICES ASSUME NEW r \in rows'
               PROVE  \/ r[2] # attempt[r[1]] /\ attempt[r[1]] = 2
                      \/ r[2] = attempt[r[1]] /\ pc'[r[1]] \in {"load", "auto", "done"}
    BY <1>0 DEF RowsArePast
  <2>1. CASE r \in rows
    BY <1>0, <1>1, <2>1 DEF RowsArePast, TypeOK
  <2>2. CASE r = <<c, attempt[c]>>
    BY <1>0, <2>2
  <2>3. QED
    BY <1>0, <2>1, <2>2
<1>9. TouchedExists'
  <2> SUFFICES ASSUME NEW d \in Calls
      PROVE  /\ pc'[d] \in {"idle", "lookup", "insert", "link", "detect", "open", "extend"} => touch[d] = "none"
             /\ pc'[d] = "auto" => touch[d] # "none"
             /\ pc'[d] = "extend" \/ touch[d] = "joined" => IncidentExists(group[d])'
             /\ pc'[d] \in {"load", "auto"} /\ touch[d] # "none" => IncidentExists(group[d])'
    BY <1>0 DEF TouchedExists, IncidentExists
  <2>0. IncidentExists(group[d]) => IncidentExists(group[d])'
    BY <1>0, <1>2 DEF IncidentExists
  <2>1. CASE d # c
    BY <1>0, <1>1, <2>0, <2>1 DEF TouchedExists
  <2>2. CASE d = c
    <3>0. touch[c] = "opened" => /\ <<c, attempt[c], group[c]>> \in incidents'
                                 /\ <<c, attempt[c], group[c]>>[3] = group'[c]
      BY <1>0 DEF Commit
    <3>1. touch[c] = "opened" => IncidentExists(group[c])'
      BY <3>0 DEF IncidentExists
    <3>2. touch[c] \in {"none", "opened", "joined"}
      BY <1>1 DEF TypeOK
    <3>3. QED
      BY <1>0, <1>1, <2>0, <2>2, <3>1, <3>2 DEF TouchedExists
  <2>3. QED
    BY <2>1, <2>2
<1>10. ActedIsDone'
  <2> SUFFICES ASSUME NEW a \in acted
      PROVE pc'[a[1]] = "done" /\ <<a[1], a[2]>> \in rows' /\ IncidentExists(a[3])'
    BY <1>0 DEF ActedIsDone, IncidentExists
  <2>1. pc[a[1]] = "done" /\ <<a[1], a[2]>> \in rows /\ IncidentExists(a[3])
    BY <1>1 DEF ActedIsDone
  <2>2. IncidentExists(a[3])'
    BY <1>0, <1>2, <2>1 DEF IncidentExists
  <2>3. a[1] \in Calls
    BY <1>1 DEF TypeOK
  <2>4. QED
    BY <1>0, <2>1, <2>2, <2>3
<1>11. ActedOnce'
  BY <1>0, <1>1 DEF ActedOnce
<1>12. OneRowPerKey'
  <2>1. \A r \in rows : ~SameKey(r[1], c)
    BY <1>3 DEF RowExists
  <2>2. QED
    BY <1>0, <1>1, <2>1 DEF OneRowPerKey, SameKey
<1>13. OneIncidentPerGroup'
  <2>1. CASE touch[c] = "opened"
    <3>1. \A i \in incidents : i[3] # group[c]
      BY <1>0, <1>1, <2>1 DEF IncidentGuard, HoldsIncident, IncidentExists
    <3>2. incidents' = incidents \cup {<<c, attempt[c], group[c]>>}
      BY <2>1 DEF Commit
    <3>3. QED
      BY <1>1, <3>1, <3>2 DEF OneIncidentPerGroup
  <2>2. CASE touch[c] # "opened"
    BY <1>1, <2>2 DEF Commit, OneIncidentPerGroup
  <2>3. QED
    BY <2>1, <2>2
<1>14. QED
  BY <1>5, <1>6, <1>7, <1>8, <1>9, <1>10, <1>11, <1>12, <1>13 DEF IInv

\* The call whose auto-actions commit is past its own commit, and was not
\* among the calls that have acted, which are done.
LEMMA AutoActionsInv ==
  ASSUME IInv, TypeOK', NEW c \in Calls, AutoActions(c)
  PROVE  IInv'
<1>0. /\ pc[c] = "auto" /\ rows' = rows /\ incidents' = incidents
      /\ \E a \in {"new", "error"} : Finish(c, a)
  BY DEF AutoActions
<1>1. CASE acted' = acted
  <2>1. UNCHANGED db
    BY <1>0, <1>1 DEF db
  <2>2. QED
    BY <1>0, <2>1, FinishQuiet, QuietStep
<1>2. CASE acted' = acted \cup {<<c, attempt[c], group[c]>>}
  <2>1. TypeOK /\ ActedIsDone /\ ActedOnce /\ Progress /\ TouchedExists /\ RowsArePast
    BY DEF IInv
  <2>2. pc'[c] = "done" /\ touch'[c] = "none" /\ attempt' = attempt
    BY <1>0, <2>1 DEF TypeOK, Finish, Goto, Forget
  <2>3. \A d \in Calls \ {c} : /\ pc'[d] = pc[d] /\ reply'[d] = reply[d]
                              /\ touch'[d] = touch[d] /\ group'[d] = group[d]
    BY <1>0, <2>1 DEF TypeOK, Finish, Goto, Forget
  <2>4. ~HoldsRow(c)' /\ \A d \in Calls \ {c} : HoldsRow(d)' <=> HoldsRow(d)
    BY <2>2, <2>3 DEF HoldsRow, Locking
  <2>5. KeyGuard'
    BY <1>0, <2>4 DEF IInv, KeyGuard, RowExists, SameKey
  <2>6. IncidentGuard'
    <3> SUFFICES ASSUME NEW d \in Calls, pc'[d] = "commit", touch'[d] = "opened"
                 PROVE  /\ \A i \in incidents : i[3] # group'[d]
                        /\ \A e \in Calls \ {d} :
                             ~(pc'[e] = "commit" /\ touch'[e] = "opened" /\ group'[e] = group'[d])
      BY <1>0 DEF IncidentGuard, HoldsIncident, IncidentExists
    <3>1. d # c /\ pc[d] = "commit" /\ touch[d] = "opened" /\ group'[d] = group[d]
      BY <2>2, <2>3
    <3>2. /\ \A i \in incidents : i[3] # group[d]
          /\ \A e \in Calls \ {d} :
               ~(pc[e] = "commit" /\ touch[e] = "opened" /\ group[e] = group[d])
      BY <3>1 DEF IInv, IncidentGuard, HoldsIncident, IncidentExists
    <3>3. QED
      BY <2>2, <2>3, <3>1, <3>2
  <2>7. Progress' /\ RowsArePast'
    BY <1>0, <2>1, <2>2, <2>3 DEF Progress, RowsArePast, TypeOK
  <2>8. TouchedExists'
    BY <1>0, <2>1, <2>2, <2>3 DEF TouchedExists, IncidentExists
  <2>9. <<c, attempt[c]>> \in rows /\ IncidentExists(group[c])
    BY <1>0, <2>1 DEF Progress, TouchedExists
  <2>10. ActedIsDone'
    <3> SUFFICES ASSUME NEW a \in acted'
        PROVE pc'[a[1]] = "done" /\ <<a[1], a[2]>> \in rows /\ IncidentExists(a[3])
      BY <1>0 DEF ActedIsDone, IncidentExists
    <3>1. CASE a \in acted
      BY <2>1, <2>2, <2>3, <3>1 DEF ActedIsDone, TypeOK
    <3>2. CASE a = <<c, attempt[c], group[c]>>
      BY <2>2, <2>9, <3>2
    <3>3. QED
      BY <1>2, <3>1, <3>2
  <2>11. ActedOnce'
    <3>1. \A a \in acted : a[1] # c
      BY <1>0, <2>1 DEF ActedIsDone
    <3>2. QED
      BY <1>2, <2>1, <3>1 DEF ActedOnce
  <2>12. OneRowPerKey' /\ OneIncidentPerGroup'
    BY <1>0 DEF IInv, OneRowPerKey, OneIncidentPerGroup, SameKey
  <2>13. QED
    BY <2>5, <2>6, <2>7, <2>8, <2>10, <2>11, <2>12 DEF IInv
<1>3. QED
  BY <1>1, <1>2 DEF AutoActions

\* A crash ends every running call and leaves the database alone.
LEMMA CrashInv ==
  ASSUME IInv, TypeOK', Crash
  PROVE  IInv'
<1>0. /\ rows' = rows /\ incidents' = incidents /\ acted' = acted /\ attempt' = attempt
      /\ \A c \in Calls : /\ pc'[c] \in {"idle", "done"} /\ touch'[c] = "none"
                          /\ pc'[c] = "idle" => pc[c] = "idle" /\ reply'[c] = reply[c]
                          /\ pc[c] = "done" => pc'[c] = "done"
                          /\ pc[c] \in {"load", "auto"} => pc'[c] = "done"
  BY DEF Crash, Running, db
<1>1. KeyGuard' /\ IncidentGuard' /\ TouchedExists'
  BY <1>0 DEF KeyGuard, IncidentGuard, TouchedExists, HoldsRow, Locking, HoldsIncident
<1>2. Progress'
  BY <1>0 DEF IInv, Progress
<1>3. RowsArePast'
  BY <1>0 DEF IInv, RowsArePast, TypeOK
<1>4. ActedIsDone' /\ ActedOnce'
  BY <1>0 DEF IInv, ActedIsDone, ActedOnce, TypeOK, IncidentExists
<1>5. OneRowPerKey' /\ OneIncidentPerGroup'
  BY <1>0 DEF IInv, OneRowPerKey, OneIncidentPerGroup, SameKey
<1>6. QED
  BY <1>1, <1>2, <1>3, <1>4, <1>5 DEF IInv

\* Every step keeps the invariant.
LEMMA StepInv == ASSUME IInv, [Next]_vars PROVE IInv'
<1>0. TypeOK /\ TypeOK'
  BY TypeStep DEF IInv
<1>1. ASSUME NEW c \in Calls, Submit(c) PROVE IInv'
  <2>1. pc[c] = "idle" /\ Proceed(c, "lookup") /\ touch' = touch /\ group' = group /\ UNCHANGED db
    BY <1>1 DEF Submit, locals, db
  <2>2. touch[c] = "none"
    BY <2>1 DEF IInv, TouchedExists
  <2>3. Quiet(c)
    BY <2>1, <2>2, ForwardQuiet DEF Locking
  <2>4. QED
    BY <2>3, <1>0, QuietStep
<1>2. ASSUME NEW c \in Calls, Lookup(c) PROVE IInv'
  <2>0. pc[c] = "lookup" /\ UNCHANGED db
    BY <1>2 DEF Lookup, db
  <2>1. CASE RowExists(c)
    BY <1>0, <1>2, <2>0, <2>1, FinishQuiet, QuietStep DEF Lookup
  <2>2. CASE ~RowExists(c)
    <3>1. Proceed(c, "insert") /\ touch' = touch /\ group' = group
      BY <1>2, <2>2 DEF Lookup, locals
    <3>2. touch[c] = "none"
      BY <2>0 DEF IInv, TouchedExists
    <3>3. Quiet(c)
      BY <2>0, <3>1, <3>2, ForwardQuiet DEF Locking
    <3>4. QED
      BY <3>3, <1>0, QuietStep
  <2>3. QED
    BY <2>1, <2>2
<1>3. ASSUME NEW c \in Calls, Insert(c) PROVE IInv'
  <2>0. pc[c] = "insert" /\ UNCHANGED db /\ WaitsFor(c) = {}
    BY <1>3 DEF Insert, db
  <2>1. CASE RowExists(c)
    BY <1>0, <1>3, <2>0, <2>1, FinishQuiet, QuietStep DEF Insert
  <2>2. CASE ~RowExists(c)
    <3>1. EntersRow(c)
      BY <2>0, <2>2 DEF WaitsFor, EntersRow
    <3>2. PICK s \in {"detect", "link"} : Proceed(c, s)
      BY <1>3, <2>2 DEF Insert
    <3>3. touch' = touch /\ group' = group
      BY <1>3, <2>2 DEF Insert, locals
    <3>4. touch[c] = "none"
      BY <2>0 DEF IInv, TouchedExists
    <3>5. Quiet(c)
      BY <2>0, <3>1, <3>2, <3>3, <3>4, ForwardQuiet
    <3>6. QED
      BY <3>5, <1>0, QuietStep
  <2>3. QED
    BY <2>1, <2>2
<1>4. ASSUME NEW c \in Calls, Link(c) PROVE IInv'
  <2>1. pc[c] = "link" /\ touch' = touch /\ group' = group /\ UNCHANGED db
    BY <1>4 DEF Link, db
  <2>2. PICK s \in {"detect", "link"} : Proceed(c, s)
    BY <1>4 DEF Link
  <2>3. touch[c] = "none" /\ HoldsRow(c)
    BY <2>1 DEF IInv, TouchedExists, HoldsRow, Locking
  <2>4. Quiet(c)
    BY <2>1, <2>2, <2>3, ForwardQuiet
  <2>5. QED
    BY <2>4, <1>0, QuietStep
<1>5. ASSUME NEW c \in Calls, DetectNothing(c) PROVE IInv'
  <2>1. /\ pc[c] = "detect" /\ Proceed(c, "commit") /\ touch' = touch
        /\ group' = group /\ UNCHANGED db
    BY <1>5 DEF DetectNothing, locals, db
  <2>2. touch[c] = "none" /\ HoldsRow(c)
    BY <2>1 DEF IInv, TouchedExists, HoldsRow, Locking
  <2>3. Quiet(c)
    BY <2>1, <2>2, ForwardQuiet
  <2>4. QED
    BY <2>3, <1>0, QuietStep
<1>6. ASSUME NEW c \in Calls, Correlate(c) PROVE IInv'
  <2>0. pc[c] = "detect" /\ UNCHANGED db
    BY <1>6 DEF Correlate, db
  <2>1. PICK g \in GroupsOf[c] \ Standalone : Correlate(c)!2!(g)
    BY <1>6 DEF Correlate
  <2>2. group'[c] = g /\ \A d \in Calls \ {c} : group'[d] = group[d]
    BY <1>0, <2>1 DEF TypeOK
  <2>3. touch[c] = "none" /\ HoldsRow(c)
    BY <2>0 DEF IInv, TouchedExists, HoldsRow, Locking
  <2>4. CASE IncidentExists(g)
    <3>1. /\ Proceed(c, "commit") /\ touch'[c] = "joined"
          /\ \A d \in Calls \ {c} : touch'[d] = touch[d]
      BY <1>0, <2>1, <2>4 DEF TypeOK
    <3>2. Quiet(c)
      BY <2>0, <2>2, <2>3, <2>4, <3>1, ForwardQuiet
    <3>3. QED
      BY <3>2, <1>0, QuietStep
  <2>5. CASE ~IncidentExists(g)
    <3>1. Proceed(c, "open") /\ touch' = touch
      BY <2>1, <2>5
    <3>2. Quiet(c)
      BY <2>0, <2>2, <2>3, <3>1, ForwardQuiet
    <3>3. QED
      BY <3>2, <1>0, QuietStep
  <2>6. QED
    BY <2>4, <2>5
<1>7. ASSUME NEW c \in Calls, ClaimHour(c) PROVE IInv'
  <2>0. pc[c] = "detect" /\ UNCHANGED db /\ touch' = touch
    BY <1>7 DEF ClaimHour, db
  <2>1. PICK g \in GroupsOf[c] \cap Standalone : ClaimHour(c)!2!(g)
    BY <1>7 DEF ClaimHour
  <2>2. \A d \in Calls \ {c} : group'[d] = group[d]
    BY <1>0, <2>1 DEF TypeOK
  <2>3. PICK s \in {"commit", "open"} : Proceed(c, s)
    BY <2>1
  <2>4. touch[c] = "none" /\ HoldsRow(c)
    BY <2>0 DEF IInv, TouchedExists, HoldsRow, Locking
  <2>5. Quiet(c)
    BY <2>0, <2>2, <2>3, <2>4, ForwardQuiet
  <2>6. QED
    BY <2>5, <1>0, QuietStep
<1>8. ASSUME NEW c \in Calls, Open(c) PROVE IInv'
  <2>0. pc[c] = "open" /\ UNCHANGED db /\ WaitsFor(c) = {}
    BY <1>8 DEF Open, db
  <2>1. CASE IncidentExists(group[c])
    BY <1>0, <1>8, <2>0, <2>1, FinishQuiet, QuietStep DEF Open
  <2>2. CASE ~IncidentExists(group[c])
    <3>1. /\ Proceed(c, "commit") /\ touch'[c] = "opened" /\ group' = group
          /\ \A d \in Calls \ {c} : touch'[d] = touch[d]
      BY <1>0, <1>8, <2>2 DEF TypeOK, Open
    <3>2. EntersIncident(c)
      BY <2>0, <2>2, <3>1 DEF WaitsFor, EntersIncident
    <3>3. HoldsRow(c)
      BY <2>0 DEF HoldsRow, Locking
    <3>4. Quiet(c)
      BY <2>0, <3>1, <3>2, <3>3, ForwardQuiet
    <3>5. QED
      BY <3>4, <1>0, QuietStep
  <2>3. QED
    BY <2>1, <2>2
<1>9. ASSUME NEW c \in Calls, Commit(c) PROVE IInv'
  BY <1>0, <1>9, CommitInv
<1>10. ASSUME NEW c \in Calls, Load(c) PROVE IInv'
  <2>0. pc[c] = "load" /\ UNCHANGED db
    BY <1>10 DEF Load, db
  <2>1. CASE touch[c] = "none"
    BY <1>0, <1>10, <2>0, <2>1, FinishQuiet, QuietStep DEF Load
  <2>2. CASE touch[c] # "none"
    <3>1. Proceed(c, "auto") /\ touch' = touch /\ group' = group
      BY <1>10, <2>2 DEF Load, locals
    <3>2. IncidentExists(group[c])
      BY <2>0, <2>2 DEF IInv, TouchedExists
    <3>3. Quiet(c)
      BY <2>0, <2>2, <3>1, <3>2, ForwardQuiet DEF Locking
    <3>4. QED
      BY <3>3, <1>0, QuietStep
  <2>3. QED
    BY <2>1, <2>2
<1>11. ASSUME NEW c \in Calls, AutoActions(c) PROVE IInv'
  BY <1>0, <1>11, AutoActionsInv
<1>12. ASSUME NEW c \in Calls, ConnectionLost(c) PROVE IInv'
  <2>0. UNCHANGED db /\ pc[c] # "done" /\ UsesDb(c)
    BY <1>12 DEF ConnectionLost, UsesDb, Locking, db
  <2>1. CASE attempt[c] = 1
    <3>1. OnlyMoves(c)
      BY <1>0, <1>12, <2>1 DEF TypeOK, ConnectionLost, OnlyMoves, Goto, Forget
    <3>2. pc'[c] = "lookup" /\ attempt'[c] = 2 /\ touch'[c] = "none" /\ reply' = reply
      BY <1>0, <1>12, <2>1 DEF TypeOK, ConnectionLost, Goto, Forget
    <3>3. reply[c] = "open"
      BY <2>0 DEF IInv, Progress
    <3>4. Quiet(c)
      BY <2>0, <2>1, <3>1, <3>2, <3>3 DEF Quiet, Locking
    <3>5. QED
      BY <3>4, <1>0, QuietStep
  <2>2. CASE attempt[c] # 1
    BY <1>0, <1>12, <2>0, <2>2, FinishQuiet, QuietStep DEF ConnectionLost
  <2>3. QED
    BY <2>1, <2>2
<1>13. ASSUME NEW c \in Calls, StatementFails(c) PROVE IInv'
  <2>1. UNCHANGED db /\ pc[c] # "done" /\ Finish(c, "error")
    BY <1>13 DEF StatementFails, UsesDb, Locking, db
  <2>2. QED
    BY <1>0, <2>1, FinishQuiet, QuietStep
<1>14. ASSUME NEW c \in Calls, DeadlockVictim(c) PROVE IInv'
  <2>1. UNCHANGED db /\ pc[c] # "done" /\ Finish(c, "error")
    BY <1>14 DEF DeadlockVictim, WaitsFor, db
  <2>2. QED
    BY <1>0, <2>1, FinishQuiet, QuietStep
<1>15. ASSUME Crash PROVE IInv'
  BY <1>0, <1>15, CrashInv
<1>16. ASSUME NEW c \in Calls, Join(c) PROVE IInv'
  <2>0. pc[c] = "detect" /\ UNCHANGED db /\ touch' = touch /\ Proceed(c, "extend")
    BY <1>16 DEF Join, db
  <2>1. PICK g \in JoinsOf[c] : IncidentExists(g) /\ group' = [group EXCEPT ![c] = g]
    BY <1>16 DEF Join
  <2>2. group'[c] = g /\ \A d \in Calls \ {c} : group'[d] = group[d]
    BY <1>0, <2>1 DEF TypeOK
  <2>3. touch[c] = "none" /\ HoldsRow(c)
    BY <2>0 DEF IInv, TouchedExists, HoldsRow, Locking
  <2>4. Quiet(c)
    BY <2>0, <2>1, <2>2, <2>3, ForwardQuiet DEF Locking
  <2>5. QED
    BY <2>4, <1>0, QuietStep
<1>17. ASSUME NEW c \in Calls, Extend(c) PROVE IInv'
  <2>0. pc[c] = "extend" /\ UNCHANGED db /\ group' = group /\ Proceed(c, "commit")
    BY <1>17 DEF Extend, db
  <2>1. touch'[c] = "joined" /\ \A d \in Calls \ {c} : touch'[d] = touch[d]
    BY <1>0, <1>17 DEF TypeOK, Extend
  <2>2. IncidentExists(group[c]) /\ HoldsRow(c)
    BY <2>0 DEF IInv, TouchedExists, HoldsRow, Locking
  <2>3. Quiet(c)
    BY <2>0, <2>1, <2>2, ForwardQuiet
  <2>4. QED
    BY <2>3, <1>0, QuietStep
<1>18. CASE UNCHANGED vars
  BY <1>18 DEF vars, IInv, TypeOK, KeyGuard, IncidentGuard, Progress, RowsArePast, TouchedExists,
     ActedIsDone, ActedOnce, OneRowPerKey, OneIncidentPerGroup, HoldsRow, Locking, HoldsIncident,
     RowExists, IncidentExists, SameKey
<1>19. QED
  BY <1>1, <1>2, <1>3, <1>4, <1>5, <1>6, <1>7, <1>8, <1>9, <1>10, <1>11,
     <1>12, <1>13, <1>14, <1>15, <1>16, <1>17, <1>18 DEF Next, Step, Fault

\* The invariant behind the properties below.
THEOREM InvCorrect == Spec => []IInv
  BY InitInv, StepInv, PTL DEF Spec

\* Concurrent calls, retries and replays with one dedupe key leave one row.
THEOREM RowsUnique == Spec => []OneRowPerKey
<1>1. IInv => OneRowPerKey
  BY DEF IInv
<1>2. QED
  BY <1>1, InvCorrect, PTL

\* One correlation key has one incident, whatever Redis answers.
THEOREM IncidentsUnique == Spec => []OneIncidentPerGroup
<1>1. IInv => OneIncidentPerGroup
  BY DEF IInv
<1>2. QED
  BY <1>1, InvCorrect, PTL

\* Auto-actions run on committed data, and once for a dedupe key.
THEOREM AutoActionsUnique == Spec => []AutoActionsOncePerEvent
<1>1. IInv => AutoActionsOncePerEvent
  <2> SUFFICES ASSUME IInv PROVE AutoActionsOncePerEvent
    OBVIOUS
  <2>1. \A a \in acted : <<a[1], a[2]>> \in rows /\ IncidentExists(a[3])
    BY DEF IInv, ActedIsDone
  <2>2. ASSUME NEW a \in acted, NEW b \in acted, SameKey(a[1], b[1]) PROVE a = b
    <3>1. <<a[1], a[2]>> = <<b[1], b[2]>>
      BY <2>1, <2>2 DEF IInv, OneRowPerKey, SameKey
    <3>2. QED
      BY <3>1 DEF IInv, ActedOnce
  <2>3. QED
    BY <2>1, <2>2 DEF AutoActionsOncePerEvent
<1>2. QED
  BY <1>1, InvCorrect, PTL

-----------------------------------------------------------------------------
(* Every step of the pipeline is a step of EventIntake or a stutter. *)

\* A commit stores a row with a fresh key.
LEMMA StoreRefines ==
  ASSUME IInv, NEW c \in Calls, Commit(c)
  PROVE  Intake!Store(c)
<1>1. pc[c] = "commit" /\ HoldsRow(c) /\ reply' = reply /\ attempt[c] \in {1, 2}
  BY DEF Commit, Proceed, HoldsRow, Locking, IInv, TypeOK, Attempts
<1>2. reply[c] = "open"
  BY <1>1 DEF IInv, Progress
<1>3. \A r \in rows : ~SameKey(r[1], c)
  BY <1>1 DEF IInv, KeyGuard, RowExists
<1>4. <<c, attempt[c]>> \notin rows
  BY <1>1 DEF IInv, RowsArePast
<1>5. rows' = rows \cup {<<c, attempt[c]>>}
  BY DEF Commit
<1>6. QED
  BY <1>1, <1>2, <1>3, <1>4, <1>5 DEF Intake!Store, Intake!SameKey, SameKey, Intake!Attempts

\* A call that ends answers what is true.
LEMMA AnswerRefines ==
  ASSUME IInv, NEW c \in Calls, NEW a, Finish(c, a), rows' = rows, pc[c] # "done",
         \/ a = "error"
         \/ a = "dup" /\ RowExists(c)
         \/ a = "new" /\ <<c, attempt[c]>> \in rows
  PROVE  Intake!Answer(c)
<1>1. reply[c] = "open"
  BY DEF IInv, Progress
<1>2. reply' = [reply EXCEPT ![c] = a]
  BY DEF Finish
<1>3. a = "dup" => \E r \in rows : Intake!SameKey(r[1], c)
  BY DEF RowExists, SameKey, Intake!SameKey
<1>4. a = "new" => \E r \in rows : r[1] = c
  OBVIOUS
<1>5. QED
  BY <1>1, <1>2, <1>3, <1>4 DEF Intake!Answer, Intake!AnswerWith

\* Every step is one of the promise, or none.
LEMMA IntakeStep ==
  ASSUME IInv, [Next]_vars
  PROVE  [Intake!Next]_(Intake!vars)
<1>a. ASSUME rows' = rows, reply' = reply PROVE UNCHANGED Intake!vars
  BY <1>a DEF Intake!vars
<1>b. ASSUME NEW c \in Calls, Intake!Store(c) \/ Intake!Answer(c) PROVE Intake!Next
  BY <1>b DEF Intake!Next
<1>1. ASSUME NEW c \in Calls, Submit(c) PROVE UNCHANGED Intake!vars
  BY <1>1, <1>a DEF Submit, Proceed, db
<1>2. ASSUME NEW c \in Calls, Lookup(c) PROVE [Intake!Next]_(Intake!vars)
  <2>1. pc[c] # "done" /\ rows' = rows
    BY <1>2 DEF Lookup, db
  <2>2. CASE RowExists(c)
    BY <1>2, <1>b, <2>1, <2>2, AnswerRefines DEF Lookup
  <2>3. CASE ~RowExists(c)
    BY <1>2, <1>a, <2>1, <2>3 DEF Lookup, Proceed
  <2>4. QED
    BY <2>2, <2>3
<1>3. ASSUME NEW c \in Calls, Insert(c) PROVE [Intake!Next]_(Intake!vars)
  <2>1. pc[c] # "done" /\ rows' = rows
    BY <1>3 DEF Insert, db
  <2>2. CASE RowExists(c)
    BY <1>3, <1>b, <2>1, <2>2, AnswerRefines DEF Insert
  <2>3. CASE ~RowExists(c)
    BY <1>3, <1>a, <2>1, <2>3 DEF Insert, Proceed
  <2>4. QED
    BY <2>2, <2>3
<1>4. ASSUME NEW c \in Calls, Link(c) \/ DetectNothing(c) PROVE UNCHANGED Intake!vars
  BY <1>4, <1>a DEF Link, DetectNothing, Proceed, db
<1>5. ASSUME NEW c \in Calls, Correlate(c) PROVE UNCHANGED Intake!vars
  BY <1>5, <1>a DEF Correlate, Proceed, db
<1>6. ASSUME NEW c \in Calls, ClaimHour(c) PROVE UNCHANGED Intake!vars
  BY <1>6, <1>a DEF ClaimHour, Proceed, db
<1>7. ASSUME NEW c \in Calls, Open(c) PROVE [Intake!Next]_(Intake!vars)
  <2>1. pc[c] # "done" /\ rows' = rows
    BY <1>7 DEF Open, db
  <2>2. CASE IncidentExists(group[c])
    BY <1>7, <1>b, <2>1, <2>2, AnswerRefines DEF Open
  <2>3. CASE ~IncidentExists(group[c])
    BY <1>7, <1>a, <2>1, <2>3 DEF Open, Proceed
  <2>4. QED
    BY <2>2, <2>3
<1>8. ASSUME NEW c \in Calls, Commit(c) PROVE Intake!Next
  BY <1>8, <1>b, StoreRefines
<1>9. ASSUME NEW c \in Calls, Load(c) PROVE [Intake!Next]_(Intake!vars)
  <2>1. pc[c] = "load" /\ rows' = rows
    BY <1>9 DEF Load, db
  <2>2. CASE touch[c] = "none"
    <3>1. <<c, attempt[c]>> \in rows
      BY <2>1 DEF IInv, Progress
    <3>2. QED
      BY <1>9, <1>b, <2>1, <2>2, <3>1, AnswerRefines DEF Load
  <2>3. CASE touch[c] # "none"
    BY <1>9, <1>a, <2>1, <2>3 DEF Load, Proceed
  <2>4. QED
    BY <2>2, <2>3
<1>10. ASSUME NEW c \in Calls, AutoActions(c) PROVE Intake!Next
  <2>1. pc[c] = "auto" /\ rows' = rows /\ \E a \in {"new", "error"} : Finish(c, a)
    BY <1>10 DEF AutoActions
  <2>2. <<c, attempt[c]>> \in rows
    BY <2>1 DEF IInv, Progress
  <2>3. QED
    BY <1>b, <2>1, <2>2, AnswerRefines
<1>11. ASSUME NEW c \in Calls, ConnectionLost(c) PROVE [Intake!Next]_(Intake!vars)
  <2>1. pc[c] # "done" /\ rows' = rows
    BY <1>11 DEF ConnectionLost, UsesDb, Locking, db
  <2>2. CASE attempt[c] = 1
    BY <1>11, <1>a, <2>1, <2>2 DEF ConnectionLost
  <2>3. CASE attempt[c] # 1
    BY <1>11, <1>b, <2>1, <2>3, AnswerRefines DEF ConnectionLost
  <2>4. QED
    BY <2>2, <2>3
<1>12. ASSUME NEW c \in Calls, StatementFails(c) \/ DeadlockVictim(c) PROVE Intake!Next
  <2>1. pc[c] # "done" /\ rows' = rows /\ Finish(c, "error")
    BY <1>12 DEF StatementFails, DeadlockVictim, UsesDb, Locking, WaitsFor, db
  <2>2. QED
    BY <1>b, <2>1, AnswerRefines
<1>13. ASSUME Crash PROVE Intake!Next
  <2>1. \A c \in Calls : Running(c) => reply[c] = "open"
    BY DEF Running, IInv, Progress
  <2>2. rows' = rows
    BY <1>13 DEF Crash, db
  <2>3. {c \in Calls : Running(c)} \in SUBSET {c \in Calls : reply[c] = "open"}
    BY <2>1
  <2>4. reply' = [c \in Calls |-> IF c \in {d \in Calls : Running(d)} THEN "lost" ELSE reply[c]]
    BY <1>13 DEF Crash
  <2>5. Intake!Lose
    BY <2>2, <2>3, <2>4 DEF Intake!Lose
  <2>6. QED
    BY <2>5 DEF Intake!Next
<1>14. ASSUME NEW c \in Calls, Join(c) \/ Extend(c) PROVE UNCHANGED Intake!vars
  BY <1>14, <1>a DEF Join, Extend, Proceed, db
<1>15. CASE UNCHANGED vars
  BY <1>15, <1>a DEF vars
<1>16. QED
  BY <1>1, <1>2, <1>3, <1>4, <1>5, <1>6, <1>7, <1>8, <1>9, <1>10, <1>11,
     <1>12, <1>13, <1>14, <1>15 DEF Next, Step, Fault

\* The pipeline, with its retries, waits, deadlocks and crashes, keeps the
\* promise of EventIntake to its callers.
THEOREM PipelineImplementsIntake == Spec => ImplementsIntake
<1>1. Init => Intake!Init
  BY DEF Init, Intake!Init
<1>2. IInv /\ [Next]_vars => [Intake!Next]_(Intake!vars)
  BY IntakeStep
<1>3. QED
  BY <1>1, <1>2, InvCorrect, PTL DEF Spec, ImplementsIntake, Intake!Spec
=============================================================================
