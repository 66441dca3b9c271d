---------------------------- MODULE EventIntake ----------------------------
(***************************************************************************)
(* What the ingest path promises its callers, whatever happens inside it:  *)
(* an event with a dedupe key becomes at most one row, a call is answered  *)
(* at most once, "new" is answered only for a row this call committed, and *)
(* "dup" only when a row with the same key is committed.                   *)
(* IngestPipeline is shown to implement this specification.                *)
(***************************************************************************)
EXTENDS Naturals

CONSTANTS Calls,  \* calls of ingest_normalized_event, each carrying one event
          NoKey,  \* an event whose dedupe_key is None
          KeyOf   \* the dedupe key of the event of each call

VARIABLES rows,   \* committed rows of table events: <<call, attempt>> pairs
          reply   \* what each call has answered

vars == <<rows, reply>>

Attempts == {1, 2}
Replies == {"open", "new", "dup", "error", "lost"}

SameKey(c, d) == KeyOf[c] # NoKey /\ KeyOf[c] = KeyOf[d]

Init == /\ rows = {}
        /\ reply = [c \in Calls |-> "open"]

\* A call stores its event, unless its key is already stored.
Store(c) == /\ reply[c] = "open"
            /\ \A r \in rows : ~SameKey(r[1], c)
            /\ \E n \in Attempts : /\ <<c, n>> \notin rows
                                   /\ rows' = rows \cup {<<c, n>>}
            /\ UNCHANGED reply

AnswerWith(c, a) == /\ reply' = [reply EXCEPT ![c] = a]
                    /\ UNCHANGED rows

Answer(c) == /\ reply[c] = "open"
             /\ \/ /\ \E r \in rows : r[1] = c
                   /\ AnswerWith(c, "new")
                \/ /\ \E r \in rows : SameKey(r[1], c)
                   /\ AnswerWith(c, "dup")
                \/ AnswerWith(c, "error")

\* The process dies: any set of unanswered calls never gets an answer.
Lose == \E D \in SUBSET {c \in Calls : reply[c] = "open"} :
           /\ reply' = [c \in Calls |-> IF c \in D THEN "lost" ELSE reply[c]]
           /\ UNCHANGED rows

Next == \/ \E c \in Calls : Store(c) \/ Answer(c)
        \/ Lose

Spec == Init /\ [][Next]_vars
=============================================================================
