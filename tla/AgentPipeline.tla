---------------------------- MODULE AgentPipeline ----------------------------
(***************************************************************************)
(* The telemetry agent cct_agent: a source that tails one log file behind  *)
(* a checkpoint, parses its lines and enqueues events, and the shipper     *)
(* that posts them to the backend.  One asyncio loop runs both; a source   *)
(* never suspends while it works off the lines of a read, so the shipper   *)
(* gets no turn before their end (guard Free).                             *)
(*                                                                         *)
(* The log, its rotation and truncation and the network are the            *)
(* environment; the process may be stopped, killed and restarted.  The     *)
(* three sources differ in PerEvent: a line of sshd or conntrack is an     *)
(* event, an event of auditd ends with its last record.                    *)
(***************************************************************************)
EXTENDS Naturals, FiniteSets, Sequences, SequencesExt

CONSTANTS Kind,      \* of each event, in the order of the log: see Kinds
          Pid, Ppid, \* of each event; 0 for none
          PerEvent,  \* records of an event
          Bad,       \* lines with bytes that are not UTF-8
          Gated,     \* the source is started only if its file exists
          QueueMax, BatchSize, MaxAttempts, TableSize,
          MaxFaults, \* bound on failed posts, saves and loads
          MaxTurns,  \* bound on rotations and truncations
          MaxStops   \* bound on stops and kills

\* "line": sshd, conntrack; "broken": created, but build_event raises; "noise":
\* the parser makes nothing of it.
Kinds == {"line", "created", "broken", "exited", "noise"}
Events == DOMAIN Kind
Lines == 1..(PerEvent * Len(Kind))
Fragment == 0   \* what is left of a line read from inside

ASSUME AgentAssumption ==
  /\ Kind \in Seq(Kinds) /\ PerEvent \in Nat \ {0} /\ Gated \in BOOLEAN
  /\ Pid \in [Events -> Nat] /\ Ppid \in [Events -> Nat] /\ Bad \subseteq Lines
  /\ {QueueMax, BatchSize, MaxAttempts, TableSize} \subseteq Nat \ {0}
  /\ {MaxFaults, MaxTurns, MaxStops} \subseteq Nat

VARIABLES
  file,     \* the log: exists, inode, its lines, a line is begun
  written,  \* lines written so far
  disk, cp, \* the checkpoint on disk and in memory: inode (0: None), offset
  pc,       \* of the source task: down, off, poll, read, feed, ended
  got, newOffset, \* lines read and not worked off, end_offset
  buf,      \* AuditdParser._buf: events whose first record is in
  tracked,  \* TrackedProcesses._cache, least recent first
  queue, batch, sending, attempt,  \* of the shipper
  failed, dropped, \* its counters
  stop,     \* stop_event
  store,    \* events the backend has
  fed,      \* history: lines given to the parser, in any life
  out,      \* history: events enqueued in this life
  cut, stale, \* history: the log has been truncated, or replaced by one with its
            \* inode, since the last poll, since the last save
  hidden,   \* history: lines behind the offset when that was not noticed
  faults, turns, stops

log == <<file, written>>
tail == <<cp, pc, got, newOffset>>
parser == <<buf, tracked>>
ship == <<queue, batch, sending, attempt, failed, dropped>>
history == <<fed, out, cut, stale, hidden>>
bounds == <<faults, turns, stops>>
vars == <<log, disk, tail, parser, ship, stop, store, history, bounds>>

\* Offsets count half lines.
Size == 2 * Len(file.lines) + (IF file.begun THEN 1 ELSE 0)
LineStart(i) == 2 * (i - 1)
\* len(line.encode()) of the decoded line: a replaced byte has become three.
Width(l) == IF l = Fragment THEN 1 ELSE IF l \in Bad THEN 3 ELSE 2

EventOf(l) == ((l - 1) \div PerEvent) + 1
Opens(l) == l = PerEvent * (EventOf(l) - 1) + 1
Ends(l) == l = PerEvent * EventOf(l)

Fault == faults < MaxFaults /\ faults' = faults + 1
Free == pc \notin {"down", "feed"}

Cold == [inode |-> 0, offset |-> 0]

Init == /\ file = [exists |-> TRUE, inode |-> 1, lines |-> <<>>, begun |-> FALSE]
        /\ written = 0 /\ disk = Cold /\ cp = Cold
        /\ pc = "down" /\ got = <<>> /\ newOffset = 0
        /\ buf = {} /\ tracked = <<>>
        /\ queue = <<>> /\ batch = <<>> /\ sending = FALSE /\ attempt = 0
        /\ failed = 0 /\ dropped = 0 /\ stop = FALSE /\ store = {}
        /\ fed = {} /\ out = {} /\ cut = FALSE /\ stale = FALSE /\ hidden = {}
        /\ faults = 0 /\ turns = 0 /\ stops = 0

-----------------------------------------------------------------------------
(* The log. *)

Begin == /\ file.exists /\ ~file.begun /\ written + 1 \in Lines
         /\ file' = [file EXCEPT !.begun = TRUE]
         /\ UNCHANGED <<written, disk, tail, parser, ship, stop, store, history, bounds>>

Complete == /\ file.begun
            /\ file' = [file EXCEPT !.begun = FALSE, !.lines = Append(@, written + 1)]
            /\ written' = written + 1
            /\ UNCHANGED <<disk, tail, parser, ship, stop, store, history, bounds>>

\* The log is renamed or taken away, and a line that is begun ends there.
Rotate == /\ file.exists /\ turns < MaxTurns
          /\ file' = [file EXCEPT !.exists = FALSE, !.lines = <<>>, !.begun = FALSE]
          /\ written' = IF file.begun THEN written + 1 ELSE written
          /\ turns' = turns + 1
          /\ UNCHANGED <<disk, tail, parser, ship, stop, store, history, faults, stops>>

\* A new log appears.  It may have been given an inode that was free again: then
\* it looks like the old one, truncated.
Create == /\ ~file.exists
          /\ \E n \in 1..(file.inode + 1) :
               /\ file' = [file EXCEPT !.exists = TRUE, !.inode = n]
               /\ cut' = (n = cp.inode) /\ stale' = (n = disk.inode)
          /\ UNCHANGED <<written, disk, tail, parser, ship, stop, store, fed, out, hidden,
                         bounds>>

\* Between two lines: the rest of a line cut in two would be one of its own.
Truncate == /\ file.exists /\ ~file.begun /\ file.lines # <<>> /\ turns < MaxTurns
            /\ file' = [file EXCEPT !.lines = <<>>]
            /\ cut' = TRUE /\ stale' = TRUE
            /\ turns' = turns + 1
            /\ UNCHANGED <<written, disk, tail, parser, ship, stop, store, fed, out, hidden,
                           faults, stops>>

-----------------------------------------------------------------------------
(* The source: tail_lines and the loop around it. *)

\* Mutant of Poll: a file shorter than the offset is read from there.
PollLonger == /\ pc = "poll" /\ file.exists
              /\ LET off == IF cp.inode \in {0, file.inode} THEN cp.offset ELSE 0
                 IN /\ cp' = [inode |-> file.inode, offset |-> off]
                    /\ pc' = IF Size = off THEN "poll" ELSE "read"
              /\ cut' = FALSE
              /\ UNCHANGED <<log, disk, got, newOffset, parser, ship, stop, store, fed, out,
                             stale, hidden, bounds>>

\* The top of the loop: stat, rotation, truncation, anything new.
Poll == /\ pc = "poll" /\ file.exists
        /\ LET same == cp.inode \in {0, file.inode}
               off == IF same /\ Size >= cp.offset THEN cp.offset ELSE 0
           IN /\ cp' = [inode |-> file.inode, offset |-> off]
              /\ pc' = IF Size = off THEN "poll" ELSE "read"
              /\ hidden' = IF cut THEN hidden \cup
                             {file.lines[i] : i \in {j \in DOMAIN file.lines : LineStart(j) < off}}
                           ELSE hidden
        /\ cut' = FALSE
        /\ UNCHANGED <<log, disk, got, newOffset, parser, ship, stop, store, fed, out, stale,
                       bounds>>

\* The lines _read_complete_lines finds in the file of now.
LinesFrom(o) == LET from == (o \div 2) + 1
                    s == SubSeq(file.lines, from, Len(file.lines))
                IN IF o % 2 = 1 /\ s # <<>> THEN <<Fragment>> \o Tail(s) ELSE s

\* Mutant of Read: end_offset is the end of the file, a begun line included.
ReadToEnd == /\ pc = "read" /\ file.exists
             /\ pc' = "feed"
             /\ got' = LinesFrom(cp.offset)
             /\ newOffset' = IF got' = <<>> THEN cp.offset ELSE Size
             /\ UNCHANGED <<log, disk, cp, parser, ship, stop, store, history, bounds>>

Read == /\ pc = "read" /\ file.exists
        /\ pc' = "feed"
        /\ got' = LinesFrom(cp.offset)
        /\ newOffset' = IF got' = <<>> THEN cp.offset ELSE 2 * Len(file.lines)
        /\ UNCHANGED <<log, disk, cp, parser, ship, stop, store, history, bounds>>

\* The file is gone between stat and open: the source raises, the agent ends.
ReadRaises == /\ pc = "read" /\ ~file.exists
              /\ pc' = "ended" /\ stop' = TRUE
              /\ UNCHANGED <<log, disk, cp, got, newOffset, parser, ship, store, history,
                             bounds>>

\* feed: an event is assembled at its last record if the first one is there.
Parsed(l) == /\ l # Fragment /\ Ends(l) /\ Kind[EventOf(l)] # "noise"
             /\ Opens(l) \/ EventOf(l) \in buf

Buffered(l) == IF l = Fragment THEN buf
               ELSE {e \in buf \cup {EventOf(l)} :
                       e = EventOf(l) => ~Ends(l) /\ (Opens(l) \/ e \in buf)}

\* A pid is in the table at most once.
Without(t, p) == IF p \in Range(t) THEN RemoveAt(t, CHOOSE i \in DOMAIN t : t[i] = p) ELSE t

Bump(t, p) == IF p \in Range(t) THEN Append(Without(t, p), p) ELSE t

\* TrackedProcesses.record and resolve_exit.
Record(e) == LET t == Append(Without(Bump(tracked, Ppid[e]), Pid[e]), Pid[e])
             IN IF Len(t) > TableSize THEN Tail(t) ELSE t

Tracked(e) == IF Kind[e] \in {"created", "broken"} THEN Record(e)
              ELSE IF Kind[e] = "exited" THEN Without(tracked, Pid[e])
              ELSE tracked

\* Mutant of Built: an exit that is not tracked is shipped as it is.
BuiltAnyway(e) == Kind[e] # "broken"

Built(e) == /\ Kind[e] # "broken"
            /\ Kind[e] = "exited" => Pid[e] \in Range(tracked)

\* Mutant of Enqueue: the oldest event is counted but not taken out.
EnqueueGrows(e) == /\ queue' = Append(queue, e)
                   /\ dropped' = IF Len(queue) < QueueMax THEN dropped ELSE dropped + 1
                   /\ out' = out \cup {e}

Enqueue(e) == /\ queue' = Append(IF Len(queue) < QueueMax THEN queue ELSE Tail(queue), e)
              /\ dropped' = IF Len(queue) < QueueMax THEN dropped ELSE dropped + 1
              /\ out' = out \cup {e}

\* Mutant of Save: the checkpoint of the whole read is saved.
SaveAhead == /\ disk' = [cp' EXCEPT !.offset = newOffset]
             /\ stale' = cut /\ UNCHANGED faults

Save == disk' = cp' /\ stale' = cut /\ UNCHANGED faults

SaveFails == Fault /\ UNCHANGED <<disk, stale>>

\* One line: move the offset, parse, enqueue, save.
Feed == /\ pc = "feed" /\ got # <<>>
        /\ LET l == Head(got) e == EventOf(l)
           IN /\ got' = Tail(got)
              /\ cp' = [cp EXCEPT !.offset = @ + Width(l)]
              /\ fed' = fed \cup ({l} \ {Fragment})
              /\ buf' = Buffered(l)
              /\ tracked' = IF Parsed(l) THEN Tracked(e) ELSE tracked
              /\ IF Parsed(l) /\ Built(e) THEN Enqueue(e)
                                          ELSE UNCHANGED <<queue, dropped, out>>
        /\ Save \/ SaveFails
        /\ UNCHANGED <<log, pc, newOffset, batch, sending, attempt, failed, stop, store, cut,
                       hidden, turns, stops>>

\* The end of the lines: the offset of the file is trusted.
EndRead == /\ pc = "feed" /\ got = <<>>
           /\ cp' = [cp EXCEPT !.offset = newOffset]
           /\ pc' = "poll"
           /\ UNCHANGED <<log, disk, got, newOffset, parser, ship, stop, store, history,
                          bounds>>

-----------------------------------------------------------------------------
(* The shipper. *)

Take == /\ Free /\ ~sending /\ ~stop
        /\ queue # <<>> /\ Len(batch) < BatchSize
        /\ batch' = Append(batch, Head(queue)) /\ queue' = Tail(queue)
        /\ UNCHANGED <<log, disk, tail, parser, sending, attempt, failed, dropped, stop,
                       store, history, bounds>>

\* The batch is full, its deadline is over or the agent stops.
Flush == /\ Free /\ ~sending /\ batch # <<>>
         /\ sending' = TRUE
         /\ UNCHANGED <<log, disk, tail, parser, queue, batch, attempt, failed, dropped, stop,
                        store, history, bounds>>

Done == /\ batch' = Tail(batch) /\ sending' = (Tail(batch) # <<>>) /\ attempt' = 0
        /\ UNCHANGED <<queue, dropped>>

Posting == Free /\ sending /\ ~stop /\ attempt < MaxAttempts

Accepted == /\ Posting
            /\ store' = store \cup {Head(batch)}
            /\ Done
            /\ UNCHANGED <<log, disk, tail, parser, failed, stop, history, bounds>>

\* Mutant of Unanswered: a post without an answer passes for shipped.
UnansweredDone == /\ Posting /\ Fault
                  /\ store' \in {store, store \cup {Head(batch)}}
                  /\ Done
                  /\ UNCHANGED <<log, disk, tail, parser, failed, stop, history, turns, stops>>

\* No answer, or a 5xx: the backend may have the event all the same.
Unanswered == /\ Posting /\ Fault
              /\ store' \in {store, store \cup {Head(batch)}}
              /\ attempt' = attempt + 1
              /\ UNCHANGED <<log, disk, tail, parser, queue, batch, sending, failed, dropped,
                             stop, history, turns, stops>>

Refused == /\ Posting /\ Fault
           /\ Done
           /\ failed' = failed + 1
           /\ UNCHANGED <<log, disk, tail, parser, stop, store, history, turns, stops>>

GiveUp == /\ Free /\ sending
          /\ stop \/ attempt = MaxAttempts
          /\ Done
          /\ failed' = failed + 1
          /\ UNCHANGED <<log, disk, tail, parser, stop, store, history, bounds>>

-----------------------------------------------------------------------------
(* The process. *)

Forget == /\ got' = <<>> /\ newOffset' = 0 /\ buf' = {} /\ tracked' = <<>>
          /\ queue' = <<>> /\ batch' = <<>> /\ sending' = FALSE /\ attempt' = 0
          /\ failed' = 0 /\ dropped' = 0 /\ stop' = FALSE /\ out' = {}
          /\ pc' = "down" /\ cp' = Cold

Loaded(c) == /\ pc = "down"
             /\ cp' = c
             /\ pc' = IF Gated /\ ~file.exists THEN "off" ELSE "poll"
             /\ cut' = stale
             /\ UNCHANGED <<log, disk, got, newOffset, parser, ship, stop, store, fed, out,
                            stale, hidden, turns, stops>>

Start == Loaded(disk) /\ UNCHANGED faults

\* The checkpoint cannot be read: a cold start.  (JSON of another shape would end
\* the agent; save writes none.)
StartCold == Loaded(Cold) /\ Fault

\* SIGTERM: the source is cancelled, the shipper sees stop_event.
Stop == /\ pc \in {"off", "poll", "read"} /\ stops < MaxStops
        /\ pc' = "ended" /\ stop' = TRUE
        /\ stops' = stops + 1
        /\ UNCHANGED <<log, disk, cp, got, newOffset, parser, ship, store, history, faults,
                       turns>>

\* The end of _run: the shipper is done, or cancelled after 10 s.
Exit == /\ pc = "ended"
        /\ Forget
        /\ UNCHANGED <<log, disk, store, fed, cut, stale, hidden, bounds>>

Kill == /\ pc # "down" /\ stops < MaxStops
        /\ Forget
        /\ stops' = stops + 1
        /\ UNCHANGED <<log, disk, store, fed, cut, stale, hidden, faults, turns>>

-----------------------------------------------------------------------------
Environment == Begin \/ Complete \/ Rotate \/ Create \/ Truncate
Source == Poll \/ Read \/ ReadRaises \/ Feed \/ EndRead
Shipper == Take \/ Flush \/ Accepted \/ Unanswered \/ Refused \/ GiveUp
Process == Start \/ StartCold \/ Stop \/ Exit \/ Kill

Next == Environment \/ Source \/ Shipper \/ Process

\* The event loop runs its tasks, the container is restarted.
Spec == /\ Init /\ [][Next]_vars
        /\ WF_vars(Source) /\ WF_vars(Start) /\ WF_vars(Exit)

-----------------------------------------------------------------------------
(* Properties *)

\* Shapes, and the bounds of the queue, the batch and the process table.
TypeOK == /\ file \in [exists : BOOLEAN, inode : Nat, lines : Seq(Lines), begun : BOOLEAN]
          /\ written \in Nat /\ (file.begun => written + 1 \in Lines)
          /\ disk \in [inode : Nat, offset : Nat] /\ cp \in [inode : Nat, offset : Nat]
          /\ pc \in {"down", "off", "poll", "read", "feed", "ended"}
          /\ got \in Seq({Fragment} \cup Lines) /\ newOffset \in Nat
          /\ buf \subseteq Events
          /\ tracked \in Seq(Nat) /\ Len(tracked) <= TableSize
          /\ queue \in Seq(Events) /\ Len(queue) <= QueueMax
          /\ batch \in Seq(Events) /\ Len(batch) <= BatchSize
          /\ sending \in BOOLEAN /\ (sending => batch # <<>>)
          /\ attempt \in 0..MaxAttempts
          /\ failed \in Nat /\ dropped \in Nat /\ stop \in BOOLEAN
          /\ store \subseteq Events /\ fed \subseteq Lines /\ out \subseteq Events
          /\ hidden \subseteq Lines /\ cut \in BOOLEAN /\ stale \in BOOLEAN

Covered(c) == {file.lines[i] : i \in {j \in DOMAIN file.lines :
                 c.inode = file.inode /\ LineStart(j) < c.offset}}

\* Whenever the agent is about to look at the log, the lines its offset is
\* past have been given to the parser, rotation and replays included; only a
\* truncation or a reused inode that the size does not show hides lines.
NothingSkipped == pc = "poll" /\ ~cut => Covered(cp) \subseteq fed \cup hidden

\* "offset of the last successfully processed line. We resume from that
\* offset": a restart from the checkpoint on disk skips no line either.
ResumesAfterLastLine == ~stale => Covered(disk) \subseteq fed \cup hidden

\* An event enqueued in this life is in the backend, waits, or is among the
\* events the counters own up to, whatever the queue sheds and posts fail.
LossesAreCounted ==
  Cardinality(out \ (store \cup Range(queue) \cup Range(batch))) <= failed + dropped

\* A process.exited is shipped only after the process.created of its pid was
\* recorded in the same life.
ExitsHaveProvenance ==
  \A e \in out : Kind[e] = "exited" =>
    \E c \in Events : /\ Pid[c] = Pid[e] /\ Kind[c] \in {"created", "broken"}
                      /\ Kind[c] = "created" => c \in out

\* A line in the log is in time given to the parser, through rotation,
\* truncation, stops and kills, unless one of them takes it out of the log or
\* hides it, or the agent found no log when it started.
LinesAreFed ==
  \A l \in Lines : l \in Range(file.lines)
                     ~> l \in fed \cup hidden \/ l \notin Range(file.lines) \/ pc = "off"

-----------------------------------------------------------------------------
\* "a crash between yield and ship causes a re-read, not a lost line": an
\* event the backend does not have is ahead of the checkpoint on disk.
UnshippedIsReread ==
  \A e \in Range(queue) \cup Range(batch) :
    e \in store \/ stale \/ PerEvent * e \notin Covered(disk)
=============================================================================
