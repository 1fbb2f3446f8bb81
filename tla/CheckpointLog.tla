---------------------------- MODULE CheckpointLog ----------------------------
(***************************************************************************)
(* CheckpointManager (src/core/checkpoint.py): one append-only JSONL file   *)
(* of the events of all runs, a lock file, a scan of the file at the start  *)
(* of every critical section, and the appended line as the commit point.    *)
(* Unlike the idempotency store, the scan skips lines that do not parse.    *)
(*                                                                          *)
(* A worker is one caller of log_event; which events it offers is up to the *)
(* environment (AgentRun models the caller that the agent loop is).  As in  *)
(* IdempotencyStore, a critical section is a "scan and decide" step and a   *)
(* "write" step.                                                            *)
(***************************************************************************)
EXTENDS RunContract, Integers, FiniteSets

CONSTANTS
  Runs,        \* run_id values
  Workers,     \* concurrent callers of log_event
  NoWorker,    \* "nobody holds the lock file"
  Offered,     \* the events that callers offer
  TornTails,   \* what an interrupted append may leave: "partial", "bare"
  ClockSteps,  \* how far time.time() may move at once, back included
  MaxTime,     \* bound: the wall clock stays in 0..MaxTime
  MaxLines     \* bound: no append beyond this many lines

ASSUME LockAssumption    == NoWorker \notin Workers
ASSUME RunsAssumption    == "GARBAGE" \notin Runs /\ "NONE" \notin Runs
ASSUME BoundsAssumption  == MaxTime \in Nat /\ MaxLines \in Nat /\ ClockSteps \subseteq Int
ASSUME OfferedAssumption == Offered \subseteq Events \cup {[type |-> "OTHER", flag |-> FALSE]}
ASSUME TornAssumption    == TornTails \subseteq {"partial", "bare"}

VARIABLES
  file,   \* the lines of the JSONL file
  tail,   \* how the file ends: "newline", "bare" or "partial"
  lock,   \* the holder of the lock file
  clock,  \* time.time(), in units of the 0.000001 that log_event adds
  out,    \* worker -> the line its critical section is about to append
  acked   \* history: the lines whose log_event returned

vars == <<file, tail, lock, clock, out, acked>>

-----------------------------------------------------------------------------
Lines == [run : Runs, seq : Nat, ts : Nat, event : Events]

Garbage == [run |-> "GARBAGE"]

NoLine == [run |-> "NONE"]

(***************************************************************************)
(* The lines of one run, in file order, over the lines that parse.          *)
(***************************************************************************)
Selection(f, r) ==
  LET s[i \in 0 .. Len(f)] ==
        IF i = 0 THEN <<>> ELSE IF f[i].run = r THEN Append(s[i - 1], f[i]) ELSE s[i - 1]
  IN  s

EventsOf(f, r) == Selection(f, r)[Len(f)]

(***************************************************************************)
(* _reload_locked: per run the largest sequence_id, the largest timestamp   *)
(* and the state reached; a terminal state stays whatever follows, and an   *)
(* event that the state does not accept is skipped.                         *)
(***************************************************************************)
MaxOf(S) == CHOOSE x \in S : \A y \in S : y <= x

LastSeq(f, r) ==
  LET es == EventsOf(f, r) IN MaxOf({0} \cup {es[i].seq : i \in 1 .. Len(es)})

LastTime(f, r) ==
  LET es == EventsOf(f, r) IN MaxOf({0} \cup {es[i].ts : i \in 1 .. Len(es)})

Scanned(st, e) == IF st \in TerminalStates \/ ~Accepts(st, e) THEN st ELSE Transition(st, e)

StatesAlong(es) ==
  LET s[i \in 0 .. Len(es)] == IF i = 0 THEN "PENDING" ELSE Scanned(s[i - 1], es[i].event)
  IN  s

StatesOf(f, r) == StatesAlong(EventsOf(f, r))

LastState(f, r) == StatesOf(f, r)[Len(EventsOf(f, r))]

(***************************************************************************)
(* ReplayEngine.load_events_for_run refuses the whole file when a line of   *)
(* any run does not parse.                                                  *)
(***************************************************************************)
ReplayRefuses(f) == \E i \in 1 .. Len(f) : f[i] = Garbage

(***************************************************************************)
(* The file after text is appended: text that follows a tail without a      *)
(* newline lands on the tail's line and the two no longer parse.            *)
(***************************************************************************)
Appended(f, t, line) ==
  IF t = "newline" THEN Append(f, line) ELSE [f EXCEPT ![Len(f)] = Garbage]

TornLine(kind, line) == IF kind = "bare" THEN line ELSE Garbage

TornTail(t, kind) == IF t = "newline" THEN kind ELSE "partial"

-----------------------------------------------------------------------------
Init ==
  /\ file = <<>>
  /\ tail = "newline"
  /\ lock = NoWorker
  /\ clock = 0
  /\ out = [w \in Workers |-> NoLine]
  /\ acked = {}

(***************************************************************************)
(* An event_name that is not a CheckpointEventType (the image pipeline and  *)
(* the Drive publisher log such names) is written as RUN_STARTED.           *)
(***************************************************************************)
Coerced(e) == IF e.type = "OTHER" THEN [e EXCEPT !.type = "RUN_STARTED"] ELSE e

\* Faulty variant: the timestamp is time.time() as it is.
StampedRaw(r, e) ==
  [run |-> r, seq |-> LastSeq(file, r) + 1, ts |-> clock, event |-> e]

Stamped(r, e) ==
  [run |-> r, seq |-> LastSeq(file, r) + 1,
   ts |-> MaxOf({clock, LastTime(file, r) + 1}), event |-> e]

(***************************************************************************)
(* log_event, inside the lock: scan, number, stamp and validate.  A refused *)
(* event (CheckpointStateError) changes nothing.                            *)
(***************************************************************************)
\* Faulty variant: the state is not looked at.
LogUnchecked(w, r, e) ==
  /\ lock = NoWorker
  /\ Len(file) < MaxLines
  /\ lock' = w
  /\ out' = [out EXCEPT ![w] = Stamped(r, Coerced(e))]
  /\ UNCHANGED <<file, tail, clock, acked>>

LogEvent(w, r, e) ==
  /\ lock = NoWorker
  /\ Len(file) < MaxLines
  /\ Accepts(LastState(file, r), Coerced(e))
  /\ lock' = w
  /\ out' = [out EXCEPT ![w] = Stamped(r, Coerced(e))]
  /\ UNCHANGED <<file, tail, clock, acked>>

Release(w) ==
  /\ lock' = NoWorker
  /\ out' = [out EXCEPT ![w] = NoLine]

(***************************************************************************)
(* _append_locked: write, flush, fsync; log_event returns.                  *)
(***************************************************************************)
\* Faulty variant: the caller is told before the write.
AppendLater(w) ==
  /\ out[w] # NoLine
  /\ acked' = acked \cup {out[w]}
  /\ \/ file' = Appended(file, tail, out[w]) /\ tail' = "newline"
     \/ UNCHANGED <<file, tail>>
  /\ Release(w)
  /\ UNCHANGED clock

AppendLine(w) ==
  /\ out[w] # NoLine
  /\ file' = Appended(file, tail, out[w])
  /\ tail' = "newline"
  /\ acked' = acked \cup {out[w]}
  /\ Release(w)
  /\ UNCHANGED clock

(***************************************************************************)
(* The write fails with nothing written (SystemStateError), or the process  *)
(* dies before it.                                                          *)
(***************************************************************************)
WriteFails(w) ==
  /\ out[w] # NoLine
  /\ Release(w)
  /\ UNCHANGED <<file, tail, clock, acked>>

(***************************************************************************)
(* The append stops half way: SystemStateError or a dead process, and the   *)
(* file keeps what was written.                                             *)
(***************************************************************************)
AppendTorn(w, kind) ==
  /\ out[w] # NoLine
  /\ file' = Appended(file, tail, TornLine(kind, out[w]))
  /\ tail' = TornTail(tail, kind)
  /\ Release(w)
  /\ UNCHANGED <<clock, acked>>

Tick ==
  /\ \E d \in ClockSteps : clock + d \in 0 .. MaxTime /\ clock' = clock + d
  /\ UNCHANGED <<file, tail, lock, out, acked>>

Step(w) ==
  \/ \E r \in Runs, e \in Offered : LogEvent(w, r, e)
  \/ AppendLine(w)
  \/ WriteFails(w)
  \/ \E kind \in TornTails : AppendTorn(w, kind)

Next == Tick \/ \E w \in Workers : Step(w)

Spec == Init /\ [][Next]_vars

-----------------------------------------------------------------------------
(***************************************************************************)
(* The log's variables have the shapes the code gives them, and only the    *)
(* holder of the lock has a line to write.                                  *)
(***************************************************************************)
TypeOK ==
  /\ file \in Seq(Lines \cup {Garbage})
  /\ tail \in {"newline", "bare", "partial"}
  /\ lock \in Workers \cup {NoWorker}
  /\ clock \in 0 .. MaxTime
  /\ out \in [Workers -> Lines \cup {NoLine}]
  /\ acked \in SUBSET Lines
  /\ \A w \in Workers : (out[w] # NoLine) <=> (lock = w)

(***************************************************************************)
(* What log_event decided from is still what the file says when it writes:  *)
(* the sequence_id is the next one and the state accepts the event, with    *)
(* other processes logging to the same run and the same file.               *)
(***************************************************************************)
DecisionsStillDue ==
  \A w \in Workers : out[w] # NoLine =>
    LET l == out[w]
    IN  /\ l.seq = LastSeq(file, l.run) + 1
        /\ l.ts > LastTime(file, l.run)
        /\ Accepts(LastState(file, l.run), l.event)

(***************************************************************************)
(* The readers accept what the writer wrote: for every run the file always  *)
(* holds a sequence that validate_event_sequence accepts and whose          *)
(* transitions ReplayEngine.reconstruct_session and get_run_summary can     *)
(* replay, although the wall clock may go back, appends may be torn and the *)
(* scan of the writer skips what it cannot read.                            *)
(***************************************************************************)
ReadersAccept ==
  \A r \in Runs :
    LET es == EventsOf(file, r)
    IN  /\ ValidSequence(es)
        /\ \A i \in 1 .. Len(es) : Accepts(StatesOf(file, r)[i - 1], es[i].event)

(***************************************************************************)
(* No silent loss: an event whose log_event returned is in the file, or the *)
(* file is one that ReplayEngine refuses.  A replay never goes on from a    *)
(* history with an acknowledged event missing.                              *)
(***************************************************************************)
AckedEventsDurable == \A l \in acked : \E i \in 1 .. Len(file) : file[i] = l

NoSilentLoss == ReplayRefuses(file) \/ AckedEventsDurable

(***************************************************************************)
(* Read through the scan, the file implements the run log: every run's      *)
(* history only grows, by events its state accepts, and a terminal state    *)
(* stays (invariant 2 of docs/PHASE_56_PRODUCTION_READINESS.md).            *)
(***************************************************************************)
Log == INSTANCE RunLog WITH
         state  <- [r \in Runs |-> LastState(file, r)],
         length <- [r \in Runs |-> Len(EventsOf(file, r))]

ImplementsRunLog == Log!Spec
=============================================================================
