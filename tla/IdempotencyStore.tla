-------------------------- MODULE IdempotencyStore --------------------------
(***************************************************************************)
(* JsonlIdempotencyStore (src/core/idempotency_store_v2.py): one append-    *)
(* only JSONL file shared by every process, a lock file that serialises     *)
(* mutations, a reload of the file inside every critical section, and the   *)
(* appended line as the commit point.                                       *)
(*                                                                          *)
(* A worker is one caller of the store (a coroutine of a ToolExecutor): it  *)
(* claims a key, works, and settles the claim with complete() or fail().    *)
(* Workers with the same owner_id run in the same process.  A critical      *)
(* section is two steps, "load and decide" and "write", so that crashes     *)
(* fall between them and a missing lock would show.                         *)
(***************************************************************************)
EXTENDS Integers, Sequences, FiniteSets

CONSTANTS
  Keys,        \* RecordKey.canonical values
  Workers,     \* concurrent callers of the store
  Owners,      \* owner_id values
  OwnerOf,     \* worker -> the owner_id its executor passes
  NoWorker,    \* "nobody holds the lock file"
  TTL,         \* ttl_seconds
  ClockSteps,  \* how far the wall clock may move at once: {1}, or {1, -1}
               \* when the system clock may be set back
  TornTails,   \* what an interrupted append may leave at the end of the
               \* file: "partial" (not JSON), "bare" (the whole JSON text
               \* but not its newline)
  MaxTime,     \* bound: the wall clock stays in 0..MaxTime
  MaxLines,    \* bound: no append beyond this many lines
  MaxAttempts  \* bound: no claim beyond this attempt

ASSUME OwnersAssumption == OwnerOf \in [Workers -> Owners]
ASSUME LockAssumption   == NoWorker \notin Workers
ASSUME TimeAssumption   == /\ TTL \in Nat \ {0} /\ MaxTime \in Nat
                           /\ MaxLines \in Nat /\ MaxAttempts \in Nat
                           /\ ClockSteps \subseteq Int
ASSUME TornAssumption   == TornTails \subseteq {"partial", "bare"}

VARIABLES
  file,     \* the lines of the JSONL file
  tail,     \* how the file ends: "newline", "bare" or "partial"
  lock,     \* the holder of the lock file
  clock,    \* time.time()
  pc,       \* worker -> what it is doing
  held,     \* worker -> the claim it works on
  out,      \* worker -> what its critical section is about to write
  acked     \* history: keys whose complete() returned, until pruned

vars == <<file, tail, lock, clock, pc, held, out, acked>>

-----------------------------------------------------------------------------
(***************************************************************************)
(* Lines.  Garbage is a line that json.loads or _record_from_dict rejects.  *)
(* created_at is left out: every line repeats the one of its key's first    *)
(* claim, so "updated_at cannot be earlier than created_at" adds nothing to *)
(* the check that updated_at never moves backwards.                         *)
(***************************************************************************)
Statuses == {"IN_PROGRESS", "COMPLETED", "FAILED", "RECOVERABLE"}

Terminal == {"COMPLETED", "FAILED"}

Times == 0 .. MaxTime

Lines == [key : Keys, status : Statuses, owner : Owners,
          attempt : Nat, updated : Times]

Garbage == [status |-> "GARBAGE"]

NoLine == [status |-> "NONE"]

(***************************************************************************)
(* _load: the last line of each key, over the lines that parse.             *)
(***************************************************************************)
LinesOf(f, k) == {i \in 1 .. Len(f) : f[i] # Garbage /\ f[i].key = k}

Latest(f, k) ==
  IF LinesOf(f, k) = {}
  THEN NoLine
  ELSE f[CHOOSE i \in LinesOf(f, k) : \A j \in LinesOf(f, k) : j <= i]

(***************************************************************************)
(* _load raises IdempotencyCorruptionError: a line does not parse, or a     *)
(* key's updated_at moves backwards.                                        *)
(***************************************************************************)
Unparsable(f) == {i \in 1 .. Len(f) : f[i] = Garbage}

MovedBack(f) ==
  \E k \in Keys : \E i, j \in LinesOf(f, k) : i < j /\ f[j].updated < f[i].updated

Corrupt(f) == Unparsable(f) # {} \/ MovedBack(f)

(***************************************************************************)
(* The file after text is appended: text that follows a tail without a      *)
(* newline lands on the tail's line and the two no longer parse.            *)
(***************************************************************************)
Appended(f, t, line) ==
  IF t = "newline" THEN Append(f, line) ELSE [f EXCEPT ![Len(f)] = Garbage]

TornLine(kind, line) == IF kind = "bare" THEN line ELSE Garbage

TornTail(t, kind) == IF t = "newline" THEN kind ELSE "partial"

-----------------------------------------------------------------------------
Nothing == [write |-> "nothing"]

NoClaim == [key |-> "none"]

Claims == [key : Keys, attempt : Nat, since : Times]

Init ==
  /\ file = <<>>
  /\ tail = "newline"
  /\ lock = NoWorker
  /\ clock = 0
  /\ pc = [w \in Workers |-> "idle"]
  /\ held = [w \in Workers |-> NoClaim]
  /\ out = [w \in Workers |-> Nothing]
  /\ acked = {}

(***************************************************************************)
(* claim(), inside the lock: the decision on the record just loaded.        *)
(***************************************************************************)
\* Faulty variant: the claim lapses one tick early.
ExpiredEarly(r) == clock - r.updated >= TTL

Expired(r) == clock - r.updated > TTL

\* Faulty variant: anything that is not running may be claimed.
ClaimableUnlessRunning(r) == IF r.status = "IN_PROGRESS" THEN Expired(r) ELSE TRUE

Claimable(r) ==
  \/ r = NoLine
  \/ r.status = "RECOVERABLE"
  \/ r.status = "IN_PROGRESS" /\ Expired(r)

NewClaim(w, k, r) ==
  [key |-> k, status |-> "IN_PROGRESS", owner |-> OwnerOf[w],
   attempt |-> IF r = NoLine THEN 1 ELSE r.attempt + 1,
   updated |-> clock]

\* The claim once the store is locked and loaded.
ClaimLoaded(w, k) ==
  /\ Claimable(Latest(file, k))
  /\ Len(file) < MaxLines /\ NewClaim(w, k, Latest(file, k)).attempt <= MaxAttempts
  /\ lock' = w
  /\ pc' = [pc EXCEPT ![w] = "claiming"]
  /\ out' = [out EXCEPT ![w] = [write |-> "line", line |-> NewClaim(w, k, Latest(file, k))]]
  /\ UNCHANGED <<file, tail, clock, held, acked>>

\* Faulty variants: claim() does not wait for the lock; the load skips what
\* does not parse.
ClaimUnlocked(w, k) == pc[w] = "idle" /\ ~Corrupt(file) /\ ClaimLoaded(w, k)

ClaimPastGarbage(w, k) == pc[w] = "idle" /\ lock = NoWorker /\ ClaimLoaded(w, k)

Claim(w, k) ==
  /\ pc[w] = "idle"
  /\ lock = NoWorker
  /\ ~Corrupt(file)
  /\ ClaimLoaded(w, k)

(***************************************************************************)
(* complete() and fail(): _transition_locked accepts the owner of an        *)
(* IN_PROGRESS record and refuses everybody else.                           *)
(***************************************************************************)
\* Faulty variant: whoever comes may settle.
MaySettleAnyOwner(w, r) == r # NoLine /\ r.status = "IN_PROGRESS"

MaySettle(w, r) ==
  /\ r # NoLine
  /\ r.owner = OwnerOf[w]
  /\ r.status = "IN_PROGRESS"

Settle(w, s) ==
  LET r == Latest(file, held[w].key)
  IN  /\ pc[w] = "working"
      /\ lock = NoWorker
      /\ ~Corrupt(file)
      /\ MaySettle(w, r)
      /\ Len(file) < MaxLines
      /\ lock' = w
      /\ pc' = [pc EXCEPT ![w] = "settling"]
      /\ out' = [out EXCEPT ![w] =
                   [write |-> "line", line |-> [r EXCEPT !.status = s, !.updated = clock]]]
      /\ UNCHANGED <<file, tail, clock, held, acked>>

(***************************************************************************)
(* The settlement is refused (ownership, state or corruption error): the    *)
(* worker loses its claim and the store is unchanged.                       *)
(***************************************************************************)
SettleRefused(w) ==
  /\ pc[w] = "working"
  /\ lock = NoWorker
  /\ Corrupt(file) \/ ~MaySettle(w, Latest(file, held[w].key))
  /\ pc' = [pc EXCEPT ![w] = "idle"]
  /\ held' = [held EXCEPT ![w] = NoClaim]
  /\ UNCHANGED <<file, tail, lock, clock, out, acked>>

(***************************************************************************)
(* _append: write, flush and fsync the line, then release the lock.         *)
(***************************************************************************)
Release(w) ==
  /\ lock' = NoWorker
  /\ out' = [out EXCEPT ![w] = Nothing]

AppendLine(w) ==
  /\ pc[w] \in {"claiming", "settling"}
  /\ file' = Appended(file, tail, out[w].line)
  /\ tail' = "newline"
  /\ Release(w)
  /\ IF pc[w] = "claiming"
     THEN /\ pc' = [pc EXCEPT ![w] = "working"]
          /\ held' = [held EXCEPT ![w] = [key |-> out[w].line.key,
                                          attempt |-> out[w].line.attempt,
                                          since |-> out[w].line.updated]]
          /\ UNCHANGED acked
     ELSE /\ pc' = [pc EXCEPT ![w] = "idle"]
          /\ held' = [held EXCEPT ![w] = NoClaim]
          /\ acked' = IF out[w].line.status = "COMPLETED"
                      THEN acked \cup {out[w].line.key} ELSE acked
  /\ UNCHANGED clock

(***************************************************************************)
(* The write raises OSError before anything reached the file: the lock is   *)
(* released and the caller has neither claimed nor settled.                 *)
(***************************************************************************)
WriteFails(w) ==
  /\ pc[w] \in {"claiming", "settling", "replacing"}
  /\ Release(w)
  /\ pc' = [pc EXCEPT ![w] = "idle"]
  /\ held' = [held EXCEPT ![w] = NoClaim]
  /\ UNCHANGED <<file, tail, clock, acked>>

(***************************************************************************)
(* The append stops half way (disk full, power loss): the caller sees an    *)
(* OSError or is gone, and the file keeps what was written.                 *)
(***************************************************************************)
AppendTorn(w, kind) ==
  /\ pc[w] \in {"claiming", "settling"}
  /\ file' = Appended(file, tail, TornLine(kind, out[w].line))
  /\ tail' = TornTail(tail, kind)
  /\ Release(w)
  /\ pc' = [pc EXCEPT ![w] = "idle"]
  /\ held' = [held EXCEPT ![w] = NoClaim]
  /\ UNCHANGED <<clock, acked>>

(***************************************************************************)
(* compact() and prune(): write the surviving records to a temporary file,  *)
(* then os.replace it.  Snapshots are all the orders of one line per kept   *)
(* key (the code sorts by key, which no reader depends on).                 *)
(***************************************************************************)
Kept(f, gone) == {Latest(f, k) : k \in {k \in Keys : Latest(f, k) # NoLine} \ gone}

Snapshots(S) ==
  {s \in [1 .. Cardinality(S) -> S] : \A l \in S : \E i \in 1 .. Cardinality(S) : s[i] = l}

\* Faulty variant: prune() looks at the age alone.
PrunableAnyStatus(age) ==
  {k \in Keys : Latest(file, k) # NoLine /\ clock - Latest(file, k).updated > age}

Prunable(age) ==
  {k \in Keys : /\ Latest(file, k) # NoLine
                /\ Latest(file, k).status \in Terminal
                /\ clock - Latest(file, k).updated > age}

\* The snapshot once the store is locked and loaded.
SnapshotLoaded(w, gone) ==
  /\ lock' = w
  /\ pc' = [pc EXCEPT ![w] = "replacing"]
  /\ \E s \in Snapshots(Kept(file, gone)) :
       out' = [out EXCEPT ![w] = [write |-> "file", lines |-> s, gone |-> gone]]
  /\ UNCHANGED <<file, tail, clock, held, acked>>

\* Faulty variant: the snapshot is taken without the lock.
SnapshotUnlocked(w, gone) == pc[w] = "idle" /\ ~Corrupt(file) /\ SnapshotLoaded(w, gone)

Snapshot(w, gone) ==
  /\ pc[w] = "idle"
  /\ lock = NoWorker
  /\ ~Corrupt(file)
  /\ SnapshotLoaded(w, gone)

Compact(w) == Snapshot(w, {})

Prune(w) == \E age \in 1 .. MaxTime : Snapshot(w, Prunable(age))

Replace(w) ==
  /\ pc[w] = "replacing"
  /\ file' = out[w].lines
  /\ tail' = "newline"
  /\ acked' = acked \ out[w].gone
  /\ Release(w)
  /\ pc' = [pc EXCEPT ![w] = "idle"]
  /\ UNCHANGED <<clock, held>>

(***************************************************************************)
(* repair(): truncate an unparsable last line; an unparsable line before    *)
(* the last one is fatal; otherwise nothing.  Timestamps are not looked at. *)
(***************************************************************************)
Repair(w) ==
  /\ pc[w] = "idle"
  /\ lock = NoWorker
  /\ Unparsable(file) = {Len(file)}
  /\ file' = SubSeq(file, 1, Len(file) - 1)
  /\ tail' = "newline"
  /\ UNCHANGED <<lock, clock, pc, held, out, acked>>

(***************************************************************************)
(* A process dies: its workers stop where they are and the operating        *)
(* system drops its file lock.                                              *)
(***************************************************************************)
Crash(o) ==
  LET dead == {w \in Workers : OwnerOf[w] = o}
  IN  /\ \E w \in dead : pc[w] # "idle"
      /\ pc' = [w \in Workers |-> IF w \in dead THEN "idle" ELSE pc[w]]
      /\ held' = [w \in Workers |-> IF w \in dead THEN NoClaim ELSE held[w]]
      /\ out' = [w \in Workers |-> IF w \in dead THEN Nothing ELSE out[w]]
      /\ lock' = IF lock \in dead THEN NoWorker ELSE lock
      /\ UNCHANGED <<file, tail, clock, acked>>

Tick ==
  /\ \E d \in ClockSteps : clock + d \in Times /\ clock' = clock + d
  /\ UNCHANGED <<file, tail, lock, pc, held, out, acked>>

Step(w) ==
  \/ \E k \in Keys : Claim(w, k)
  \/ \E s \in {"COMPLETED", "FAILED", "RECOVERABLE"} : Settle(w, s)
  \/ SettleRefused(w)
  \/ AppendLine(w)
  \/ WriteFails(w)
  \/ \E kind \in TornTails : AppendTorn(w, kind)
  \/ Compact(w) \/ Prune(w) \/ Replace(w)
  \/ Repair(w)

Next ==
  \/ \E w \in Workers : Step(w)
  \/ \E o \in Owners : Crash(o)
  \/ Tick

Spec == Init /\ [][Next]_vars

-----------------------------------------------------------------------------
(***************************************************************************)
(* The store's variables have the shapes the code gives them: every line    *)
(* is a record or unparsable, and a claim or a write is only there while    *)
(* its worker is at the step that owns it.                                  *)
(***************************************************************************)
Writes == [write : {"line"}, line : Lines]
            \cup [write : {"file"}, lines : Seq(Lines), gone : SUBSET Keys]
            \cup {Nothing}

TypeOK ==
  /\ file \in Seq(Lines \cup {Garbage})
  /\ tail \in {"newline", "bare", "partial"}
  /\ lock \in Workers \cup {NoWorker}
  /\ clock \in Times
  /\ pc \in [Workers -> {"idle", "claiming", "working", "settling", "replacing"}]
  /\ held \in [Workers -> Claims \cup {NoClaim}]
  /\ out \in [Workers -> Writes]
  /\ acked \in SUBSET Keys
  /\ \A w \in Workers :
       /\ (pc[w] \in {"working", "settling"}) <=> (held[w] # NoClaim)
       /\ (pc[w] \in {"claiming", "settling"}) => (out[w].write = "line")
       /\ (pc[w] = "replacing") => (out[w].write = "file")

(***************************************************************************)
(* What a critical section decided from is still what the file says when    *)
(* it writes: no other process got in between the reload and the write, so  *)
(* claim(), complete(), fail(), compact() and prune() are atomic decisions. *)
(***************************************************************************)
ClaimStillDue(l) ==
  LET r == Latest(file, l.key)
  IN  Claimable(r) /\ l.attempt = (IF r = NoLine THEN 1 ELSE r.attempt + 1)

SettlementStillDue(w, l) ==
  LET r == Latest(file, l.key)
  IN  /\ MaySettle(w, r)
      /\ l.owner = r.owner /\ l.attempt = r.attempt

SnapshotStillDue(o) ==
  \A k \in Keys :
    /\ k \in o.gone => Latest(file, k).status \in Terminal
    /\ Latest(o.lines, k) = (IF k \in o.gone THEN NoLine ELSE Latest(file, k))

DecisionsStillDue ==
  \A w \in Workers :
    /\ (pc[w] = "claiming")  => ClaimStillDue(out[w].line)
    /\ (pc[w] = "settling")  => SettlementStillDue(w, out[w].line)
    /\ (pc[w] = "replacing") => SnapshotStillDue(out[w])

(***************************************************************************)
(* Two workers run the same operation at the same time only when one of     *)
(* them has been at it for longer than ttl_seconds: the claim keeps tools   *)
(* from running twice as long as they finish within the TTL.                *)
(***************************************************************************)
Runs(w, k) == pc[w] \in {"working", "settling"} /\ held[w].key = k

Overdue(w) == clock - held[w].since > TTL

ExclusiveUnlessOverdue ==
  \A k \in Keys : \A v, w \in Workers :
    v # w /\ Runs(v, k) /\ Runs(w, k) => Overdue(v) \/ Overdue(w)

(***************************************************************************)
(* Once complete() returned, every later load finds the record COMPLETED    *)
(* until prune() removes it, whatever crashes, torn appends, compactions    *)
(* and repairs happen in between: the result is replayed, never recomputed. *)
(***************************************************************************)
AckedCompletionsDurable ==
  \A k \in acked : Latest(file, k).status = "COMPLETED"

(***************************************************************************)
(* A worker only ever settles the claim it made itself: a worker whose      *)
(* claim expired and was taken over cannot write its late result over the   *)
(* newer attempt (guarantee 3 of IdempotencyStoreProtocol, "only the        *)
(* claimer can transition").                                                *)
(***************************************************************************)
SettlesOwnClaim ==
  \A w \in Workers : pc[w] = "settling" => out[w].line.attempt = held[w].attempt

(***************************************************************************)
(* Whatever makes _load raise IdempotencyCorruptionError, repair() takes    *)
(* away: the store never needs manual surgery before it works again.        *)
(***************************************************************************)
RepairSuffices ==
  Corrupt(file) => /\ Unparsable(file) = {Len(file)}
                   /\ ~Corrupt(SubSeq(file, 1, Len(file) - 1))

(***************************************************************************)
(* No record that a load reported COMPLETED goes back to IN_PROGRESS        *)
(* (guarantee 2 of IdempotencyStoreProtocol, "no COMPLETED -> IN_PROGRESS") *)
(***************************************************************************)
NoReopening ==
  [][\A k \in Keys : Latest(file, k).status = "COMPLETED"
                       => Latest(file', k).status # "IN_PROGRESS"]_file

(***************************************************************************)
(* The file-based store implements the contract: read through Latest, each  *)
(* append, replacement, repair and crash is one contract step or none.      *)
(***************************************************************************)
RecordOf(k) ==
  LET r == Latest(file, k)
  IN  IF r = NoLine THEN [status |-> "NONE"]
      ELSE [status |-> r.status, owner |-> r.owner, attempt |-> r.attempt]

Contract == INSTANCE IdempotencyContract WITH rec <- [k \in Keys |-> RecordOf(k)]

ImplementsContract == Contract!Spec
=============================================================================
