----------------------- MODULE IdempotencyStoreProofs -----------------------
(***************************************************************************)
(* Proofs about IdempotencyStore, for any number of keys, workers, lines    *)
(* and attempts.  The argument: the lock makes what a critical section      *)
(* loaded the current file when it writes (DecisionsStillDue), so each      *)
(* write changes the record of one key in a way the contract allows; the    *)
(* rest follows from who owns that record.                                  *)
(***************************************************************************)
EXTENDS IdempotencyStore, FiniteSetTheorems, SequenceTheorems, WellFoundedInduction, TLAPS

(***************************************************************************)
(* The environment the guarantees need: finitely many keys, one process     *)
(* (and owner_id) per worker, a clock that never steps back, and interrupted *)
(* appends that leave a line which does not parse.                          *)
(***************************************************************************)
SoundEnvironment ==
  /\ IsFiniteSet(Keys)
  /\ \A v, w \in Workers : OwnerOf[v] = OwnerOf[w] => v = w
  /\ ClockSteps \subseteq Nat
  /\ TornTails \subseteq {"partial"}

-----------------------------------------------------------------------------
(***************************************************************************)
(* Every nonempty set of line numbers has a greatest element: what _load    *)
(* relies on when later lines win.                                          *)
(***************************************************************************)
LEMMA SetOfNaturalsHasMinimum ==
  ASSUME NEW T, T \subseteq Nat, T # {}
  PROVE  \E x \in T : \A y \in T : x <= y
<1> DEFINE R == OpToRel(<, Nat)
<1>1. IsWellFoundedOn(R, Nat)
  BY NatLessThanWellFounded
<1>2. \A x, y \in Nat : y < x => <<y, x>> \in R
  BY DEF OpToRel
<1> HIDE DEF R
<1>3. PICK x \in T : \A y \in T : ~(<<y, x>> \in R)
  BY <1>1, WFMin
<1>4. \A y \in T : ~(y < x)
  BY <1>2, <1>3
<1> QED
  BY <1>3, <1>4

(* The last line of a kind, among finitely many.                           *)
LEMMA LineNumbersHaveMaximum ==
  ASSUME NEW n \in Nat, NEW T, T \subseteq 1 .. n, T # {}
  PROVE  \E x \in T : \A y \in T : y <= x
<1> DEFINE D == {d \in Nat : n - d \in T}
<1>1. D # {}
  <2>1. PICK t \in T : TRUE
    OBVIOUS
  <2>2. n - t \in Nat /\ n - (n - t) = t
    BY <2>1
  <2> QED
    BY <2>1, <2>2
<1>2. PICK d \in D : \A e \in D : d <= e
  BY <1>1, SetOfNaturalsHasMinimum
<1>3. \A y \in T : n - y \in D
  <2> TAKE y \in T
  <2>1. n - y \in Nat /\ n - (n - y) = y
    OBVIOUS
  <2> QED
    BY <2>1
<1> QED
  BY <1>2, <1>3

-----------------------------------------------------------------------------
(***************************************************************************)
(* Lemmas about Latest, the reading of a file by _load.                     *)
(***************************************************************************)
Files == Seq(Lines \cup {Garbage})

(* Unparsable lines and missing records differ from every record.          *)
LEMMA LineShapes ==
  /\ Garbage \notin Lines /\ NoLine \notin Lines /\ NoLine # Garbage
  /\ \A l \in Lines : l.status \in Statuses /\ l.key \in Keys /\ l.owner \in Owners
                      /\ l.attempt \in Nat /\ l.updated \in Times
  /\ NoLine.status = "NONE" /\ Garbage.status = "GARBAGE"
  /\ Statuses = {"IN_PROGRESS", "COMPLETED", "FAILED", "RECOVERABLE"}
  BY DEF Lines, Garbage, NoLine, Statuses

(* The record of a key that has lines is its last line.                    *)
LEMMA LatestIsLast ==
  ASSUME NEW f \in Files, NEW k \in Keys, LinesOf(f, k) # {}
  PROVE  \E i \in LinesOf(f, k) : /\ \A j \in LinesOf(f, k) : j <= i
                                  /\ Latest(f, k) = f[i]
<1>1. LinesOf(f, k) \subseteq 1 .. Len(f) /\ Len(f) \in Nat
  BY DEF LinesOf, Files
<1>2. \E i \in LinesOf(f, k) : \A j \in LinesOf(f, k) : j <= i
  BY <1>1, LineNumbersHaveMaximum
<1> QED
  BY <1>2 DEF Latest

(* The last line of a key is its record, however it is found.              *)
LEMMA LastIsLatest ==
  ASSUME NEW f \in Files, NEW k \in Keys, NEW i \in LinesOf(f, k),
         \A j \in LinesOf(f, k) : j <= i
  PROVE  Latest(f, k) = f[i]
<1>1. PICK m \in LinesOf(f, k) : /\ \A j \in LinesOf(f, k) : j <= m
                                 /\ Latest(f, k) = f[m]
  BY LatestIsLast
<1>2. m <= i /\ i <= m /\ m \in Nat /\ i \in Nat
  BY <1>1 DEF LinesOf, Files
<1> QED
  BY <1>1, <1>2

(* The record of a key is one of its lines, or missing.                    *)
LEMMA LatestType ==
  ASSUME NEW f \in Files, NEW k \in Keys
  PROVE  \/ Latest(f, k) = NoLine /\ LinesOf(f, k) = {}
         \/ Latest(f, k) \in Lines /\ Latest(f, k).key = k
<1>1. CASE LinesOf(f, k) = {}
  BY <1>1 DEF Latest
<1>2. CASE LinesOf(f, k) # {}
  <2>1. PICK i \in LinesOf(f, k) : Latest(f, k) = f[i]
    BY <1>2, LatestIsLast
  <2>2. f[i] \in Lines \cup {Garbage} /\ f[i] # Garbage /\ f[i].key = k
    BY <2>1 DEF LinesOf, Files
  <2> QED
    BY <2>1, <2>2
<1> QED
  BY <1>1, <1>2

(* Two files with the same lines of a key give it the same record.         *)
LEMMA LatestAgrees ==
  ASSUME NEW f \in Files, NEW g \in Files, NEW k \in Keys,
         LinesOf(f, k) = LinesOf(g, k),
         \A i \in LinesOf(f, k) : f[i] = g[i]
  PROVE  Latest(f, k) = Latest(g, k)
<1>1. CASE LinesOf(f, k) = {}
  BY <1>1 DEF Latest
<1>2. CASE LinesOf(f, k) # {}
  <2>1. PICK i \in LinesOf(f, k) : /\ \A j \in LinesOf(f, k) : j <= i
                                   /\ Latest(f, k) = f[i]
    BY <1>2, LatestIsLast
  <2>2. Latest(g, k) = g[i]
    BY <2>1, LastIsLatest
  <2> QED
    BY <2>1, <2>2
<1> QED
  BY <1>1, <1>2

(* Appending a record makes it the record of its key and of no other.      *)
LEMMA LatestAppendLine ==
  ASSUME NEW f \in Files, NEW l \in Lines, NEW k \in Keys
  PROVE  Latest(Append(f, l), k) = IF l.key = k THEN l ELSE Latest(f, k)
<1> DEFINE g == Append(f, l)
<1>1. g \in Files /\ Len(g) = Len(f) + 1 /\ Len(f) \in Nat /\ g[Len(f) + 1] = l
      /\ \A i \in 1 .. Len(f) : g[i] = f[i]
  BY DEF Files
<1>2. l # Garbage
  BY LineShapes
<1>3. CASE l.key = k
  <2>1. Len(f) + 1 \in LinesOf(g, k) /\ \A j \in LinesOf(g, k) : j <= Len(f) + 1
    BY <1>1, <1>2, <1>3 DEF LinesOf
  <2> HIDE DEF g
  <2>2. Latest(g, k) = g[Len(f) + 1]
    BY <1>1, <2>1, LastIsLatest
  <2> QED
    BY <1>1, <1>3, <2>2 DEF g
<1>4. CASE l.key # k
  <2>1. LinesOf(g, k) = LinesOf(f, k) /\ \A i \in LinesOf(f, k) : f[i] = g[i]
    BY <1>1, <1>4 DEF LinesOf
  <2> HIDE DEF g
  <2>2. Latest(f, k) = Latest(g, k)
    BY <1>1, <2>1, LatestAgrees
  <2> QED
    BY <1>4, <2>2 DEF g
<1> QED
  BY <1>3, <1>4

(* A torn line changes no record, neither when it appears ...              *)
LEMMA LatestAppendGarbage ==
  ASSUME NEW f \in Files, NEW k \in Keys
  PROVE  Latest(Append(f, Garbage), k) = Latest(f, k)
<1> DEFINE g == Append(f, Garbage)
<1>1. g \in Files /\ Len(g) = Len(f) + 1 /\ Len(f) \in Nat /\ g[Len(f) + 1] = Garbage
      /\ \A i \in 1 .. Len(f) : g[i] = f[i]
  BY DEF Files
<1>2. LinesOf(g, k) = LinesOf(f, k) /\ \A i \in LinesOf(f, k) : f[i] = g[i]
  BY <1>1 DEF LinesOf
<1> HIDE DEF g
<1>3. Latest(f, k) = Latest(g, k)
  BY <1>1, <1>2, LatestAgrees
<1> QED
  BY <1>3 DEF g

(* repair() keeps all lines but the last.                                  *)
LEMMA RepairedFile ==
  ASSUME NEW f \in Files, Len(f) > 0
  PROVE  LET g == SubSeq(f, 1, Len(f) - 1)
         IN  /\ g \in Files /\ Len(g) = Len(f) - 1 /\ Len(f) \in Nat
             /\ \A i \in 1 .. Len(f) - 1 : g[i] = f[i]
<1> DEFINE g == SubSeq(f, 1, Len(f) - 1)
<1>1. Len(f) \in Nat \ {0} /\ \A i \in 1 .. Len(f) - 1 : f[i] \in Lines \cup {Garbage}
  BY DEF Files
<1>2. /\ g \in Seq(Lines \cup {Garbage})
      /\ Len(g) = IF 1 <= Len(f) - 1 THEN (Len(f) - 1) - 1 + 1 ELSE 0
      /\ \A i \in 1 .. (Len(f) - 1) - 1 + 1 : g[i] = f[1 + i - 1]
  BY <1>1, SubSeqProperties
<1> HIDE DEF g
<1>3. ASSUME NEW i \in 1 .. Len(f) - 1
      PROVE  g[i] = f[i]
  <2>1. i \in 1 .. (Len(f) - 1) - 1 + 1 /\ 1 + i - 1 = i
    BY <1>1
  <2> QED
    BY <1>2, <2>1
<1>4. g \in Files
  BY <1>2 DEF Files
<1>5. Len(g) = Len(f) - 1
  <2>1. \A n \in Nat \ {0} : n - 1 = IF 1 <= n - 1 THEN (n - 1) - 1 + 1 ELSE 0
    OBVIOUS
  <2> QED
    BY <1>1, <1>2, <2>1
<1> QED
  BY <1>1, <1>3, <1>4, <1>5 DEF g

(* ... nor when repair() removes it.                                       *)
LEMMA LatestRepaired ==
  ASSUME NEW f \in Files, NEW k \in Keys, Len(f) > 0, f[Len(f)] = Garbage
  PROVE  Latest(SubSeq(f, 1, Len(f) - 1), k) = Latest(f, k)
<1> DEFINE g == SubSeq(f, 1, Len(f) - 1)
<1>1. g \in Files /\ Len(g) = Len(f) - 1 /\ Len(f) \in Nat
      /\ \A i \in 1 .. Len(f) - 1 : g[i] = f[i]
  BY RepairedFile
<1>2. LinesOf(g, k) = LinesOf(f, k) /\ \A i \in LinesOf(f, k) : f[i] = g[i]
  BY <1>1 DEF LinesOf
<1> HIDE DEF g
<1>3. Latest(f, k) = Latest(g, k)
  BY <1>1, <1>2, LatestAgrees
<1> QED
  BY <1>3 DEF g

-----------------------------------------------------------------------------
(***************************************************************************)
(* The inductive invariant.                                                 *)
(***************************************************************************)
Writing(w) == pc[w] \in {"claiming", "settling", "replacing"}

(* Whoever is about to write holds the lock, over a file that loads.       *)
WriterHoldsLock ==
  \A w \in Workers : Writing(w) => lock = w /\ ~Corrupt(file)

(* Only the last line can be unparsable, and it is when the tail is torn.  *)
GarbageOnlyAtEnd ==
  /\ \A i \in 1 .. Len(file) : file[i] = Garbage => i = Len(file)
  /\ tail # "newline" => Len(file) > 0 /\ file[Len(file)] = Garbage

(* Timestamps follow the file's order and none lies in the future.         *)
TimesInOrder ==
  /\ \A i, j \in 1 .. Len(file) :
       /\ i < j /\ file[i] # Garbage /\ file[j] # Garbage /\ file[i].key = file[j].key
       => file[i].updated <= file[j].updated
  /\ \A i \in 1 .. Len(file) : file[i] # Garbage => file[i].updated <= clock

(* What a writer is about to append.                                       *)
AppendInOrder ==
  \A w \in Workers : pc[w] \in {"claiming", "settling"} =>
    /\ out[w].line.owner = OwnerOf[w]
    /\ out[w].line.updated <= clock
    /\ \A i \in 1 .. Len(file) : file[i] # Garbage => file[i].updated <= out[w].line.updated
    /\ IF pc[w] = "claiming"
       THEN out[w].line.status = "IN_PROGRESS"
       ELSE /\ out[w].line.status \in {"COMPLETED", "FAILED", "RECOVERABLE"}
            /\ out[w].line.key = held[w].key
            /\ out[w].line.attempt = held[w].attempt

(* What compact() and prune() are about to put in place.                   *)
SnapshotOfLatest ==
  \A w \in Workers : pc[w] = "replacing" =>
    \A i \in 1 .. Len(out[w].lines) :
       out[w].lines[i] = Latest(file, out[w].lines[i].key)

(* A worker within its TTL still owns the record, and a record a worker    *)
(* owns is the attempt it claimed.                                         *)
OwnsRecord(w) ==
  LET r == Latest(file, held[w].key)
  IN  /\ r.status = "IN_PROGRESS" /\ r.owner = OwnerOf[w] /\ r.updated = held[w].since

OwnAttempt(w) ==
  LET r == Latest(file, held[w].key)
  IN  r.status = "IN_PROGRESS" /\ r.owner = OwnerOf[w] => r.attempt = held[w].attempt

ClaimsKept ==
  \A w \in Workers : pc[w] \in {"working", "settling"} =>
    (Overdue(w) \/ OwnsRecord(w)) /\ OwnAttempt(w)

IInv ==
  /\ TypeOK
  /\ WriterHoldsLock
  /\ GarbageOnlyAtEnd
  /\ TimesInOrder
  /\ AppendInOrder
  /\ SnapshotOfLatest
  /\ DecisionsStillDue
  /\ ClaimsKept
  /\ AckedCompletionsDurable

-----------------------------------------------------------------------------
(***************************************************************************)
(* Type correctness.                                                        *)
(***************************************************************************)
LEMMA WriteShapes ==
  /\ \A o \in Writes : o.write = "line" => o.line \in Lines
  /\ \A o \in Writes : o.write = "file" => o.lines \in Seq(Lines) /\ o.gone \in SUBSET Keys
  /\ \A l \in Lines : [write |-> "line", line |-> l] \in Writes
  /\ \A ls \in Seq(Lines), g \in SUBSET Keys :
        [write |-> "file", lines |-> ls, gone |-> g] \in Writes
  /\ Nothing \in Writes /\ Nothing.write = "nothing"
  BY DEF Writes, Nothing

(* What a claim writes is a record in progress of its worker.              *)
LEMMA ClaimShapes ==
  /\ NoClaim \notin Claims
  /\ \A h \in Claims : h.key \in Keys /\ h.attempt \in Nat /\ h.since \in Times
  BY DEF Claims, NoClaim

(* compact() and prune() write records of the file, one per kept key.      *)
LEMMA SnapshotLines ==
  ASSUME IsFiniteSet(Keys), NEW f \in Files, NEW gone \in SUBSET Keys,
         NEW s \in Snapshots(Kept(f, gone))
  PROVE  /\ s \in Seq(Lines)
         /\ \A i \in 1 .. Len(s) : s[i].key \notin gone /\ s[i] = Latest(f, s[i].key)
         /\ \A k \in Keys \ gone : Latest(f, k) # NoLine =>
               \E i \in 1 .. Len(s) : s[i] = Latest(f, k)
<1> DEFINE K == {k \in Keys : Latest(f, k) # NoLine} \ gone
           S == Kept(f, gone)
           n == Cardinality(S)
           g == [k \in K |-> Latest(f, k)]
<1>1. S = {Latest(f, k) : k \in K}
  BY DEF Kept
<1>2. \A k \in K : Latest(f, k) \in Lines /\ Latest(f, k).key = k /\ k \notin gone
  BY LatestType
<1>3. IsFiniteSet(S)
  <2>1. IsFiniteSet(K)
    BY FS_Subset
  <2>2. g \in Surjection(K, S)
    BY <1>1 DEF Surjection
  <2> HIDE DEF g, K, S
  <2> QED
    BY <2>1, <2>2, FS_Surjection
<1>4. n \in Nat
  BY <1>3, FS_CardinalityType
<1>5. s \in [1 .. n -> S] /\ \A l \in S : \E i \in 1 .. n : s[i] = l
  BY DEF Snapshots
<1>6. S \subseteq Lines /\ \A l \in S : l.key \notin gone /\ l = Latest(f, l.key)
  BY <1>1, <1>2
<1> HIDE DEF n, S, K, g
<1>7. s \in Seq(Lines) /\ Len(s) = n
  BY <1>4, <1>5, <1>6
<1>8. \A k \in Keys \ gone : Latest(f, k) # NoLine => Latest(f, k) \in S
  BY <1>1 DEF K
<1> QED
  BY <1>5, <1>6, <1>7, <1>8

(* A new store is well formed.                                             *)
LEMMA TypeInit == Init => TypeOK
  BY TimeAssumption, ClaimShapes, WriteShapes
  DEF Init, TypeOK, Times, Files

(* Every step keeps the store well formed.                                 *)
LEMMA TypeNext ==
  ASSUME IsFiniteSet(Keys), TypeOK, [Next]_vars
  PROVE  TypeOK'
<1> USE OwnersAssumption, LockAssumption, TimeAssumption, TornAssumption DEF TypeOK
<1>0. file \in Files /\ clock \in Nat
  BY DEF Files, Times
<1>1. ASSUME NEW w \in Workers, NEW k \in Keys, Claim(w, k)
      PROVE  TypeOK'
  <2>1. NewClaim(w, k, Latest(file, k)) \in Lines
    BY <1>0, LatestType, LineShapes DEF NewClaim, Lines, Statuses
  <2> QED
    BY <1>1, <2>1, WriteShapes, ClaimShapes DEF Claim, ClaimLoaded
<1>2. ASSUME NEW w \in Workers, NEW s \in {"COMPLETED", "FAILED", "RECOVERABLE"}, Settle(w, s)
      PROVE  TypeOK'
  <2> DEFINE r == Latest(file, held[w].key)
  <2>1. held[w].key \in Keys
    BY <1>2, ClaimShapes DEF Settle
  <2>2. r \in Lines
    BY <1>0, <1>2, <2>1, LatestType DEF Settle, MaySettle
  <2> HIDE DEF r
  <2>3. [r EXCEPT !.status = s, !.updated = clock] \in Lines
    BY <2>2 DEF Lines, Statuses
  <2> QED
    BY <1>2, <2>3, WriteShapes, ClaimShapes DEF Settle, r
<1>3. ASSUME NEW w \in Workers, SettleRefused(w)
      PROVE  TypeOK'
  BY <1>3 DEF SettleRefused
<1>4. ASSUME NEW w \in Workers, AppendLine(w)
      PROVE  TypeOK'
  <2>1. out[w].line \in Lines
    BY <1>4, WriteShapes DEF AppendLine
  <2>2. Appended(file, tail, out[w].line) \in Seq(Lines \cup {Garbage})
    BY <2>1, <1>0 DEF Appended, Files
  <2>3. [key |-> out[w].line.key, attempt |-> out[w].line.attempt,
         since |-> out[w].line.updated] \in Claims
    BY <2>1, LineShapes DEF Claims
  <2>4. out' \in [Workers -> Writes] /\ out' = [out EXCEPT ![w] = Nothing] /\ lock' = NoWorker
    BY <1>4, WriteShapes DEF AppendLine, Release
  <2>5. CASE pc[w] = "claiming"
    BY <1>4, <2>2, <2>3, <2>4, <2>5, ClaimShapes DEF AppendLine
  <2>6. CASE pc[w] = "settling"
    <3>1. /\ pc' = [pc EXCEPT ![w] = "idle"] /\ held' = [held EXCEPT ![w] = NoClaim]
          /\ file' = Appended(file, tail, out[w].line) /\ tail' = "newline"
          /\ acked' \in {acked, acked \cup {out[w].line.key}} /\ clock' = clock
      BY <1>4, <2>6 DEF AppendLine
    <3>2. out[w].line.key \in Keys
      BY <2>1, LineShapes
    <3> QED
      BY <2>2, <2>4, <3>1, <3>2, WriteShapes
  <2> QED
    BY <1>4, <2>5, <2>6 DEF AppendLine
<1>5. ASSUME NEW w \in Workers, WriteFails(w)
      PROVE  TypeOK'
  BY <1>5, WriteShapes, ClaimShapes DEF WriteFails, Release
<1>6. ASSUME NEW w \in Workers, NEW kind \in TornTails, AppendTorn(w, kind)
      PROVE  TypeOK'
  <2>1. out[w].line \in Lines
    BY <1>6, WriteShapes DEF AppendTorn
  <2>2. Appended(file, tail, TornLine(kind, out[w].line)) \in Seq(Lines \cup {Garbage})
    BY <2>1, <1>0 DEF Appended, Files, TornLine
  <2>3. TornTail(tail, kind) \in {"newline", "bare", "partial"}
    BY DEF TornTail
  <2> QED
    BY <1>6, <2>2, <2>3, WriteShapes, ClaimShapes DEF AppendTorn, Release
<1>7. ASSUME NEW w \in Workers, NEW gone \in SUBSET Keys, Snapshot(w, gone)
      PROVE  TypeOK'
  <2>1. PICK s \in Snapshots(Kept(file, gone)) :
          out' = [out EXCEPT ![w] = [write |-> "file", lines |-> s, gone |-> gone]]
    BY <1>7 DEF Snapshot, SnapshotLoaded
  <2>2. s \in Seq(Lines)
    BY <1>0, <2>1, SnapshotLines
  <2> QED
    BY <1>7, <2>1, <2>2, WriteShapes, ClaimShapes DEF Snapshot, SnapshotLoaded
<1>8. ASSUME NEW w \in Workers, Replace(w)
      PROVE  TypeOK'
  <2>1. out[w].lines \in Seq(Lines)
    BY <1>8, WriteShapes DEF Replace
  <2>2. out[w].lines \in Seq(Lines \cup {Garbage})
    BY <2>1
  <2> QED
    BY <1>8, <2>2, WriteShapes, ClaimShapes DEF Replace, Release
<1>9. ASSUME NEW w \in Workers, Repair(w)
      PROVE  TypeOK'
  <2>1. Len(file) \in 1 .. Len(file)
    BY <1>9 DEF Repair, Unparsable
  <2>2. SubSeq(file, 1, Len(file) - 1) \in Seq(Lines \cup {Garbage})
    BY <2>1
  <2> QED
    BY <1>9, <2>2 DEF Repair
<1>10. ASSUME NEW o \in Owners, Crash(o)
       PROVE  TypeOK'
  BY <1>10, WriteShapes, ClaimShapes DEF Crash
<1>11. CASE Tick
  BY <1>11 DEF Tick, Times
<1>12. CASE UNCHANGED vars
  BY <1>12 DEF vars
<1>13. ASSUME NEW w \in Workers, Compact(w) \/ Prune(w)
       PROVE  TypeOK'
  <2>1. \A age : Prunable(age) \in SUBSET Keys
    BY DEF Prunable
  <2> QED
    BY <1>7, <1>13, <2>1 DEF Compact, Prune
<1> QED
  BY <1>1, <1>2, <1>3, <1>4, <1>5, <1>6, <1>8, <1>9, <1>10, <1>11, <1>12, <1>13
  DEF Next, Step

(***************************************************************************)
(* The store keeps its shape in every execution, for every choice of the    *)
(* constants (finitely many keys): torn appends of either kind and a clock  *)
(* that steps back included.                                                *)
(***************************************************************************)
THEOREM TypeCorrect ==
  ASSUME IsFiniteSet(Keys)
  PROVE  Spec => []TypeOK
<1>1. TypeOK /\ [Next]_vars => TypeOK'
  BY TypeNext
<1> QED
  BY <1>1, TypeInit, PTL DEF Spec

-----------------------------------------------------------------------------
(***************************************************************************)
(* The invariant is inductive.                                              *)
(***************************************************************************)
LEMMA InvInit ==
  ASSUME SoundEnvironment, Init
  PROVE  IInv
<1>1. TypeOK
  BY TypeInit
<1>2. Len(file) = 0 /\ file \in Files /\ \A w \in Workers : pc[w] = "idle"
  BY DEF Init, Files
<1> QED
  BY <1>1, <1>2
  DEF IInv, Init, WriterHoldsLock, Writing, GarbageOnlyAtEnd, TimesInOrder, AppendInOrder,
      SnapshotOfLatest, DecisionsStillDue, ClaimsKept, AckedCompletionsDurable

(* A free lock means that nobody is about to write.                        *)
LEMMA FreeLock ==
  ASSUME WriterHoldsLock, lock = NoWorker, NEW v \in Workers
  PROVE  ~Writing(v)
  BY LockAssumption DEF WriterHoldsLock

(* A claim decides from the file that it loaded.                           *)
LEMMA ClaimPreserves ==
  ASSUME SoundEnvironment, IInv, TypeOK', NEW w \in Workers, NEW k \in Keys, Claim(w, k)
  PROVE  IInv'
<1> DEFINE r == Latest(file, k)
           l == NewClaim(w, k, r)
<1> USE DEF IInv, TypeOK
<1>1. /\ pc' = [pc EXCEPT ![w] = "claiming"] /\ pc[w] = "idle" /\ lock' = w
      /\ out' = [out EXCEPT ![w] = [write |-> "line", line |-> l]]
      /\ ~Corrupt(file) /\ Claimable(r) /\ UNCHANGED <<file, tail, clock, held, acked>>
  BY DEF Claim, ClaimLoaded
<1>2. \A v \in Workers : ~Writing(v)
  BY FreeLock DEF Claim, ClaimLoaded
<1>3. \A v \in Workers : v # w => ~Writing(v)' /\ pc'[v] = pc[v]
  BY <1>1, <1>2 DEF Writing
<1>4. /\ l.key = k /\ l.status = "IN_PROGRESS" /\ l.owner = OwnerOf[w] /\ l.updated = clock
      /\ l.attempt = (IF r = NoLine THEN 1 ELSE r.attempt + 1)
  BY DEF NewClaim
<1> HIDE DEF l
<1>5. WriterHoldsLock' /\ SnapshotOfLatest'
  BY <1>1, <1>3 DEF WriterHoldsLock, SnapshotOfLatest, Writing
<1>6. GarbageOnlyAtEnd' /\ TimesInOrder' /\ AckedCompletionsDurable'
  BY <1>1 DEF GarbageOnlyAtEnd, TimesInOrder, AckedCompletionsDurable
<1>7. AppendInOrder'
  BY <1>1, <1>3, <1>4 DEF AppendInOrder, Writing, TimesInOrder, Times
<1>8. DecisionsStillDue'
  BY <1>1, <1>3, <1>4 DEF DecisionsStillDue, Writing, ClaimStillDue, Claimable, Expired
<1>9. ClaimsKept'
  BY <1>1, <1>3 DEF ClaimsKept, Overdue, OwnsRecord, OwnAttempt
<1> QED
  BY <1>5, <1>6, <1>7, <1>8, <1>9

(* A settlement decides from the file that it loaded.                      *)
LEMMA SettlePreserves ==
  ASSUME SoundEnvironment, IInv, TypeOK', NEW w \in Workers,
         NEW s \in {"COMPLETED", "FAILED", "RECOVERABLE"}, Settle(w, s)
  PROVE  IInv'
<1> DEFINE r == Latest(file, held[w].key)
           l == [r EXCEPT !.status = s, !.updated = clock]
<1> USE DEF IInv, TypeOK
<1>1. /\ pc' = [pc EXCEPT ![w] = "settling"] /\ pc[w] = "working" /\ lock' = w
      /\ out' = [out EXCEPT ![w] = [write |-> "line", line |-> l]]
      /\ ~Corrupt(file) /\ MaySettle(w, r) /\ UNCHANGED <<file, tail, clock, held, acked>>
  BY DEF Settle
<1>2. \A v \in Workers : ~Writing(v)
  BY FreeLock DEF Settle
<1>3. \A v \in Workers : v # w => ~Writing(v)' /\ pc'[v] = pc[v]
  BY <1>1, <1>2 DEF Writing
<1>4. held[w].key \in Keys /\ r \in Lines /\ r.key = held[w].key
  <2>1. held[w].key \in Keys /\ file \in Files
    BY <1>1, ClaimShapes DEF Files
  <2> QED
    BY <1>1, <2>1, LatestType DEF MaySettle
<1>5. r.attempt = held[w].attempt
  BY <1>1 DEF ClaimsKept, OwnAttempt, MaySettle
<1>6. /\ l.key = held[w].key /\ l.status = s /\ l.owner = OwnerOf[w] /\ l.updated = clock
      /\ l.attempt = r.attempt
  BY <1>1, <1>4 DEF Lines, MaySettle
<1> HIDE DEF l
<1>7. WriterHoldsLock' /\ SnapshotOfLatest'
  BY <1>1, <1>3 DEF WriterHoldsLock, SnapshotOfLatest, Writing
<1>8. GarbageOnlyAtEnd' /\ TimesInOrder' /\ AckedCompletionsDurable'
  BY <1>1 DEF GarbageOnlyAtEnd, TimesInOrder, AckedCompletionsDurable
<1>9. AppendInOrder'
  BY <1>1, <1>3, <1>5, <1>6 DEF AppendInOrder, Writing, TimesInOrder, Times
<1>10. DecisionsStillDue'
  BY <1>1, <1>3, <1>6 DEF DecisionsStillDue, Writing, SettlementStillDue, MaySettle
<1>11. ClaimsKept'
  BY <1>1, <1>3 DEF ClaimsKept, Overdue, OwnsRecord, OwnAttempt
<1> QED
  BY <1>7, <1>8, <1>9, <1>10, <1>11

(* Steps that leave the file alone and take one worker, or the workers of  *)
(* one process, back to "idle".                                            *)
LEMMA BackToIdlePreserves ==
  ASSUME SoundEnvironment, IInv, TypeOK', NEW D \in SUBSET Workers,
         UNCHANGED <<file, tail, clock, acked>>,
         \A v \in D : pc'[v] = "idle",
         \A v \in Workers \ D : pc'[v] = pc[v] /\ held'[v] = held[v] /\ out'[v] = out[v],
         lock' = lock \/ lock \in D
  PROVE  IInv'
<1> USE DEF IInv
<1>1. WriterHoldsLock'
  BY DEF WriterHoldsLock, Writing
<1>2. GarbageOnlyAtEnd' /\ TimesInOrder' /\ AckedCompletionsDurable'
  BY DEF GarbageOnlyAtEnd, TimesInOrder, AckedCompletionsDurable
<1>3. AppendInOrder'
  BY DEF AppendInOrder
<1>4. SnapshotOfLatest'
  BY DEF SnapshotOfLatest
<1>5. DecisionsStillDue'
  BY DEF DecisionsStillDue, ClaimStillDue, Claimable, Expired, SettlementStillDue,
         MaySettle, SnapshotStillDue
<1>6. ClaimsKept'
  BY DEF ClaimsKept, Overdue, OwnsRecord, OwnAttempt
<1> QED
  BY <1>1, <1>2, <1>3, <1>4, <1>5, <1>6

(* Compaction and pruning decide from the file they loaded.                *)
LEMMA SnapshotPreserves ==
  ASSUME SoundEnvironment, IInv, TypeOK', NEW w \in Workers, NEW gone \in SUBSET Keys,
         \A k \in gone : Latest(file, k).status \in Terminal,
         Snapshot(w, gone)
  PROVE  IInv'
<1> USE DEF IInv, TypeOK
<1>1. PICK s \in Snapshots(Kept(file, gone)) :
        out' = [out EXCEPT ![w] = [write |-> "file", lines |-> s, gone |-> gone]]
  BY DEF Snapshot, SnapshotLoaded
<1>2. /\ pc' = [pc EXCEPT ![w] = "replacing"] /\ pc[w] = "idle" /\ lock' = w
      /\ ~Corrupt(file) /\ UNCHANGED <<file, tail, clock, held, acked>>
  BY DEF Snapshot, SnapshotLoaded
<1>3. \A v \in Workers : v # w => ~Writing(v)' /\ pc'[v] = pc[v]
  BY <1>2, FreeLock DEF Writing, Snapshot, SnapshotLoaded
<1>4. file \in Files /\ IsFiniteSet(Keys)
  BY DEF Files, SoundEnvironment
<1>5. /\ s \in Seq(Lines)
      /\ \A i \in 1 .. Len(s) : s[i].key \notin gone /\ s[i] = Latest(file, s[i].key)
      /\ \A k \in Keys \ gone : Latest(file, k) # NoLine =>
            \E i \in 1 .. Len(s) : s[i] = Latest(file, k)
  BY <1>1, <1>4, SnapshotLines
<1>6. ASSUME NEW k \in Keys
      PROVE  Latest(s, k) = IF k \in gone THEN NoLine ELSE Latest(file, k)
  <2>1. s \in Files
    BY <1>5 DEF Files
  <2>2. \A i \in LinesOf(s, k) : k \notin gone /\ s[i] = Latest(file, k)
    BY <1>5 DEF LinesOf
  <2>3. CASE LinesOf(s, k) = {}
    <3>1. k \in gone \/ Latest(file, k) = NoLine
      <4> SUFFICES ASSUME k \notin gone, Latest(file, k) # NoLine
                   PROVE  FALSE
        OBVIOUS
      <4>1. PICK i \in 1 .. Len(s) : s[i] = Latest(file, k)
        BY <1>5
      <4>2. s[i] \in Lines /\ s[i].key = k
        BY <1>4, <4>1, LatestType
      <4> QED
        BY <2>3, <4>1, <4>2, LineShapes DEF LinesOf
    <3> QED
      BY <2>3, <3>1 DEF Latest
  <2>4. CASE LinesOf(s, k) # {}
    BY <2>1, <2>2, <2>4, LatestIsLast
  <2> QED
    BY <2>3, <2>4
<1>7. WriterHoldsLock' /\ AppendInOrder'
  BY <1>2, <1>3 DEF WriterHoldsLock, AppendInOrder, Writing
<1>8. GarbageOnlyAtEnd' /\ TimesInOrder' /\ AckedCompletionsDurable'
  BY <1>2 DEF GarbageOnlyAtEnd, TimesInOrder, AckedCompletionsDurable
<1>9. SnapshotOfLatest'
  BY <1>1, <1>2, <1>3, <1>5 DEF SnapshotOfLatest, Writing
<1>10. DecisionsStillDue'
  BY <1>1, <1>2, <1>3, <1>6 DEF DecisionsStillDue, Writing, SnapshotStillDue
<1>11. ClaimsKept'
  BY <1>2, <1>3 DEF ClaimsKept, Overdue, OwnsRecord, OwnAttempt
<1> QED
  BY <1>7, <1>8, <1>9, <1>10, <1>11

(* Time passing makes claims overdue and changes no record.                *)
LEMMA TickPreserves ==
  ASSUME SoundEnvironment, IInv, TypeOK', Tick
  PROVE  IInv'
<1> USE DEF IInv
<1>1. clock' \in Nat /\ clock \in Nat /\ clock <= clock' /\ MaxTime \in Nat
  BY TimeAssumption DEF Tick, SoundEnvironment, TypeOK, Times
<1>2. /\ UNCHANGED <<file, tail, lock, pc, held, out, acked>>
      /\ file \in Files
  BY DEF Tick, TypeOK, Files
<1>3. WriterHoldsLock' /\ GarbageOnlyAtEnd' /\ SnapshotOfLatest' /\ AckedCompletionsDurable'
  BY <1>2 DEF WriterHoldsLock, GarbageOnlyAtEnd, SnapshotOfLatest, AckedCompletionsDurable, Writing
<1>4. TimesInOrder'
  <2>1. \A i \in 1 .. Len(file) : file[i] # Garbage => file[i].updated \in Nat
    BY <1>2, LineShapes DEF Files, Times
  <2> QED
    BY <1>1, <1>2, <2>1 DEF TimesInOrder
<1>5. AppendInOrder'
  <2>1. \A w \in Workers : pc[w] \in {"claiming", "settling"} => out[w].line.updated \in Nat
    BY WriteShapes, LineShapes DEF TypeOK, Times
  <2> QED
    BY <1>1, <1>2, <2>1 DEF AppendInOrder
<1>6. \A f \in Files, k \in Keys : Latest(f, k) # NoLine => Latest(f, k).updated \in Nat
  BY LatestType, LineShapes DEF Times
<1>7. \A k \in Keys : Claimable(Latest(file, k)) => Claimable(Latest(file, k))'
  BY <1>1, <1>2, <1>6, TimeAssumption DEF Claimable, Expired
<1>8. DecisionsStillDue'
  <2>1. \A w \in Workers : pc[w] = "claiming" => out[w].line.key \in Keys
    BY WriteShapes, LineShapes DEF TypeOK
  <2> QED
    BY <1>2, <1>7, <2>1
    DEF DecisionsStillDue, ClaimStillDue, SettlementStillDue, MaySettle, SnapshotStillDue
<1>9. ClaimsKept'
  <2>1. \A w \in Workers : pc[w] \in {"working", "settling"} => held[w].since \in Nat
    BY ClaimShapes DEF TypeOK, Times
  <2>2. \A w \in Workers : pc[w] \in {"working", "settling"} /\ Overdue(w) => Overdue(w)'
    BY <1>1, <1>2, <2>1, TimeAssumption DEF Overdue
  <2> QED
    BY <1>2, <2>2 DEF ClaimsKept, OwnsRecord, OwnAttempt
<1> QED
  BY <1>3, <1>4, <1>5, <1>8, <1>9

(* A file that loads ends in a newline and holds records only.             *)
LEMMA CleanFile ==
  ASSUME IInv, ~Corrupt(file)
  PROVE  tail = "newline" /\ \A i \in 1 .. Len(file) : file[i] \in Lines
<1>1. file \in Files /\ Len(file) \in Nat
  BY DEF IInv, TypeOK, Files
<1>2. \A i \in 1 .. Len(file) : file[i] # Garbage /\ file[i] \in Lines \cup {Garbage}
  BY <1>1 DEF Corrupt, Unparsable, Files
<1> QED
  BY <1>1, <1>2 DEF IInv, GarbageOnlyAtEnd

(* Nobody but the writer is at a step that depends on the lock.            *)
LEMMA OneWriter ==
  ASSUME WriterHoldsLock, NEW w \in Workers, Writing(w), NEW v \in Workers, v # w
  PROVE  ~Writing(v)
  BY DEF WriterHoldsLock

(* An append changes the record of one key.                                *)
LEMMA AppendLinePreserves ==
  ASSUME SoundEnvironment, IInv, TypeOK', NEW w \in Workers, AppendLine(w)
  PROVE  IInv'
<1> DEFINE l == out[w].line
<1> USE DEF IInv
<1>1. Writing(w) /\ lock = w /\ ~Corrupt(file) /\ file \in Files /\ Len(file) \in Nat
  BY DEF AppendLine, Writing, WriterHoldsLock, TypeOK, Files
<1>2. l \in Lines /\ l # Garbage /\ l.key \in Keys /\ l.updated \in Nat /\ l.status \in Statuses
      /\ l.attempt \in Nat
  BY <1>1, WriteShapes, LineShapes DEF TypeOK, AppendLine, Times
<1>3. /\ tail = "newline" /\ \A i \in 1 .. Len(file) : file[i] \in Lines
  BY <1>1, CleanFile
<1>4. /\ file' = Append(file, l) /\ tail' = "newline" /\ clock' = clock /\ pc'[w] \in {"idle", "working"}
      /\ file' \in Files
      /\ \A v \in Workers : v # w => pc'[v] = pc[v] /\ held'[v] = held[v] /\ out'[v] = out[v]
  BY <1>1, <1>3 DEF AppendLine, Appended, Release, TypeOK, Files
<1>5. \A v \in Workers : ~Writing(v)'
  BY <1>1, <1>4, OneWriter DEF Writing
<1>6. /\ Len(file') = Len(file) + 1 /\ file'[Len(file) + 1] = l
      /\ \A i \in 1 .. Len(file) : file'[i] = file[i]
  BY <1>1, <1>2, <1>4
<1>7. \A k \in Keys : Latest(file', k) = IF l.key = k THEN l ELSE Latest(file, k)
  BY <1>1, <1>2, <1>4, LatestAppendLine
<1>8. /\ l.owner = OwnerOf[w] /\ l.updated <= clock
      /\ \A i \in 1 .. Len(file) : file[i].updated <= l.updated
      /\ pc[w] = "claiming" => l.status = "IN_PROGRESS"
      /\ pc[w] = "settling" => /\ l.status \in {"COMPLETED", "FAILED", "RECOVERABLE"}
                               /\ l.key = held[w].key /\ l.attempt = held[w].attempt
  BY <1>1, <1>3, LineShapes DEF AppendInOrder, AppendLine
<1> HIDE DEF l
<1>9. WriterHoldsLock' /\ AppendInOrder' /\ SnapshotOfLatest' /\ DecisionsStillDue'
  BY <1>5 DEF WriterHoldsLock, AppendInOrder, SnapshotOfLatest, DecisionsStillDue, Writing
<1>10. GarbageOnlyAtEnd'
  BY <1>1, <1>2, <1>3, <1>4, <1>6, LineShapes DEF GarbageOnlyAtEnd
<1>11. TimesInOrder'
  BY <1>1, <1>2, <1>3, <1>4, <1>6, <1>8, LineShapes DEF TimesInOrder
<1>12. AckedCompletionsDurable'
  <2>1. \A k \in acked : k \in Keys /\ k # l.key
    <3>1. pc[w] = "claiming" => Claimable(Latest(file, l.key))
      BY DEF DecisionsStillDue, ClaimStillDue, l
    <3>2. pc[w] = "settling" => MaySettle(w, Latest(file, l.key))
      BY DEF DecisionsStillDue, SettlementStillDue, l
    <3>3. Latest(file, l.key).status # "COMPLETED"
      BY <3>1, <3>2, LineShapes DEF Claimable, MaySettle, AppendLine
    <3> QED
      BY <3>3 DEF AckedCompletionsDurable, TypeOK
  <2>2. acked' = acked \/ (l.status = "COMPLETED" /\ acked' = acked \cup {l.key})
    BY DEF AppendLine, l
  <2> QED
    BY <1>2, <1>7, <2>1, <2>2 DEF AckedCompletionsDurable
<1>13. ClaimsKept'
  <2>1. ASSUME NEW v \in Workers, (pc[v] \in {"working", "settling"})', v # w
        PROVE  ((Overdue(v) \/ OwnsRecord(v)) /\ OwnAttempt(v))'
    <3>1. /\ pc[v] \in {"working", "settling"} /\ held'[v] = held[v]
          /\ (Overdue(v) \/ OwnsRecord(v)) /\ OwnAttempt(v)
      BY <1>4, <2>1 DEF ClaimsKept
    <3>2. held[v].key \in Keys /\ OwnerOf[v] # OwnerOf[w]
      BY <2>1, <3>1, ClaimShapes DEF TypeOK, SoundEnvironment
    <3>3. CASE held[v].key # l.key
      BY <1>4, <1>7, <2>1, <3>1, <3>2, <3>3 DEF Overdue, OwnsRecord, OwnAttempt, ClaimsKept
    <3>4. CASE held[v].key = l.key
      <4>1. OwnAttempt(v)'
        BY <1>4, <1>7, <1>8, <3>1, <3>2, <3>4 DEF OwnAttempt
      <4>2. OwnsRecord(v) => Overdue(v)
        <5>1. CASE pc[w] = "claiming"
          BY <3>4, <5>1, LineShapes
          DEF DecisionsStillDue, ClaimStillDue, Claimable, Expired, OwnsRecord, Overdue, l
        <5>2. CASE pc[w] = "settling"
          BY <3>2, <3>4, <5>2
          DEF DecisionsStillDue, SettlementStillDue, MaySettle, OwnsRecord, l
        <5> QED
          BY <5>1, <5>2 DEF AppendLine
      <4>3. Overdue(v)'
        BY <1>4, <2>1, <3>1, <4>2 DEF Overdue, ClaimsKept
      <4> QED
        BY <4>1, <4>3
    <3> QED
      BY <3>3, <3>4
  <2>2. ASSUME (pc[w] \in {"working", "settling"})'
        PROVE  ((Overdue(w) \/ OwnsRecord(w)) /\ OwnAttempt(w))'
    <3>1. pc[w] = "claiming" /\ held'[w] = [key |-> l.key, attempt |-> l.attempt, since |-> l.updated]
      BY <2>2 DEF AppendLine, TypeOK, l
    <3>2. held'[w].key = l.key /\ held'[w].attempt = l.attempt /\ held'[w].since = l.updated
      BY <3>1
    <3> QED
      BY <1>2, <1>7, <1>8, <3>1, <3>2 DEF OwnsRecord, OwnAttempt
  <2> QED
    BY <2>1, <2>2 DEF ClaimsKept
<1> QED
  BY <1>9, <1>10, <1>11, <1>12, <1>13

(* An interrupted append changes no record.                                *)
LEMMA AppendTornPreserves ==
  ASSUME SoundEnvironment, IInv, TypeOK', NEW w \in Workers, NEW kind \in TornTails,
         AppendTorn(w, kind)
  PROVE  IInv'
<1> USE DEF IInv
<1>1. Writing(w) /\ lock = w /\ ~Corrupt(file) /\ file \in Files /\ Len(file) \in Nat
      /\ kind = "partial"
  BY DEF AppendTorn, Writing, WriterHoldsLock, TypeOK, Files, SoundEnvironment
<1>2. /\ tail = "newline" /\ \A i \in 1 .. Len(file) : file[i] \in Lines
  BY <1>1, CleanFile
<1>3. /\ file' = Append(file, Garbage) /\ clock' = clock /\ acked' = acked /\ pc'[w] = "idle"
      /\ file' \in Files
      /\ \A v \in Workers : v # w => pc'[v] = pc[v] /\ held'[v] = held[v] /\ out'[v] = out[v]
  BY <1>1, <1>2 DEF AppendTorn, Appended, TornLine, Release, TypeOK, Files
<1>4. \A v \in Workers : ~Writing(v)'
  BY <1>1, <1>3, OneWriter DEF Writing
<1>5. /\ Len(file') = Len(file) + 1 /\ file'[Len(file) + 1] = Garbage
      /\ \A i \in 1 .. Len(file) : file'[i] = file[i]
  BY <1>1, <1>3
<1>6. \A k \in Keys : Latest(file', k) = Latest(file, k)
  BY <1>1, <1>3, LatestAppendGarbage
<1>7. WriterHoldsLock' /\ AppendInOrder' /\ SnapshotOfLatest' /\ DecisionsStillDue'
  BY <1>4 DEF WriterHoldsLock, AppendInOrder, SnapshotOfLatest, DecisionsStillDue, Writing
<1>8. GarbageOnlyAtEnd'
  BY <1>1, <1>2, <1>3, <1>5, LineShapes DEF GarbageOnlyAtEnd
<1>9. TimesInOrder'
  BY <1>1, <1>2, <1>3, <1>5, LineShapes DEF TimesInOrder
<1>10. AckedCompletionsDurable'
  BY <1>3, <1>6 DEF AckedCompletionsDurable, TypeOK
<1>11. ClaimsKept'
  <2>1. \A v \in Workers : (pc[v] \in {"working", "settling"})' =>
          /\ v # w /\ pc[v] \in {"working", "settling"} /\ held[v].key \in Keys
    BY <1>3, ClaimShapes DEF TypeOK
  <2> QED
    BY <1>3, <1>6, <2>1 DEF ClaimsKept, Overdue, OwnsRecord, OwnAttempt
<1> QED
  BY <1>7, <1>8, <1>9, <1>10, <1>11

(* Replacing the file keeps the records that it keeps.                     *)
LEMMA ReplacePreserves ==
  ASSUME SoundEnvironment, IInv, TypeOK', NEW w \in Workers, Replace(w)
  PROVE  IInv'
<1> DEFINE s == out[w].lines
<1> USE DEF IInv
<1>1. Writing(w) /\ lock = w /\ ~Corrupt(file) /\ file \in Files
  BY DEF Replace, Writing, WriterHoldsLock, TypeOK, Files
<1>2. s \in Seq(Lines) /\ Len(s) \in Nat /\ out[w].gone \in SUBSET Keys
  BY WriteShapes DEF Replace, TypeOK
<1>3. /\ file' = s /\ tail' = "newline" /\ clock' = clock /\ pc'[w] = "idle"
      /\ acked' = acked \ out[w].gone
      /\ \A v \in Workers : v # w => pc'[v] = pc[v] /\ held'[v] = held[v] /\ out'[v] = out[v]
  BY DEF Replace, Release, TypeOK
<1>4. \A v \in Workers : ~Writing(v)'
  BY <1>1, <1>3, OneWriter DEF Writing
<1>5. \A k \in Keys :
        /\ k \in out[w].gone => Latest(file, k).status \in Terminal
        /\ Latest(file', k) = IF k \in out[w].gone THEN NoLine ELSE Latest(file, k)
  BY <1>3 DEF DecisionsStillDue, SnapshotStillDue, Replace
<1>6. \A i \in 1 .. Len(s) : s[i] \in Lines /\ s[i].key \in Keys /\ s[i] = Latest(file, s[i].key)
  BY <1>2, LineShapes DEF SnapshotOfLatest, Replace
<1> HIDE DEF s
<1>7. WriterHoldsLock' /\ AppendInOrder' /\ SnapshotOfLatest' /\ DecisionsStillDue'
  BY <1>4 DEF WriterHoldsLock, AppendInOrder, SnapshotOfLatest, DecisionsStillDue, Writing
<1>8. GarbageOnlyAtEnd'
  BY <1>3, <1>6, LineShapes DEF GarbageOnlyAtEnd
<1>9. TimesInOrder'
  <2>1. ASSUME NEW k \in Keys, Latest(file, k) # NoLine
        PROVE  Latest(file, k).updated <= clock
    <3>1. PICK i \in LinesOf(file, k) : Latest(file, k) = file[i]
      BY <1>1, <2>1, LatestIsLast, LatestType DEF Latest
    <3> QED
      BY <3>1 DEF TimesInOrder, LinesOf
  <2>2. ASSUME NEW i \in 1 .. Len(s)
        PROVE  s[i].updated <= clock /\ s[i].updated \in Nat
    BY <1>6, <2>1, LineShapes DEF Times
  <2>3. \A i, j \in 1 .. Len(s) : s[i].key = s[j].key => s[i] = s[j]
    BY <1>6
  <2> QED
    BY <1>3, <2>2, <2>3 DEF TimesInOrder
<1>10. AckedCompletionsDurable'
  BY <1>3, <1>5 DEF AckedCompletionsDurable, TypeOK
<1>11. ClaimsKept'
  <2>1. ASSUME NEW v \in Workers, (pc[v] \in {"working", "settling"})'
        PROVE  ((Overdue(v) \/ OwnsRecord(v)) /\ OwnAttempt(v))'
    <3>1. /\ v # w /\ pc[v] \in {"working", "settling"} /\ held'[v] = held[v] /\ held[v].key \in Keys
          /\ (Overdue(v) \/ OwnsRecord(v)) /\ OwnAttempt(v)
      BY <1>3, <2>1, ClaimShapes DEF TypeOK, ClaimsKept
    <3>2. CASE held[v].key \in out[w].gone
      <4>1. ~OwnsRecord(v)
        BY <1>5, <3>1, <3>2 DEF OwnsRecord, Terminal
      <4>2. OwnAttempt(v)'
        BY <1>5, <3>1, <3>2, LineShapes DEF OwnAttempt
      <4> QED
        BY <1>3, <3>1, <4>1, <4>2 DEF Overdue
    <3>3. CASE held[v].key \notin out[w].gone
      BY <1>3, <1>5, <3>1, <3>3 DEF Overdue, OwnsRecord, OwnAttempt
    <3> QED
      BY <3>2, <3>3
  <2> QED
    BY <2>1 DEF ClaimsKept
<1> QED
  BY <1>7, <1>8, <1>9, <1>10, <1>11

(* Repair removes a line that held no record.                              *)
LEMMA RepairPreserves ==
  ASSUME SoundEnvironment, IInv, TypeOK', NEW w \in Workers, Repair(w)
  PROVE  IInv'
<1> USE DEF IInv
<1>1. file \in Files /\ Len(file) \in Nat /\ Len(file) > 0 /\ file[Len(file)] = Garbage
      /\ \A i \in 1 .. Len(file) : file[i] # Garbage => file[i] \in Lines
  BY DEF TypeOK, Files, Repair, Unparsable
<1>2. /\ file' = SubSeq(file, 1, Len(file) - 1) /\ tail' = "newline"
      /\ UNCHANGED <<lock, clock, pc, held, out, acked>> /\ lock = NoWorker
  BY DEF Repair
<1>3. /\ Len(file') = Len(file) - 1
      /\ \A i \in 1 .. Len(file) - 1 : file'[i] = file[i]
  BY <1>1, <1>2, RepairedFile
<1>4. \A k \in Keys : Latest(file', k) = Latest(file, k)
  BY <1>1, <1>2, LatestRepaired
<1>5. \A v \in Workers : ~Writing(v) /\ ~Writing(v)'
  BY <1>2, FreeLock DEF Writing
<1>6. WriterHoldsLock' /\ AppendInOrder' /\ SnapshotOfLatest' /\ DecisionsStillDue'
  BY <1>5 DEF WriterHoldsLock, AppendInOrder, SnapshotOfLatest, DecisionsStillDue, Writing
<1>7. GarbageOnlyAtEnd'
  BY <1>1, <1>2, <1>3 DEF GarbageOnlyAtEnd
<1>8. TimesInOrder'
  BY <1>1, <1>2, <1>3 DEF TimesInOrder
<1>9. AckedCompletionsDurable'
  BY <1>2, <1>4 DEF AckedCompletionsDurable, TypeOK
<1>10. ClaimsKept'
  <2>1. \A v \in Workers : pc[v] \in {"working", "settling"} => held[v].key \in Keys
    BY ClaimShapes DEF TypeOK
  <2> QED
    BY <1>2, <1>4, <2>1 DEF ClaimsKept, Overdue, OwnsRecord, OwnAttempt
<1> QED
  BY <1>6, <1>7, <1>8, <1>9, <1>10

(* Every step keeps the invariant.                                         *)
LEMMA InvNext ==
  ASSUME SoundEnvironment, IInv, [Next]_vars
  PROVE  IInv'
<1>1. TypeOK'
  BY TypeNext DEF SoundEnvironment, IInv
<1>2. ASSUME NEW w \in Workers, SettleRefused(w)
      PROVE  IInv'
  <2>1. /\ pc'[w] = "idle" /\ UNCHANGED <<file, tail, lock, clock, acked>>
        /\ \A v \in Workers \ {w} : pc'[v] = pc[v] /\ held'[v] = held[v] /\ out'[v] = out[v]
    BY <1>2 DEF SettleRefused, IInv, TypeOK
  <2> QED
    BY <1>1, <2>1, BackToIdlePreserves, {w} \in SUBSET Workers
<1>3. ASSUME NEW w \in Workers, WriteFails(w)
      PROVE  IInv'
  <2>1. /\ pc'[w] = "idle" /\ lock \in {w} /\ UNCHANGED <<file, tail, clock, acked>>
        /\ \A v \in Workers \ {w} : pc'[v] = pc[v] /\ held'[v] = held[v] /\ out'[v] = out[v]
    BY <1>3 DEF WriteFails, Release, IInv, TypeOK, WriterHoldsLock, Writing
  <2> QED
    BY <1>1, <2>1, BackToIdlePreserves, {w} \in SUBSET Workers
<1>4. ASSUME NEW o \in Owners, Crash(o)
      PROVE  IInv'
  <2> DEFINE D == {w \in Workers : OwnerOf[w] = o}
  <2>1. /\ D \in SUBSET Workers /\ (lock' = lock \/ lock \in D)
        /\ UNCHANGED <<file, tail, clock, acked>>
        /\ \A v \in D : pc'[v] = "idle"
        /\ \A v \in Workers \ D : pc'[v] = pc[v] /\ held'[v] = held[v] /\ out'[v] = out[v]
    BY <1>4 DEF Crash
  <2> HIDE DEF D
  <2> QED
    BY <1>1, <2>1, BackToIdlePreserves
<1>5. ASSUME NEW w \in Workers, Compact(w) \/ Prune(w)
      PROVE  IInv'
  <2>1. \A age : Prunable(age) \in SUBSET Keys
                 /\ \A k \in Prunable(age) : Latest(file, k).status \in Terminal
    BY DEF Prunable
  <2> QED
    BY <1>1, <1>5, <2>1, SnapshotPreserves DEF Compact, Prune
<1>6. CASE UNCHANGED vars
  BY <1>6
  DEF vars, IInv, TypeOK, WriterHoldsLock, Writing, GarbageOnlyAtEnd, TimesInOrder, AppendInOrder,
      SnapshotOfLatest, DecisionsStillDue, ClaimStillDue, Claimable, Expired, SettlementStillDue,
      MaySettle, SnapshotStillDue, ClaimsKept, Overdue, OwnsRecord, OwnAttempt,
      AckedCompletionsDurable
<1> QED
  BY <1>1, <1>2, <1>3, <1>4, <1>5, <1>6, ClaimPreserves, SettlePreserves, AppendLinePreserves,
     AppendTornPreserves, ReplacePreserves, RepairPreserves, TickPreserves
  DEF Next, Step

(* The invariant holds throughout.                                         *)
LEMMA InvAlways ==
  ASSUME SoundEnvironment
  PROVE  Spec => []IInv
<1>1. Init => IInv
  BY InvInit
<1>2. IInv /\ [Next]_vars => IInv'
  BY InvNext
<1> QED
  BY <1>1, <1>2, PTL DEF Spec

-----------------------------------------------------------------------------
(***************************************************************************)
(* A critical section of claim(), complete(), fail(), compact() or prune()  *)
(* writes what the current file calls for: the decision is atomic.          *)
(***************************************************************************)
THEOREM DecisionsAtomic ==
  ASSUME SoundEnvironment
  PROVE  Spec => []DecisionsStillDue
<1>1. IInv => DecisionsStillDue
  BY DEF IInv
<1> QED
  BY <1>1, InvAlways, PTL

(***************************************************************************)
(* Tools run under the store never overlap on one operation while they      *)
(* finish within ttl_seconds.                                               *)
(***************************************************************************)
THEOREM Exclusion ==
  ASSUME SoundEnvironment
  PROVE  Spec => []ExclusiveUnlessOverdue
<1>1. IInv => ExclusiveUnlessOverdue
  BY DEF IInv, ExclusiveUnlessOverdue, Runs, ClaimsKept, OwnsRecord, SoundEnvironment
<1> QED
  BY <1>1, InvAlways, PTL

(***************************************************************************)
(* A completion that complete() acknowledged stays readable until prune().  *)
(***************************************************************************)
THEOREM Durability ==
  ASSUME SoundEnvironment
  PROVE  Spec => []AckedCompletionsDurable
<1>1. IInv => AckedCompletionsDurable
  BY DEF IInv
<1> QED
  BY <1>1, InvAlways, PTL

(***************************************************************************)
(* complete() and fail() by a worker whose claim was taken over are refused *)
(***************************************************************************)
THEOREM Ownership ==
  ASSUME SoundEnvironment
  PROVE  Spec => []SettlesOwnClaim
<1>1. IInv => SettlesOwnClaim
  BY DEF IInv, SettlesOwnClaim, AppendInOrder
<1> QED
  BY <1>1, InvAlways, PTL

(***************************************************************************)
(* repair() always gets a store that no longer loads going again.           *)
(***************************************************************************)
THEOREM Repairable ==
  ASSUME SoundEnvironment
  PROVE  Spec => []RepairSuffices
<1>1. IInv => RepairSuffices
  <2> SUFFICES ASSUME IInv, Corrupt(file)
               PROVE  /\ Unparsable(file) = {Len(file)}
                      /\ ~Corrupt(SubSeq(file, 1, Len(file) - 1))
    BY DEF RepairSuffices
  <2> USE DEF IInv
  <2>1. file \in Files /\ Len(file) \in Nat
        /\ \A i \in 1 .. Len(file) : file[i] # Garbage => file[i] \in Lines
    BY DEF TypeOK, Files
  <2>2. ~MovedBack(file)
    <3> SUFFICES ASSUME NEW k \in Keys, NEW i \in LinesOf(file, k), NEW j \in LinesOf(file, k),
                        i < j
                 PROVE  ~(file[j].updated < file[i].updated)
      BY DEF MovedBack
    <3>1. file[i].updated \in Nat /\ file[j].updated \in Nat
      BY <2>1, LineShapes DEF LinesOf, Times
    <3>2. file[i].updated <= file[j].updated
      BY DEF TimesInOrder, LinesOf
    <3> QED
      BY <3>1, <3>2
  <2>3. Unparsable(file) = {Len(file)} /\ Len(file) > 0
    BY <2>1, <2>2 DEF Corrupt, Unparsable, GarbageOnlyAtEnd
  <2> DEFINE g == SubSeq(file, 1, Len(file) - 1)
  <2>4. g \in Files /\ Len(g) = Len(file) - 1 /\ \A i \in 1 .. Len(file) - 1 : g[i] = file[i]
    BY <2>1, <2>3, RepairedFile
  <2> HIDE DEF g
  <2>5. Unparsable(g) = {}
    BY <2>1, <2>3, <2>4 DEF Unparsable
  <2>6. ~MovedBack(g)
    <3>1. \A k \in Keys : \A i \in LinesOf(g, k) : i \in LinesOf(file, k) /\ g[i] = file[i]
      BY <2>1, <2>4 DEF LinesOf
    <3> QED
      BY <2>2, <3>1 DEF MovedBack
  <2> QED
    BY <2>3, <2>5, <2>6 DEF Corrupt, g
<1> QED
  BY <1>1, InvAlways, PTL

-----------------------------------------------------------------------------
(***************************************************************************)
(* What one step does to the records a load returns: nothing, or the one    *)
(* change of the append or replacement that the step makes.                 *)
(***************************************************************************)
RecordsKept == \A k \in Keys : Latest(file', k) = Latest(file, k)

RecordAppended(w) ==
  /\ pc[w] \in {"claiming", "settling"}
  /\ \A k \in Keys :
       Latest(file', k) = IF out[w].line.key = k THEN out[w].line ELSE Latest(file, k)

RecordsPruned(w) ==
  /\ pc[w] = "replacing"
  /\ \A k \in Keys : Latest(file', k) = IF k \in out[w].gone THEN NoLine ELSE Latest(file, k)

(* What each step does to the records.                                     *)
LEMMA RecordEffects ==
  ASSUME SoundEnvironment, IInv, [Next]_vars
  PROVE  RecordsKept \/ \E w \in Workers : RecordAppended(w) \/ RecordsPruned(w)
<1> USE DEF IInv
<1>1. file \in Files
  BY DEF TypeOK, Files
<1>2. CASE file' = file
  BY <1>2 DEF RecordsKept
<1>3. ASSUME NEW w \in Workers, AppendLine(w)
      PROVE  RecordAppended(w)
  <2>1. ~Corrupt(file) /\ out[w].line \in Lines
    BY <1>3, WriteShapes DEF AppendLine, WriterHoldsLock, Writing, TypeOK
  <2>2. file' = Append(file, out[w].line)
    BY <1>3, <2>1, CleanFile DEF AppendLine, Appended
  <2> QED
    BY <1>1, <1>3, <2>1, <2>2, LatestAppendLine DEF RecordAppended, AppendLine
<1>4. ASSUME NEW w \in Workers, NEW kind \in TornTails, AppendTorn(w, kind)
      PROVE  RecordsKept
  <2>1. ~Corrupt(file) /\ kind = "partial"
    BY <1>4 DEF AppendTorn, WriterHoldsLock, Writing, SoundEnvironment
  <2>2. file' = Append(file, Garbage)
    BY <1>4, <2>1, CleanFile DEF AppendTorn, Appended, TornLine
  <2> QED
    BY <1>1, <2>2, LatestAppendGarbage DEF RecordsKept
<1>5. ASSUME NEW w \in Workers, Replace(w)
      PROVE  RecordsPruned(w)
  BY <1>5 DEF Replace, RecordsPruned, DecisionsStillDue, SnapshotStillDue
<1>6. ASSUME NEW w \in Workers, Repair(w)
      PROVE  RecordsKept
  <2>1. Len(file) > 0 /\ file[Len(file)] = Garbage
    BY <1>1, <1>6 DEF Repair, Unparsable, Files
  <2> QED
    BY <1>1, <1>6, <2>1, LatestRepaired DEF RecordsKept, Repair
<1> QED
  BY <1>2, <1>3, <1>4, <1>5, <1>6
  DEF Next, Step, vars, Claim, ClaimLoaded, Settle, SettleRefused, WriteFails, Compact, Prune, Snapshot, SnapshotLoaded,
      Crash, Tick

(***************************************************************************)
(* No COMPLETED record becomes IN_PROGRESS.                                 *)
(***************************************************************************)
THEOREM NeverReopened ==
  ASSUME SoundEnvironment
  PROVE  Spec => NoReopening
<1> DEFINE A == \A k \in Keys : Latest(file, k).status = "COMPLETED"
                                => Latest(file', k).status # "IN_PROGRESS"
<1>1. IInv /\ [Next]_vars => [A]_file
  <2> SUFFICES ASSUME IInv, [Next]_vars, NEW k \in Keys, Latest(file, k).status = "COMPLETED"
               PROVE  Latest(file', k).status # "IN_PROGRESS"
    OBVIOUS
  <2>1. CASE RecordsKept
    BY <2>1 DEF RecordsKept
  <2>2. ASSUME NEW w \in Workers, RecordAppended(w)
        PROVE  Latest(file', k).status # "IN_PROGRESS"
    <3>1. out[w].line.key = k => FALSE
      BY <2>2, LineShapes
      DEF RecordAppended, IInv, DecisionsStillDue, ClaimStillDue, Claimable,
          SettlementStillDue, MaySettle
    <3> QED
      BY <2>2, <3>1 DEF RecordAppended
  <2>3. ASSUME NEW w \in Workers, RecordsPruned(w)
        PROVE  Latest(file', k).status # "IN_PROGRESS"
    BY <2>3, LineShapes DEF RecordsPruned
  <2> QED
    BY <2>1, <2>2, <2>3, RecordEffects
<1> QED
  BY <1>1, InvAlways, PTL DEF Spec, NoReopening

-----------------------------------------------------------------------------
(***************************************************************************)
(* The JSONL store implements the contract.                                 *)
(***************************************************************************)
recs == [k \in Keys |-> RecordOf(k)]

ContractRecord(r) ==
  IF r = NoLine THEN [status |-> "NONE"]
  ELSE [status |-> r.status, owner |-> r.owner, attempt |-> r.attempt]

(* The abstract record depends on the latest line only.                    *)
LEMMA RecordOfLatest ==
  /\ \A k \in Keys : recs[k] = ContractRecord(Latest(file, k))
  /\ \A k \in Keys : recs'[k] = ContractRecord(Latest(file', k))
  BY DEF recs, RecordOf, ContractRecord

(* A new store maps to a new contract.                                     *)
LEMMA InitImplements ==
  ASSUME Init
  PROVE  Contract!Init
<1>1. \A k \in Keys : Latest(file, k) = NoLine
  BY DEF Init, Latest, LinesOf
<1> QED
  BY <1>1 DEF Contract!Init, Contract!NoRecord, RecordOf

(* An append maps to a claim or a settlement of the contract.              *)
LEMMA AppendImplements ==
  ASSUME IInv, NEW w \in Workers, RecordAppended(w)
  PROVE  Contract!Next
<1> DEFINE l == out[w].line
           k == l.key
           r == Latest(file, k)
<1> USE DEF IInv
<1>1. l \in Lines /\ k \in Keys /\ l # NoLine /\ l.owner = OwnerOf[w] /\ OwnerOf[w] \in Owners
  BY OwnersAssumption, WriteShapes, LineShapes DEF RecordAppended, TypeOK, AppendInOrder
<1>2. r = NoLine \/ r \in Lines
  BY <1>1, LatestType DEF TypeOK, Files
<1> DEFINE n == [status |-> l.status, owner |-> OwnerOf[w], attempt |-> l.attempt]
<1>3. recs' = [recs EXCEPT ![k] = n]
  <2>1. \A j \in Keys : recs'[j] = IF j = k THEN n ELSE recs[j]
    <3> TAKE j \in Keys
    <3>1. Latest(file', j) = IF k = j THEN l ELSE Latest(file, j)
      BY DEF RecordAppended
    <3>2. ContractRecord(l) = n
      BY <1>1 DEF ContractRecord
    <3> HIDE DEF l, k, n
    <3> QED
      BY <3>1, <3>2, RecordOfLatest
  <2>2. recs = [j \in Keys |-> recs[j]] /\ recs' = [j \in Keys |-> recs'[j]]
    BY DEF recs
  <2> QED
    BY <2>1, <2>2
<1>4. recs[k] = ContractRecord(r)
  BY <1>1, RecordOfLatest
<1> HIDE DEF l, k, r
<1>5. CASE pc[w] = "claiming"
  <2>1. /\ l.status = "IN_PROGRESS" /\ Claimable(r)
        /\ l.attempt = (IF r = NoLine THEN 1 ELSE r.attempt + 1)
    BY <1>5 DEF AppendInOrder, DecisionsStillDue, ClaimStillDue, l, k, r
  <2>2. CASE r = NoLine
    <3>1. recs[k] = Contract!NoRecord /\ n = Contract!Record("IN_PROGRESS", OwnerOf[w], 1)
      BY <1>4, <2>1, <2>2 DEF ContractRecord, Contract!NoRecord, Contract!Record
    <3>2. Contract!Claim(k, OwnerOf[w])
      BY <1>3, <3>1 DEF Contract!Claim, recs
    <3> QED
      BY <1>1, <3>2 DEF Contract!Next
  <2>3. CASE r # NoLine
    <3>1. /\ recs[k].status \in {"RECOVERABLE", "IN_PROGRESS"} /\ recs[k].attempt = r.attempt
          /\ n = Contract!Record("IN_PROGRESS", OwnerOf[w], r.attempt + 1)
      BY <1>4, <2>1, <2>3 DEF ContractRecord, Contract!Record, Claimable
    <3>2. Contract!Claim(k, OwnerOf[w])
      BY <1>3, <3>1 DEF Contract!Claim, recs
    <3> QED
      BY <1>1, <3>2 DEF Contract!Next
  <2> QED
    BY <2>2, <2>3
<1>6. CASE pc[w] = "settling"
  <2>1. /\ l.status \in {"COMPLETED", "FAILED", "RECOVERABLE"} /\ r # NoLine
        /\ r.status = "IN_PROGRESS" /\ r.owner = OwnerOf[w] /\ l.attempt = r.attempt
    BY <1>6 DEF AppendInOrder, DecisionsStillDue, SettlementStillDue, MaySettle, l, k, r
  <2>2. recs[k] = [status |-> "IN_PROGRESS", owner |-> OwnerOf[w], attempt |-> l.attempt]
    BY <1>4, <2>1 DEF ContractRecord
  <2>3. /\ recs[k] # Contract!NoRecord /\ recs[k].status = "IN_PROGRESS"
        /\ recs[k].owner = OwnerOf[w] /\ n = [recs[k] EXCEPT !.status = l.status]
    BY <2>2 DEF Contract!NoRecord
  <2>4. recs' = [recs EXCEPT ![k].status = l.status]
    BY <1>3, <2>3
  <2>5. Contract!Settle(k, OwnerOf[w])
    BY <2>1, <2>3, <2>4 DEF Contract!Settle, recs
  <2> QED
    BY <1>1, <2>5 DEF Contract!Next
<1> QED
  BY <1>5, <1>6 DEF RecordAppended

(* A prune maps to the contract forgetting settled records.                *)
LEMMA PruneImplements ==
  ASSUME IInv, NEW w \in Workers, RecordsPruned(w)
  PROVE  Contract!Next
<1> DEFINE gone == {k \in Keys : k \in out[w].gone}
<1>1. \A k \in gone : Latest(file, k).status \in Terminal
  BY DEF IInv, DecisionsStillDue, SnapshotStillDue, RecordsPruned
<1>2. \A k \in gone : recs[k].status \in Contract!TerminalStatuses
  <2> TAKE k \in gone
  <2>1. Latest(file, k) # NoLine
    BY <1>1, LineShapes DEF Terminal
  <2>2. recs[k].status = Latest(file, k).status
    <3>1. \A r : r # NoLine => ContractRecord(r).status = r.status
      BY DEF ContractRecord
    <3>2. recs[k] = ContractRecord(Latest(file, k))
      BY RecordOfLatest
    <3> QED
      BY <2>1, <3>1, <3>2
  <2> QED
    BY <1>1, <2>2 DEF Contract!TerminalStatuses, Terminal
<1>3. \A k \in Keys : recs'[k] = IF k \in gone THEN Contract!NoRecord ELSE recs[k]
  BY RecordOfLatest DEF RecordsPruned, ContractRecord, Contract!NoRecord
<1>4. recs' = [k \in Keys |-> recs'[k]]
  BY DEF recs
<1>5. recs' = [k \in Keys |-> IF k \in gone THEN Contract!NoRecord ELSE recs[k]]
  BY <1>3, <1>4
<1> HIDE DEF gone
<1>6. gone \in SUBSET {k \in Keys : recs[k].status \in Contract!TerminalStatuses}
  BY <1>2 DEF gone
<1> QED
  BY <1>5, <1>6 DEF Contract!Next, Contract!Prune, recs

(***************************************************************************)
(* The append-only file, its lock, reload, compaction, pruning and repair   *)
(* implement the atomic per-key records of IdempotencyStoreProtocol, through *)
(* crashes and torn writes.                                                 *)
(***************************************************************************)
THEOREM Refinement ==
  ASSUME SoundEnvironment
  PROVE  Spec => ImplementsContract
<1>1. Init => Contract!Init
  BY InitImplements
<1>2. IInv /\ [Next]_vars => [Contract!Next]_([k \in Keys |-> RecordOf(k)])
  <2> SUFFICES ASSUME IInv, [Next]_vars
               PROVE  [Contract!Next]_recs
    BY DEF recs
  <2>1. CASE RecordsKept
    <3>1. \A k \in Keys : recs'[k] = recs[k]
      BY <2>1, RecordOfLatest DEF RecordsKept
    <3>2. recs = [k \in Keys |-> recs[k]] /\ recs' = [k \in Keys |-> recs'[k]]
      BY DEF recs
    <3>3. recs' = recs
      BY <3>1, <3>2
    <3> QED
      BY <3>3
  <2> QED
    BY <2>1, RecordEffects, AppendImplements, PruneImplements
<1> QED
  BY <1>1, <1>2, InvAlways, PTL DEF Spec, ImplementsContract, Contract!Spec
=============================================================================
