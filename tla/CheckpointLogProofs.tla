-------------------------- MODULE CheckpointLogProofs --------------------------
(***************************************************************************)
(* Proofs about CheckpointLog, for any runs, workers, events, clock and      *)
(* number of lines.  The argument: under the lock every write either adds    *)
(* one line at the end of the file or leaves the file as it was (the text    *)
(* lands on a last line that does not parse already), so reading a run's     *)
(* history commutes with the write; what log_event decided from its scan is  *)
(* still what the file says when it appends.  Reading is a recursion along   *)
(* the file; its defining equation and the facts about it are proved by      *)
(* minimal counterexample.                                                   *)
(***************************************************************************)
EXTENDS CheckpointLog, WellFoundedInduction, TLAPS

Files == Seq(Lines \cup {Garbage})

Histories == Seq(Lines)

-----------------------------------------------------------------------------
(* Every nonempty set of line numbers has a least element.                 *)
LEMMA NaturalsHaveMinimum ==
  ASSUME NEW T, T \subseteq Nat, T # {}
  PROVE  \E x \in T : \A y \in T : x <= y
<1> DEFINE R == OpToRel(<, Nat)
<1>1. IsWellFoundedOn(R, Nat)
  BY NatLessThanWellFounded
<1>2. \A x, y \in Nat : y < x => <<y, x>> \in R
  BY DEF OpToRel
<1> HIDE DEF R
<1>3. PICK x \in T : \A y \in T : ~(<<y, x>> \in R)
  BY <1>1, WFMin
<1>4. \A y \in T : ~(y < x)
  BY <1>2, <1>3
<1> QED
  BY <1>3, <1>4

(* A line that does not parse, or is missing, differs from every line of a *)
(* run.                                                                    *)
LEMMA Shapes ==
  /\ Garbage \notin Lines /\ NoLine \notin Lines /\ Garbage # NoLine
  /\ Garbage.run \notin Runs
  /\ \A l \in Lines : l.run \in Runs /\ l.seq \in Nat /\ l.ts \in Nat /\ l.event \in Events
<1>1. Garbage.run = "GARBAGE" /\ NoLine.run = "NONE" /\ "GARBAGE" # "NONE"
  BY DEF Garbage, NoLine
<1>2. \A l \in Lines : l.run \in Runs /\ l.seq \in Nat /\ l.ts \in Nat /\ l.event \in Events
  BY DEF Lines
<1> QED
  BY <1>1, <1>2, RunsAssumption

-----------------------------------------------------------------------------
(***************************************************************************)
(* Selection: the lines of one run up to each line of the file.             *)
(***************************************************************************)
Picks(s, f, r, n) ==
  s = [i \in 0 .. n |->
        IF i = 0 THEN <<>> ELSE IF f[i].run = r THEN Append(s[i - 1], f[i]) ELSE s[i - 1]]

(* The recursion along the file has a solution for every length.           *)
LEMMA PicksExists ==
  ASSUME NEW f, NEW r, NEW n \in Nat
  PROVE  \E s : Picks(s, f, r, n)
<1> DEFINE Bad == {m \in Nat : ~\E s : Picks(s, f, r, m)}
<1>1. SUFFICES ASSUME Bad # {} PROVE FALSE
  OBVIOUS
<1>2. PICK m \in Bad : \A k \in Bad : m <= k
  BY <1>1, NaturalsHaveMinimum
<1>3. CASE m = 0
  <2> DEFINE t == [i \in 0 .. 0 |-> <<>>]
  <2>1. Picks(t, f, r, 0)
    BY DEF Picks
  <2> QED
    BY <2>1, <1>2, <1>3
<1>4. CASE m # 0
  <2>1. m \in Nat /\ m - 1 \in Nat /\ m - 1 \notin Bad
    BY <1>2, <1>4
  <2>2. PICK s : Picks(s, f, r, m - 1)
    BY <2>1
  <2> DEFINE t == [i \in 0 .. m |-> IF i < m THEN s[i]
                     ELSE IF f[m].run = r THEN Append(s[m - 1], f[m]) ELSE s[m - 1]]
  <2>3. \A i \in 0 .. m - 1 : s[i] =
          IF i = 0 THEN <<>> ELSE IF f[i].run = r THEN Append(s[i - 1], f[i]) ELSE s[i - 1]
    BY <2>2 DEF Picks
  <2>4. \A i \in 0 .. m : t[i] =
          IF i = 0 THEN <<>> ELSE IF f[i].run = r THEN Append(t[i - 1], f[i]) ELSE t[i - 1]
    <3> TAKE i \in 0 .. m
    <3>1. CASE i = m
      <4>1. t[i] = IF f[m].run = r THEN Append(s[m - 1], f[m]) ELSE s[m - 1]
        BY <3>1, <2>1
      <4>2. t[m - 1] = s[m - 1]
        BY <2>1
      <4> HIDE DEF t
      <4> QED
        BY <4>1, <4>2, <3>1, <1>4
    <3>2. CASE i # m
      <4>1. t[i] = s[i] /\ (i # 0 => t[i - 1] = s[i - 1]) /\ i \in 0 .. m - 1
        BY <3>2, <2>1
      <4> HIDE DEF t
      <4> QED
        BY <4>1, <2>3
    <3> QED
      BY <3>1, <3>2
  <2>5. t = [i \in 0 .. m |-> t[i]]
    OBVIOUS
  <2> HIDE DEF t
  <2>6. Picks(t, f, r, m)
    BY <2>4, <2>5 DEF Picks
  <2> QED
    BY <2>6, <1>2
<1> QED
  BY <1>3, <1>4

(* So Selection is that solution.                                          *)
LEMMA SelectionPicks ==
  ASSUME NEW f \in Files, NEW r
  PROVE  /\ Selection(f, r)[0] = <<>>
         /\ \A i \in 1 .. Len(f) : Selection(f, r)[i] =
              IF f[i].run = r THEN Append(Selection(f, r)[i - 1], f[i])
                              ELSE Selection(f, r)[i - 1]
<1>1. Len(f) \in Nat
  BY DEF Files
<1>2. Selection(f, r) = CHOOSE s : Picks(s, f, r, Len(f))
  BY DEF Selection, Picks
<1>3. Picks(Selection(f, r), f, r, Len(f))
  BY <1>1, <1>2, PicksExists
<1> DEFINE s == Selection(f, r)
<1>4. Picks(s, f, r, Len(f))
  BY <1>3
<1> HIDE DEF s
<1>5. \A i \in 0 .. Len(f) : s[i] =
         IF i = 0 THEN <<>> ELSE IF f[i].run = r THEN Append(s[i - 1], f[i]) ELSE s[i - 1]
  BY <1>4 DEF Picks
<1>6. s[0] = <<>> /\ \A i \in 1 .. Len(f) : s[i] =
         IF f[i].run = r THEN Append(s[i - 1], f[i]) ELSE s[i - 1]
  BY <1>5, <1>1
<1> QED
  BY <1>6 DEF s

(* What is selected are lines of the run.                                  *)
LEMMA SelectionTyped ==
  ASSUME NEW f \in Files, NEW r \in Runs
  PROVE  \A i \in 0 .. Len(f) : Selection(f, r)[i] \in Histories
<1> DEFINE s == Selection(f, r)
           Bad == {i \in Nat : i <= Len(f) /\ s[i] \notin Histories}
<1>1. Len(f) \in Nat /\ \A i \in 1 .. Len(f) : f[i] \in Lines \cup {Garbage}
  BY DEF Files
<1>2. s[0] = <<>> /\ \A i \in 1 .. Len(f) : s[i] =
         IF f[i].run = r THEN Append(s[i - 1], f[i]) ELSE s[i - 1]
  BY SelectionPicks
<1> HIDE DEF s
<1>3. Bad = {}
  <2>1. SUFFICES ASSUME Bad # {} PROVE FALSE
    OBVIOUS
  <2>2. PICK i \in Bad : \A j \in Bad : i <= j
    BY <2>1, NaturalsHaveMinimum
  <2>3. i # 0
    <3>1. <<>> \in Histories
      BY DEF Histories
    <3> QED
      BY <3>1, <2>2, <1>2
  <2>4. i \in 1 .. Len(f) /\ i - 1 \in Nat /\ i - 1 <= Len(f) /\ i - 1 \notin Bad
    BY <2>2, <2>3, <1>1
  <2>5. s[i - 1] \in Histories
    BY <2>4
  <2>6. f[i].run = r => f[i] \in Lines
    BY <2>4, <1>1, Shapes
  <2>7. s[i] \in Histories
    <3>1. CASE f[i].run = r
      <4>1. s[i] = Append(s[i - 1], f[i])
        BY <3>1, <2>4, <1>2
      <4>2. \A h \in Histories, l \in Lines : Append(h, l) \in Histories
        BY DEF Histories
      <4> QED
        BY <4>1, <4>2, <3>1, <2>5, <2>6
    <3>2. CASE f[i].run # r
      BY <3>2, <2>4, <2>5, <1>2
    <3> QED
      BY <3>1, <3>2
  <2> QED
    BY <2>2, <2>7
<1> QED
  BY <1>1, <1>3 DEF s

(* Reading a file that has grown by a line: a line of the run is added to  *)
(* its history, and the other histories stay.                              *)
LEMMA EventsOfAppend ==
  ASSUME NEW f \in Files, NEW l \in Lines \cup {Garbage}, NEW r \in Runs
  PROVE  /\ EventsOf(f, r) \in Histories
         /\ EventsOf(Append(f, l), r) =
              IF l.run = r THEN Append(EventsOf(f, r), l) ELSE EventsOf(f, r)
<1> DEFINE g == Append(f, l)
           s == Selection(f, r)
           t == Selection(g, r)
           Bad == {i \in Nat : i <= Len(f) /\ s[i] # t[i]}
<1>1. /\ Len(f) \in Nat /\ g \in Files /\ Len(g) = Len(f) + 1
      /\ g[Len(f) + 1] = l /\ \A i \in 1 .. Len(f) : g[i] = f[i]
  BY DEF Files
<1> HIDE DEF g
<1>2. s[0] = <<>> /\ \A i \in 1 .. Len(f) : s[i] =
         IF f[i].run = r THEN Append(s[i - 1], f[i]) ELSE s[i - 1]
  BY SelectionPicks
<1>3. t[0] = <<>> /\ \A i \in 1 .. Len(g) : t[i] =
         IF g[i].run = r THEN Append(t[i - 1], g[i]) ELSE t[i - 1]
  BY <1>1, SelectionPicks
<1>4. EventsOf(f, r) = s[Len(f)] /\ EventsOf(g, r) = t[Len(f) + 1] /\ s[Len(f)] \in Histories
  BY <1>1, SelectionTyped DEF EventsOf
<1> HIDE DEF s, t
<1>5. Bad = {}
  <2>1. SUFFICES ASSUME Bad # {} PROVE FALSE
    OBVIOUS
  <2>2. PICK i \in Bad : \A j \in Bad : i <= j
    BY <2>1, NaturalsHaveMinimum
  <2>3. i # 0
    BY <2>2, <1>2, <1>3
  <2>4. i \in 1 .. Len(f) /\ i \in 1 .. Len(g) /\ i - 1 \in Nat /\ i - 1 <= Len(f) /\ i - 1 \notin Bad
    BY <2>2, <2>3, <1>1
  <2>5. s[i - 1] = t[i - 1] /\ g[i] = f[i]
    BY <2>4, <1>1
  <2>6. s[i] = t[i]
    BY <2>4, <2>5, <1>2, <1>3
  <2> QED
    BY <2>2, <2>6
<1>6. s[Len(f)] = t[Len(f)]
  BY <1>5, <1>1
<1>7. t[Len(f) + 1] = IF l.run = r THEN Append(t[Len(f)], l) ELSE t[Len(f)]
  <2>1. Len(f) + 1 \in 1 .. Len(g) /\ (Len(f) + 1) - 1 = Len(f)
    BY <1>1
  <2> QED
    BY <2>1, <1>1, <1>3
<1> QED
  BY <1>4, <1>6, <1>7 DEF g

(* An empty file has no history.                                           *)
LEMMA EventsOfEmpty ==
  ASSUME NEW r
  PROVE  EventsOf(<<>>, r) = <<>>
<1>1. <<>> \in Files /\ Len(<<>>) = 0
  BY DEF Files
<1> QED
  BY <1>1, SelectionPicks DEF EventsOf

-----------------------------------------------------------------------------
(***************************************************************************)
(* StatesAlong: the states that a history leads through.                    *)
(***************************************************************************)
Scans(s, es, n) ==
  s = [i \in 0 .. n |-> IF i = 0 THEN "PENDING" ELSE Scanned(s[i - 1], es[i].event)]

(* The recursion along the history has a solution for every length.        *)
LEMMA ScansExists ==
  ASSUME NEW es, NEW n \in Nat
  PROVE  \E s : Scans(s, es, n)
<1> DEFINE Bad == {m \in Nat : ~\E s : Scans(s, es, m)}
<1>1. SUFFICES ASSUME Bad # {} PROVE FALSE
  OBVIOUS
<1>2. PICK m \in Bad : \A k \in Bad : m <= k
  BY <1>1, NaturalsHaveMinimum
<1>3. CASE m = 0
  <2> DEFINE t == [i \in 0 .. 0 |-> "PENDING"]
  <2>1. Scans(t, es, 0)
    BY DEF Scans
  <2> QED
    BY <2>1, <1>2, <1>3
<1>4. CASE m # 0
  <2>1. m \in Nat /\ m - 1 \in Nat /\ m - 1 \notin Bad
    BY <1>2, <1>4
  <2>2. PICK s : Scans(s, es, m - 1)
    BY <2>1
  <2> DEFINE t == [i \in 0 .. m |-> IF i < m THEN s[i] ELSE Scanned(s[m - 1], es[m].event)]
  <2>3. \A i \in 0 .. m - 1 : s[i] =
          IF i = 0 THEN "PENDING" ELSE Scanned(s[i - 1], es[i].event)
    BY <2>2 DEF Scans
  <2>4. \A i \in 0 .. m : t[i] =
          IF i = 0 THEN "PENDING" ELSE Scanned(t[i - 1], es[i].event)
    <3> TAKE i \in 0 .. m
    <3>1. CASE i = m
      <4>1. t[i] = Scanned(s[m - 1], es[m].event)
        BY <3>1, <2>1
      <4>2. t[m - 1] = s[m - 1]
        BY <2>1
      <4> HIDE DEF t
      <4> QED
        BY <4>1, <4>2, <3>1, <1>4
    <3>2. CASE i # m
      <4>1. t[i] = s[i] /\ (i # 0 => t[i - 1] = s[i - 1]) /\ i \in 0 .. m - 1
        BY <3>2, <2>1
      <4> HIDE DEF t
      <4> QED
        BY <4>1, <2>3
    <3> QED
      BY <3>1, <3>2
  <2>5. t = [i \in 0 .. m |-> t[i]]
    OBVIOUS
  <2> HIDE DEF t
  <2>6. Scans(t, es, m)
    BY <2>4, <2>5 DEF Scans
  <2> QED
    BY <2>6, <1>2
<1> QED
  BY <1>3, <1>4

(* So StatesAlong is that solution.                                        *)
LEMMA StatesAlongScans ==
  ASSUME NEW es \in Histories
  PROVE  /\ StatesAlong(es)[0] = "PENDING"
         /\ \A i \in 1 .. Len(es) :
              StatesAlong(es)[i] = Scanned(StatesAlong(es)[i - 1], es[i].event)
<1>1. Len(es) \in Nat
  BY DEF Histories
<1>2. StatesAlong(es) = CHOOSE s : Scans(s, es, Len(es))
  BY DEF StatesAlong, Scans
<1> DEFINE s == StatesAlong(es)
<1>4. Scans(s, es, Len(es))
  BY <1>1, <1>2, ScansExists
<1> HIDE DEF s
<1>5. \A i \in 0 .. Len(es) : s[i] =
         IF i = 0 THEN "PENDING" ELSE Scanned(s[i - 1], es[i].event)
  BY <1>4 DEF Scans
<1>6. s[0] = "PENDING" /\ \A i \in 1 .. Len(es) : s[i] = Scanned(s[i - 1], es[i].event)
  BY <1>5, <1>1
<1> QED
  BY <1>6 DEF s

(* A history that grows by an event goes through the same states and then  *)
(* through the one the event leads to.                                     *)
LEMMA StatesAlongAppend ==
  ASSUME NEW es \in Histories, NEW l \in Lines
  PROVE  /\ \A i \in 0 .. Len(es) : StatesAlong(Append(es, l))[i] = StatesAlong(es)[i]
         /\ StatesAlong(Append(es, l))[Len(es) + 1] =
              Scanned(StatesAlong(es)[Len(es)], l.event)
<1> DEFINE g == Append(es, l)
           s == StatesAlong(es)
           t == StatesAlong(g)
           Bad == {i \in Nat : i <= Len(es) /\ s[i] # t[i]}
<1>1. /\ Len(es) \in Nat /\ g \in Histories /\ Len(g) = Len(es) + 1
      /\ g[Len(es) + 1] = l /\ \A i \in 1 .. Len(es) : g[i] = es[i]
  BY DEF Histories
<1> HIDE DEF g
<1>2. s[0] = "PENDING" /\ \A i \in 1 .. Len(es) : s[i] = Scanned(s[i - 1], es[i].event)
  BY StatesAlongScans
<1>3. t[0] = "PENDING" /\ \A i \in 1 .. Len(g) : t[i] = Scanned(t[i - 1], g[i].event)
  BY <1>1, StatesAlongScans
<1> HIDE DEF s, t
<1>5. Bad = {}
  <2>1. SUFFICES ASSUME Bad # {} PROVE FALSE
    OBVIOUS
  <2>2. PICK i \in Bad : \A j \in Bad : i <= j
    BY <2>1, NaturalsHaveMinimum
  <2>3. i # 0
    BY <2>2, <1>2, <1>3
  <2>4. i \in 1 .. Len(es) /\ i \in 1 .. Len(g) /\ i - 1 \in Nat /\ i - 1 <= Len(es) /\ i - 1 \notin Bad
    BY <2>2, <2>3, <1>1
  <2>5. s[i - 1] = t[i - 1] /\ g[i] = es[i]
    BY <2>4, <1>1
  <2>6. s[i] = t[i]
    BY <2>4, <2>5, <1>2, <1>3
  <2> QED
    BY <2>2, <2>6
<1>6. \A i \in 0 .. Len(es) : t[i] = s[i]
  BY <1>5, <1>1
<1>7. t[Len(es) + 1] = Scanned(s[Len(es)], l.event)
  <2>1. Len(es) + 1 \in 1 .. Len(g) /\ (Len(es) + 1) - 1 = Len(es) /\ Len(es) \in 0 .. Len(es)
    BY <1>1
  <2>2. t[Len(es) + 1] = Scanned(t[Len(es)], l.event)
    BY <2>1, <1>1, <1>3
  <2> QED
    BY <2>1, <2>2, <1>6
<1> QED
  BY <1>6, <1>7 DEF g, s, t

-----------------------------------------------------------------------------
(***************************************************************************)
(* What log_event reads from a history in good order.                       *)
(***************************************************************************)
Numbered(es) == \A i \in 1 .. Len(es) : es[i].seq = i

Timed(es) == \A i, j \in 1 .. Len(es) : j < i => es[j].ts < es[i].ts

Accepted(es) == \A i \in 1 .. Len(es) : Accepts(StatesAlong(es)[i - 1], es[i].event)

InOrder(es) == Numbered(es) /\ Timed(es) /\ Accepted(es)

(* A line that continues a history.                                        *)
Continues(es, l) ==
  /\ l.seq = Len(es) + 1
  /\ \A i \in 1 .. Len(es) : es[i].ts < l.ts
  /\ Accepts(StatesAlong(es)[Len(es)], l.event)

(* A history in good order stays so when a line continues it.              *)
LEMMA ContinuedInOrder ==
  ASSUME NEW es \in Histories, NEW l \in Lines, InOrder(es), Continues(es, l)
  PROVE  InOrder(Append(es, l))
<1> DEFINE g == Append(es, l)
           s == StatesAlong(es)
           t == StatesAlong(g)
<1>1. /\ Len(es) \in Nat /\ Len(g) = Len(es) + 1
      /\ g[Len(es) + 1] = l /\ \A i \in 1 .. Len(es) : g[i] = es[i]
  BY DEF Histories
<1>2. \A i \in 0 .. Len(es) : t[i] = s[i]
  BY StatesAlongAppend
<1>3. \A i \in 1 .. Len(es) : es[i].ts \in Nat
  BY <1>1, Shapes DEF Histories
<1>4. l.ts \in Nat
  BY Shapes
<1> HIDE DEF g, s, t
<1>5. Numbered(g)
  BY <1>1 DEF Numbered, InOrder, Continues
<1>6. Timed(g)
  <2>1. \A i, j \in 1 .. Len(es) : j < i => es[j].ts < es[i].ts
    BY DEF InOrder, Timed
  <2>2. \A i \in 1 .. Len(es) : es[i].ts < l.ts
    BY DEF Continues
  <2> SUFFICES ASSUME NEW i \in 1 .. Len(g), NEW j \in 1 .. Len(g), j < i
               PROVE  g[j].ts < g[i].ts
    BY DEF Timed
  <2>3. j \in 1 .. Len(es) /\ (i \in 1 .. Len(es) \/ i = Len(es) + 1)
    BY <1>1
  <2> QED
    BY <2>1, <2>2, <2>3, <1>1
<1>7. Accepted(g)
  <2>1. \A i \in 1 .. Len(es) : Accepts(s[i - 1], es[i].event)
    BY DEF InOrder, Accepted, s
  <2>2. Accepts(s[Len(es)], l.event)
    BY DEF Continues, s
  <2> SUFFICES ASSUME NEW i \in 1 .. Len(g)
               PROVE  Accepts(t[i - 1], g[i].event)
    BY DEF Accepted, t
  <2>3. i - 1 \in 0 .. Len(es) /\ (i \in 1 .. Len(es) \/ (i = Len(es) + 1 /\ i - 1 = Len(es)))
    BY <1>1
  <2> QED
    BY <2>1, <2>2, <2>3, <1>1, <1>2
<1> QED
  BY <1>5, <1>6, <1>7 DEF InOrder, g

(* The greatest element of a set of naturals, however it is found.         *)
LEMMA MaxIs ==
  ASSUME NEW S, S \subseteq Nat, NEW x \in S, \A y \in S : y <= x
  PROVE  MaxOf(S) = x
<1>1. \E z \in S : \A y \in S : y <= z
  OBVIOUS
<1>2. MaxOf(S) \in S /\ \A y \in S : y <= MaxOf(S)
  BY <1>1 DEF MaxOf
<1>3. MaxOf(S) \in Nat /\ x \in Nat /\ x <= MaxOf(S) /\ MaxOf(S) <= x
  BY <1>2
<1> QED
  BY <1>3

(* The scan finds the last number and a time not before any line.          *)
LEMMA ScanFinds ==
  ASSUME NEW f \in Files, NEW r \in Runs, InOrder(EventsOf(f, r)), EventsOf(f, r) \in Histories
  PROVE  /\ LastSeq(f, r) = Len(EventsOf(f, r))
         /\ LastTime(f, r) \in Nat
         /\ \A i \in 1 .. Len(EventsOf(f, r)) : EventsOf(f, r)[i].ts <= LastTime(f, r)
<1> DEFINE es == EventsOf(f, r)
           S == {0} \cup {es[i].seq : i \in 1 .. Len(es)}
           T == {0} \cup {es[i].ts : i \in 1 .. Len(es)}
<1>1. LastSeq(f, r) = MaxOf(S) /\ LastTime(f, r) = MaxOf(T)
  BY DEF LastSeq, LastTime
<1>2. Numbered(es) /\ Timed(es) /\ es \in Histories
  BY DEF InOrder
<1> SUFFICES /\ MaxOf(S) = Len(es) /\ MaxOf(T) \in Nat
             /\ \A i \in 1 .. Len(es) : es[i].ts <= MaxOf(T)
  BY <1>1
<1> HIDE DEF es
<1>3. Len(es) \in Nat /\ \A i \in 1 .. Len(es) : es[i].ts \in Nat /\ es[i].seq = i
  BY <1>2, Shapes DEF Histories, Numbered
<1>4. MaxOf(S) = Len(es)
  <2>1. Len(es) \in S
    <3>1. CASE Len(es) = 0
      BY <3>1
    <3>2. CASE Len(es) # 0
      <4>1. Len(es) \in 1 .. Len(es) /\ es[Len(es)].seq = Len(es)
        BY <3>2, <1>3
      <4> QED
        BY <4>1
    <3> QED
      BY <3>1, <3>2
  <2>2. \A y \in S : y \in Nat /\ y <= Len(es)
    BY <1>3
  <2> HIDE DEF S
  <2> QED
    BY <2>1, <2>2, MaxIs
<1>5. PICK m \in T : \A y \in T : y <= m
  <2>1. CASE Len(es) = 0
    <3>1. 0 \in T /\ \A y \in T : y = 0
      BY <2>1
    <3> HIDE DEF T
    <3>2. \A y \in T : y <= 0
      BY <3>1
    <3> QED
      BY <3>1, <3>2
  <2>2. CASE Len(es) # 0
    <3>1. Len(es) \in 1 .. Len(es)
      BY <2>2, <1>3
    <3>2. \A i \in 1 .. Len(es) : es[i].ts <= es[Len(es)].ts
      BY <3>1, <1>2, <1>3 DEF Timed
    <3>3. es[Len(es)].ts \in T /\ es[Len(es)].ts \in Nat
      BY <3>1, <1>3
    <3> QED
      BY <3>2, <3>3
  <2> QED
    BY <2>1, <2>2
<1>6. T \subseteq Nat
  BY <1>3
<1>7. \A i \in 1 .. Len(es) : es[i].ts \in T
  OBVIOUS
<1> HIDE DEF T
<1>8. MaxOf(T) = m
  BY <1>5, <1>6, MaxIs
<1> QED
  BY <1>4, <1>5, <1>6, <1>7, <1>8

-----------------------------------------------------------------------------
(***************************************************************************)
(* The invariant every environment keeps: types, and a file that ends       *)
(* without a newline has a last line.                                       *)
(***************************************************************************)
Sound == TypeOK /\ (tail # "newline" => file # <<>>)

(* A stamped event is a line.                                              *)
LEMMA StampedTyped ==
  ASSUME Sound, NEW r \in Runs, NEW e \in Offered,
         LastSeq(file, r) \in Nat, LastTime(file, r) \in Nat
  PROVE  /\ Coerced(e) \in Events
         /\ Stamped(r, Coerced(e)) \in Lines
         /\ Stamped(r, Coerced(e)).run = r
         /\ Stamped(r, Coerced(e)).seq = LastSeq(file, r) + 1
         /\ Stamped(r, Coerced(e)).ts > LastTime(file, r)
         /\ Stamped(r, Coerced(e)).event = Coerced(e)
<1>1. Coerced(e) \in Events
  <2>1. CASE e \in Events
    <3>1. e.type \in EventTypes /\ "OTHER" \notin EventTypes
      BY <2>1 DEF Events, EventTypes
    <3> QED
      BY <2>1, <3>1 DEF Coerced
  <2>2. CASE e = [type |-> "OTHER", flag |-> FALSE]
    <3>1. Coerced(e) = [type |-> "RUN_STARTED", flag |-> FALSE]
      BY <2>2 DEF Coerced
    <3>2. "RUN_STARTED" \in EventTypes /\ FALSE \in BOOLEAN
      BY DEF EventTypes
    <3> QED
      BY <3>1, <3>2 DEF Events
  <2> QED
    BY <2>1, <2>2, OfferedAssumption
<1> DEFINE M == {clock, LastTime(file, r) + 1}
<1>2. clock \in Nat
  BY BoundsAssumption DEF Sound, TypeOK
<1>3. PICK m \in M : \A y \in M : y <= m
  BY <1>2
<1>4. M \subseteq Nat /\ LastTime(file, r) + 1 \in M
  BY <1>2
<1> HIDE DEF M
<1>5. MaxOf(M) \in Nat /\ MaxOf(M) > LastTime(file, r)
  <2>1. MaxOf(M) = m
    BY <1>3, <1>4, MaxIs
  <2>2. m \in Nat /\ LastTime(file, r) + 1 <= m
    BY <1>3, <1>4
  <2> QED
    BY <2>1, <2>2
<1>6. Stamped(r, Coerced(e)) =
        [run |-> r, seq |-> LastSeq(file, r) + 1, ts |-> MaxOf(M), event |-> Coerced(e)]
  BY DEF Stamped, M
<1> QED
  BY <1>1, <1>5, <1>6 DEF Lines

(* What the file looks like after text is appended.                        *)
LEMMA AppendedTyped ==
  ASSUME Sound, NEW l \in Lines \cup {Garbage}
  PROVE  /\ Appended(file, tail, l) \in Files
         /\ Appended(file, tail, l) # <<>>
         /\ tail = "newline" => Appended(file, tail, l) = Append(file, l)
         /\ tail # "newline" => /\ Len(Appended(file, tail, l)) = Len(file)
                                /\ Len(file) \in 1 .. Len(file)
                                /\ Appended(file, tail, l)[Len(file)] = Garbage
                                /\ \A i \in 1 .. Len(file) - 1 : Appended(file, tail, l)[i] = file[i]
<1>1. file \in Files /\ Len(file) \in Nat
  BY DEF Sound, TypeOK, Files
<1>2. CASE tail = "newline"
  <2>1. Appended(file, tail, l) = Append(file, l)
    BY <1>2 DEF Appended
  <2> QED
    BY <1>1, <1>2, <2>1 DEF Files
<1>3. CASE tail # "newline"
  <2>1. Appended(file, tail, l) = [file EXCEPT ![Len(file)] = Garbage]
    BY <1>3 DEF Appended
  <2>2. Len(file) \in 1 .. Len(file)
    BY <1>1, <1>3 DEF Sound, Files
  <2> QED
    BY <1>1, <1>3, <2>1, <2>2 DEF Files
<1> QED
  BY <1>2, <1>3

-----------------------------------------------------------------------------
(***************************************************************************)
(* Whatever the file holds, the scan finds natural numbers.                 *)
(***************************************************************************)
(* Finitely many numbers have a greatest one.                              *)
LEMMA FiniteMaximum ==
  ASSUME NEW n \in Nat, NEW g \in [1 .. n -> Nat]
  PROVE  MaxOf({0} \cup {g[i] : i \in 1 .. n}) \in Nat
<1> DEFINE Bounds(k, m) == /\ m \in Nat /\ (m = 0 \/ \E i \in 1 .. k : m = g[i])
                           /\ \A i \in 1 .. k : g[i] <= m
           Bad == {k \in Nat : k <= n /\ ~\E m : Bounds(k, m)}
<1>1. Bad = {}
  <2>1. SUFFICES ASSUME Bad # {} PROVE FALSE
    OBVIOUS
  <2>2. PICK k \in Bad : \A j \in Bad : k <= j
    BY <2>1, NaturalsHaveMinimum
  <2>3. k # 0
    <3>1. Bounds(0, 0)
      OBVIOUS
    <3> QED
      BY <3>1, <2>2
  <2> HIDE DEF Bounds
  <2>4. k \in 1 .. n /\ k - 1 \in Nat /\ k - 1 <= n /\ k - 1 \notin Bad
    BY <2>2, <2>3
  <2>5. PICK m : Bounds(k - 1, m)
    BY <2>4
  <2> USE DEF Bounds
  <2>6. g[k] \in Nat
    BY <2>4
  <2>7. CASE g[k] <= m
    <3>1. Bounds(k, m)
      <4>1. \A i \in 1 .. k : i = k \/ i \in 1 .. k - 1
        BY <2>4
      <4>2. \A i \in 1 .. k - 1 : i \in 1 .. k
        BY <2>4
      <4> QED
        BY <2>5, <2>7, <4>1, <4>2
    <3> QED
      BY <3>1, <2>2
  <2>8. CASE ~(g[k] <= m)
    <3>1. Bounds(k, g[k])
      <4>1. \A i \in 1 .. k : i = k \/ i \in 1 .. k - 1
        BY <2>4
      <4>2. \A i \in 1 .. k - 1 : g[i] \in Nat /\ g[i] <= m
        BY <2>5, <2>4
      <4>3. m \in Nat /\ m <= g[k]
        BY <2>5, <2>6, <2>8
      <4>4. \A i \in 1 .. k - 1 : g[i] <= g[k]
        BY <4>2, <4>3, <2>6
      <4> QED
        BY <2>4, <2>6, <4>1, <4>4
    <3> QED
      BY <3>1, <2>2
  <2> QED
    BY <2>7, <2>8
<1> HIDE DEF Bounds
<1>2. PICK m : Bounds(n, m)
  BY <1>1
<1> USE DEF Bounds
<1> DEFINE S == {0} \cup {g[i] : i \in 1 .. n}
<1>3. S \subseteq Nat /\ m \in S /\ \A y \in S : y <= m
  BY <1>2
<1> HIDE DEF S
<1>4. MaxOf(S) = m
  BY <1>3, MaxIs
<1>5. MaxOf(S) \in Nat
  BY <1>2, <1>4
<1> QED
  BY <1>5 DEF S

(* So the number and the time that log_event starts from are numbers.      *)
LEMMA ScanTyped ==
  ASSUME NEW f \in Files, NEW r \in Runs
  PROVE  /\ EventsOf(f, r) \in Histories
         /\ LastSeq(f, r) \in Nat
         /\ LastTime(f, r) \in Nat
<1> DEFINE es == EventsOf(f, r)
           n == Len(es)
           g == [i \in 1 .. n |-> es[i].seq]
           h == [i \in 1 .. n |-> es[i].ts]
<1>1. es \in Histories
  BY EventsOfAppend
<1>2. LastSeq(f, r) = MaxOf({0} \cup {es[i].seq : i \in 1 .. n})
  BY DEF LastSeq
<1>3. LastTime(f, r) = MaxOf({0} \cup {es[i].ts : i \in 1 .. n})
  BY DEF LastTime
<1> HIDE DEF es
<1>4. n \in Nat /\ \A i \in 1 .. n : es[i].seq \in Nat /\ es[i].ts \in Nat
  BY <1>1, Shapes DEF Histories
<1>5. g \in [1 .. n -> Nat] /\ h \in [1 .. n -> Nat]
  BY <1>4
<1>6. {es[i].seq : i \in 1 .. n} = {g[i] : i \in 1 .. n}
  OBVIOUS
<1>7. {es[i].ts : i \in 1 .. n} = {h[i] : i \in 1 .. n}
  OBVIOUS
<1> HIDE DEF g, h, n
<1>8. MaxOf({0} \cup {g[i] : i \in 1 .. n}) \in Nat
  BY <1>4, <1>5, FiniteMaximum
<1>9. MaxOf({0} \cup {h[i] : i \in 1 .. n}) \in Nat
  BY <1>4, <1>5, FiniteMaximum
<1> QED
  BY <1>1, <1>2, <1>3, <1>6, <1>7, <1>8, <1>9 DEF es

-----------------------------------------------------------------------------
(***************************************************************************)
(* No silent loss, whatever an interrupted append leaves behind: a write    *)
(* that falls on an unfinished line leaves a line that does not parse, and  *)
(* such a line never goes away.                                             *)
(***************************************************************************)
Kept == Sound /\ NoSilentLoss

(* What one write of line l by the holder w of the lock does.              *)
Writes(w, l) ==
  /\ file' = Appended(file, tail, l)
  /\ lock' = NoWorker
  /\ out' = [out EXCEPT ![w] = NoLine]
  /\ clock' = clock

(* A write keeps the shapes and keeps every loss visible.                  *)
LEMMA WriteKeeps ==
  ASSUME Kept, NEW w \in Workers, out[w] # NoLine, NEW l \in Lines \cup {Garbage}, Writes(w, l),
         tail' \in {"newline", "bare", "partial"},
         acked' = acked \/ (l = out[w] /\ acked' = acked \cup {l})
  PROVE  Kept'
<1>1. /\ file \in Files /\ Len(file) \in Nat /\ out[w] \in Lines /\ lock = w
      /\ out \in [Workers -> Lines \cup {NoLine}] /\ acked \in SUBSET Lines
  BY DEF Kept, Sound, TypeOK, Files
<1>2. /\ file' \in Files /\ file' # <<>>
      /\ tail = "newline" => file' = Append(file, l)
      /\ tail # "newline" => /\ Len(file') = Len(file) /\ Len(file) \in 1 .. Len(file)
                             /\ file'[Len(file)] = Garbage
  BY AppendedTyped DEF Writes, Kept
<1>3. acked' \in SUBSET Lines
  BY <1>1
<1>4. Sound'
  <2>1. out' \in [Workers -> Lines \cup {NoLine}]
    BY <1>1 DEF Writes
  <2>2. \A v \in Workers : (out'[v] # NoLine) <=> (lock' = v)
    BY <1>1, LockAssumption DEF Writes, Kept, Sound, TypeOK
  <2>3. lock' \in Workers \cup {NoWorker} /\ clock' \in 0 .. MaxTime
    BY DEF Writes, Kept, Sound, TypeOK
  <2> QED
    BY <1>2, <1>3, <2>1, <2>2, <2>3 DEF Sound, TypeOK, Files
<1>5. NoSilentLoss'
  <2>1. CASE tail # "newline"
    BY <1>2, <2>1 DEF NoSilentLoss, ReplayRefuses
  <2>2. CASE tail = "newline"
    <3>1. /\ Len(file') = Len(file) + 1 /\ file'[Len(file) + 1] = l
          /\ \A i \in 1 .. Len(file) : file'[i] = file[i] /\ i \in 1 .. Len(file')
      BY <1>1, <1>2, <2>2 DEF Files
    <3>2. Len(file) + 1 \in 1 .. Len(file')
      BY <3>1, <1>1
    <3>3. CASE ReplayRefuses(file)
      BY <3>1, <3>3 DEF NoSilentLoss, ReplayRefuses
    <3>4. CASE AckedEventsDurable
      BY <3>1, <3>2, <3>4 DEF NoSilentLoss, AckedEventsDurable
    <3> QED
      BY <3>3, <3>4 DEF Kept, NoSilentLoss
  <2> QED
    BY <2>1, <2>2
<1> QED
  BY <1>4, <1>5 DEF Kept

(* Every step keeps the shapes and keeps every loss visible.               *)
LEMMA NextKept ==
  Kept /\ [Next]_vars => Kept'
<1> SUFFICES ASSUME Kept, [Next]_vars PROVE Kept'
  OBVIOUS
<1>1. /\ file \in Files /\ acked \in SUBSET Lines
      /\ out \in [Workers -> Lines \cup {NoLine}]
      /\ \A v \in Workers : (out[v] # NoLine) <=> (lock = v)
  BY DEF Kept, Sound, TypeOK, Files
<1>2. CASE UNCHANGED vars
  BY <1>2 DEF vars, Kept, Sound, TypeOK, NoSilentLoss, ReplayRefuses, AckedEventsDurable
<1>3. CASE Tick
  <2>1. clock' \in 0 .. MaxTime /\ UNCHANGED <<file, tail, lock, out, acked>>
    BY <1>3 DEF Tick
  <2> QED
    BY <2>1 DEF Kept, Sound, TypeOK, NoSilentLoss, ReplayRefuses, AckedEventsDurable
<1>4. ASSUME NEW w \in Workers, NEW r \in Runs, NEW e \in Offered, LogEvent(w, r, e)
      PROVE  Kept'
  <2> DEFINE l == Stamped(r, Coerced(e))
  <2>1. /\ lock = NoWorker /\ lock' = w /\ out' = [out EXCEPT ![w] = l]
        /\ UNCHANGED <<file, tail, clock, acked>>
    BY <1>4 DEF LogEvent
  <2>2. l \in Lines
    BY <1>1, ScanTyped, StampedTyped DEF Kept
  <2>3. l # NoLine
    BY <2>2, Shapes
  <2> HIDE DEF l
  <2>4. out' \in [Workers -> Lines \cup {NoLine}]
    BY <1>1, <2>1, <2>2
  <2>5. \A v \in Workers : (out'[v] # NoLine) <=> (lock' = v)
    BY <1>1, <2>1, <2>3, LockAssumption
  <2>6. Sound'
    BY <2>1, <2>4, <2>5 DEF Kept, Sound, TypeOK
  <2>7. NoSilentLoss'
    BY <2>1 DEF Kept, NoSilentLoss, ReplayRefuses, AckedEventsDurable
  <2> QED
    BY <2>6, <2>7 DEF Kept
<1>5. ASSUME NEW w \in Workers, AppendLine(w)
      PROVE  Kept'
  <2>1. /\ out[w] # NoLine /\ Writes(w, out[w]) /\ tail' = "newline"
        /\ acked' = acked \cup {out[w]}
    BY <1>5 DEF AppendLine, Release, Writes
  <2>2. out[w] \in Lines
    BY <1>1, <2>1
  <2> QED
    BY <2>1, <2>2, WriteKeeps
<1>6. ASSUME NEW w \in Workers, WriteFails(w)
      PROVE  Kept'
  <2>1. /\ out[w] # NoLine /\ lock' = NoWorker /\ out' = [out EXCEPT ![w] = NoLine]
        /\ UNCHANGED <<file, tail, clock, acked>>
    BY <1>6 DEF WriteFails, Release
  <2>2. out' \in [Workers -> Lines \cup {NoLine}]
    BY <1>1, <2>1
  <2>3. \A v \in Workers : (out'[v] # NoLine) <=> (lock' = v)
    BY <1>1, <2>1, LockAssumption
  <2>4. Sound'
    BY <2>1, <2>2, <2>3 DEF Kept, Sound, TypeOK
  <2>5. NoSilentLoss'
    BY <2>1 DEF Kept, NoSilentLoss, ReplayRefuses, AckedEventsDurable
  <2> QED
    BY <2>4, <2>5 DEF Kept
<1>7. ASSUME NEW w \in Workers, NEW kind \in TornTails, AppendTorn(w, kind)
      PROVE  Kept'
  <2> DEFINE l == TornLine(kind, out[w])
  <2>1. out[w] # NoLine /\ Writes(w, l) /\ acked' = acked /\ tail' = TornTail(tail, kind)
    BY <1>7 DEF AppendTorn, Release, Writes
  <2>2. l \in Lines \cup {Garbage}
    BY <1>1, <2>1 DEF TornLine
  <2>3. tail' \in {"newline", "bare", "partial"}
    BY <2>1, TornAssumption DEF TornTail
  <2> HIDE DEF l
  <2> QED
    BY <2>1, <2>2, <2>3, WriteKeeps
<1> QED
  BY <1>2, <1>3, <1>4, <1>5, <1>6, <1>7 DEF Next, Step

(* A new file has lost nothing.                                            *)
LEMMA InitKept ==
  Init => Kept
<1> SUFFICES ASSUME Init PROVE Kept
  OBVIOUS
<1>1. file = <<>> /\ file \in Seq(Lines \cup {Garbage}) /\ acked = {} /\ acked \in SUBSET Lines
  BY DEF Init
<1>2. out \in [Workers -> Lines \cup {NoLine}] /\ \A v \in Workers : out[v] = NoLine
  BY DEF Init
<1>3. clock \in 0 .. MaxTime
  BY BoundsAssumption DEF Init
<1>4. Sound
  BY <1>1, <1>2, <1>3, LockAssumption DEF Init, Sound, TypeOK
<1>5. NoSilentLoss
  BY <1>1 DEF NoSilentLoss, AckedEventsDurable
<1> QED
  BY <1>4, <1>5 DEF Kept

(***************************************************************************)
(* _append_locked and the replay: an event whose log_event returned is in   *)
(* the file, or the replay refuses the file, for every number of workers    *)
(* and runs and whatever an interrupted append leaves behind.               *)
(***************************************************************************)
THEOREM LossIsVisible == Spec => []NoSilentLoss
<1>1. Kept => NoSilentLoss
  BY DEF Kept
<1> QED
  BY <1>1, InitKept, NextKept, PTL DEF Spec

-----------------------------------------------------------------------------
(***************************************************************************)
(* Every history stays in good order, when no append stops exactly before   *)
(* its newline: a line written that way is read, and lost again when the    *)
(* next line lands on it.                                                   *)
(***************************************************************************)
NoBareTail == "bare" \notin TornTails

(* A file that does not end with a newline ends with a line that does not  *)
(* parse.                                                                  *)
Clean == tail # "bare" /\ (tail = "partial" => file[Len(file)] = Garbage)

(* Every run's history is in good order.                                   *)
AllInOrder == \A r \in Runs : InOrder(EventsOf(file, r))

(* The line that the holder of the lock is about to write continues the    *)
(* history of its run.                                                     *)
Due == \A w \in Workers : out[w] # NoLine => Continues(EventsOf(file, out[w].run), out[w])

Readable == Sound /\ Clean /\ AllInOrder /\ Due

(* What one write does to the file: nothing that is read, or one line more.*)
LEMMA WriteIsAppend ==
  ASSUME Sound, Clean, NEW l \in Lines \cup {Garbage}
  PROVE  \/ tail = "partial" /\ Appended(file, tail, l) = file
         \/ tail = "newline" /\ Appended(file, tail, l) = Append(file, l)
<1>1. CASE tail = "newline"
  BY <1>1 DEF Appended
<1>2. CASE tail # "newline"
  <2>1. file[Len(file)] = Garbage /\ file \in Files
    BY <1>2 DEF Clean, Sound, TypeOK, Files
  <2>2. Appended(file, tail, l) = [file EXCEPT ![Len(file)] = Garbage]
    BY <1>2 DEF Appended
  <2> QED
    BY <1>2, <2>1, <2>2 DEF Files, Clean, Sound, TypeOK
<1> QED
  BY <1>1, <1>2

(* A write of a line that is due, or of one that does not parse, keeps     *)
(* every history in good order.                                            *)
LEMMA OrderKept ==
  ASSUME Sound, AllInOrder, NEW l \in Lines \cup {Garbage}, NEW g \in Files,
         l \in Lines => Continues(EventsOf(file, l.run), l),
         g = file \/ g = Append(file, l)
  PROVE  \A r \in Runs : InOrder(EventsOf(g, r))
<1> SUFFICES ASSUME NEW r \in Runs PROVE InOrder(EventsOf(g, r))
  OBVIOUS
<1>1. file \in Files /\ InOrder(EventsOf(file, r))
  BY DEF Sound, TypeOK, Files, AllInOrder
<1>2. CASE g = file
  BY <1>1, <1>2
<1>3. CASE g = Append(file, l)
  <2>1. /\ EventsOf(file, r) \in Histories
        /\ EventsOf(g, r) = IF l.run = r THEN Append(EventsOf(file, r), l) ELSE EventsOf(file, r)
    BY <1>1, <1>3, EventsOfAppend
  <2>2. CASE l.run = r
    <3>1. l \in Lines
      BY <2>2, Shapes
    <3> QED
      BY <1>1, <2>1, <2>2, <3>1, ContinuedInOrder
  <2>3. CASE l.run # r
    BY <1>1, <2>1, <2>3
  <2> QED
    BY <2>2, <2>3
<1> QED
  BY <1>2, <1>3

(* What log_event stamps and validates is due.                             *)
LEMMA StampedIsDue ==
  ASSUME Readable, NEW r \in Runs, NEW e \in Offered,
         Accepts(LastState(file, r), Coerced(e))
  PROVE  /\ Stamped(r, Coerced(e)) \in Lines
         /\ Continues(EventsOf(file, Stamped(r, Coerced(e)).run), Stamped(r, Coerced(e)))
<1> DEFINE es == EventsOf(file, r)
           l == Stamped(r, Coerced(e))
<1>1. file \in Files /\ InOrder(es) /\ es \in Histories
  BY ScanTyped DEF Readable, Sound, TypeOK, Files, AllInOrder
<1>2. /\ LastSeq(file, r) = Len(es) /\ LastTime(file, r) \in Nat
      /\ \A i \in 1 .. Len(es) : es[i].ts <= LastTime(file, r)
  BY <1>1, ScanFinds
<1>3. Len(es) \in Nat /\ \A i \in 1 .. Len(es) : es[i].ts \in Nat
  BY <1>1, Shapes DEF Histories
<1>4. /\ l \in Lines /\ l.run = r /\ l.seq = LastSeq(file, r) + 1
      /\ l.ts > LastTime(file, r) /\ l.event = Coerced(e)
  BY <1>2, <1>3, StampedTyped DEF Readable
<1>5. l.ts \in Nat
  BY <1>4, Shapes
<1>6. Accepts(StatesAlong(es)[Len(es)], Coerced(e))
  BY DEF LastState, StatesOf
<1> HIDE DEF es, l
<1>7. \A i \in 1 .. Len(es) : es[i].ts < l.ts
  BY <1>2, <1>3, <1>4, <1>5
<1>8. Continues(es, l)
  BY <1>2, <1>4, <1>6, <1>7 DEF Continues
<1> QED
  BY <1>4, <1>8 DEF es, l

(* Every step keeps every history in good order.                           *)
LEMMA NextReadable ==
  ASSUME NoBareTail
  PROVE  Kept /\ Readable /\ [Next]_vars => Readable'
<1> SUFFICES ASSUME Kept, Readable, [Next]_vars PROVE Readable'
  OBVIOUS
<1>1. /\ file \in Files /\ Sound /\ Clean /\ AllInOrder
      /\ out \in [Workers -> Lines \cup {NoLine}]
      /\ \A v \in Workers : (out[v] # NoLine) <=> (lock = v)
  BY DEF Readable, Sound, TypeOK, Files
<1>2. Sound'
  BY NextKept DEF Kept
<1>3. ASSUME UNCHANGED <<file, tail>>, \A v \in Workers : out'[v] = out[v] \/ out'[v] = NoLine
      PROVE  Readable'
  BY <1>2, <1>3 DEF Readable, Clean, AllInOrder, Due
<1>4. CASE UNCHANGED vars
  BY <1>3, <1>4 DEF vars
<1>5. CASE Tick
  BY <1>3, <1>5 DEF Tick
<1>6. ASSUME NEW w \in Workers, NEW r \in Runs, NEW e \in Offered, LogEvent(w, r, e)
      PROVE  Readable'
  <2> DEFINE l == Stamped(r, Coerced(e))
  <2>1. l \in Lines /\ Continues(EventsOf(file, l.run), l)
    BY <1>6, StampedIsDue DEF LogEvent
  <2>2. out' = [out EXCEPT ![w] = l] /\ UNCHANGED <<file, tail>>
    BY <1>6 DEF LogEvent
  <2> HIDE DEF l
  <2>3. \A v \in Workers : out'[v] = out[v] \/ out'[v] = l
    BY <1>1, <2>2
  <2> QED
    BY <1>2, <2>1, <2>2, <2>3 DEF Readable, Clean, AllInOrder, Due
<1>7. ASSUME NEW w \in Workers, out[w] # NoLine, NEW l \in Lines \cup {Garbage}, Writes(w, l),
             l \in Lines => Continues(EventsOf(file, l.run), l),
             tail' = "newline" \/ (tail' = "partial" /\ l = Garbage)
      PROVE  Readable'
  <2>1. file' = Appended(file, tail, l) /\ out' = [out EXCEPT ![w] = NoLine]
    BY <1>7 DEF Writes
  <2>2. \A v \in Workers : out'[v] = NoLine
    BY <1>1, <1>7, <2>1
  <2>3. \/ tail = "partial" /\ file' = file
        \/ tail = "newline" /\ file' = Append(file, l)
    BY <1>1, <2>1, WriteIsAppend
  <2>4. AllInOrder'
    <3>1. file' \in Files
      BY <1>2 DEF Sound, TypeOK, Files
    <3>2. \A r \in Runs : InOrder(EventsOf(file', r))
      BY <1>1, <1>7, <2>3, <3>1, OrderKept
    <3> QED
      BY <3>2 DEF AllInOrder
  <2>5. Clean'
    <3>1. CASE tail = "partial" /\ file' = file
      BY <3>1, <1>1, <1>7 DEF Clean
    <3>2. CASE tail = "newline" /\ file' = Append(file, l)
      <4>1. file'[Len(file')] = l
        BY <3>2, <1>1 DEF Files
      <4> QED
        BY <4>1, <1>7 DEF Clean
    <3> QED
      BY <2>3, <3>1, <3>2
  <2>6. Due'
    BY <2>2 DEF Due
  <2> QED
    BY <1>2, <2>4, <2>5, <2>6 DEF Readable
<1>8. ASSUME NEW w \in Workers, AppendLine(w)
      PROVE  Readable'
  <2>1. out[w] # NoLine /\ Writes(w, out[w]) /\ tail' = "newline"
    BY <1>8 DEF AppendLine, Release, Writes
  <2>2. out[w] \in Lines /\ Continues(EventsOf(file, out[w].run), out[w])
    BY <1>1, <2>1 DEF Readable, Due
  <2> QED
    BY <1>7, <2>1, <2>2
<1>9. ASSUME NEW w \in Workers, WriteFails(w)
      PROVE  Readable'
  <2>1. out' = [out EXCEPT ![w] = NoLine] /\ UNCHANGED <<file, tail>>
    BY <1>9 DEF WriteFails, Release
  <2> QED
    BY <1>1, <1>3, <2>1
<1>10. ASSUME NEW w \in Workers, NEW kind \in TornTails, AppendTorn(w, kind)
       PROVE  Readable'
  <2>1. kind = "partial"
    BY TornAssumption DEF NoBareTail
  <2>2. TornLine(kind, out[w]) = Garbage /\ TornTail(tail, kind) = "partial"
    BY <2>1 DEF TornLine, TornTail
  <2>3. out[w] # NoLine /\ Writes(w, Garbage) /\ tail' = "partial"
    BY <1>10, <2>2 DEF AppendTorn, Release, Writes
  <2>4. Garbage \notin Lines
    BY Shapes
  <2> QED
    BY <1>7, <2>3, <2>4
<1> QED
  BY <1>4, <1>5, <1>6, <1>8, <1>9, <1>10 DEF Next, Step

(* A new file has no history out of order.                                 *)
LEMMA InitReadable ==
  Init => Kept /\ Readable
<1> SUFFICES ASSUME Init PROVE Kept /\ Readable
  OBVIOUS
<1>1. Kept
  BY InitKept
<1>2. Clean /\ Due
  BY DEF Init, Clean, Due
<1>3. AllInOrder
  <2>1. \A r \in Runs : EventsOf(file, r) = <<>>
    BY EventsOfEmpty DEF Init
  <2>2. InOrder(<<>>)
    BY DEF InOrder, Numbered, Timed, Accepted
  <2> QED
    BY <2>1, <2>2 DEF AllInOrder
<1> QED
  BY <1>1, <1>2, <1>3 DEF Kept, Readable

(* The two invariants together.                                            *)
LEMMA ReadableAlways ==
  ASSUME NoBareTail
  PROVE  Spec => [](Kept /\ Readable)
<1>1. Kept /\ Readable /\ [Next]_vars => (Kept /\ Readable)'
  BY NextKept, NextReadable
<1> QED
  BY <1>1, InitReadable, PTL DEF Spec

(***************************************************************************)
(* log_event against validate_event_sequence and ReplayEngine: what any     *)
(* number of workers write is a sequence the readers accept, for every run, *)
(* although the clock may go back and appends may be torn.                  *)
(***************************************************************************)
THEOREM WritersSatisfyReaders ==
  ASSUME NoBareTail
  PROVE  Spec => []ReadersAccept
<1>1. Readable => ReadersAccept
  <2> SUFFICES ASSUME Readable, NEW r \in Runs
               PROVE  LET es == EventsOf(file, r)
                      IN  /\ ValidSequence(es)
                          /\ \A i \in 1 .. Len(es) : Accepts(StatesOf(file, r)[i - 1], es[i].event)
    BY DEF ReadersAccept
  <2> DEFINE es == EventsOf(file, r)
  <2>1. InOrder(es) /\ es \in Histories
    BY ScanTyped DEF Readable, AllInOrder, Sound, TypeOK, Files
  <2>2. StatesOf(file, r) = StatesAlong(es)
    BY DEF StatesOf
  <2> SUFFICES /\ ValidSequence(es)
               /\ \A i \in 1 .. Len(es) : Accepts(StatesAlong(es)[i - 1], es[i].event)
    BY <2>2
  <2> HIDE DEF es
  <2>3. \A i \in 1 .. Len(es) : es[i].ts \in Nat
    BY <2>1, Shapes DEF Histories
  <2>4. ValidSequence(es)
    <3> SUFFICES ASSUME NEW i \in 1 .. Len(es)
                 PROVE  es[i].seq = i /\ (i > 1 => es[i].ts >= es[i - 1].ts)
      BY DEF ValidSequence
    <3>1. es[i].seq = i
      BY <2>1 DEF InOrder, Numbered
    <3>2. ASSUME i > 1 PROVE es[i].ts >= es[i - 1].ts
      <4>1. i - 1 \in 1 .. Len(es) /\ i - 1 < i
        BY <3>2, <2>1 DEF Histories
      <4>2. es[i - 1].ts < es[i].ts
        BY <4>1, <2>1 DEF InOrder, Timed
      <4> QED
        BY <4>1, <4>2, <2>3
    <3> QED
      BY <3>1, <3>2
  <2> QED
    BY <2>1, <2>4 DEF InOrder, Accepted
<1> QED
  BY <1>1, ReadableAlways, PTL

-----------------------------------------------------------------------------
(***************************************************************************)
(* The refinement: read through the scan, the file is a RunLog.             *)
(***************************************************************************)
states == [r \in Runs |-> LastState(file, r)]

lengths == [r \in Runs |-> Len(EventsOf(file, r))]

(* A new file is a log in which nothing has happened.                      *)
LEMMA InitIsNewLog ==
  Init => Log!Init
<1> SUFFICES ASSUME Init PROVE Log!Init
  OBVIOUS
<1>1. \A r \in Runs : EventsOf(file, r) = <<>> /\ Len(EventsOf(file, r)) = 0
  BY EventsOfEmpty DEF Init
<1>2. StatesAlong(<<>>)[0] = "PENDING"
  <2>1. <<>> \in Histories
    BY DEF Histories
  <2> QED
    BY <2>1, StatesAlongScans
<1>3. \A r \in Runs : LastState(file, r) = "PENDING"
  BY <1>1, <1>2 DEF LastState, StatesOf
<1> QED
  BY <1>1, <1>3 DEF Log!Init

(* An event that a terminal state accepts leaves it as it is, so scanning  *)
(* an accepted event is the transition.                                    *)
LEMMA ScanOfAccepted ==
  ASSUME NEW st, NEW e, Accepts(st, e)
  PROVE  Scanned(st, e) = Transition(st, e)
  BY DEF Scanned, Accepts, Transition

(* The abstract log has the same state machine.                            *)
LEMMA SameContract ==
  /\ Log!Events = Events
  /\ \A st, e : Log!Transition(st, e) = Transition(st, e)
  /\ \A st, e : Log!Accepts(st, e) <=> Accepts(st, e)
<1>1. Log!TerminalStates = TerminalStates /\ Log!Events = Events
  BY DEF Log!TerminalStates, TerminalStates, Log!Events, Events, Log!EventTypes, EventTypes
<1>2. \A st : Log!Absorbs(st) = Absorbs(st)
  BY DEF Log!Absorbs, Absorbs
<1>3. \A e : Log!EndOf(e) = EndOf(e)
  BY DEF Log!EndOf, EndOf
<1>4. \A st, e : Log!MoveOf(st, e) = MoveOf(st, e)
  BY DEF Log!MoveOf, MoveOf, Log!Starts, Starts, Log!ToolStarts, ToolStarts, Log!ToolSteps, ToolSteps
<1>5. \A st, e : Log!Transition(st, e) = Transition(st, e)
  BY <1>1, <1>2, <1>3, <1>4 DEF Log!Transition, Transition
<1> QED
  BY <1>1, <1>5 DEF Log!Accepts, Accepts

(* An appended line is one event of the abstract log.                      *)
LEMMA AppendIsLog ==
  ASSUME Readable, NEW l \in Lines, Continues(EventsOf(file, l.run), l),
         file' = Append(file, l)
  PROVE  Log!Next
<1> DEFINE q == l.run
<1>1. file \in Files /\ q \in Runs /\ l.event \in Events
  BY Shapes DEF Readable, Sound, TypeOK, Files
<1>2. \A r \in Runs : /\ EventsOf(file, r) \in Histories
                      /\ EventsOf(file', r) =
                           IF q = r THEN Append(EventsOf(file, r), l) ELSE EventsOf(file, r)
  BY <1>1, EventsOfAppend
<1>3. Accepts(LastState(file, q), l.event)
  BY DEF Continues, LastState, StatesOf
<1> HIDE DEF q
<1>4. \A r \in Runs : r # q => /\ EventsOf(file', r) = EventsOf(file, r)
                               /\ LastState(file', r) = LastState(file, r)
  BY <1>2 DEF LastState, StatesOf
<1>5. /\ EventsOf(file', q) = Append(EventsOf(file, q), l) /\ EventsOf(file, q) \in Histories
      /\ Len(EventsOf(file', q)) = Len(EventsOf(file, q)) + 1
  BY <1>1, <1>2 DEF Histories
<1>6. LastState(file', q) = Transition(LastState(file, q), l.event)
  <2>1. LastState(file', q) = StatesAlong(Append(EventsOf(file, q), l))[Len(EventsOf(file, q)) + 1]
    BY <1>5 DEF LastState, StatesOf
  <2>2. LastState(file', q) = Scanned(LastState(file, q), l.event)
    BY <1>5, <2>1, StatesAlongAppend DEF LastState, StatesOf
  <2> QED
    BY <2>2, <1>3, ScanOfAccepted
<1>7. [r \in Runs |-> Len(EventsOf(file', r))] =
        [[r \in Runs |-> Len(EventsOf(file, r))] EXCEPT ![q] = @ + 1]
  BY <1>1, <1>4, <1>5
<1>8. [r \in Runs |-> LastState(file', r)] =
        [[r \in Runs |-> LastState(file, r)] EXCEPT ![q] = Transition(@, l.event)]
  BY <1>1, <1>4, <1>6
<1>9. Accepts([r \in Runs |-> LastState(file, r)][q], l.event)
  BY <1>1, <1>3
<1>10. Log!Log(q, l.event)
  BY <1>7, <1>8, <1>9, SameContract DEF Log!Log
<1> QED
  BY <1>1, <1>10, SameContract DEF Log!Next

(* A line that does not parse is no event.                                 *)
LEMMA GarbageIsNoEvent ==
  ASSUME Readable, file' = file \/ file' = Append(file, Garbage)
  PROVE  UNCHANGED <<states, lengths>>
<1>1. file \in Files /\ Garbage \in Lines \cup {Garbage}
  BY DEF Readable, Sound, TypeOK, Files
<1>2. \A r \in Runs : EventsOf(file', r) = EventsOf(file, r)
  <2> TAKE r \in Runs
  <2>1. Garbage.run # r
    BY Shapes
  <2>2. CASE file' = Append(file, Garbage)
    BY <1>1, <2>1, <2>2, EventsOfAppend
  <2> QED
    BY <2>2
<1>3. \A r \in Runs : LastState(file', r) = LastState(file, r)
  BY <1>2 DEF LastState, StatesOf
<1> QED
  BY <1>2, <1>3 DEF states, lengths

(* Every step is an event of the abstract log or leaves it alone.          *)
LEMMA NextImplementsLog ==
  ASSUME NoBareTail
  PROVE  Readable /\ [Next]_vars => [Log!Next]_<<states, lengths>>
<1> SUFFICES ASSUME Readable, [Next]_vars PROVE [Log!Next]_<<states, lengths>>
  OBVIOUS
<1>1. Sound /\ Clean /\ out \in [Workers -> Lines \cup {NoLine}]
  BY DEF Readable, Sound, TypeOK
<1>2. CASE file' = file
  BY <1>2, GarbageIsNoEvent
<1>3. ASSUME NEW w \in Workers, AppendLine(w)
      PROVE  [Log!Next]_<<states, lengths>>
  <2>1. out[w] # NoLine /\ file' = Appended(file, tail, out[w])
    BY <1>3 DEF AppendLine
  <2>2. out[w] \in Lines /\ Continues(EventsOf(file, out[w].run), out[w])
    BY <1>1, <2>1 DEF Readable, Due
  <2>3. file' = file \/ file' = Append(file, out[w])
    BY <1>1, <2>1, <2>2, WriteIsAppend
  <2>4. CASE file' = Append(file, out[w])
    BY <2>2, <2>4, AppendIsLog
  <2> QED
    BY <1>2, <2>3, <2>4
<1>4. ASSUME NEW w \in Workers, NEW kind \in TornTails, AppendTorn(w, kind)
      PROVE  [Log!Next]_<<states, lengths>>
  <2>1. kind = "partial"
    BY TornAssumption DEF NoBareTail
  <2>2. file' = Appended(file, tail, Garbage)
    BY <1>4, <2>1 DEF AppendTorn, TornLine
  <2>3. file' = file \/ file' = Append(file, Garbage)
    BY <1>1, <2>2, WriteIsAppend
  <2> QED
    BY <2>3, GarbageIsNoEvent
<1> QED
  BY <1>2, <1>3, <1>4 DEF Next, Step, Tick, LogEvent, WriteFails, vars

(***************************************************************************)
(* The lock file, the scan and the append implement the run log: every      *)
(* run's history only grows, by events its state accepts, and a terminal    *)
(* state stays, for every number of workers, runs and lines.                *)
(***************************************************************************)
THEOREM Refinement ==
  ASSUME NoBareTail
  PROVE  Spec => ImplementsRunLog
<1>1. Readable /\ [Next]_vars =>
        [Log!Next]_<<[r \in Runs |-> LastState(file, r)], [r \in Runs |-> Len(EventsOf(file, r))]>>
  BY NextImplementsLog DEF states, lengths
<1> QED
  BY <1>1, InitIsNewLog, ReadableAlways, PTL DEF Spec, ImplementsRunLog, Log!Spec
=============================================================================
