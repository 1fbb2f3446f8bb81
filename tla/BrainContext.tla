----------------------------- MODULE BrainContext -----------------------------
(***************************************************************************)
(* What is sent to an external Brain and what its use costs                *)
(* (external_brain/context.py, continuity/usage.py): the bounded context   *)
(* bundle, and the token ranges of the usage ledger.                       *)
(*                                                                         *)
(* A candidate is [kind, path, sha, priority, tokens, safe, intact]; path  *)
(* and sha are numbers ordered like the strings they stand for; tokens is  *)
(* the counter's answer for the rendered item.                             *)
(***************************************************************************)
EXTENDS Integers, Sequences, FiniteSets, SequencesExt

Mandatory == <<"TASK", "CONTRACT">>
\* _KIND_PRECEDENCE of the optional kinds; ERROR and DIFF are equal
Precedence == [ERROR |-> 80, DIFF |-> 80, TEST |-> 70, SOURCE |-> 60, ARCHITECTURE |-> 50]
\* The alphabetical order of the kinds' names
Alphabet == [ARCHITECTURE |-> 1, CONTRACT |-> 2, DIFF |-> 3, ERROR |-> 4, SOURCE |-> 5,
             TASK |-> 6, TEST |-> 7]

Lexicographic(a, b) ==
    \E i \in DOMAIN a : a[i] < b[i] /\ \A j \in 1 .. i - 1 : a[j] = b[j]

\* A stable sort; key gives each candidate its rank.
SortedBy(cs, key) ==
    LET before(i, j) == Lexicographic(Append(key[cs[i]], i), Append(key[cs[j]], j))
        order == SetToSortSeq(DOMAIN cs, before)
    IN  [n \in DOMAIN cs |-> cs[order[n]]]

Identity(c) == <<c.kind, c.path, c.sha>>

\* Of equal candidates the first is kept.
FirstOfEach(cs) ==
    LET kept == {n \in DOMAIN cs : \A k \in 1 .. n - 1 : Identity(cs[k]) # Identity(cs[n])}
        order == SetToSortSeq(kept, <)
    IN  [n \in DOMAIN order |-> cs[order[n]]]

\* Bug: duplicates are dropped in the order the caller lists them.
UniqueFirstCome(cs) == FirstOfEach(cs)

\* Sorted before duplicates go: the one with the highest priority stays.
Unique(cs) ==
    FirstOfEach(SortedBy(cs, [c \in ToSet(cs) |-> <<-c.priority, Alphabet[c.kind], c.path, c.sha>>]))

TokensOf(cs) == FoldLeft(LAMBDA n, c : n + c.tokens, 0, cs)

MandatoryOf(cs, kind) ==
    SortedBy(SelectSeq(Unique(cs), LAMBDA c : c.kind = kind),
             [c \in ToSet(cs) |-> <<-c.priority, c.path, c.sha>>])

\* Greedy: an optional item that does not fit is skipped, a later one may fit.
TakeOptional(cs, taken, room) ==
    LET rest == SelectSeq(Unique(cs), LAMBDA c : c.kind \notin ToSet(Mandatory))
        take(acc, c) == IF acc.used + c.tokens <= room
                        THEN [items |-> Append(acc.items, c), used |-> acc.used + c.tokens]
                        ELSE acc
    IN  FoldLeft(take, taken,
                 SortedBy(rest, [c \in ToSet(rest) |-> <<-c.priority, -Precedence[c.kind], c.path, c.sha>>]))

Refused(why) == [error |-> why, items |-> <<>>, used |-> 0]

ContextBuild(cs, room) ==
    LET must == MandatoryOf(cs, Mandatory[1]) \o MandatoryOf(cs, Mandatory[2])
        used == TokensOf(must)
        bundle == TakeOptional(cs, [items |-> must, used |-> used], room)
    IN  CASE \E i \in DOMAIN cs : ~cs[i].safe \/ ~cs[i].intact -> Refused("unsafe")
          [] OTHER ->
             CASE MandatoryOf(cs, "TASK") = <<>> -> Refused("no task")
               [] OTHER ->
                  IF used > room THEN Refused("mandatory over budget")
                  ELSE [error |-> "", items |-> bundle.items, used |-> bundle.used]

-----------------------------------------------------------------------------
(* Token ranges.  A measurement is [source, min, max]; -1 is None.         *)

CONSTANT MaxUsageInt

MeasurementOK(t) ==
    CASE t.source = "REPORTED" -> t.min = t.max /\ t.min \in 0 .. MaxUsageInt
      [] t.source = "ESTIMATED" -> 0 <= t.min /\ t.min <= t.max /\ t.max <= MaxUsageInt
      [] t.source = "UNKNOWN" -> t.min = -1 /\ t.max = -1

AtLeast1(n) == IF n < 1 THEN 1 ELSE n

EstimateTokens(bytes) ==
    IF bytes = 0 THEN [source |-> "ESTIMATED", min |-> 0, max |-> 0]
    ELSE [source |-> "ESTIMATED", min |-> AtLeast1(bytes \div 5),
          max |-> AtLeast1((bytes + 2) \div 3)]

\* Refused: no range.
Overflow == <<>>

\* An overflow is refused even when an unknown measurement hides the total.
AggregateRanges(ts) ==
    LET known == SelectSeq(ts, LAMBDA t : t.source # "UNKNOWN")
        min == FoldLeft(LAMBDA n, t : n + t.min, 0, known)
        max == FoldLeft(LAMBDA n, t : n + t.max, 0, known)
    IN  CASE min > MaxUsageInt \/ max > MaxUsageInt -> Overflow
          [] OTHER -> IF Len(known) < Len(ts) THEN <<-1, -1>> ELSE <<min, max>>

\* Unknown use by one class of actors does not hide the other's.
AggregateByClass(brain, executor) ==
    [BRAIN |-> AggregateRanges(brain), EXECUTOR |-> AggregateRanges(executor)]
=============================================================================
