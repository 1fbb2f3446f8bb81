----------------------------- MODULE MCAgentRun -----------------------------
(***************************************************************************)
(* Instances of AgentRun for TLC: the calls of one run, the first two of    *)
(* which are the same operation (same tool, same arguments).                *)
(***************************************************************************)
EXTENDS AgentRun, TLC

CONSTANTS c1, c2, c3, c4, o1, o2

SameTwice == [c \in Calls |-> IF c \in {c1, c2} THEN o1 ELSE o2]

\* With c1 and c2 only, calls are interchangeable; processes always are.
Symmetry == Permutations(Procs) \cup Permutations(Calls)
=============================================================================
