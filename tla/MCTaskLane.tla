------------------------------ MODULE MCTaskLane ------------------------------
(* TaskLane on one clone: a review-first task under a roadmap that may be  *)
(* rewritten as a legacy one.                                              *)
EXTENDS TaskLane

MCTexts ==
    {[mode |-> "REVIEW_FIRST_CERTIFICATION",
      bind |-> [roadmap |-> 1, milestone |-> "m1", capability |-> "c1", requirements |-> "q1"]],
     [mode |-> "LEGACY_CERTIFY_ON_PUBLISH", bind |-> None]}

MCVerdicts ==
    {[status |-> "SEMANTICALLY_ACCEPTED_PENDING_T2", approved |-> TRUE, auto |-> TRUE, audit |-> "PASS"],
     [status |-> "PASS", approved |-> TRUE, auto |-> TRUE, audit |-> "PASS"],
     [status |-> "CHANGES_REQUIRED", approved |-> FALSE, auto |-> FALSE, audit |-> "FAIL"]}
=============================================================================
