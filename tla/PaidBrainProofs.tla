--------------------------- MODULE PaidBrainProofs ---------------------------
(***************************************************************************)
(* Proofs about PaidBrain, for any number of terminals, grants, crashes,    *)
(* faults and commits.  The argument: the guard makes the examination and   *)
(* the move of a grant's file one step, so a grant has one spender at most, *)
(* and whatever a command learned before it spent stays true of the grant,  *)
(* whose content never changes once the Human created it.  The last part is *)
(* about Dispatch.                                                          *)
(***************************************************************************)
EXTENDS PaidBrain, FiniteSetTheorems, WellFoundedInduction, TLAPS

-----------------------------------------------------------------------------
(* The inductive invariant.                                                *)

Pcs == {"idle", "activate", "write", "gates", "escape", "consume", "replace",
        "send", "answer", "prove", "persist"}

\* The command still creates its grant.
Creating == {"activate", "write"}

\* The gates were passed.
Decided == {"escape", "consume", "replace", "send", "answer", "prove", "persist"}

\* The grant was moved by this command.
Spending == {"send", "answer", "prove", "persist"}

Observations == [at : Nat, state : CapacityStates, ttl : Nat]

Commands == [pc : Pcs, g : Nat, now : Nat, lock : Nat, saw : {<<>>} \cup [Brains -> Observations],
             tokens : TokenUses, ledgered : BOOLEAN]

Typed ==
  /\ proc \in [Terminals -> Commands]
  /\ grant \in [GrantIds -> [blob : Nat, expires : Nat]]
  /\ active \in [GrantIds -> {"none", "torn", "whole"}] /\ consumed \in [GrantIds -> {"none", "whole"}]
  /\ guard \in Terminals \cup {Nobody}
  /\ control \in [task : Nat \ {0}, lock : Nat] /\ tracking \in [task : Nat \ {0}, lock : Nat] /\ clock \in Nat
  /\ capacity \in [Brains -> Observations]
  /\ calls \in [GrantIds -> SUBSET Terminals]
  /\ ledger \in [GrantIds -> SUBSET Outcomes]

\* Grants are created in order, and a command works on one that exists.
GrantsCounted == \E n \in 0..MaxGrants : \A g \in GrantIds : grant[g].blob # 0 <=> g <= n

Existing == \A p \in Terminals : proc[p].pc # "idle" => proc[p].g \in GrantIds /\ grant[proc[p].g].blob # 0

\* The guard is held exactly where a file is being written or moved.
GuardHeld == \A p \in Terminals : guard = p <=> proc[p].pc \in {"write", "replace"}

\* A grant without a file that says so was not spent.
Unspent ==
  \A g \in GrantIds :
    /\ grant[g].blob = 0 => active[g] = "none" /\ consumed[g] = "none"
    /\ consumed[g] = "whole" => active[g] = "none"
    /\ consumed[g] = "none" => /\ calls[g] = {} /\ ledger[g] = {} /\ \A q \in proofs : q.g # g
                               /\ \A p \in Terminals : proc[p].g = g => proc[p].pc \notin Spending

\* Nobody else works on a grant that is being created.
CreatorAlone ==
  \A p \in Terminals : proc[p].pc \in Creating =>
    /\ consumed[proc[p].g] = "none"
    /\ active[proc[p].g] = IF proc[p].pc = "activate" THEN "none" ELSE "torn"
    /\ \A q \in Terminals \ {p} : proc[q].pc # "idle" => proc[q].g # proc[p].g

\* What was examined under the guard still holds when the file is moved.
ExaminedStillDue ==
  \A p \in Terminals : proc[p].pc = "replace" => active[proc[p].g] = "whole" /\ consumed[proc[p].g] = "none"

\* Who moved the grant is the only one to spend it.
OneSpender ==
  /\ \A g \in GrantIds : \A p, q \in calls[g] : p = q
  /\ \A p, q \in Terminals : proc[p].pc \in Spending /\ proc[q].pc \in Spending /\ proc[p].g = proc[q].g => p = q

\* Step by step, what the record holds of its grant.
SpenderRecord ==
  \A p \in Terminals :
    /\ proc[p].pc = "send" => calls[proc[p].g] = {}
    /\ proc[p].pc \in {"answer", "prove", "persist"} => calls[proc[p].g] = {p}
    /\ proc[p].pc \in {"send", "answer"} => ledger[proc[p].g] = {}
    /\ proc[p].pc \in {"prove", "persist"} /\ proc[p].ledgered = TRUE =>
         ledger[proc[p].g] = {[status |-> "SUCCESS", tokens |-> proc[p].tokens]}
    /\ proc[p].pc = "persist" => proc[p].tokens = "as_counted" /\ proc[p].ledgered = TRUE
    /\ proc[p].pc \in Spending => \A r \in proofs : r.g # proc[p].g

\* What passed the gates is still true of the grant, which no longer changes.
EvidenceFor(blob, expires, saw) ==
  /\ Tokens[blob] <= MaxInputTokens
  /\ saw[Subscription].state \in {"QUOTA_EXHAUSTED", "UNAVAILABLE"}
  /\ saw[Paid].state = "AVAILABLE"
  /\ \A b \in Brains : saw[b].at < expires

DecidedOnEvidence ==
  \A p \in Terminals : proc[p].pc \in Decided =>
    EvidenceFor(grant[proc[p].g].blob, grant[proc[p].g].expires, proc[p].saw)

ProofsNamed == \A q \in proofs : q.g \in GrantIds /\ grant[q.g].blob # 0

\* The inductive invariant.
Safe ==
  /\ Typed /\ GrantsCounted /\ Existing /\ GuardHeld /\ Unspent /\ CreatorAlone /\ ExaminedStillDue
  /\ OneSpender /\ SpenderRecord /\ DecidedOnEvidence /\ ProofsNamed /\ ProofIsEvidence /\ NoCallReportIsTrue

-----------------------------------------------------------------------------
(* How steps change the state.                                             *)

\* What no step of a command changes except the ones that say so.
Kept == <<grant, active, consumed, control, tracking, clock, capacity, calls, ledger, proofs>>

(* A command that ends, however it ends, gives up the guard and leaves      *)
(* nothing that another command could trip over.                            *)
LEMMA CommandEnds ==
  ASSUME Safe, NEW p \in Terminals, Quit(p), UNCHANGED Kept, NoCallReportIsTrue',
         guard' = IF guard = p THEN Nobody ELSE guard
  PROVE  Safe'
<1>1. \A q \in Terminals : proc'[q] = IF q = p THEN Idle ELSE proc[q]
  BY DEF Safe, Typed, Quit
<1>2. Idle.pc = "idle" /\ Idle \in Commands
  BY DEF Idle, Commands, Pcs, TokenUses
<1>3. Typed'
  BY <1>2 DEF Safe, Typed, Quit, Kept
<1>4. GrantsCounted' /\ ProofsNamed'
  BY DEF Safe, Kept, GrantsCounted, ProofsNamed
<1>5. Existing'
  BY <1>1, <1>2 DEF Safe, Kept, Existing
<1>6. GuardHeld'
  BY <1>1, <1>2, NobodyAssumption DEF Safe, GuardHeld
<1>7. Unspent'
  BY <1>1, <1>2 DEF Safe, Kept, Unspent, Spending
<1>8. CreatorAlone'
  BY <1>1, <1>2 DEF Safe, Kept, CreatorAlone, Creating
<1>9. ExaminedStillDue'
  BY <1>1, <1>2 DEF Safe, Kept, ExaminedStillDue
<1>10. OneSpender'
  BY <1>1, <1>2 DEF Safe, Kept, OneSpender, Spending
<1>13. SpenderRecord'
  BY <1>1, <1>2 DEF Safe, Kept, SpenderRecord, Spending
<1>11. DecidedOnEvidence'
  BY <1>1, <1>2 DEF Safe, Kept, DecidedOnEvidence, Decided
<1>12. ProofIsEvidence'
  BY DEF Safe, Kept, ProofIsEvidence
<1> QED
  BY <1>3, <1>4, <1>5, <1>6, <1>7, <1>8, <1>9, <1>10, <1>11, <1>12, <1>13 DEF Safe

(* A command that goes on without touching a file or the record: what it    *)
(* learned holds of its grant, and it does not begin to spend.              *)
LEMMA CommandAdvances ==
  ASSUME Safe, NEW p \in Terminals, NEW m \in Commands,
         proc' = [proc EXCEPT ![p] = m], UNCHANGED Kept, UNCHANGED reports,
         proc[p].pc \notin Creating, m.pc \notin Creating,
         m.g \in GrantIds,
         active[m.g] = "whole" \/ (proc[p].pc # "idle" /\ proc[p].g = m.g),
         m.pc \in Decided => EvidenceFor(grant[m.g].blob, grant[m.g].expires, m.saw),
         guard # p, guard' = IF m.pc = "replace" THEN p ELSE guard,
         m.pc = "replace" => guard = Nobody /\ active[m.g] = "whole" /\ consumed[m.g] = "none",
         m.pc \in Spending => /\ proc[p].pc = "prove" /\ m.pc = "persist" /\ m.g = proc[p].g
                              /\ m.tokens = proc[p].tokens /\ m.ledgered = proc[p].ledgered
                              /\ m.tokens = "as_counted" /\ m.ledgered = TRUE
  PROVE  Safe'
<1>1. \A q \in Terminals : proc'[q] = IF q = p THEN m ELSE proc[q]
  BY DEF Safe, Typed
<1>2. m.pc # "write"
  BY DEF Creating
<1>3. Typed'
  BY DEF Safe, Typed, Kept
<1>4. GrantsCounted' /\ ProofsNamed'
  BY DEF Safe, Kept, GrantsCounted, ProofsNamed
<1>5. Existing'
  BY <1>1 DEF Safe, Kept, Existing, Unspent
<1>6. GuardHeld'
  BY <1>1, <1>2, NobodyAssumption DEF Safe, GuardHeld
<1>7. Unspent'
  BY <1>1 DEF Safe, Kept, Unspent, Spending
<1>8. CreatorAlone'
  BY <1>1 DEF Safe, Kept, CreatorAlone, Creating
<1>9. ExaminedStillDue'
  BY <1>1 DEF Safe, Kept, ExaminedStillDue
<1>10. OneSpender'
  BY <1>1 DEF Safe, Kept, OneSpender, Spending
<1>13. SpenderRecord'
  BY <1>1, <1>2 DEF Safe, Kept, SpenderRecord, Spending
<1>11. DecidedOnEvidence'
  BY <1>1 DEF Safe, Kept, DecidedOnEvidence, Decided
<1>12. ProofIsEvidence' /\ NoCallReportIsTrue'
  BY DEF Safe, Kept, ProofIsEvidence, NoCallReportIsTrue
<1> QED
  BY <1>3, <1>4, <1>5, <1>6, <1>7, <1>8, <1>9, <1>10, <1>11, <1>12, <1>13 DEF Safe

-----------------------------------------------------------------------------
(* The steps that change a grant's files or the record.                    *)

(* The number that a new grant gets belongs to no other grant.             *)
LEMMA NextGrantIsNew ==
  ASSUME Typed, GrantsCounted
  PROVE  LET n == Cardinality({h \in GrantIds : grant[h].blob # 0})
         IN  n \in 0..MaxGrants /\ \A g \in GrantIds : grant[g].blob # 0 <=> g <= n
<1>1. PICK n \in 0..MaxGrants : \A g \in GrantIds : grant[g].blob # 0 <=> g <= n
  BY DEF GrantsCounted
<1>2. MaxGrants \in Nat
  BY BoundAssumption
<1>3. {h \in GrantIds : grant[h].blob # 0} = 1..n
  BY <1>1, <1>2 DEF GrantIds
<1>4. Cardinality(1..n) = n
  BY <1>1, <1>2, FS_Interval
<1> QED
  BY <1>1, <1>3, <1>4

(* A step from one place of a command to another keeps its evidence.        *)
LEMMA GotoChangesPc ==
  ASSUME Typed, NEW p \in Terminals, NEW c \in Pcs, Goto(p, c)
  PROVE  /\ proc' \in [Terminals -> Commands]
         /\ \A q \in Terminals : /\ proc'[q].g = proc[q].g /\ proc'[q].now = proc[q].now
                                 /\ proc'[q].lock = proc[q].lock /\ proc'[q].saw = proc[q].saw
                                 /\ proc'[q].tokens = proc[q].tokens /\ proc'[q].ledgered = proc[q].ledgered
                                 /\ proc'[q].pc = IF q = p THEN c ELSE proc[q].pc
<1>1. proc \in [Terminals -> Commands] /\ proc[p] \in Commands
  BY DEF Typed
<1>2. [proc[p] EXCEPT !.pc = c] \in Commands
  BY <1>1 DEF Commands
<1>3. proc' = [proc EXCEPT ![p] = [proc[p] EXCEPT !.pc = c]]
  BY DEF Goto
<1>4. \A q \in Terminals : proc'[q] = IF q = p THEN [proc[p] EXCEPT !.pc = c] ELSE proc[q]
  BY <1>1, <1>3
<1>5. proc' \in [Terminals -> Commands]
  BY <1>1, <1>2, <1>3
<1> QED
  BY <1>1, <1>4, <1>5 DEF Commands

(* The checks of paid-api-grant-create touch no grant and no evidence.     *)
LEMMA StartGrantCreateKeeps ==
  ASSUME Safe, NEW p \in Terminals, StartGrantCreate(p)
  PROVE  Safe'
<1> DEFINE n == Cardinality({h \in GrantIds : grant[h].blob # 0})
           g == n + 1
           m == [Idle EXCEPT !.pc = "activate", !.g = g, !.now = clock]
           born == [blob |-> control.task, expires |-> clock + GrantTTL]
<1>1. n \in 0..MaxGrants /\ \A h \in GrantIds : grant[h].blob # 0 <=> h <= n
  BY NextGrantIsNew DEF Safe
<1>2. /\ proc[p].pc = "idle" /\ g \in GrantIds
      /\ grant' = [grant EXCEPT ![g] = born]
      /\ proc' = [proc EXCEPT ![p] = m]
      /\ tracking' = control
      /\ UNCHANGED <<active, consumed, guard, control, capacity, clock, calls, ledger, proofs, reports>>
  BY DEF StartGrantCreate, At, record
<1>3. clock \in Nat /\ GrantTTL \in Nat /\ MaxGrants \in Nat
  BY TTLAssumption, BoundAssumption DEF Safe, Typed
<1> HIDE DEF n
<1>4. born \in [blob : Nat \ {0}, expires : Nat] /\ grant[g].blob = 0
  BY <1>1, <1>2, <1>3 DEF Safe, Typed
<1>5. m \in Commands /\ m.pc = "activate" /\ m.g = g
  <2>1. Idle \in Commands
    BY DEF Idle, Commands, Pcs, TokenUses
  <2>2. "activate" \in Pcs /\ g \in Nat
    BY <1>1 DEF Pcs
  <2> HIDE DEF g
  <2> QED
    BY <1>3, <2>1, <2>2 DEF Commands
<1> HIDE DEF m, born
<1>6. \A q \in Terminals : proc'[q] = IF q = p THEN m ELSE proc[q]
  BY <1>2 DEF Safe, Typed
<1>7. \A h \in GrantIds : grant'[h] = IF h = g THEN born ELSE grant[h]
  BY <1>2 DEF Safe, Typed
<1>8. \A q \in Terminals : proc[q].pc # "idle" => proc[q].g # g
  BY <1>4 DEF Safe, Existing
<1>9. \A r \in proofs : r.g # g
  BY <1>4 DEF Safe, ProofsNamed
<1>10. active[g] = "none" /\ consumed[g] = "none"
  BY <1>2, <1>4 DEF Safe, Unspent
<1>11. Typed'
  BY <1>2, <1>4, <1>5 DEF Safe, Typed
<1>12. GrantsCounted'
  <2>1. g \in 0..MaxGrants
    BY <1>2, <1>3 DEF GrantIds
  <2>2. \A h \in GrantIds : grant'[h].blob # 0 <=> h <= g
    BY <1>1, <1>3, <1>4, <1>7 DEF GrantIds
  <2> QED
    BY <2>1, <2>2 DEF GrantsCounted
<1>13. Existing' /\ ProofsNamed'
  BY <1>2, <1>4, <1>5, <1>6, <1>7 DEF Safe, Existing, ProofsNamed
<1>14. GuardHeld'
  BY <1>2, <1>5, <1>6 DEF Safe, GuardHeld
<1>15. Unspent'
  BY <1>2, <1>4, <1>5, <1>6, <1>7 DEF Safe, Unspent, Spending
<1>16. CreatorAlone'
  BY <1>2, <1>5, <1>6, <1>8, <1>10 DEF Safe, CreatorAlone, Creating
<1>17. ExaminedStillDue' /\ OneSpender'
  BY <1>2, <1>5, <1>6 DEF Safe, ExaminedStillDue, OneSpender, Spending
<1>18. SpenderRecord'
  BY <1>2, <1>5, <1>6 DEF Safe, SpenderRecord, Spending
<1>19. DecidedOnEvidence'
  BY <1>2, <1>5, <1>6, <1>7, <1>8 DEF Safe, DecidedOnEvidence, Decided, Existing
<1>20. ProofIsEvidence' /\ NoCallReportIsTrue'
  BY <1>2, <1>7, <1>9 DEF Safe, ProofIsEvidence, NoCallReportIsTrue, ProofsNamed
<1> QED
  BY <1>11, <1>12, <1>13, <1>14, <1>15, <1>16, <1>17, <1>18, <1>19, <1>20 DEF Safe

(* The file of an activation is created when the grant was never spent.    *)
LEMMA ActivateKeeps ==
  ASSUME Safe, NEW p \in Terminals, Activate(p)
  PROVE  Safe'
<1> DEFINE g == proc[p].g
<1>1. /\ proc[p].pc = "activate" /\ guard = Nobody /\ consumed[g] = "none"
      /\ active' = [active EXCEPT ![g] = "torn"] /\ guard' = p
      /\ proc' = [proc EXCEPT ![p].pc = "write"]
      /\ UNCHANGED <<grant, consumed, control, tracking, clock, capacity, calls, ledger, proofs, reports>>
  BY DEF Activate, At, Goto, world, record
<1>2. g \in GrantIds /\ grant[g].blob # 0
  BY <1>1 DEF Safe, Existing
<1>4. /\ proc' \in [Terminals -> Commands]
      /\ \A q \in Terminals : /\ proc'[q].g = proc[q].g /\ proc'[q].saw = proc[q].saw
                              /\ proc'[q].tokens = proc[q].tokens /\ proc'[q].ledgered = proc[q].ledgered
                              /\ proc'[q].pc = IF q = p THEN "write" ELSE proc[q].pc
  BY <1>1, GotoChangesPc DEF Safe, Goto, Pcs
<1>3. Typed'
  BY <1>1, <1>4 DEF Safe, Typed
<1>5. \A h \in GrantIds : active'[h] = IF h = g THEN "torn" ELSE active[h]
  BY <1>1 DEF Safe, Typed
<1> HIDE DEF g
<1>6. GrantsCounted' /\ ProofsNamed'
  BY <1>1 DEF Safe, GrantsCounted, ProofsNamed
<1>7. Existing'
  BY <1>1, <1>4 DEF Safe, Existing
<1>8. GuardHeld'
  BY <1>1, <1>4, NobodyAssumption DEF Safe, GuardHeld
<1>9. Unspent'
  BY <1>1, <1>2, <1>4, <1>5 DEF Safe, Unspent, Spending
<1>10. CreatorAlone'
  BY <1>1, <1>2, <1>4, <1>5 DEF Safe, CreatorAlone, Creating, Existing, g
<1>11. ExaminedStillDue'
  BY <1>1, <1>4, <1>5 DEF Safe, ExaminedStillDue, CreatorAlone, Creating, Existing, g
<1>12. OneSpender'
  BY <1>1, <1>4 DEF Safe, OneSpender, Spending
<1>13. SpenderRecord'
  <2> SUFFICES ASSUME NEW q \in Terminals, proc'[q].pc \in Spending PROVE SpenderRecord!(q)'
    BY DEF SpenderRecord, Spending
  <2>1. q # p /\ proc'[q].pc = proc[q].pc
    BY <1>4 DEF Spending
  <2> QED
    BY <1>1, <1>4, <2>1 DEF Safe, SpenderRecord, Spending
<1>14. DecidedOnEvidence'
  BY <1>1, <1>4 DEF Safe, DecidedOnEvidence, Decided
<1>15. ProofIsEvidence' /\ NoCallReportIsTrue'
  BY <1>1 DEF Safe, ProofIsEvidence, NoCallReportIsTrue
<1> QED
  BY <1>3, <1>6, <1>7, <1>8, <1>9, <1>10, <1>11, <1>12, <1>13, <1>14, <1>15 DEF Safe

(* An activation is written whole, or what is left of it is not active.    *)
LEMMA WriteGrantKeeps ==
  ASSUME Safe, NEW p \in Terminals, WriteGrant(p)
  PROVE  Safe'
<1> DEFINE g == proc[p].g
<1>1. PICK left \in {"none", "torn", "whole"} : active' = [active EXCEPT ![g] = left]
  BY DEF WriteGrant
<1>2. /\ proc[p].pc = "write" /\ guard' = Nobody /\ proc' = [proc EXCEPT ![p] = Idle]
      /\ UNCHANGED <<grant, consumed, control, tracking, clock, capacity, calls, ledger, proofs, reports>>
  BY DEF WriteGrant, At, Quit, world, record
<1>3. g \in GrantIds /\ grant[g].blob # 0 /\ consumed[g] = "none" /\ guard = p
  BY <1>2 DEF Safe, Existing, CreatorAlone, Creating, GuardHeld
<1>4. Idle.pc = "idle" /\ Idle \in Commands
  BY DEF Idle, Commands, Pcs, TokenUses
<1>5. \A q \in Terminals : proc'[q] = IF q = p THEN Idle ELSE proc[q]
  BY <1>2 DEF Safe, Typed
<1>6. \A h \in GrantIds : active'[h] = IF h = g THEN left ELSE active[h]
  BY <1>1 DEF Safe, Typed
<1>7. \A q \in Terminals \ {p} : proc[q].pc # "idle" => proc[q].g # g
  BY <1>2 DEF Safe, CreatorAlone, Creating
<1>8. Typed'
  BY <1>1, <1>2, <1>4 DEF Safe, Typed
<1> HIDE DEF g
<1>9. GrantsCounted' /\ ProofsNamed'
  BY <1>2 DEF Safe, GrantsCounted, ProofsNamed
<1>10. Existing'
  BY <1>2, <1>4, <1>5 DEF Safe, Existing
<1>11. GuardHeld'
  BY <1>2, <1>3, <1>4, <1>5, NobodyAssumption DEF Safe, GuardHeld
<1>12. Unspent'
  BY <1>2, <1>3, <1>4, <1>5, <1>6 DEF Safe, Unspent, Spending
<1>13. CreatorAlone'
  BY <1>2, <1>4, <1>5, <1>6, <1>7 DEF Safe, CreatorAlone, Creating, Existing
<1>14. ExaminedStillDue'
  BY <1>2, <1>4, <1>5, <1>6, <1>7 DEF Safe, ExaminedStillDue, Existing
<1>15. OneSpender'
  BY <1>2, <1>4, <1>5 DEF Safe, OneSpender, Spending
<1>16. SpenderRecord'
  BY <1>2, <1>4, <1>5 DEF Safe, SpenderRecord, Spending
<1>17. DecidedOnEvidence'
  BY <1>2, <1>4, <1>5 DEF Safe, DecidedOnEvidence, Decided
<1>18. ProofIsEvidence' /\ NoCallReportIsTrue'
  BY <1>2 DEF Safe, ProofIsEvidence, NoCallReportIsTrue
<1> QED
  BY <1>8, <1>9, <1>10, <1>11, <1>12, <1>13, <1>14, <1>15, <1>16, <1>17, <1>18 DEF Safe

(* The move of the grant's file begins the spending, or ends the command    *)
(* when the read-back after it fails.                                       *)
LEMMA MoveKeeps ==
  ASSUME Safe, NEW p \in Terminals, NEW m \in Commands, proc[p].pc = "replace",
         Move(proc[p].g), guard' = Nobody, proc' = [proc EXCEPT ![p] = m],
         \/ m.pc = "idle"
         \/ m.pc = "send" /\ m.g = proc[p].g /\ m.saw = proc[p].saw,
         UNCHANGED <<grant, control, tracking, clock, capacity, calls, ledger, proofs>>,
         NoCallReportIsTrue'
  PROVE  Safe'
<1> DEFINE g == proc[p].g
<1>1. g \in GrantIds /\ grant[g].blob # 0 /\ guard = p
  BY DEF Safe, Existing, GuardHeld
<1>2. active[g] = "whole" /\ consumed[g] = "none"
  BY DEF Safe, ExaminedStillDue
<1>3. calls[g] = {} /\ ledger[g] = {} /\ \A r \in proofs : r.g # g
  BY <1>1, <1>2 DEF Safe, Unspent
<1>4. \A q \in Terminals : proc[q].g = g => proc[q].pc \notin Spending
  BY <1>1, <1>2 DEF Safe, Unspent
<1>5. \A q \in Terminals : proc[q].g = g => proc[q].pc \notin Creating
  BY <1>2 DEF Safe, CreatorAlone, Creating
<1>6. \A q \in Terminals : proc'[q] = IF q = p THEN m ELSE proc[q]
  BY DEF Safe, Typed
<1>7. \A h \in GrantIds : /\ active'[h] = IF h = g THEN "none" ELSE active[h]
                          /\ consumed'[h] = IF h = g THEN "whole" ELSE consumed[h]
  BY DEF Safe, Typed, Move
<1>8. Typed'
  BY DEF Safe, Typed, Move
<1> HIDE DEF g
<1>9. GrantsCounted' /\ ProofsNamed'
  BY DEF Safe, GrantsCounted, ProofsNamed
<1>10. Existing'
  BY <1>1, <1>6 DEF Safe, Existing, g
<1>11. GuardHeld'
  BY <1>1, <1>6, NobodyAssumption DEF Safe, GuardHeld
<1>12. Unspent'
  BY <1>1, <1>6, <1>7 DEF Safe, Unspent, Spending, g
<1>13. CreatorAlone'
  <2> SUFFICES ASSUME NEW q \in Terminals, proc'[q].pc \in Creating PROVE CreatorAlone!(q)'
    BY DEF CreatorAlone
  <2>1. q # p /\ proc'[q] = proc[q]
    BY <1>6 DEF Creating
  <2>2. proc[q].g \in GrantIds /\ proc[q].g # g
    BY <1>5, <2>1 DEF Safe, Existing, Creating
  <2> QED
    BY <1>6, <1>7, <2>1, <2>2 DEF Safe, CreatorAlone, Creating, g
<1>14. ExaminedStillDue'
  BY <1>1, <1>6, <1>7 DEF Safe, ExaminedStillDue, Existing, GuardHeld
<1>15. OneSpender'
  BY <1>4, <1>6 DEF Safe, OneSpender, Spending, g
<1>16. SpenderRecord'
  <2> SUFFICES ASSUME NEW q \in Terminals, proc'[q].pc \in Spending PROVE SpenderRecord!(q)'
    BY DEF SpenderRecord, Spending
  <2>1. CASE q = p
    BY <1>3, <1>6, <2>1 DEF g, Spending
  <2>2. CASE q # p
    BY <1>6, <2>2 DEF Safe, SpenderRecord, Spending
  <2> QED
    BY <2>1, <2>2
<1>17. DecidedOnEvidence'
  BY <1>6 DEF Safe, DecidedOnEvidence, Decided
<1>18. ProofIsEvidence'
  BY <1>3, <1>7 DEF Safe, ProofIsEvidence, ProofsNamed
<1> QED
  BY <1>8, <1>9, <1>10, <1>11, <1>12, <1>13, <1>14, <1>15, <1>16, <1>17, <1>18 DEF Safe

(* What the Human is told after a failure is true, unless the command could *)
(* not read the grant.                                                      *)
LEMMA TellIsTrue ==
  ASSUME Safe, NEW p \in Terminals, NEW blind \in BOOLEAN, Tell(p, blind), proc[p].pc # "idle"
  PROVE  NoCallReportIsTrue'
<1> DEFINE r == [g      |-> proc[p].g,
                 says   |-> IF IsConsumed(proc[p].g) /\ ~blind THEN "AFTER_CONSUME" ELSE "NO_PROVIDER_CALL",
                 called |-> p \in calls[proc[p].g],
                 blind  |-> blind]
<1>1. reports' = reports \cup {r}
  BY DEF Tell
<1>2. proc[p].g \in GrantIds
  BY DEF Safe, Existing
<1>3. p \in calls[proc[p].g] => IsConsumed(proc[p].g)
  BY <1>2 DEF Safe, Typed, Unspent, IsConsumed, Readable
<1>4. r.says = "NO_PROVIDER_CALL" /\ ~r.blind => ~r.called
  BY <1>3
<1> QED
  BY <1>1, <1>4 DEF Safe, NoCallReportIsTrue

(* A call given up before the grant is replaced reports no call truly.     *)
LEMMA EscapeFailedKeeps ==
  ASSUME Safe, NEW p \in Terminals, EscapeFailed(p), proc[p].pc \notin {"idle", "write", "replace"},
         UNCHANGED <<Kept, guard>>
  PROVE  Safe'
<1>1. NoCallReportIsTrue' /\ Quit(p)
  BY TellIsTrue DEF EscapeFailed
<1>2. guard # p
  BY DEF Safe, GuardHeld
<1> QED
  BY <1>1, <1>2, CommandEnds DEF Kept

(* Spending the grant is what entitles a command to its one call.          *)
LEMMA ReplaceKeeps ==
  ASSUME Safe, NEW p \in Terminals, Replace(p)
  PROVE  Safe'
<1>1. /\ proc[p].pc = "replace" /\ guard' = Nobody /\ guard = p
      /\ UNCHANGED <<grant, control, tracking, clock, capacity, calls, ledger, proofs>>
  BY DEF Replace, At, world, Safe, GuardHeld
<1>2. proc[p] \in Commands /\ Idle \in Commands /\ Idle.pc = "idle"
  BY DEF Safe, Typed, Idle, Commands, Pcs, TokenUses
<1>3. CASE Move(proc[p].g) /\ Goto(p, "send") /\ UNCHANGED reports
  <2> DEFINE m == [proc[p] EXCEPT !.pc = "send"]
  <2>1. m \in Commands /\ m.pc = "send" /\ m.g = proc[p].g /\ m.saw = proc[p].saw
    BY <1>2 DEF Commands, Pcs
  <2>2. proc' = [proc EXCEPT ![p] = m] /\ NoCallReportIsTrue'
    BY <1>3 DEF Goto, Safe, NoCallReportIsTrue
  <2> HIDE DEF m
  <2> QED
    BY <1>1, <1>3, <2>1, <2>2, MoveKeeps
<1>4. CASE Move(proc[p].g) /\ Quit(p)
           /\ reports' = reports \cup {[g |-> proc[p].g, says |-> "AFTER_CONSUME", called |-> FALSE, blind |-> FALSE]}
  <2>1. NoCallReportIsTrue'
    BY <1>4 DEF Safe, NoCallReportIsTrue
  <2> QED
    BY <1>1, <1>2, <1>4, <2>1, MoveKeeps DEF Quit
<1>5. CASE Quit(p) /\ Tell(p, FALSE) /\ UNCHANGED <<active, consumed>>
  <2>1. NoCallReportIsTrue'
    BY <1>1, <1>5, TellIsTrue
  <2> QED
    BY <1>1, <1>5, <2>1, CommandEnds DEF Kept
<1> QED
  BY <1>3, <1>4, <1>5 DEF Replace

(* The request is the one call of the grant that was spent for it.         *)
LEMMA SendKeeps ==
  ASSUME Safe, NEW p \in Terminals, Send(p)
  PROVE  Safe'
<1> DEFINE g == proc[p].g
<1>1. CASE ~key
  <2>1. proc[p].pc = "send" /\ EscapeFailed(p) /\ UNCHANGED <<Kept, guard>>
    BY <1>1 DEF Send, At, store, world, Kept
  <2> QED
    BY <2>1, EscapeFailedKeeps
<1>2. CASE key
  <2>1. /\ proc[p].pc = "send" /\ calls' = [calls EXCEPT ![g] = @ \cup {p}] /\ Goto(p, "answer")
        /\ UNCHANGED <<store, control, tracking, clock, capacity, ledger, proofs, reports>>
    BY <1>2 DEF Send, At, world
  <2>2. g \in GrantIds /\ grant[g].blob # 0
    BY <2>1 DEF Safe, Existing
  <2>3. calls[g] = {} /\ consumed[g] = "whole" /\ \A r \in proofs : r.g # g
    BY <2>1, <2>2 DEF Safe, SpenderRecord, Unspent, Spending, Typed
  <2>4. \A h \in GrantIds : calls'[h] = IF h = g THEN {p} ELSE calls[h]
    BY <2>1, <2>3 DEF Safe, Typed
  <2>5. calls' \in [GrantIds -> SUBSET Terminals]
    BY <2>1, <2>2 DEF Safe, Typed
  <2>6. /\ proc' \in [Terminals -> Commands]
        /\ \A q \in Terminals : /\ proc'[q].g = proc[q].g /\ proc'[q].saw = proc[q].saw
                                /\ proc'[q].tokens = proc[q].tokens /\ proc'[q].ledgered = proc[q].ledgered
                                /\ proc'[q].pc = IF q = p THEN "answer" ELSE proc[q].pc
    BY <2>1, GotoChangesPc DEF Safe, Pcs
  <2> HIDE DEF g
  <2>7. Typed'
    BY <2>1, <2>5, <2>6 DEF Safe, Typed, store
  <2>8. GrantsCounted' /\ ProofsNamed' /\ Existing' /\ GuardHeld'
    BY <2>1, <2>6 DEF Safe, GrantsCounted, ProofsNamed, Existing, GuardHeld, store
  <2>9. Unspent'
    BY <2>1, <2>3, <2>4, <2>6 DEF Safe, Unspent, Spending, store
  <2>10. CreatorAlone'
    BY <2>1, <2>6 DEF Safe, CreatorAlone, Creating, store
  <2>11. ExaminedStillDue'
    BY <2>1, <2>6 DEF Safe, ExaminedStillDue, store
  <2>12. OneSpender'
    <3>1. \A h \in GrantIds : \A q, r \in calls'[h] : q = r
      BY <2>4 DEF Safe, OneSpender
    <3>2. \A q \in Terminals : proc'[q].pc \in Spending => proc[q].pc \in Spending
      BY <2>1, <2>6 DEF Spending
    <3> QED
      BY <2>6, <3>1, <3>2 DEF Safe, OneSpender
  <2>13. SpenderRecord'
    <3> SUFFICES ASSUME NEW q \in Terminals, proc'[q].pc \in Spending PROVE SpenderRecord!(q)'
      BY DEF SpenderRecord, Spending
    <3>1. CASE q = p
      BY <2>1, <2>2, <2>4, <2>6, <3>1 DEF g, Safe, SpenderRecord, Spending
    <3>2. CASE q # p
      <4>1. proc'[q].pc = proc[q].pc /\ proc[q].g # g /\ proc[q].g \in GrantIds
        BY <2>1, <2>6, <3>2 DEF Safe, OneSpender, Existing, Spending, g
      <4>2. calls'[proc'[q].g] = calls[proc[q].g] /\ ledger' = ledger /\ proofs' = proofs
        BY <2>1, <2>4, <2>6, <4>1
      <4>3. SpenderRecord!(q)
        BY DEF Safe, SpenderRecord
      <4> QED
        BY <2>6, <4>1, <4>2, <4>3
    <3> QED
      BY <3>1, <3>2
  <2>14. DecidedOnEvidence'
    BY <2>1, <2>6 DEF Safe, DecidedOnEvidence, Decided, store
  <2>15. ProofIsEvidence' /\ NoCallReportIsTrue'
    BY <2>1, <2>3, <2>4 DEF Safe, ProofIsEvidence, ProofsNamed, NoCallReportIsTrue, store
  <2> QED
    BY <2>7, <2>8, <2>9, <2>10, <2>11, <2>12, <2>13, <2>14, <2>15 DEF Safe
<1> QED
  BY <1>1, <1>2

(* A reading of the answer has the shape of a ledger line.                  *)
LEMMA OutcomeShape ==
  ASSUME NEW o \in Outcomes
  PROVE  o.tokens \in TokenUses /\ o = [status |-> o.status, tokens |-> o.tokens]
<1>1. PICK a \in Answers : o = [status |-> GatewayStatus(a), tokens |-> a.tokens]
  BY DEF Outcomes
<1>2. a.tokens \in TokenUses
  BY DEF Answers
<1> QED
  BY <1>1, <1>2

(* An answer, with or without its line in the ledger, ends the command or   *)
(* is kept to be proved.                                                    *)
LEMMA AnswerKeeps ==
  ASSUME Safe, NEW p \in Terminals, NEW m \in Commands, NEW lines \in SUBSET Outcomes,
         proc[p].pc = "answer", proc' = [proc EXCEPT ![p] = m],
         ledger' = [ledger EXCEPT ![proc[p].g] = lines],
         \/ m.pc = "idle"
         \/ /\ m.pc = "prove" /\ m.g = proc[p].g /\ m.saw = proc[p].saw
            /\ m.ledgered = TRUE => lines = {[status |-> "SUCCESS", tokens |-> m.tokens]},
         UNCHANGED <<store, control, tracking, clock, capacity, calls, proofs, reports>>
  PROVE  Safe'
<1> DEFINE g == proc[p].g
<1>1. g \in GrantIds /\ grant[g].blob # 0 /\ guard # p
  BY DEF Safe, Existing, GuardHeld
<1>2. calls[g] = {p} /\ consumed[g] = "whole" /\ \A r \in proofs : r.g # g
  BY <1>1 DEF Safe, SpenderRecord, Unspent, Spending, Typed
<1>3. \A q \in Terminals : proc'[q] = IF q = p THEN m ELSE proc[q]
  BY DEF Safe, Typed
<1>4. \A h \in GrantIds : ledger'[h] = IF h = g THEN lines ELSE ledger[h]
  BY DEF Safe, Typed
<1>5. Typed'
  BY <1>1 DEF Safe, Typed, store
<1> HIDE DEF g
<1>6. GrantsCounted' /\ ProofsNamed'
  BY DEF Safe, GrantsCounted, ProofsNamed, store
<1>7. Existing' /\ GuardHeld'
  BY <1>1, <1>3 DEF Safe, Existing, GuardHeld, store, g
<1>8. Unspent'
  BY <1>2, <1>3, <1>4 DEF Safe, Unspent, Spending, store, g
<1>9. CreatorAlone'
  BY <1>3 DEF Safe, CreatorAlone, Creating, store
<1>10. ExaminedStillDue' /\ OneSpender'
  BY <1>3 DEF Safe, ExaminedStillDue, OneSpender, Spending, store
<1>11. SpenderRecord'
  <2> SUFFICES ASSUME NEW q \in Terminals, proc'[q].pc \in Spending PROVE SpenderRecord!(q)'
    BY DEF SpenderRecord, Spending
  <2>1. CASE q = p
    BY <1>1, <1>2, <1>3, <1>4, <2>1 DEF g, Spending
  <2>2. CASE q # p
    <3>1. proc'[q] = proc[q] /\ proc[q].g # g /\ proc[q].g \in GrantIds
      BY <1>3, <2>2 DEF Safe, OneSpender, Existing, Spending, g
    <3>2. ledger'[proc[q].g] = ledger[proc[q].g]
      BY <1>4, <3>1
    <3>3. SpenderRecord!(q)
      BY DEF Safe, SpenderRecord
    <3> QED
      BY <3>1, <3>2, <3>3
  <2> QED
    BY <2>1, <2>2
<1>12. DecidedOnEvidence'
  BY <1>3 DEF Safe, DecidedOnEvidence, Decided, store
<1>13. ProofIsEvidence' /\ NoCallReportIsTrue'
  BY <1>2, <1>4 DEF Safe, ProofIsEvidence, ProofsNamed, NoCallReportIsTrue, store
<1> QED
  BY <1>5, <1>6, <1>7, <1>8, <1>9, <1>10, <1>11, <1>12, <1>13 DEF Safe

(* An answer or its loss settles the call of its own grant.                *)
LEMMA ReceiveKeeps ==
  ASSUME Safe, NEW p \in Terminals, Receive(p)
  PROVE  Safe'
<1>1. proc[p].pc = "answer" /\ UNCHANGED <<store, control, tracking, clock, capacity, calls, proofs>>
  BY DEF Receive, At, world
<1>2. CASE EscapeFailed(p) /\ UNCHANGED ledger
  BY <1>1, <1>2, EscapeFailedKeeps DEF Kept, store
<1>3. CASE \E o \in Outcomes, written \in BOOLEAN :
             /\ ledger' = [ledger EXCEPT ![proc[p].g] = IF written THEN @ \cup {o} ELSE @]
             /\ proc' = [proc EXCEPT ![p] = IF o.status # "SUCCESS" THEN Idle
                           ELSE [@ EXCEPT !.pc = "prove", !.tokens = o.tokens, !.ledgered = written]]
             /\ UNCHANGED reports
  <2>1. PICK o \in Outcomes, written \in BOOLEAN :
             /\ ledger' = [ledger EXCEPT ![proc[p].g] = IF written THEN @ \cup {o} ELSE @]
             /\ proc' = [proc EXCEPT ![p] = IF o.status # "SUCCESS" THEN Idle
                           ELSE [@ EXCEPT !.pc = "prove", !.tokens = o.tokens, !.ledgered = written]]
             /\ UNCHANGED reports
    BY <1>3
  <2> DEFINE kept  == [proc[p] EXCEPT !.pc = "prove", !.tokens = o.tokens, !.ledgered = written]
             m     == IF o.status # "SUCCESS" THEN Idle ELSE kept
             lines == IF written THEN {o} ELSE {}
  <2>2. proc[p].g \in GrantIds /\ ledger[proc[p].g] = {}
    BY <1>1 DEF Safe, Existing, SpenderRecord
  <2>3. lines \in SUBSET Outcomes
    OBVIOUS
  <2>4. ledger' = [ledger EXCEPT ![proc[p].g] = lines]
    BY <2>1, <2>2 DEF Safe, Typed
  <2>5. o.tokens \in TokenUses /\ o = [status |-> o.status, tokens |-> o.tokens]
    BY OutcomeShape
  <2>6. proc[p] \in Commands /\ "prove" \in Pcs
    BY DEF Safe, Typed, Pcs
  <2>7. /\ kept \in Commands /\ kept.pc = "prove" /\ kept.g = proc[p].g /\ kept.saw = proc[p].saw
        /\ kept.tokens = o.tokens /\ kept.ledgered = written
    BY <2>5, <2>6 DEF Commands
  <2>8. Idle \in Commands /\ Idle.pc = "idle"
    BY DEF Idle, Commands, Pcs, TokenUses
  <2>9. proc' = [proc EXCEPT ![p] = m]
    BY <2>1
  <2> HIDE DEF kept
  <2>10. m \in Commands
    BY <2>7, <2>8
  <2>11. \/ m.pc = "idle"
         \/ /\ m.pc = "prove" /\ m.g = proc[p].g /\ m.saw = proc[p].saw
            /\ m.ledgered = TRUE => lines = {[status |-> "SUCCESS", tokens |-> m.tokens]}
    BY <2>5, <2>7, <2>8
  <2> HIDE DEF m, lines
  <2> QED
    BY <1>1, <2>1, <2>3, <2>4, <2>9, <2>10, <2>11, AnswerKeeps
<1> QED
  BY <1>2, <1>3 DEF Receive

(* The proof that is published is that of the call that was made.          *)
LEMMA PersistKeeps ==
  ASSUME Safe, NEW p \in Terminals, Persist(p)
  PROVE  Safe'
<1> DEFINE g == proc[p].g
<1>1. /\ proc[p].pc = "persist" /\ Quit(p)
      /\ UNCHANGED <<store, control, tracking, clock, capacity, calls, ledger, reports>>
  BY DEF Persist, At, world
<1>2. NoCallReportIsTrue' /\ guard # p
  BY <1>1 DEF Safe, NoCallReportIsTrue, GuardHeld
<1>3. CASE UNCHANGED proofs
  BY <1>1, <1>2, <1>3, CommandEnds DEF Kept, store
<1>4. CASE proofs' = proofs \cup {Proof(p)}
  <2>1. g \in GrantIds /\ grant[g].blob # 0
    BY <1>1 DEF Safe, Existing
  <2>2. /\ calls[g] = {p} /\ proc[p].tokens = "as_counted" /\ proc[p].ledgered = TRUE
        /\ ledger[g] = {[status |-> "SUCCESS", tokens |-> "as_counted"]}
    BY <1>1 DEF Safe, SpenderRecord
  <2>3. consumed[g] = "whole"
    BY <2>1, <2>2 DEF Safe, Unspent, Typed
  <2>4. EvidenceFor(grant[g].blob, grant[g].expires, proc[p].saw)
    BY <1>1 DEF Safe, DecidedOnEvidence, Decided
  <2>5. Proof(p).g = g /\ Proof(p).by = p /\ Proof(p).blob = grant[g].blob /\ Proof(p).saw = proc[p].saw
    BY DEF Proof
  <2>6. Idle.pc = "idle" /\ Idle \in Commands
    BY DEF Idle, Commands, Pcs, TokenUses
  <2>7. \A q \in Terminals : proc'[q] = IF q = p THEN Idle ELSE proc[q]
    BY <1>1 DEF Safe, Typed, Quit
  <2>8. Typed'
    BY <1>1, <2>6 DEF Safe, Typed, Quit, store
  <2> HIDE DEF g
  <2>9. GrantsCounted' /\ ProofsNamed'
    BY <1>1, <1>4, <2>1, <2>5 DEF Safe, GrantsCounted, ProofsNamed, store
  <2>10. Existing' /\ GuardHeld'
    BY <1>1, <1>2, <2>6, <2>7 DEF Safe, Existing, GuardHeld, store
  <2>11. Unspent'
    BY <1>1, <1>4, <2>3, <2>5, <2>6, <2>7 DEF Safe, Unspent, Spending, store
  <2>12. CreatorAlone'
    BY <1>1, <2>6, <2>7 DEF Safe, CreatorAlone, Creating, store
  <2>13. ExaminedStillDue' /\ OneSpender'
    BY <1>1, <2>6, <2>7 DEF Safe, ExaminedStillDue, OneSpender, Spending, store
  <2>14. SpenderRecord'
    <3> SUFFICES ASSUME NEW q \in Terminals, proc'[q].pc \in Spending PROVE SpenderRecord!(q)'
      BY DEF SpenderRecord, Spending
    <3>1. q # p /\ proc'[q] = proc[q]
      BY <2>6, <2>7 DEF Spending
    <3>2. proc[q].g # g
      BY <1>1, <3>1 DEF Safe, OneSpender, Spending, g
    <3>3. SpenderRecord!(q)
      BY DEF Safe, SpenderRecord
    <3> QED
      BY <1>1, <1>4, <2>5, <3>1, <3>2, <3>3
  <2>15. DecidedOnEvidence'
    BY <1>1, <2>6, <2>7 DEF Safe, DecidedOnEvidence, Decided, store
  <2>16. ProofIsEvidence'
    BY <1>1, <1>4, <2>2, <2>3, <2>4, <2>5 DEF Safe, ProofIsEvidence, EvidenceFor, store
  <2> QED
    BY <1>2, <2>8, <2>9, <2>10, <2>11, <2>12, <2>13, <2>14, <2>15, <2>16 DEF Safe
<1> QED
  BY <1>3, <1>4 DEF Persist

-----------------------------------------------------------------------------
(* The steps that only look, and the rest of the world.                    *)

(* A command at another place is a command with the same evidence.          *)
LEMMA CommandAt ==
  ASSUME Typed, NEW p \in Terminals, NEW c \in Pcs, NEW m, m = [proc[p] EXCEPT !.pc = c]
  PROVE  /\ m \in Commands /\ m.pc = c /\ m.g = proc[p].g /\ m.saw = proc[p].saw
         /\ m.tokens = proc[p].tokens /\ m.ledgered = proc[p].ledgered
<1>1. proc[p] \in Commands
  BY DEF Typed
<1> QED
  BY <1>1 DEF Commands

(* Starting the proof command touches nothing.                             *)
LEMMA StartProofKeeps ==
  ASSUME Safe, NEW p \in Terminals, StartProof(p)
  PROVE  Safe'
<1>1. PICK g \in GrantIds : proc[p].pc = "idle" /\ PreflightPasses(g) /\ proc' = [proc EXCEPT ![p] = Evidence(g)]
  BY DEF StartProof, At
<1>2. UNCHANGED <<Kept, guard, reports>>
  BY DEF StartProof, store, world, record, Kept
<1>3. Idle \in Commands
  BY DEF Idle, Commands, Pcs, TokenUses
<1>4. "gates" \in Pcs /\ g \in Nat /\ clock \in Nat /\ tracking.lock \in Nat /\ capacity \in [Brains -> Observations]
  BY BoundAssumption DEF Safe, Typed, Pcs, GrantIds
<1>5. Evidence(g) \in Commands /\ Evidence(g).pc = "gates" /\ Evidence(g).g = g
  BY <1>3, <1>4 DEF Evidence, Commands
<1>6. active[g] = "whole" /\ guard # p
  BY <1>1 DEF PreflightPasses, IsActive, Safe, GuardHeld
<1> QED
  BY <1>1, <1>2, <1>5, <1>6, CommandAdvances DEF Creating, Decided, Spending

(* The gates read, and refuse without a call.                              *)
LEMMA GatesKeeps ==
  ASSUME Safe, NEW p \in Terminals, Gates(p)
  PROVE  Safe'
<1>1. proc[p].pc = "gates" /\ UNCHANGED <<Kept, guard, reports>>
  BY DEF Gates, At, store, world, record, Kept
<1>2. proc[p].g \in GrantIds /\ guard # p
  BY <1>1 DEF Safe, Existing, GuardHeld
<1>3. CASE Quit(p)
  <2>1. NoCallReportIsTrue'
    BY <1>1 DEF Safe, NoCallReportIsTrue
  <2> QED
    BY <1>1, <1>2, <1>3, <2>1, CommandEnds
<1>4. CASE GatesPass(proc[p]) /\ Goto(p, "escape")
  <2> DEFINE m == [proc[p] EXCEPT !.pc = "escape"]
  <2>1. m \in Commands /\ m.pc = "escape" /\ m.g = proc[p].g /\ m.saw = proc[p].saw
    BY CommandAt DEF Safe, Pcs
  <2>2. proc' = [proc EXCEPT ![p] = m]
    BY <1>4 DEF Goto
  <2>3. EvidenceFor(grant[proc[p].g].blob, grant[proc[p].g].expires, proc[p].saw)
    <3>1. proc[p].now \in Nat /\ grant[proc[p].g].expires \in Nat /\ proc[p].now < grant[proc[p].g].expires
      BY <1>2, <1>4 DEF Safe, Typed, Commands, GatesPass, IsActive, Unexpired
    <3>2. \A b \in Brains : /\ proc[p].saw[b] = capacity[b]
                            /\ proc[p].saw[b] # NoRecord /\ ~(proc[p].now < proc[p].saw[b].at)
      BY <1>4 DEF GatesPass, CapacityProven, Fresh, FromFuture, Brains
    <3>3. \A b \in Brains : proc[p].saw[b].at \in Nat
      BY <3>2 DEF Safe, Typed, Observations
    <3>4. \A b \in Brains : proc[p].saw[b].at < grant[proc[p].g].expires
      BY <3>1, <3>2, <3>3
    <3> QED
      BY <1>4, <3>4 DEF EvidenceFor, GatesPass, FitsBudget, Counted, CapacityProven
  <2> HIDE DEF m
  <2> QED
    BY <1>1, <1>2, <2>1, <2>2, <2>3, CommandAdvances DEF Creating, Decided, Spending
<1> QED
  BY <1>3, <1>4 DEF Gates

(* Entering the paid escape has made no call.                              *)
LEMMA EscapeKeeps ==
  ASSUME Safe, NEW p \in Terminals, Escape(p)
  PROVE  Safe'
<1>1. proc[p].pc = "escape" /\ UNCHANGED <<Kept, guard>>
  BY DEF Escape, At, store, world, Kept
<1>2. CASE EscapeFailed(p)
  BY <1>1, <1>2, EscapeFailedKeeps
<1>3. CASE Goto(p, "consume") /\ UNCHANGED reports
  <2> DEFINE m == [proc[p] EXCEPT !.pc = "consume"]
  <2>1. m \in Commands /\ m.pc = "consume" /\ m.g = proc[p].g /\ m.saw = proc[p].saw
    BY CommandAt DEF Safe, Pcs
  <2>2. proc' = [proc EXCEPT ![p] = m]
    BY <1>3 DEF Goto
  <2>3. proc[p].g \in GrantIds /\ guard # p
    BY <1>1 DEF Safe, Existing, GuardHeld
  <2>4. EvidenceFor(grant[proc[p].g].blob, grant[proc[p].g].expires, proc[p].saw)
    BY <1>1 DEF Safe, DecidedOnEvidence, Decided
  <2> HIDE DEF m
  <2> QED
    BY <1>1, <1>3, <2>1, <2>2, <2>3, <2>4, CommandAdvances DEF Creating, Spending
<1> QED
  BY <1>2, <1>3 DEF Escape

(* The look under the guard finds the grant active and unspent.            *)
LEMMA ConsumeKeeps ==
  ASSUME Safe, NEW p \in Terminals, Consume(p)
  PROVE  Safe'
<1>1. proc[p].pc = "consume" /\ guard = Nobody /\ UNCHANGED Kept
  BY DEF Consume, At, world, Kept
<1>2. CASE EscapeFailed(p) /\ UNCHANGED guard
  BY <1>1, <1>2, EscapeFailedKeeps
<1>3. CASE MayConsume(proc[p].g, proc[p].now) /\ guard' = p /\ Goto(p, "replace") /\ UNCHANGED reports
  <2> DEFINE m == [proc[p] EXCEPT !.pc = "replace"]
  <2>1. m \in Commands /\ m.pc = "replace" /\ m.g = proc[p].g /\ m.saw = proc[p].saw
    BY CommandAt DEF Safe, Pcs
  <2>2. proc' = [proc EXCEPT ![p] = m]
    BY <1>3 DEF Goto
  <2>3. proc[p].g \in GrantIds /\ guard # p
    BY <1>1 DEF Safe, Existing, GuardHeld
  <2>4. EvidenceFor(grant[proc[p].g].blob, grant[proc[p].g].expires, proc[p].saw)
    BY <1>1 DEF Safe, DecidedOnEvidence, Decided
  <2>5. active[proc[p].g] = "whole" /\ consumed[proc[p].g] = "none"
    BY <1>3 DEF MayConsume, IsActive
  <2> HIDE DEF m
  <2> QED
    BY <1>1, <1>3, <2>1, <2>2, <2>3, <2>4, <2>5, CommandAdvances DEF Creating, Spending
<1> QED
  BY <1>2, <1>3 DEF Consume

(* Judging the evidence of a call records nothing.                         *)
LEMMA ProveKeeps ==
  ASSUME Safe, NEW p \in Terminals, Prove(p)
  PROVE  Safe'
<1>1. proc[p].pc = "prove" /\ UNCHANGED <<Kept, guard, reports>>
  BY DEF Prove, At, store, world, record, Kept
<1>2. proc[p].g \in GrantIds /\ guard # p
  BY <1>1 DEF Safe, Existing, GuardHeld
<1>3. CASE Quit(p)
  <2>1. NoCallReportIsTrue'
    BY <1>1 DEF Safe, NoCallReportIsTrue
  <2> QED
    BY <1>1, <1>2, <1>3, <2>1, CommandEnds
<1>4. CASE Provable(proc[p]) /\ Goto(p, "persist")
  <2> DEFINE m == [proc[p] EXCEPT !.pc = "persist"]
  <2>1. /\ m \in Commands /\ m.pc = "persist" /\ m.g = proc[p].g /\ m.saw = proc[p].saw
        /\ m.tokens = proc[p].tokens /\ m.ledgered = proc[p].ledgered
    BY CommandAt DEF Safe, Pcs
  <2>2. proc' = [proc EXCEPT ![p] = m]
    BY <1>4 DEF Goto
  <2>3. EvidenceFor(grant[proc[p].g].blob, grant[proc[p].g].expires, proc[p].saw)
    BY <1>1 DEF Safe, DecidedOnEvidence, Decided
  <2>4. proc[p].tokens = "as_counted" /\ proc[p].ledgered = TRUE
    BY <1>4 DEF Provable, UsageAgrees, Safe, Typed, Commands
  <2> HIDE DEF m
  <2> QED
    BY <1>1, <1>2, <2>1, <2>2, <2>3, <2>4, CommandAdvances DEF Creating
<1> QED
  BY <1>3, <1>4 DEF Prove

(* A killed command leaves what it had written, and its grant spent.       *)
LEMMA CrashKeeps ==
  ASSUME Safe, NEW p \in Terminals, Crash(p)
  PROVE  Safe'
<1>1. /\ Quit(p) /\ guard' = IF guard = p THEN Nobody ELSE guard
      /\ UNCHANGED <<Kept, reports>>
  BY DEF Crash, world, record, Kept
<1>2. NoCallReportIsTrue'
  BY <1>1 DEF Safe, NoCallReportIsTrue
<1> QED
  BY <1>1, <1>2, CommandEnds

(* Whatever happens outside the commands, between their steps too.         *)
LEMMA WorldKeeps ==
  ASSUME Safe, UNCHANGED <<store, proc, record>>, Typed'
  PROVE  Safe'
<1>1. UNCHANGED <<grant, active, consumed, guard, proc, calls, ledger, proofs, reports>>
  BY DEF store, record
<1>2. GrantsCounted' /\ Existing' /\ GuardHeld'
  BY <1>1 DEF Safe, GrantsCounted, Existing, GuardHeld
<1>3. Unspent' /\ CreatorAlone' /\ ExaminedStillDue'
  BY <1>1 DEF Safe, Unspent, CreatorAlone, ExaminedStillDue
<1>4. OneSpender' /\ SpenderRecord'
  BY <1>1 DEF Safe, OneSpender, SpenderRecord
<1>5. DecidedOnEvidence' /\ ProofsNamed' /\ ProofIsEvidence' /\ NoCallReportIsTrue'
  BY <1>1 DEF Safe, DecidedOnEvidence, ProofsNamed, ProofIsEvidence, NoCallReportIsTrue
<1> QED
  BY <1>2, <1>3, <1>4, <1>5 DEF Safe

(* A new capacity record touches no grant.                                 *)
LEMMA CapacitySetKeeps ==
  ASSUME Safe, CapacitySet
  PROVE  Safe'
<1>1. PICK b \in Brains, s \in ObservedStates :
        capacity' = [capacity EXCEPT ![b] = [at |-> clock, state |-> s, ttl |-> CapacityTTL]]
  BY DEF CapacitySet
<1>2. UNCHANGED <<store, record, control, tracking, clock, proc>>
  BY DEF CapacitySet
<1>3. [at |-> clock, state |-> s, ttl |-> CapacityTTL] \in Observations
  BY TTLAssumption, NobodyAssumption DEF Safe, Typed, Observations
<1>4. Typed'
  BY <1>1, <1>2, <1>3 DEF Safe, Typed, store, record
<1> QED
  BY <1>2, <1>4, WorldKeeps

(* What people and providers do beside the commands touches no grant.      *)
LEMMA EnvironmentKeeps ==
  ASSUME Safe, Environment
  PROVE  Safe'
<1>1. UNCHANGED <<store, capacity, proc, record>>
  BY DEF Environment
<1>2. control' \in [task : Nat \ {0}, lock : Nat] /\ tracking' \in [task : Nat \ {0}, lock : Nat] /\ clock' \in Nat
  BY DEF Safe, Typed, Environment
<1>3. Typed'
  BY <1>1, <1>2 DEF Safe, Typed, store, record
<1> QED
  BY <1>1, <1>3, WorldKeeps

-----------------------------------------------------------------------------
(* The theorems.                                                           *)

(* Safe holds initially, whatever the constants are.                       *)
LEMMA SafeInitially == Init => Safe
<1> SUFFICES ASSUME Init PROVE Safe
  OBVIOUS
<1>1. Idle.pc = "idle" /\ Idle \in Commands
  BY DEF Idle, Commands, Pcs, TokenUses
<1>2. \A p \in Terminals : proc[p] = Idle
  BY DEF Init
<1>3. MaxGrants \in Nat
  BY BoundAssumption
<1>4. Typed
  BY <1>1 DEF Init, Typed, Observations, NoRecord, CapacityStates
<1>5. GrantsCounted
  <2>1. 0 \in 0..MaxGrants /\ \A g \in GrantIds : grant[g].blob # 0 <=> g <= 0
    BY <1>3 DEF Init, GrantIds
  <2> QED
    BY <2>1 DEF GrantsCounted
<1>6. Existing /\ GuardHeld
  BY <1>1, <1>2, NobodyAssumption DEF Init, Existing, GuardHeld
<1>7. Unspent
  BY <1>1, <1>2 DEF Init, Unspent, Spending
<1>8. CreatorAlone /\ ExaminedStillDue
  BY <1>1, <1>2 DEF CreatorAlone, Creating, ExaminedStillDue
<1>9. OneSpender /\ SpenderRecord
  BY <1>1, <1>2 DEF Init, OneSpender, SpenderRecord, Spending
<1>10. DecidedOnEvidence /\ ProofsNamed /\ ProofIsEvidence /\ NoCallReportIsTrue
  BY <1>1, <1>2 DEF Init, DecidedOnEvidence, Decided, ProofsNamed, ProofIsEvidence, NoCallReportIsTrue
<1> QED
  BY <1>4, <1>5, <1>6, <1>7, <1>8, <1>9, <1>10 DEF Safe

(* The inductive invariant of the grant store and of the commands that use  *)
(* it: no step of any terminal, crash, fault or commit leaves it.           *)
THEOREM SafeAlways == Spec => []Safe
<1>1. Init => Safe
  BY SafeInitially
<1>2. Safe /\ [Next]_vars => Safe'
  <2> SUFFICES ASSUME Safe, [Next]_vars PROVE Safe'
    OBVIOUS
  <2>1. CASE UNCHANGED vars
    <3>1. UNCHANGED <<store, proc, record>>
      BY <2>1 DEF vars, store, record
    <3>2. Typed'
      BY <2>1 DEF Safe, Typed, vars
    <3> QED
      BY <3>1, <3>2, WorldKeeps
  <2>2. CASE CapacitySet \/ Environment
    BY <2>2, CapacitySetKeeps, EnvironmentKeeps
  <2>3. ASSUME NEW p \in Terminals, StartGrantCreate(p) \/ StartProof(p) \/ Work(p) \/ Crash(p)
        PROVE  Safe'
    BY <2>3, StartGrantCreateKeeps, StartProofKeeps, ActivateKeeps, WriteGrantKeeps, GatesKeeps, EscapeKeeps,
       ConsumeKeeps, ReplaceKeeps, SendKeeps, ReceiveKeeps, ProveKeeps, PersistKeeps, CrashKeeps DEF Work
  <2> QED
    BY <2>1, <2>2, <2>3 DEF Next
<1> QED
  BY <1>1, <1>2, PTL DEF Spec

(* One grant never pays for two requests, for any number of terminals,      *)
(* kills and retries, and the request leaves only after the grant was       *)
(* durably consumed (AtomicPaidApiGrantStore.consume, then                  *)
(* gateway.invoke).                                                         *)
THEOREM GrantSpentOnce == Spec => []SpendOnce
<1>1. Safe => SpendOnce
  <2> SUFFICES ASSUME Safe, NEW g \in GrantIds PROVE SpendOnce!(g)
    BY DEF SpendOnce
  <2> DEFINE senders == {p \in Terminals : At(p, "send") /\ proc[p].g = g}
  <2>1. \A p \in senders : proc[p].pc \in Spending /\ proc[p].g = g /\ proc[p].pc = "send"
    BY DEF At, Spending
  <2>2. \A p, q \in senders : p = q
    BY <2>1 DEF Safe, OneSpender
  <2>3. \A p, q \in calls[g] : p = q
    BY DEF Safe, OneSpender
  <2>4. senders # {} => calls[g] = {}
    BY <2>1 DEF Safe, SpenderRecord
  <2>5. calls[g] \cup senders # {} => consumed[g] = "whole" /\ active[g] = "none"
    BY <2>1 DEF Safe, Unspent, Typed
  <2>6. Cardinality(calls[g]) + Cardinality(senders) <= 1
    <3>1. \A S : (\A p, q \in S : p = q) => S = {} \/ \E p : S = {p}
      OBVIOUS
    <3>2. Cardinality({}) = 0 /\ \A p : Cardinality({p}) = 1
      BY FS_EmptySet, FS_Singleton
    <3>3. calls[g] = {} \/ \E p : calls[g] = {p}
      BY <2>3, <3>1
    <3>4. senders = {} \/ \E p : senders = {p}
      BY <2>2, <3>1
    <3> HIDE DEF senders
    <3> QED
      BY <2>4, <3>2, <3>3, <3>4
  <2> QED
    BY <2>5, <2>6
<1> QED
  BY <1>1, SafeAlways, PTL

(* A published proof is evidence of the one request that was sent, for the  *)
(* artifact and within the budget and time that the Human authorized        *)
(* (build_paid_api_operational_proof).                                      *)
THEOREM ProofsAreEvidence == Spec => []ProofIsEvidence
<1>1. Safe => ProofIsEvidence
  BY DEF Safe
<1> QED
  BY <1>1, SafeAlways, PTL

(* A command that could read its grant says NO_PROVIDER_CALL only when it   *)
(* sent nothing (the except clause of cmd_paid_proof_execute).              *)
THEOREM NoCallReportsAreTrue == Spec => []NoCallReportIsTrue
<1>1. Safe => NoCallReportIsTrue
  BY DEF Safe
<1> QED
  BY <1>1, SafeAlways, PTL

-----------------------------------------------------------------------------
(***************************************************************************)
(* The choice of an executor, for any policy and any observations.         *)
(***************************************************************************)
(* Candidates as the constructors accept them: ids of their own.           *)
CandidatesOK(C) ==
  /\ \A c \in C : c.class \in {"SUBSCRIPTION", "PAID_API"} /\ c.rank \in Nat /\ c.id \in Nat
  /\ \A c, d \in C : c.id = d.id => c = d

(* Those that come before every other.                                     *)
Best(R) == {c \in R : \A d \in R \ {c} : LexLess(Key(c), Key(d))}

(* Of measured things one measures least.                                  *)
LEMMA LeastBy ==
  ASSUME NEW R, R # {}, NEW m \in [R -> Nat]
  PROVE  \E c \in R : \A d \in R : m[c] <= m[d]
<1> DEFINE T == {m[c] : c \in R}
           Less == OpToRel(<, Nat)
<1>1. IsWellFoundedOn(Less, Nat)
  BY NatLessThanWellFounded
<1>2. \A x, y \in Nat : y < x => <<y, x>> \in Less
  BY DEF OpToRel
<1> HIDE DEF Less
<1>3. T \subseteq Nat /\ T # {}
  OBVIOUS
<1>4. PICK x \in T : \A y \in T : ~(<<y, x>> \in Less)
  <2> HIDE DEF T
  <2> QED
    BY <1>1, <1>3, WFMin
<1>5. PICK c \in R : x = m[c]
  BY <1>4
<1>6. ASSUME NEW d \in R
      PROVE  m[c] <= m[d]
  <2>1. m[d] \in T /\ m[d] \in Nat /\ m[c] \in Nat
    OBVIOUS
  <2>2. ~(m[d] < m[c])
    BY <1>2, <1>4, <1>5, <2>1
  <2> QED
    BY <2>1, <2>2
<1> QED
  BY <1>6

(* Keys are compared from the left.                                        *)
LEMMA KeyLess ==
  ASSUME NEW c, NEW d
  PROVE  LexLess(Key(c), Key(d)) <=>
           \/ ClassRank(c.class) < ClassRank(d.class)
           \/ ClassRank(c.class) = ClassRank(d.class) /\ StateRank(c.state) < StateRank(d.state)
           \/ /\ ClassRank(c.class) = ClassRank(d.class) /\ StateRank(c.state) = StateRank(d.state)
              /\ c.rank < d.rank
           \/ /\ ClassRank(c.class) = ClassRank(d.class) /\ StateRank(c.state) = StateRank(d.state)
              /\ c.rank = d.rank /\ c.id < d.id
<1> DEFINE k == Key(c)
           l == Key(d)
<1>1. /\ k[1] = ClassRank(c.class) /\ k[2] = StateRank(c.state) /\ k[3] = c.rank /\ k[4] = c.id
      /\ l[1] = ClassRank(d.class) /\ l[2] = StateRank(d.state) /\ l[3] = d.rank /\ l[4] = d.id
      /\ DOMAIN k = {1, 2, 3, 4}
  BY DEF Key
<1>2. LexLess(k, l) <=> \E i \in {1, 2, 3, 4} : k[i] < l[i] /\ \A j \in 1 .. (i - 1) : k[j] = l[j]
  BY <1>1 DEF LexLess
<1> HIDE DEF k, l
<1>3. 1 .. (1 - 1) = {} /\ 1 .. (2 - 1) = {1} /\ 1 .. (3 - 1) = {1, 2} /\ 1 .. (4 - 1) = {1, 2, 3}
  OBVIOUS
<1>4. LexLess(k, l) <=>
        \/ k[1] < l[1] /\ \A j \in 1 .. (1 - 1) : k[j] = l[j]
        \/ k[2] < l[2] /\ \A j \in 1 .. (2 - 1) : k[j] = l[j]
        \/ k[3] < l[3] /\ \A j \in 1 .. (3 - 1) : k[j] = l[j]
        \/ k[4] < l[4] /\ \A j \in 1 .. (4 - 1) : k[j] = l[j]
  BY <1>2
<1>5. LexLess(k, l) <=>
        \/ k[1] < l[1]
        \/ k[2] < l[2] /\ k[1] = l[1]
        \/ k[3] < l[3] /\ k[1] = l[1] /\ k[2] = l[2]
        \/ k[4] < l[4] /\ k[1] = l[1] /\ k[2] = l[2] /\ k[3] = l[3]
  BY <1>3, <1>4
<1> QED
  BY <1>1, <1>5 DEF k, l

(* Of candidates with ids of their own exactly one comes first.            *)
LEMMA BestIsOne ==
  ASSUME NEW R, R # {}, CandidatesOK(R)
  PROVE  \E b \in R : Best(R) = {b}
<1>1. \A c \in R : /\ ClassRank(c.class) \in Nat /\ StateRank(c.state) \in Nat
                   /\ c.rank \in Nat /\ c.id \in Nat
  BY DEF CandidatesOK, ClassRank, StateRank
<1>2. PICK c1 \in R : \A d \in R : ClassRank(c1.class) <= ClassRank(d.class)
  <2>1. PICK m : m = [c \in R |-> ClassRank(c.class)]
    OBVIOUS
  <2>2. m \in [R -> Nat]
    BY <1>1, <2>1
  <2>3. PICK c \in R : \A d \in R : m[c] <= m[d]
    BY <2>2, LeastBy
  <2> QED
    BY <2>1, <2>3
<1>3. PICK R1 : R1 = {c \in R : ClassRank(c.class) = ClassRank(c1.class)}
  OBVIOUS
<1>4. PICK c2 \in R1 : \A d \in R1 : StateRank(c2.state) <= StateRank(d.state)
  <2>1. PICK m : m = [c \in R1 |-> StateRank(c.state)]
    OBVIOUS
  <2>2. m \in [R1 -> Nat] /\ R1 # {}
    BY <1>1, <1>3, <2>1
  <2>3. PICK c \in R1 : \A d \in R1 : m[c] <= m[d]
    BY <2>2, LeastBy
  <2> QED
    BY <2>1, <2>3
<1>5. PICK R2 : R2 = {c \in R1 : StateRank(c.state) = StateRank(c2.state)}
  OBVIOUS
<1>6. PICK c3 \in R2 : \A d \in R2 : c3.rank <= d.rank
  <2>1. PICK m : m = [c \in R2 |-> c.rank]
    OBVIOUS
  <2>2. m \in [R2 -> Nat] /\ R2 # {}
    BY <1>1, <1>3, <1>5, <2>1
  <2>3. PICK c \in R2 : \A d \in R2 : m[c] <= m[d]
    BY <2>2, LeastBy
  <2> QED
    BY <2>1, <2>3
<1>7. PICK R3 : R3 = {c \in R2 : c.rank = c3.rank}
  OBVIOUS
<1>8. PICK b \in R3 : \A d \in R3 : b.id <= d.id
  <2>1. PICK m : m = [c \in R3 |-> c.id]
    OBVIOUS
  <2>2. m \in [R3 -> Nat] /\ R3 # {}
    BY <1>1, <1>3, <1>5, <1>7, <2>1
  <2>3. PICK c \in R3 : \A d \in R3 : m[c] <= m[d]
    BY <2>2, LeastBy
  <2> QED
    BY <2>1, <2>3
<1>9. /\ b \in R /\ b \in R1 /\ b \in R2 /\ ClassRank(b.class) = ClassRank(c1.class)
      /\ StateRank(b.state) = StateRank(c2.state) /\ b.rank = c3.rank
  BY <1>3, <1>5, <1>7, <1>8
<1>10. ASSUME NEW d \in R, d # b
       PROVE  LexLess(Key(b), Key(d))
  <2>1. b.id # d.id
    BY <1>9, <1>10 DEF CandidatesOK
  <2>2. \A x, y \in Nat : x <= y /\ x # y => x < y
    OBVIOUS
  <2>3. CASE ClassRank(d.class) # ClassRank(b.class)
    <3>1. ClassRank(b.class) < ClassRank(d.class)
      BY <1>1, <1>2, <1>9, <2>2, <2>3
    <3> QED
      BY <3>1, KeyLess
  <2>4. CASE d \in R1 /\ StateRank(d.state) # StateRank(b.state)
    <3>1. StateRank(b.state) < StateRank(d.state)
      BY <1>1, <1>4, <1>9, <2>2, <2>4
    <3> QED
      BY <3>1, <2>4, <1>3, <1>9, KeyLess
  <2>5. CASE d \in R2 /\ d.rank # b.rank
    <3>1. b.rank < d.rank
      BY <1>1, <1>6, <1>9, <2>2, <2>5
    <3> QED
      BY <3>1, <2>5, <1>3, <1>5, <1>9, KeyLess
  <2>6. CASE d \in R3
    <3>1. b.id < d.id
      BY <1>1, <1>8, <1>9, <2>1, <2>2, <2>6
    <3> QED
      BY <3>1, <2>6, <1>3, <1>5, <1>7, <1>9, KeyLess
  <2> QED
    BY <1>3, <1>5, <1>7, <1>9, <2>3, <2>4, <2>5, <2>6
<1>11. b \in Best(R)
  BY <1>9, <1>10 DEF Best
<1>12. ASSUME NEW c \in Best(R), c # b
       PROVE  FALSE
  <2>1. c \in R /\ LexLess(Key(c), Key(b)) /\ LexLess(Key(b), Key(c))
    BY <1>9, <1>10, <1>12 DEF Best
  <2>2. PICK p \in Nat, q \in Nat, r \in Nat, s \in Nat :
          p = ClassRank(b.class) /\ q = StateRank(b.state) /\ r = b.rank /\ s = b.id
    BY <1>1, <1>9
  <2>3. PICK t \in Nat, u \in Nat, v \in Nat, x \in Nat :
          t = ClassRank(c.class) /\ u = StateRank(c.state) /\ v = c.rank /\ x = c.id
    BY <1>1, <2>1
  <2>4. p < t \/ (p = t /\ q < u) \/ (p = t /\ q = u /\ r < v) \/ (p = t /\ q = u /\ r = v /\ s < x)
    BY <2>1, <2>2, <2>3, KeyLess
  <2>5. t < p \/ (t = p /\ u < q) \/ (t = p /\ u = q /\ v < r) \/ (t = p /\ u = q /\ v = r /\ x < s)
    BY <2>1, <2>2, <2>3, KeyLess
  <2> QED
    BY <2>4, <2>5
<1> QED
  BY <1>9, <1>11, <1>12

(* Evaluated candidates, inc giving each one its incompatibilities.        *)
Evaluations(C, inc) == {Evaluation(c, inc[c]) : c \in C}
Runnables(C, inc) == {c \in C : inc[c] = {} /\ HasCapacity(c.state)}
IdsOf(S) == {c.id : c \in S}

(* What is selected among them.                                            *)
LEMMA SelectedIs ==
  ASSUME NEW C, NEW inc
  PROVE  /\ BuildResult(Evaluations(C, inc)).selected = IdsOf(Best(Runnables(C, inc)))
         /\ BuildResult(Evaluations(C, inc)).status = "SELECTED" <=> Runnables(C, inc) # {}
<1> DEFINE E == Evaluations(C, inc)
           R == Runnables(C, inc)
<1>1. \A c \in C : /\ Evaluation(c, inc[c]) \in E /\ Evaluation(c, inc[c]).candidate = c
                   /\ Evaluation(c, inc[c]).runnable <=> c \in R
  BY DEF Evaluation, Evaluations, Runnables
<1>2. \A e \in E : e.candidate \in C /\ e = Evaluation(e.candidate, inc[e.candidate])
  BY DEF Evaluation, Evaluations
<1>0. R \subseteq C
  BY DEF Runnables
<1> HIDE DEF E, R
<1>3. PICK Q : Q = {e \in E : e.runnable}
  OBVIOUS
<1>4. /\ \A e \in Q : e.candidate \in R /\ e = Evaluation(e.candidate, inc[e.candidate])
      /\ \A c \in R : Evaluation(c, inc[c]) \in Q /\ Evaluation(c, inc[c]).candidate = c
  BY <1>0, <1>1, <1>2, <1>3
<1>5. BuildResult(E).selected =
        {e.candidate.id : e \in {e \in Q : \A f \in Q \ {e} : LexLess(Key(e.candidate), Key(f.candidate))}}
  BY <1>3 DEF BuildResult
<1>6. BuildResult(E).status = "SELECTED" <=> Q # {}
  BY <1>3 DEF BuildResult
<1>7. ASSUME NEW e \in Q
      PROVE  (\A f \in Q \ {e} : LexLess(Key(e.candidate), Key(f.candidate))) <=> e.candidate \in Best(R)
  <2>1. ASSUME \A f \in Q \ {e} : LexLess(Key(e.candidate), Key(f.candidate)), NEW d \in R \ {e.candidate}
        PROVE  LexLess(Key(e.candidate), Key(d))
    BY <1>4, <2>1
  <2>2. ASSUME \A d \in R \ {e.candidate} : LexLess(Key(e.candidate), Key(d)), NEW f \in Q \ {e}
        PROVE  LexLess(Key(e.candidate), Key(f.candidate))
    BY <1>4, <1>7, <2>2
  <2> QED
    BY <1>4, <2>1, <2>2 DEF Best
<1>8. BuildResult(E).selected = {c.id : c \in Best(R)}
  <2>1. \A c \in Best(R) : c \in R
    BY DEF Best
  <2>2. PICK S : S = {e \in Q : \A f \in Q \ {e} : LexLess(Key(e.candidate), Key(f.candidate))}
    OBVIOUS
  <2>3. \A e \in Q : e \in S <=> e.candidate \in Best(R)
    BY <1>7, <2>2
  <2>4. S \subseteq Q
    BY <2>2
  <2>5. BuildResult(E).selected = {e.candidate.id : e \in S}
    BY <1>5, <2>2
  <2>6. {e.candidate.id : e \in S} \subseteq {c.id : c \in Best(R)}
    BY <2>3, <2>4
  <2>7. {c.id : c \in Best(R)} \subseteq {e.candidate.id : e \in S}
    <3>1. ASSUME NEW c \in Best(R)
          PROVE  \E e \in S : e.candidate.id = c.id
      BY <1>4, <2>1, <2>3
    <3> QED
      BY <3>1
  <2> QED
    BY <2>5, <2>6, <2>7
<1>9. Q # {} <=> R # {}
  BY <1>4
<1> QED
  BY <1>6, <1>8, <1>9 DEF E, R, IdsOf

(* The executors that a policy names and that may be asked now.            *)
Usable(specs, op, required, paid, records, now) ==
  {s \in specs : /\ op \in s.ops /\ required \subseteq s.caps
                 /\ s.class = "PAID_API" => paid
                 /\ HasCapacity(EffectiveState(records[s.id], now))}

CandidateOf(s, records, now) ==
  ExecutorCandidate(s.id, s.ops, s.caps, EffectiveState(records[s.id], now), s.class, s.rank)

UsableCandidates(specs, op, required, paid, records, now) ==
  {CandidateOf(s, records, now) : s \in Usable(specs, op, required, paid, records, now)}

(* The executors a dispatch chooses among are the usable ones.             *)
LEMMA DispatchAmongUsable ==
  ASSUME NEW op, NEW specs, NEW required, NEW paid \in BOOLEAN, NEW records, NEW now,
         NEW D, D = DispatchExecutor(RequestFromRuntime(
                        ExecutorDispatchPolicy(op, specs, required, paid), records, now)),
         NEW R, R = UsableCandidates(specs, op, required, paid, records, now)
  PROVE  /\ D.selected = IdsOf(Best(R))
         /\ D.status = "SELECTED" <=> R # {}
<1>1. PICK req : req = RequestFromRuntime(ExecutorDispatchPolicy(op, specs, required, paid), records, now)
  OBVIOUS
<1>2. /\ req.op = op /\ req.required = required /\ req.allowPaid = paid
      /\ req.candidates = {CandidateOf(s, records, now) : s \in specs}
  BY <1>1 DEF RequestFromRuntime, ExecutorDispatchPolicy, ExecutorDispatchRequest, CandidateOf
<1>3. PICK C : C = req.candidates
  OBVIOUS
<1>4. PICK inc : inc = [c \in C |-> ExecutorIncompatibilities(req, c)]
  OBVIOUS
<1>5. {Evaluation(c, ExecutorIncompatibilities(req, c)) : c \in C} = Evaluations(C, inc)
  BY <1>4 DEF Evaluations
<1>6. D = BuildResult(Evaluations(C, inc))
  BY <1>1, <1>3, <1>5 DEF DispatchExecutor
<1>7. ASSUME NEW s \in specs
      PROVE  /\ CandidateOf(s, records, now) \in C
             /\ (/\ inc[CandidateOf(s, records, now)] = {}
                 /\ HasCapacity(CandidateOf(s, records, now).state))
                <=> s \in Usable(specs, op, required, paid, records, now)
  <2>1. PICK c : c = CandidateOf(s, records, now)
    OBVIOUS
  <2>2. /\ c.ops = s.ops /\ c.caps = s.caps /\ c.class = s.class
        /\ c.state = EffectiveState(records[s.id], now)
    BY <2>1 DEF CandidateOf, ExecutorCandidate
  <2>3. c \in C /\ inc[c] = ExecutorIncompatibilities(req, c)
    BY <1>2, <1>3, <1>4, <2>1
  <2>4. inc[c] = {} <=> op \in s.ops /\ required \subseteq s.caps /\ (s.class = "PAID_API" => paid)
    BY <1>2, <2>2, <2>3 DEF ExecutorIncompatibilities, Unsupported, PaidDenied
  <2> QED
    BY <2>1, <2>2, <2>3, <2>4 DEF Usable
<1>8. R = Runnables(C, inc)
  <2>1. ASSUME NEW c \in R
        PROVE  c \in C /\ inc[c] = {} /\ HasCapacity(c.state)
    <3>1. PICK s \in Usable(specs, op, required, paid, records, now) : c = CandidateOf(s, records, now)
      BY DEF UsableCandidates
    <3>2. s \in specs
      BY <3>1 DEF Usable
    <3> QED
      BY <1>7, <3>1, <3>2
  <2>2. ASSUME NEW c \in C, inc[c] = {}, HasCapacity(c.state)
        PROVE  c \in R
    <3>1. PICK s \in specs : c = CandidateOf(s, records, now)
      BY <1>2, <1>3
    <3>2. s \in Usable(specs, op, required, paid, records, now)
      BY <1>7, <2>2, <3>1
    <3> QED
      BY <3>1, <3>2 DEF UsableCandidates
  <2> QED
    BY <2>1, <2>2 DEF Runnables
<1> QED
  BY <1>6, <1>8, SelectedIs

(* The usable executors of a policy have ids of their own.                 *)
LEMMA UsableAreApart ==
  ASSUME NEW op, NEW specs, CandidatesOK(specs), NEW required, NEW paid, NEW records, NEW now,
         NEW R, R = UsableCandidates(specs, op, required, paid, records, now)
  PROVE  /\ CandidatesOK(R)
         /\ \A s \in specs : CandidateOf(s, records, now).id = s.id /\ CandidateOf(s, records, now).class = s.class
<1>1. \A s \in specs : /\ CandidateOf(s, records, now).id = s.id
                       /\ CandidateOf(s, records, now).class = s.class
                       /\ CandidateOf(s, records, now).rank = s.rank
  BY DEF CandidateOf, ExecutorCandidate
<1>2. \A c \in R : \E s \in specs : c = CandidateOf(s, records, now)
  BY DEF Usable, UsableCandidates
<1>3. /\ \A s \in specs : s.class \in {"SUBSCRIPTION", "PAID_API"} /\ s.rank \in Nat /\ s.id \in Nat
      /\ \A r, s \in specs : r.id = s.id => r = s
  BY DEF CandidatesOK
<1>4. \A c \in R : c.class \in {"SUBSCRIPTION", "PAID_API"} /\ c.rank \in Nat /\ c.id \in Nat
  BY <1>1, <1>2, <1>3
<1>5. \A c, d \in R : c.id = d.id => c = d
  BY <1>1, <1>2, <1>3
<1> QED
  BY <1>1, <1>4, <1>5 DEF CandidatesOK

(* If any executor of the policy may be asked, exactly one is selected,    *)
(* and it is one that may be: it does the operation, has what is required, *)
(* is paid only if that is allowed, and was observed, recently enough, as  *)
(* usable (dispatch_executor,                                              *)
(* build_executor_dispatch_request_from_runtime).                          *)
THEOREM OneUsableSelected ==
  ASSUME NEW op, NEW specs, CandidatesOK(specs), NEW required, NEW paid \in BOOLEAN, NEW records, NEW now
  PROVE  LET D == DispatchExecutor(RequestFromRuntime(
                      ExecutorDispatchPolicy(op, specs, required, paid), records, now))
             usable == Usable(specs, op, required, paid, records, now)
         IN  /\ D.status = "SELECTED" <=> usable # {}
             /\ usable # {} => \E s \in usable :
                   /\ D.selected = {s.id}
                   /\ Fresh(records[s.id], now) /\ records[s.id].state \in {"AVAILABLE", "LIMITED"}
             /\ usable = {} => D.selected = {}
<1>1. PICK U : U = Usable(specs, op, required, paid, records, now)
  OBVIOUS
<1>2. PICK R : R = UsableCandidates(specs, op, required, paid, records, now)
  OBVIOUS
<1>3. PICK D : D = DispatchExecutor(RequestFromRuntime(
                      ExecutorDispatchPolicy(op, specs, required, paid), records, now))
  OBVIOUS
<1>4. D.selected = IdsOf(Best(R)) /\ (D.status = "SELECTED" <=> R # {})
  BY <1>2, <1>3, DispatchAmongUsable
<1>5. CandidatesOK(R)
  BY <1>2, UsableAreApart
<1>6. \A c \in R : \E s \in U : c = CandidateOf(s, records, now) /\ c.id = s.id
  BY <1>1, <1>2 DEF UsableCandidates, CandidateOf, ExecutorCandidate
<1>7. U # {} <=> R # {}
  BY <1>1, <1>2 DEF UsableCandidates
<1>8. ASSUME U # {}
      PROVE  \E s \in U : /\ D.selected = {s.id}
                          /\ Fresh(records[s.id], now) /\ records[s.id].state \in {"AVAILABLE", "LIMITED"}
  <2>1. PICK b \in R : Best(R) = {b}
    BY <1>5, <1>7, <1>8, BestIsOne
  <2>2. PICK s \in U : b.id = s.id
    BY <1>6
  <2>3. D.selected = {s.id}
    BY <1>4, <2>1, <2>2 DEF IdsOf
  <2>4. HasCapacity(EffectiveState(records[s.id], now))
    BY <1>1 DEF Usable
  <2>5. Fresh(records[s.id], now) /\ records[s.id].state \in {"AVAILABLE", "LIMITED"}
    BY <2>4 DEF HasCapacity, EffectiveState
  <2> QED
    BY <2>3, <2>5
<1>9. ASSUME U = {}
      PROVE  D.selected = {}
  BY <1>4, <1>7, <1>9 DEF IdsOf, Best
<1> QED
  BY <1>1, <1>3, <1>4, <1>7, <1>8, <1>9

(* Paid executors are a last resort: whatever a policy that does not allow *)
(* them selects is still selected when it allows them, and without the     *)
(* permission none is ever selected (dispatch_executor).                   *)
THEOREM FreeChoiceStands ==
  ASSUME NEW op, NEW specs, CandidatesOK(specs), NEW required, NEW records, NEW now
  PROVE  LET D(paid) == DispatchExecutor(RequestFromRuntime(
                            ExecutorDispatchPolicy(op, specs, required, paid), records, now))
         IN  /\ D(FALSE).selected # {} => D(TRUE).selected = D(FALSE).selected
             /\ \A s \in specs : s.id \in D(FALSE).selected => s.class = "SUBSCRIPTION"
<1> DEFINE U(paid) == Usable(specs, op, required, paid, records, now)
           R(paid) == UsableCandidates(specs, op, required, paid, records, now)
<1>1. PICK F : F = R(FALSE)
  OBVIOUS
<1>2. PICK A : A = R(TRUE)
  OBVIOUS
<1>3. PICK DF : DF = DispatchExecutor(RequestFromRuntime(
                       ExecutorDispatchPolicy(op, specs, required, FALSE), records, now))
  OBVIOUS
<1>4. PICK DA : DA = DispatchExecutor(RequestFromRuntime(
                       ExecutorDispatchPolicy(op, specs, required, TRUE), records, now))
  OBVIOUS
<1>5. DF.selected = IdsOf(Best(F)) /\ DA.selected = IdsOf(Best(A))
  <2>1. \A paid \in BOOLEAN :
          DispatchExecutor(RequestFromRuntime(ExecutorDispatchPolicy(op, specs, required, paid), records, now)).selected
            = IdsOf(Best(UsableCandidates(specs, op, required, paid, records, now)))
    BY DispatchAmongUsable
  <2>2. DF.selected = IdsOf(Best(F))
    BY <2>1, <1>1, <1>3, Zenon
  <2>3. DA.selected = IdsOf(Best(A))
    BY <2>1, <1>2, <1>4, Zenon
  <2> QED
    BY <2>2, <2>3
<1>6. CandidatesOK(F) /\ CandidatesOK(A)
  BY <1>1, <1>2, UsableAreApart
<1>7. \A s \in specs : s.class \in {"SUBSCRIPTION", "PAID_API"}
  BY DEF CandidatesOK
<1>8. /\ U(FALSE) \subseteq U(TRUE) /\ \A s \in U(FALSE) : s \in specs /\ s.class = "SUBSCRIPTION"
      /\ \A s \in U(TRUE) \ U(FALSE) : s \in specs /\ s.class = "PAID_API"
  BY <1>7 DEF Usable
<1>9. \A s \in specs : CandidateOf(s, records, now).class = s.class /\ CandidateOf(s, records, now).id = s.id
  BY DEF CandidateOf, ExecutorCandidate
<1>10. /\ F \subseteq A /\ \A c \in F : c.class = "SUBSCRIPTION"
       /\ \A c \in A \ F : c.class = "PAID_API"
       /\ \A c \in F : \E s \in specs : c.id = s.id /\ s.class = "SUBSCRIPTION"
  BY <1>1, <1>2, <1>8, <1>9 DEF UsableCandidates
<1>11. ASSUME DF.selected # {}
       PROVE  DA.selected = DF.selected
  <2>1. F # {}
    BY <1>5, <1>11 DEF IdsOf, Best
  <2>2. PICK b \in F : Best(F) = {b}
    BY <1>6, <2>1, BestIsOne
  <2>3. PICK a \in A : Best(A) = {a}
    BY <1>6, <1>10, <2>1, BestIsOne
  <2>4. a \in F
    <3> SUFFICES ASSUME a \notin F PROVE FALSE
      OBVIOUS
    <3>1. a.class = "PAID_API" /\ b.class = "SUBSCRIPTION" /\ a # b /\ b \in A
      BY <1>10
    <3>2. LexLess(Key(a), Key(b))
      BY <2>3, <3>1 DEF Best
    <3>3. ClassRank(a.class) = 1 /\ ClassRank(b.class) = 0
      BY <3>1 DEF ClassRank
    <3> QED
      BY <3>2, <3>3, KeyLess
  <2>5. a \in Best(F)
    BY <1>10, <2>3, <2>4 DEF Best
  <2> QED
    BY <1>5, <2>2, <2>3, <2>5
<1>12. ASSUME NEW s \in specs, s.id \in DF.selected
       PROVE  s.class = "SUBSCRIPTION"
  <2>1. PICK c \in F : c.id = s.id
    BY <1>5, <1>12 DEF IdsOf, Best
  <2>2. PICK r \in specs : r.id = s.id /\ r.class = "SUBSCRIPTION"
    BY <1>10, <2>1
  <2> QED
    BY <2>2 DEF CandidatesOK
<1> QED
  BY <1>3, <1>4, <1>11, <1>12
=============================================================================
