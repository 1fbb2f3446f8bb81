------------------------ MODULE IdempotencyContract ------------------------
(***************************************************************************)
(* What src/core/idempotency_contract.py promises of any idempotency       *)
(* store: claim, complete, fail and prune are atomic decisions on one      *)
(* record per key.  Wall-clock expiry of a claim (ttl_seconds) is the       *)
(* Boolean "expired" of a claim step: the contract does not say when a      *)
(* claim expires, only what may then happen.                               *)
(***************************************************************************)
EXTENDS Naturals

CONSTANTS
  Keys,     \* RecordKey values: (operation_key, idempotency_key) pairs
  Owners    \* owner_id values

VARIABLE rec  \* key -> the current record of the key, or NoRecord

(***************************************************************************)
(* RecordStatus without NEW: no code path ever writes a NEW record.         *)
(***************************************************************************)
Statuses == {"IN_PROGRESS", "COMPLETED", "FAILED", "RECOVERABLE"}

TerminalStatuses == {"COMPLETED", "FAILED"}

NoRecord == [status |-> "NONE"]

Records == [status : Statuses, owner : Owners, attempt : Nat]

Record(s, o, a) == [status |-> s, owner |-> o, attempt |-> a]

Init == rec = [k \in Keys |-> NoRecord]

(***************************************************************************)
(* A claim succeeds on a fresh key, on a RECOVERABLE record, and on an      *)
(* IN_PROGRESS record whose claim expired; the new record belongs to the    *)
(* claimer and counts one more attempt.                                     *)
(***************************************************************************)
Claim(k, o) ==
  \/ /\ rec[k] = NoRecord
     /\ rec' = [rec EXCEPT ![k] = Record("IN_PROGRESS", o, 1)]
  \/ /\ rec[k].status \in {"RECOVERABLE", "IN_PROGRESS"}
     /\ rec' = [rec EXCEPT ![k] = Record("IN_PROGRESS", o, rec[k].attempt + 1)]

(***************************************************************************)
(* complete() and fail(): only the owner, only from IN_PROGRESS.            *)
(***************************************************************************)
Settle(k, o) ==
  /\ rec[k] # NoRecord
  /\ rec[k].status = "IN_PROGRESS"
  /\ rec[k].owner = o
  /\ \E s \in {"COMPLETED", "FAILED", "RECOVERABLE"} :
       rec' = [rec EXCEPT ![k].status = s]

(***************************************************************************)
(* prune(): a set of terminal records disappears at once.                   *)
(***************************************************************************)
Prune ==
  \E gone \in SUBSET {k \in Keys : rec[k].status \in TerminalStatuses} :
     rec' = [k \in Keys |-> IF k \in gone THEN NoRecord ELSE rec[k]]

Next ==
  \/ \E k \in Keys, o \in Owners : Claim(k, o) \/ Settle(k, o)
  \/ Prune

Spec == Init /\ [][Next]_rec
=============================================================================
