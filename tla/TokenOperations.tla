--------------------------- MODULE TokenOperations ---------------------------
(***************************************************************************)
(* The token_operations table: one durable row per award (or spend)        *)
(* operation key, claimed before any chain call and moved through          *)
(*   submitting -> submitted / unknown -> confirmed -> projected | failed. *)
(* Every update of the service is one SQL transaction, so each is given    *)
(* here as the table it leaves behind; the callers compose them with the   *)
(* outcome of the database call.                                           *)
(***************************************************************************)
EXTENDS Naturals

CONSTANTS
  Keys,       \* operation keys
  Intents,    \* fingerprinted contents a request for a key may have
  Wallets,    \* owner addresses
  Amounts,    \* token amounts, 0 included
  None        \* SQL null, and "no row"

\* One signed treasury transfer, to (an award) or from (a spend) a user's
\* wallet. A hash identifies exactly these bytes.
Tx == [key: Keys, nonce: Nat, wallet: Wallets, amount: Amounts]

ASSUME AmountsAssumption == 0 \in Amounts /\ Amounts \subseteq Nat
ASSUME NoneAssumption == None \notin Tx

VARIABLE op   \* op[k]: the row of key k, or None

OpenStatuses == {"submitting", "submitted", "unknown"}
Statuses == OpenStatuses \cup {"confirmed", "projected", "failed"}
Outcomes == {"unknown", "confirmed", "no_movement", "review"}

Row == [intent: Intents, wallet: Wallets, amount: Amounts,
        hash: Tx \cup {None}, status: Statuses, outcome: Outcomes]

\* The row a first claim inserts.
NewRow(c, w, a) ==
  [intent |-> c, wallet |-> w, amount |-> a, hash |-> None,
   status |-> "submitting", outcome |-> "unknown"]

\* Mutant: the saved wallet is not part of the compared intent.
SameIntentAnyWallet(k, c, w) == op[k].intent = c

\* assertOperationIntent for an award: owner, wallet and fingerprint must be
\* the saved ones. The amount is compared for spends only, and the award
\* fingerprint leaves it out.
SameIntent(k, c, w) == op[k].intent = c /\ op[k].wallet = w

\* A hashless failed row can only come from markPreflightFailed; the claim
\* takes such a row over, and no other.
Reclaimable(k) == op[k].status = "failed" /\ op[k].hash = None

\* claim: insert a first claim, or take over a preflight failure. The saved
\* amount of a row that is taken over stays as it was.
Inserted(k, c, w, a) == [op EXCEPT ![k] = NewRow(c, w, a)]
Reclaimed(k) == [op EXCEPT ![k].status = "submitting", ![k].outcome = "unknown"]

\* UPDATE ... WHERE operation_key = k AND guard
UpdateWhere(k, guard, row) ==
  IF op[k] # None /\ guard THEN [op EXCEPT ![k] = row] ELSE op

\* markSubmitted: saves the hash, or finds the same hash saved already.
MarkSubmitted(k, t) ==
  UpdateWhere(k, op[k].status \in OpenStatuses /\ op[k].hash \in {None, t},
              [op[k] EXCEPT !.hash = t, !.status = "submitted"])

\* Mutant: a late unknown outcome overwrites any status.
MarkUnknownAlways(k) == UpdateWhere(k, TRUE, [op[k] EXCEPT !.status = "unknown"])

MarkUnknown(k) ==
  UpdateWhere(k, op[k].status \in OpenStatuses, [op[k] EXCEPT !.status = "unknown"])

MarkConfirmed(k) ==
  UpdateWhere(k, op[k].hash # None /\ op[k].status \in OpenStatuses \cup {"confirmed"},
              [op[k] EXCEPT !.status = "confirmed", !.outcome = "confirmed"])

\* Mutant: a late projection error reopens a projected row.
MarkProjectionErrorAlways(k) ==
  UpdateWhere(k, op[k].hash # None, [op[k] EXCEPT !.status = "confirmed"])

\* The transfer is settled but its projection failed: the outcome stays.
MarkProjectionError(k) ==
  UpdateWhere(k, op[k].hash # None /\ op[k].status \in OpenStatuses \cup {"confirmed"},
              [op[k] EXCEPT !.status = "confirmed"])

\* A failed row stays failed, and a hashless row is completed only when it is
\* a zero-amount decision. Neither refusal is reported to the caller.
MarkProjected(k) ==
  UpdateWhere(k, op[k].status # "failed" /\ (op[k].hash # None \/ op[k].amount = 0),
              [op[k] EXCEPT !.status = "projected",
                            !.outcome = IF op[k].amount = 0 THEN "no_movement"
                                                            ELSE "confirmed"])

MarkFailed(k, outcome) ==
  UpdateWhere(k, op[k].hash # None /\ op[k].status \in OpenStatuses,
              [op[k] EXCEPT !.status = "failed", !.outcome = outcome])

\* Guarded by the missing hash alone: the status is not looked at.
MarkPreflightFailed(k) ==
  UpdateWhere(k, op[k].hash = None,
              [op[k] EXCEPT !.status = "failed", !.outcome = "no_movement"])

OperationsInit == op = [k \in Keys |-> None]
OperationsTypeOK == op \in [Keys -> Row \cup {None}]
=============================================================================
