------------------------ MODULE SpendExecutorProofs ------------------------
(***************************************************************************)
(* Safety of SpendExecutor for every number of keys, wallets, runs and     *)
(* amounts and every bound on faults, by one inductive invariant: what the *)
(* tables say about each other, and what each run may rely on at each of   *)
(* its points while the others go on (SInv). On top of it AInv: a wallet's *)
(* balance and the sum of what is asked of it fit its funds, and what a    *)
(* run past its capacity check adds still fits them, while it has the lock.*)
(***************************************************************************)
EXTENDS SpendExecutor, TransferRunsProofs, FiniteSetTheorems

Over == {"settled", "released"}

\* A hash is that of a transfer of the row's wallet and amount, and a row with
\* a hash that says no_movement carries a reverted one.
HashesSound ==
  \A k \in Keys : op[k] # None /\ op[k].hash # None =>
    /\ op[k].amount # 0 /\ op[k].hash.wallet = op[k].wallet /\ op[k].hash.amount = op[k].amount
    /\ op[k].outcome = "no_movement" => op[k].hash \in reverted

\* The row of the spends table for the transfer of key k.
SpendOf(k) == [key |-> k, wallet |-> op[k].wallet, amount |-> op[k].amount, tx |-> op[k].hash]

ProjectedAreRecorded ==
  \A k \in Keys : op[k] # None /\ op[k].hash # None /\ op[k].status = "projected" => SpendOf(k) \in spends

\* The operation of a reservation is its settlement: the delivery saved first,
\* bounded by the hold.
Settlement(k) ==
  op[k] # None =>
    /\ res[k] # None /\ res[k].status # "reserved" /\ res[k].context # None
    /\ op[k].wallet = res[k].wallet
    /\ op[k].amount = Lower(res[k].amount, TokensOf[res[k].context])

\* A reservation has no hash until it is over, and is over with its operation.
Completion(k) ==
  res[k] # None =>
    IF res[k].status \in Over
    THEN /\ op[k] # None /\ op[k].amount = res[k].settled /\ op[k].hash = res[k].hash
         /\ res[k].status = "settled" <=> res[k].settled > 0
         /\ res[k].status = "settled" => res[k].hash # None /\ SpendOf(k) \in spends
    ELSE res[k].hash = None

ReservationsMatch == \A k \in ReservationKeys : Settlement(k) /\ Completion(k)

Owning == {"check", "prepare", "preflight"}
Opening == {"claimHold", "lookup", "context"}
Settles == Opening \cup {"zeroClaim", "claim", "zeroProject", "settle"}

\* A run past its claim works on its row, with the row's wallet and amount.
OnItsRow(p) ==
  /\ pc[p] \in WithTx \cup Owning \cup {"zeroProject", "settle"} =>
       /\ op[loc[p].key] # None
       /\ op[loc[p].key].wallet = loc[p].wallet /\ op[loc[p].key].amount = loc[p].amount
  /\ pc[p] \in WithTx \cup {"settle"} => op[loc[p].key].hash = loc[p].tx
  /\ pc[p] = "freshProjected" => op[loc[p].key].status = "projected"
  /\ pc[p] = "failNoMovement" => loc[p].tx \in reverted
  /\ pc[p] \in {"complete", "settle", "receipt"} /\ loc[p].tx # None => Entry(p) \in spends

\* The amounts that runs without a hash work with.
AmountsFit(p) ==
  /\ pc[p] \in Locking \cup {"claim"} => loc[p].amount # 0
  /\ pc[p] \in {"zeroClaim", "zeroProject"} => loc[p].amount = 0
  /\ pc[p] = "settle" /\ loc[p].tx = None => loc[p].amount = 0
  /\ pc[p] \in Opening \cup {"zeroClaim", "zeroProject"} => loc[p].tx = None

\* A run settles a reservation with the delivery it was given, and once that
\* is saved, with the saved one.
OnItsReservation(p) ==
  /\ pc[p] = "hold" => loc[p].key \in ReservationKeys
  /\ pc[p] = "claimManual" => loc[p].key \in ManualKeys
  /\ pc[p] \in Settles => loc[p].delivery # None
  /\ pc[p] # "idle" /\ loc[p].delivery # None =>
       /\ loc[p].key \in ReservationKeys /\ res[loc[p].key] # None
       /\ pc[p] # "receipt" =>
            /\ loc[p].wallet = res[loc[p].key].wallet
            /\ loc[p].amount = Lower(res[loc[p].key].amount, TokensOf[loc[p].delivery])
       /\ pc[p] # "claimHold" => res[loc[p].key].status # "reserved"
       /\ pc[p] \notin Opening \cup {"receipt"} => res[loc[p].key].context = loc[p].delivery
  /\ pc[p] \in WithTx \cup Owning /\ loc[p].key \in ReservationKeys =>
       /\ pc[p] = "receipt" => /\ res[loc[p].key] # None /\ res[loc[p].key].status = "settled"
                               /\ res[loc[p].key].hash = loc[p].tx
       /\ loc[p].delivery = None => /\ pc[p] \in WithTx
                                    /\ res[loc[p].key] # None /\ res[loc[p].key].status \in Over

\* A run between its claim and the commit of the transfer owns its row.
OwnsItsRow(p) ==
  /\ pc[p] \in {"check", "prepare"} => Untouched(op[loc[p].key]) /\ op[loc[p].key].hash = None
  /\ pc[p] = "preflight" /\ op[loc[p].key].hash = None => Untouched(op[loc[p].key])

RunsMatch == \A p \in Procs : OnItsRow(p) /\ AmountsFit(p) /\ OnItsReservation(p) /\ OwnsItsRow(p)

OwnersExclude ==
  \A p, q \in Procs :
    /\ pc[p] \in Owning /\ pc[q] \in Owning
    /\ loc[p].key = loc[q].key /\ op[loc[p].key].hash = None
    => p = q

SInv ==
  /\ TypeOK /\ TransfersMatch
  /\ HashesSound /\ ProjectedAreRecorded /\ ReservationsMatch
  /\ RunsMatch /\ OwnersExclude /\ ReceiptsMatch
-----------------------------------------------------------------------------
(* What a step does to its row.                                            *)

\* The steps that mark the row of their run, or its lease.
MarkStep(p) ==
  \/ PreflightFailed(p) \/ SubmitLease(p) \/ UnknownLease(p) \/ Submit(p)
  \/ StillUnknown(p) \/ RejectEvidence(p) \/ Confirm(p) \/ ProjectionError(p)
  \/ ZeroProject(p) \/ CompleteSpend(p)

\* A mark moves row r on to n: hash, amount and wallet stay, a projected row
\* stays projected, and only proof or a missing hash says no_movement. A row
\* nothing was prepared for is marked by its owner only, unless it is zero.
Marks(p, r, n) ==
  /\ n # None /\ n.hash = r.hash /\ n.amount = r.amount /\ n.wallet = r.wallet
  /\ r.status = "projected" => n.status = "projected"
  /\ n.status = "projected" /\ r.status # "projected" => pc[p] \in {"zeroProject", "complete"}
  /\ n.outcome = "no_movement" => r.outcome = "no_movement" \/ r.hash \in reverted \cup {None}
  /\ n = r \/ r.hash # None \/ r.amount = 0 \/ pc[p] = "preflight"

Marked(p) ==
  /\ \A l \in Keys \ {loc[p].key} : op'[l] = op[l]
  /\ IF op[loc[p].key] = None THEN op'[loc[p].key] = None
     ELSE Marks(p, op[loc[p].key], op'[loc[p].key])
  /\ OperationsTypeOK' /\ LeaseTypeOK' /\ UNCHANGED chainVars
  /\ \A l \in Keys : /\ lease'[l] = None <=> lease[l] = None
                     /\ lease[l] # None => lease'[l].tx = lease[l].tx

\* None is no value of the tables.
LEMMA NoneIsNone == NoneIsNoRow
BY SpendNoneAssumption DEF NoneIsNoRow

\* An UPDATE that keeps the lease marks its row when the row it writes does.
LEMMA UpdateMarks ==
  ASSUME SInv, NEW p \in Procs, loc[p].key \in Keys, NEW guard, NEW row,
         op[loc[p].key] # None /\ guard => row \in Row /\ Marks(p, op[loc[p].key], row),
         op' \in {op, UpdateWhere(loc[p].key, guard, row)}, lease' = lease, UNCHANGED chainVars
  PROVE  Marked(p)
<1> DEFINE k == loc[p].key
<1>0. op \in [Keys -> Row \cup {None}] /\ LeaseTypeOK
  BY DEF SInv, TypeOK, OperationsTypeOK
<1>1. Marks(p, op[k], op[k]) \/ op[k] = None
  BY DEF Marks
<1>2. /\ op' \in [Keys -> Row \cup {None}] /\ \A l \in Keys \ {k} : op'[l] = op[l]
      /\ op'[k] = op[k] \/ (op[k] # None /\ guard /\ op'[k] = row)
  BY <1>0 DEF UpdateWhere
<1> QED
  BY <1>0, <1>1, <1>2 DEF Marked, OperationsTypeOK, LeaseTypeOK

\* Every marking step marks.
LEMMA MarksMark ==
  ASSUME SInv, NEW p \in Procs, MarkStep(p)
  PROVE  Marked(p)
<1> DEFINE k == loc[p].key
<1> DEFINE r == op[k]
<1>0. /\ k \in Keys /\ loc[p] \in SpendLocals /\ op \in [Keys -> Row \cup {None}]
      /\ LeaseTypeOK /\ pc[p] # "idle"
  BY DEF SInv, TypeOK, OperationsTypeOK, MarkStep, PreflightFailed, SubmitLease, UnknownLease, Submit,
     StillUnknown, RejectEvidence, Confirm, ProjectionError, ZeroProject, CompleteSpend, SpendLocals
<1>r. r # None => r \in Row
  BY <1>0
<1>s. OnItsRow(p) /\ OwnsItsRow(p) /\ AmountsFit(p)
  BY DEF SInv, RunsMatch
<1>t. pc[p] \in WithTx => loc[p].tx # None
  BY DEF SInv, TypeOK
<1>h. pc[p] \in WithTx => r # None /\ r.hash = loc[p].tx /\ r.hash # None /\ r.amount # 0
  BY <1>0, <1>s, <1>t DEF OnItsRow, SInv, HashesSound
<1>1. CASE PreflightFailed(p)
  <2> DEFINE row == [r EXCEPT !.status = "failed", !.outcome = "no_movement"]
  <2>1. ASSUME r # None, r.hash = None PROVE row \in Row /\ Marks(p, r, row)
    <3>1. /\ row \in Row /\ row # None /\ row.hash = r.hash /\ row.amount = r.amount
          /\ row.wallet = r.wallet /\ row.status = "failed"
      BY <1>r, <2>1, SpendNoneAssumption DEF Row, Statuses, Outcomes
    <3>2. pc[p] = "preflight" /\ r.status = "submitting"
      BY <1>1, <1>s, <2>1 DEF PreflightFailed, OwnsItsRow, Untouched
    <3> QED
      BY <2>1, <3>1, <3>2 DEF Marks
  <2>2. op' \in {op, UpdateWhere(k, r.hash = None, row)} /\ lease' = lease /\ UNCHANGED chainVars
    BY <1>1 DEF PreflightFailed, SaveOp, MarkPreflightFailed
  <2> QED
    BY <1>0, <2>1, <2>2, UpdateMarks
<1>2. ASSUME pc[p] \in WithTx, NEW s \in Statuses \ {"projected"}, NEW guard,
             guard => r.status # "projected", NEW o \in Outcomes,
             o = "no_movement" => r.outcome = "no_movement" \/ r.hash \in reverted,
             op' \in {op, UpdateWhere(k, guard, [r EXCEPT !.hash = r.hash, !.status = s, !.outcome = o])},
             lease' = lease, UNCHANGED chainVars
      PROVE  Marked(p)
  <2> DEFINE row == [r EXCEPT !.hash = r.hash, !.status = s, !.outcome = o]
  <2>1. r # None => /\ row \in Row /\ row # None /\ row.hash = r.hash /\ row.amount = r.amount
                    /\ row.wallet = r.wallet /\ row.status = s /\ row.outcome = o
    BY <1>2, <1>r, SpendNoneAssumption DEF Row
  <2>2. r # None /\ guard => row \in Row /\ Marks(p, r, row)
    BY <1>2, <1>h, <2>1 DEF Marks
  <2> HIDE DEF row
  <2> QED
    BY <1>0, <1>2, <2>2, UpdateMarks DEF row
<1>3. CASE Submit(p)
  <2>1. pc[p] \in WithTx /\ op' \in {op, MarkSubmitted(k, loc[p].tx)} /\ lease' = lease /\ UNCHANGED chainVars
    BY <1>3 DEF Submit, SaveOp, WithTx
  <2> DEFINE guard == r.status \in OpenStatuses /\ r.hash \in {None, loc[p].tx}
  <2>2. r \in Row /\ r.hash = loc[p].tx /\ r.outcome \in Outcomes
    BY <1>h, <1>r, <2>1 DEF Row
  <2>3. [r EXCEPT !.hash = loc[p].tx, !.status = "submitted"]
          = [r EXCEPT !.hash = r.hash, !.status = "submitted", !.outcome = r.outcome]
    BY <2>2 DEF Row
  <2>4. MarkSubmitted(k, loc[p].tx)
          = UpdateWhere(k, guard, [r EXCEPT !.hash = r.hash, !.status = "submitted", !.outcome = r.outcome])
    BY <2>3 DEF MarkSubmitted
  <2>5. (guard => r.status # "projected") /\ "submitted" \in Statuses \ {"projected"}
    BY DEF Statuses, OpenStatuses
  <2> HIDE DEF guard
  <2> QED
    BY <1>2, <2>1, <2>2, <2>4, <2>5
<1>4. CASE StillUnknown(p)
  <2>1. pc[p] \in WithTx /\ op' \in {op, MarkUnknown(k)} /\ lease' = lease /\ UNCHANGED chainVars
    BY <1>4 DEF StillUnknown, SaveOp, WithTx
  <2>2. /\ r \in Row /\ r.outcome \in Outcomes
        /\ [r EXCEPT !.status = "unknown"]
             = [r EXCEPT !.hash = r.hash, !.status = "unknown", !.outcome = r.outcome]
    BY <1>h, <1>r, <2>1 DEF Row
  <2> QED
    BY <1>2, <2>1, <2>2 DEF MarkUnknown, Statuses, OpenStatuses
<1>5. CASE RejectEvidence(p)
  <2>1. /\ pc[p] \in WithTx /\ lease' = lease /\ UNCHANGED chainVars
        /\ \E o \in {"no_movement", "review"} :
             /\ op' \in {op, MarkFailed(k, o)}
             /\ o = "no_movement" => pc[p] = "failNoMovement"
    BY <1>5 DEF RejectEvidence, SaveOp, WithTx
  <2>2. PICK o \in {"no_movement", "review"} : /\ op' \in {op, MarkFailed(k, o)}
                                               /\ o = "no_movement" => pc[p] = "failNoMovement"
    BY <2>1
  <2>r. pc[p] = "failNoMovement" => loc[p].tx \in reverted
    BY <1>s DEF OnItsRow
  <2>3. o = "no_movement" => r.hash \in reverted
    BY <1>h, <2>1, <2>2, <2>r
  <2>4. r \in Row
    BY <1>h, <1>r, <2>1
  <2>5. [r EXCEPT !.status = "failed", !.outcome = o]
          = [r EXCEPT !.hash = r.hash, !.status = "failed", !.outcome = o]
    BY <2>4 DEF Row
  <2> DEFINE guard == r.hash # None /\ r.status \in OpenStatuses
  <2>6. MarkFailed(k, o)
          = UpdateWhere(k, guard, [r EXCEPT !.hash = r.hash, !.status = "failed", !.outcome = o])
    BY <2>5 DEF MarkFailed
  <2>7. (guard => r.status # "projected") /\ "failed" \in Statuses \ {"projected"} /\ o \in Outcomes
    BY DEF Statuses, OpenStatuses, Outcomes
  <2> HIDE DEF guard
  <2>8. op' \in {op, UpdateWhere(k, guard, [r EXCEPT !.hash = r.hash, !.status = "failed", !.outcome = o])}
    BY <2>2, <2>6
  <2> QED
    BY <1>2, <2>1, <2>3, <2>7, <2>8
<1>6. CASE Confirm(p)
  <2>1. pc[p] \in WithTx /\ op' \in {op, MarkConfirmed(k)} /\ lease' = lease /\ UNCHANGED chainVars
    BY <1>6 DEF Confirm, SaveOp, WithTx
  <2>2. /\ r \in Row
        /\ [r EXCEPT !.status = "confirmed", !.outcome = "confirmed"]
             = [r EXCEPT !.hash = r.hash, !.status = "confirmed", !.outcome = "confirmed"]
    BY <1>h, <1>r, <2>1 DEF Row
  <2> QED
    BY <1>2, <2>1, <2>2 DEF MarkConfirmed, Statuses, OpenStatuses, Outcomes
<1>7. CASE ProjectionError(p)
  <2>1. pc[p] \in WithTx /\ op' \in {op, MarkProjectionError(k)} /\ lease' = lease /\ UNCHANGED chainVars
    BY <1>7 DEF ProjectionError, SaveOp, WithTx
  <2>2. /\ r \in Row /\ r.outcome \in Outcomes
        /\ [r EXCEPT !.status = "confirmed"]
             = [r EXCEPT !.hash = r.hash, !.status = "confirmed", !.outcome = r.outcome]
    BY <1>h, <1>r, <2>1 DEF Row
  <2> QED
    BY <1>2, <2>1, <2>2 DEF MarkProjectionError, Statuses, OpenStatuses
<1>8. CASE ZeroProject(p) \/ CompleteSpend(p)
  <2> DEFINE o == IF r.amount = 0 THEN "no_movement" ELSE "confirmed"
  <2> DEFINE row == [r EXCEPT !.status = "projected", !.outcome = o]
  <2>1. /\ pc[p] \in {"zeroProject", "complete"} /\ r # None
        /\ op' \in {op, MarkProjected(k)} /\ lease' = lease /\ UNCHANGED chainVars
    BY <1>8, <1>s DEF ZeroProject, CompleteSpend, SaveOp, OnItsRow, WithTx
  <2>2. o \in Outcomes /\ (r.amount = 0 => r.hash = None) /\ (o = "no_movement" => r.hash = None)
    BY <1>0, <2>1 DEF SInv, HashesSound, Outcomes
  <2> HIDE DEF o
  <2>3. /\ row \in Row /\ row # None /\ row.hash = r.hash /\ row.amount = r.amount
        /\ row.wallet = r.wallet /\ row.status = "projected" /\ row.outcome = o
    BY <1>r, <2>1, <2>2, SpendNoneAssumption DEF Row, Statuses
  <2> HIDE DEF row
  <2>4. r.amount = 0 \/ r.hash # None => Marks(p, r, row)
    BY <2>1, <2>2, <2>3 DEF Marks
  <2> QED
    BY <1>0, <2>1, <2>3, <2>4, UpdateMarks DEF MarkProjected, row, o
<1>9. CASE SubmitLease(p) \/ UnknownLease(p)
  <2>1. PICK s \in {"submitted", "unknown"} :
          /\ op' \in {op, TargetMarked(k, s)} /\ lease' \in {lease, LeaseMarked(k, s)}
    BY <1>9 DEF SubmitLease, UnknownLease
  <2>2. UNCHANGED chainVars /\ pc[p] \in WithTx
    BY <1>9 DEF SubmitLease, UnknownLease, WithTx
  <2> DEFINE row == [r EXCEPT !.status = s]
  <2>3. /\ row \in Row /\ row # None /\ row.hash = r.hash /\ row.amount = r.amount
        /\ row.wallet = r.wallet /\ row.status = s /\ row.outcome = r.outcome
    BY <1>h, <1>r, <2>2, SpendNoneAssumption DEF Row, Statuses, OpenStatuses
  <2>4. /\ op' \in [Keys -> Row \cup {None}] /\ \A l \in Keys \ {k} : op'[l] = op[l]
        /\ op'[k] = r \/ (r.status \in OpenStatuses /\ op'[k] = row)
    BY <1>0, <2>1, <2>3 DEF TargetMarked, UpdateWhere
  <2> HIDE DEF row
  <2>5. Marks(p, r, op'[k])
    BY <1>h, <2>2, <2>3, <2>4 DEF Marks, OpenStatuses
  <2>6. /\ LeaseTypeOK'
        /\ \A l \in Keys : /\ lease'[l] = None <=> lease[l] = None
                           /\ lease[l] # None => lease'[l].tx = lease[l].tx
    BY <1>0, <2>1, MarkedLeases, NoneIsNone DEF LeaseStatuses
  <2> QED
    BY <1>h, <2>2, <2>4, <2>5, <2>6 DEF Marked, OperationsTypeOK
<1> QED
  BY <1>1, <1>3, <1>4, <1>5, <1>6, <1>7, <1>8, <1>9 DEF MarkStep
-----------------------------------------------------------------------------
(* What a step may do to the tables and to its run, and why the invariant  *)
(* follows.                                                                *)

RunsTyped ==
  /\ pc \in [Procs -> SpendPoints] /\ loc \in [Procs -> SpendLocals \cup {None}]
  /\ lock \in [Wallets -> Procs \cup {None}]
  /\ \A p \in Procs : pc[p] = "idle" <=> loc[p] = None
  /\ \A p \in Procs : pc[p] \in WithTx => loc[p].tx # None
  /\ \A p \in Procs, w \in Wallets :
       lock[w] = p <=> pc[p] \in Locking /\ loc[p].wallet = w

BudgetTyped == budget \in [faults: Nat, reverts: Nat, evictions: Nat]

TableTypes ==
  /\ TablesTyped /\ balance \in [Wallets -> Nat]
  /\ res \in [ReservationKeys -> Reservation \cup {None}]
  /\ spends \subseteq SpendRow /\ receipts \subseteq SpendRow

Tables ==
  TableTypes /\ TransfersMatch /\ HashesSound /\ ProjectedAreRecorded /\ ReservationsMatch /\ ReceiptsMatch

RunOK(p) == OnItsRow(p) /\ AmountsFit(p) /\ OnItsReservation(p) /\ OwnsItsRow(p)

\* A row stays, with its wallet, amount and hash, and projected if it was.
RowsEvolve ==
  \A k \in Keys : op[k] # None =>
    /\ op'[k] # None /\ op'[k].wallet = op[k].wallet /\ op'[k].amount = op[k].amount
    /\ op[k].hash # None => op'[k].hash = op[k].hash
    /\ op[k].status = "projected" => op'[k].status = "projected"

\* The body of ReservationsMoveForward.
ReservationsEvolve ==
  \A k \in ReservationKeys : res[k] # None =>
    /\ res'[k] # None
    /\ res'[k].wallet = res[k].wallet /\ res'[k].amount = res[k].amount
    /\ res[k].context # None => res'[k].context = res[k].context
    /\ res[k].status # "reserved" => res'[k].status # "reserved"
    /\ res[k].status \in {"settled", "released"} => res'[k] = res[k]

\* A row nothing was prepared for is changed by its owner only.
OwnedRowsStay(p) ==
  \A k \in Keys : Untouched(op[k]) /\ op[k].hash = None /\ op'[k] # op[k] =>
    p \in Procs /\ pc[p] \in Owning /\ loc[p].key = k

TablesGoOn(p) ==
  /\ Tables' /\ RowsEvolve /\ ReservationsEvolve
  /\ reverted \subseteq reverted' /\ spends \subseteq spends' /\ OwnedRowsStay(p)

OthersWait(p) == \A q \in Procs \ {p} : pc'[q] = pc[q] /\ loc'[q] = loc[q]

\* A run comes to own a row that was not there, or that had failed.
EntersOwning(p) ==
  pc'[p] \in Owning =>
    \/ pc[p] \in Owning /\ loc'[p].key = loc[p].key
    \/ ~Untouched(op[loc'[p].key])

RunGoesOn(p) == RunsTyped' /\ OthersWait(p) /\ RunOK(p)' /\ EntersOwning(p)

\* The parts of the invariant.
LEMMA Parts == SInv => Tables /\ RunsTyped /\ BudgetTyped /\ \A p \in Procs : RunOK(p)
BY DEF SInv, Tables, TableTypes, TablesTyped, TypeOK, RunsTyped, BudgetTyped, RunsMatch, RunOK

\* What a run relies on outlives the steps of the others.
LEMMA OthersRely ==
  ASSUME SInv, NEW p, TablesGoOn(p), NEW q \in Procs, q # p, pc'[q] = pc[q], loc'[q] = loc[q]
  PROVE  RunOK(q)'
<1>0. /\ loc[q] \in SpendLocals \cup {None} /\ pc[q] \in SpendPoints
      /\ pc[q] # "idle" => loc[q] \in SpendLocals /\ loc[q].key \in Keys
  BY DEF SInv, TypeOK, SpendLocals
<1>k. pc[q] \in WithTx \cup Owning \cup {"zeroProject", "settle"} => loc[q].key \in Keys
  BY <1>0 DEF WithTx, Owning
<1>s. OnItsRow(q) /\ AmountsFit(q) /\ OnItsReservation(q) /\ OwnsItsRow(q)
  BY DEF SInv, RunsMatch
<1>e. Entry(q)' = Entry(q)
  BY DEF Entry
<1>1. OnItsRow(q)'
  <2>1. pc[q] \in WithTx \cup Owning \cup {"zeroProject", "settle"} =>
          /\ op'[loc[q].key] # None
          /\ op'[loc[q].key].wallet = loc[q].wallet /\ op'[loc[q].key].amount = loc[q].amount
    BY <1>k, <1>s DEF TablesGoOn, RowsEvolve, OnItsRow
  <2>2. pc[q] \in WithTx \cup {"settle"} => op'[loc[q].key].hash = loc[q].tx
    <3>1. ASSUME pc[q] \in WithTx \cup {"settle"} PROVE op'[loc[q].key].hash = loc[q].tx
      <4>1. op[loc[q].key] # None /\ op[loc[q].key].hash = loc[q].tx /\ loc[q].key \in Keys
        BY <1>k, <1>s, <3>1 DEF OnItsRow
      <4>2. CASE loc[q].tx # None
        BY <4>1, <4>2 DEF TablesGoOn, RowsEvolve
      <4>3. CASE loc[q].tx = None
        <5>1. pc[q] = "settle" /\ loc[q].amount = 0
          BY <1>s, <3>1, <4>3 DEF AmountsFit, SInv, TypeOK
        <5>2. op'[loc[q].key].amount = 0
          BY <2>1, <5>1
        <5> QED
          BY <2>1, <3>1, <4>1, <4>3, <5>2 DEF TablesGoOn, Tables, HashesSound
      <4> QED
        BY <4>2, <4>3
    <3> QED
      BY <3>1
  <2>3. pc[q] = "freshProjected" => op'[loc[q].key].status = "projected"
    <3>1. pc[q] = "freshProjected" => op[loc[q].key] # None /\ op[loc[q].key].status = "projected" /\ loc[q].key \in Keys
      BY <1>k, <1>s DEF OnItsRow, WithTx
    <3> QED
      BY <3>1 DEF TablesGoOn, RowsEvolve
  <2>4. /\ pc[q] = "failNoMovement" => loc[q].tx \in reverted'
        /\ pc[q] \in {"complete", "settle", "receipt"} /\ loc[q].tx # None => Entry(q) \in spends'
    BY <1>s DEF OnItsRow, TablesGoOn
  <2> QED
    BY <1>e, <2>1, <2>2, <2>3, <2>4 DEF OnItsRow
<1>2. AmountsFit(q)'
  BY <1>s DEF AmountsFit
<1>3. OnItsReservation(q)'
  <2>1. pc[q] # "idle" /\ loc[q].delivery # None => loc[q].key \in ReservationKeys /\ res[loc[q].key] # None
    BY <1>s DEF OnItsReservation
  <2>2. pc[q] # "idle" /\ loc[q].delivery # None =>
          /\ res'[loc[q].key] # None
          /\ pc[q] # "receipt" =>
               /\ loc[q].wallet = res'[loc[q].key].wallet
               /\ loc[q].amount = Lower(res'[loc[q].key].amount, TokensOf[loc[q].delivery])
          /\ pc[q] # "claimHold" => res'[loc[q].key].status # "reserved"
          /\ pc[q] \notin Opening \cup {"receipt"} => res'[loc[q].key].context = loc[q].delivery
    BY <1>s, <2>1 DEF OnItsReservation, TablesGoOn, ReservationsEvolve
  <2>3. pc[q] \in WithTx \cup Owning /\ loc[q].key \in ReservationKeys =>
       /\ pc[q] = "receipt" => /\ res'[loc[q].key] # None /\ res'[loc[q].key].status = "settled"
                               /\ res'[loc[q].key].hash = loc[q].tx
       /\ loc[q].delivery = None => /\ pc[q] \in WithTx
                                    /\ res'[loc[q].key] # None /\ res'[loc[q].key].status \in Over
    BY <1>s DEF OnItsReservation, TablesGoOn, ReservationsEvolve, Over
  <2> QED
    BY <1>s, <2>1, <2>2, <2>3 DEF OnItsReservation
<1>4. OwnsItsRow(q)'
  <2>1. ASSUME pc[q] \in Owning, op'[loc[q].key].hash = None
        PROVE  op'[loc[q].key] = op[loc[q].key]
    <3>1. op[loc[q].key] # None /\ loc[q].key \in Keys
      BY <1>k, <1>s, <2>1 DEF OnItsRow
    <3>2. op[loc[q].key].hash = None
      BY <2>1, <3>1 DEF TablesGoOn, RowsEvolve
    <3>3. Untouched(op[loc[q].key])
      BY <1>s, <2>1, <3>2 DEF OwnsItsRow, Owning
    <3> QED
      BY <2>1, <3>1, <3>2, <3>3 DEF TablesGoOn, OwnedRowsStay, SInv, OwnersExclude
  <2>2. pc[q] \in {"check", "prepare"} => op'[loc[q].key] = op[loc[q].key]
    <3>1. ASSUME pc[q] \in {"check", "prepare"} PROVE op'[loc[q].key] = op[loc[q].key]
      <4>1. /\ pc[q] \in Owning /\ op[loc[q].key] # None /\ loc[q].key \in Keys
            /\ Untouched(op[loc[q].key]) /\ op[loc[q].key].hash = None
        BY <1>k, <1>s, <3>1 DEF OnItsRow, OwnsItsRow, Owning
      <4> QED
        BY <4>1 DEF TablesGoOn, OwnedRowsStay, SInv, OwnersExclude
    <3> QED
      BY <3>1
  <2>3. pc[q] = "preflight" /\ op'[loc[q].key].hash = None => op'[loc[q].key] = op[loc[q].key]
    BY <2>1 DEF Owning
  <2>4. /\ pc[q] \in {"check", "prepare"} => Untouched(op'[loc[q].key]) /\ op'[loc[q].key].hash = None
        /\ pc[q] = "preflight" /\ op'[loc[q].key].hash = None => Untouched(op'[loc[q].key])
    BY <1>s, <2>2, <2>3 DEF OwnsItsRow
  <2> QED
    BY <2>4 DEF OwnsItsRow, Untouched
<1> QED
  BY <1>1, <1>2, <1>3, <1>4 DEF RunOK

\* A step whose table part and run part go on preserves the invariant.
LEMMA StepGoesOn ==
  ASSUME SInv, NEW p \in Procs, TablesGoOn(p), RunGoesOn(p), BudgetTyped'
  PROVE  SInv'
<1>1. TypeOK' /\ TransfersMatch' /\ HashesSound' /\ ProjectedAreRecorded' /\ ReservationsMatch' /\ ReceiptsMatch'
  BY DEF TablesGoOn, Tables, TableTypes, TablesTyped, RunGoesOn, RunsTyped, BudgetTyped, TypeOK
<1>2. RunsMatch'
  <2>1. \A q \in Procs \ {p} : RunOK(q)'
    BY OthersRely DEF RunGoesOn, OthersWait
  <2> QED
    BY <2>1 DEF RunGoesOn, RunOK, RunsMatch
<1>3. OwnersExclude'
  <2>1. SUFFICES ASSUME NEW r \in Procs, NEW q \in Procs, pc'[r] \in Owning, pc'[q] \in Owning,
                        loc'[r].key = loc'[q].key, op'[loc'[r].key].hash = None, r # q
                 PROVE  FALSE
    BY DEF OwnersExclude
  <2>2. ASSUME NEW s \in Procs, pc'[s] \in Owning, s # p, op'[loc'[s].key].hash = None
        PROVE  /\ pc[s] \in Owning /\ loc[s] = loc'[s] /\ op[loc[s].key].hash = None
               /\ Untouched(op[loc[s].key])
    <3>1. pc[s] \in Owning /\ loc[s] = loc'[s]
      BY <2>2 DEF RunGoesOn, OthersWait
    <3>2. loc[s].key \in Keys /\ op[loc[s].key] # None
      BY <3>1 DEF SInv, TypeOK, SpendLocals, RunsMatch, OnItsRow, Owning
    <3>3. op[loc[s].key].hash = None
      BY <2>2, <3>1, <3>2 DEF TablesGoOn, RowsEvolve
    <3> QED
      BY <3>1, <3>3 DEF SInv, RunsMatch, OwnsItsRow, Owning
  <2>3. ASSUME NEW s \in Procs, s # p, pc'[s] \in Owning, pc'[p] \in Owning,
               loc'[p].key = loc'[s].key, op'[loc'[s].key].hash = None
        PROVE  FALSE
    <3>1. /\ pc[s] \in Owning /\ loc[s] = loc'[s] /\ op[loc[s].key].hash = None
          /\ Untouched(op[loc[s].key])
      BY <2>2, <2>3
    <3>2. pc[p] \in Owning /\ loc'[p].key = loc[p].key
      BY <2>3, <3>1 DEF RunGoesOn, EntersOwning
    <3> QED
      BY <2>3, <3>1, <3>2 DEF SInv, OwnersExclude
  <2>4. CASE r # p /\ q # p
    BY <2>1, <2>2, <2>4 DEF SInv, OwnersExclude
  <2> QED
    BY <2>1, <2>3, <2>4
<1> QED
  BY <1>1, <1>2, <1>3 DEF SInv
-----------------------------------------------------------------------------
(* The run part of a step.                                                 *)

\* A run moves to a point with a memory fit for it, and takes the lock of its
\* wallet, keeps it, or gives it up.
LEMMA Moves ==
  ASSUME SInv, NEW p \in Procs, NEW x \in SpendPoints, NEW m, GotoWith(p, x, m),
         x # "idle" => m \in SpendLocals, x \in WithTx => m.tx # None,
         \/ /\ lock' = lock /\ (x \in Locking <=> pc[p] \in Locking)
            /\ x \in Locking => m.wallet = loc[p].wallet
         \/ Unlock(p) /\ x \notin Locking
         \/ \E w \in Wallets :
              /\ lock[w] = None /\ lock' = [lock EXCEPT ![w] = p]
              /\ pc[p] \notin Locking /\ x \in Locking /\ m.wallet = w
  PROVE  /\ RunsTyped' /\ OthersWait(p)
         /\ pc'[p] = x /\ loc'[p] = IF x = "idle" THEN None ELSE m
<1> DEFINE n == IF x = "idle" THEN None ELSE m
<1>t. RunsTyped
  BY Parts
<1>1. /\ pc' = [pc EXCEPT ![p] = x] /\ loc' = [loc EXCEPT ![p] = n]
      /\ n \in SpendLocals \cup {None} /\ (x = "idle" <=> n = None)
  BY SpendNoneAssumption DEF GotoWith
<1>2. /\ pc'[p] = x /\ loc'[p] = n /\ OthersWait(p)
      /\ pc' \in [Procs -> SpendPoints] /\ loc' \in [Procs -> SpendLocals \cup {None}]
  BY <1>1, <1>t DEF RunsTyped, OthersWait
<1>3. x \in WithTx => n.tx # None
  BY DEF WithTx
<1>4. x \in Locking => n = m
  BY DEF Locking
<1> HIDE DEF n
<1>5. /\ \A q \in Procs : pc'[q] = "idle" <=> loc'[q] = None
      /\ \A q \in Procs : pc'[q] \in WithTx => loc'[q].tx # None
  BY <1>t, <1>1, <1>2, <1>3 DEF RunsTyped, OthersWait
<1>6. /\ lock' \in [Wallets -> Procs \cup {None}]
      /\ \A q \in Procs, w \in Wallets : lock'[w] = q <=> pc'[q] \in Locking /\ loc'[q].wallet = w
  <2>1. CASE /\ lock' = lock /\ (x \in Locking <=> pc[p] \in Locking)
             /\ x \in Locking => m.wallet = loc[p].wallet
    BY <1>t, <1>2, <1>4, <2>1 DEF RunsTyped, OthersWait
  <2>2. CASE Unlock(p) /\ x \notin Locking
    BY <1>t, <1>2, <2>2, SpendNoneAssumption DEF RunsTyped, OthersWait, Unlock
  <2>3. CASE \E w \in Wallets :
               /\ lock[w] = None /\ lock' = [lock EXCEPT ![w] = p]
               /\ pc[p] \notin Locking /\ x \in Locking /\ m.wallet = w
    BY <1>t, <1>2, <1>4, <2>3, SpendNoneAssumption DEF RunsTyped, OthersWait
  <2> QED
    BY <2>1, <2>2, <2>3
<1> QED
  BY <1>2, <1>5, <1>6 DEF RunsTyped, n

\* A run that goes on keeps its memory; one that gets a hash had it before.
LEMMA StaysOn ==
  ASSUME SInv, NEW p \in Procs, NEW x \in SpendPoints, Goto(p, x), pc[p] # "idle",
         x \in WithTx => pc[p] \in WithTx,
         \/ lock' = lock /\ (x \in Locking <=> pc[p] \in Locking)
         \/ Unlock(p) /\ x \notin Locking
  PROVE  /\ RunsTyped' /\ OthersWait(p)
         /\ pc'[p] = x /\ loc'[p] = IF x = "idle" THEN None ELSE loc[p]
<1>1. RunsTyped
  BY Parts
<1>2. loc[p] \in SpendLocals /\ (x \in WithTx => loc[p].tx # None)
  BY <1>1 DEF RunsTyped
<1>3. GotoWith(p, x, loc[p])
  BY <1>1 DEF GotoWith, Goto, RunsTyped
<1> QED
  BY <1>2, <1>3, Moves

\* An idle run relies on nothing.
LEMMA IdleRelies ==
  ASSUME NEW p, pc'[p] = "idle"
  PROVE  RunOK(p)' /\ EntersOwning(p)
BY DEF RunOK, OnItsRow, AmountsFit, OnItsReservation, OwnsItsRow, EntersOwning, WithTx, Owning,
   Locking, Settles, Opening

\* A run that has a hash goes on with it.
LEMMA TransferGoesOn ==
  ASSUME SInv, NEW p \in Procs, TablesGoOn(p), pc[p] \in WithTx \ {"receipt"},
         loc'[p] = loc[p], pc'[p] \in (WithTx \ {"freshProjected"}) \cup {"settle"},
         pc'[p] = "failNoMovement" => loc[p].tx \in reverted,
         pc'[p] \in {"complete", "settle", "receipt"} => Entry(p) \in spends',
         pc'[p] \in {"settle", "receipt"} => pc'[p] = Finished(loc[p].delivery)
  PROVE  RunOK(p)' /\ EntersOwning(p)
<1> DEFINE k == loc[p].key
<1>0. k \in Keys /\ loc[p].tx # None /\ pc[p] # "idle"
  BY DEF SInv, TypeOK, SpendLocals, WithTx
<1>s. OnItsRow(p) /\ AmountsFit(p) /\ OnItsReservation(p) /\ OwnsItsRow(p)
  BY DEF SInv, RunsMatch
<1>r. /\ op[k] # None /\ op[k].wallet = loc[p].wallet /\ op[k].amount = loc[p].amount
      /\ op[k].hash = loc[p].tx /\ op[k].amount # 0
  BY <1>0, <1>s DEF OnItsRow, SInv, HashesSound
<1>n. /\ op'[k] # None /\ op'[k].wallet = loc[p].wallet /\ op'[k].amount = loc[p].amount
      /\ op'[k].hash = loc[p].tx
  BY <1>0, <1>r DEF TablesGoOn, RowsEvolve
<1>e. Entry(p)' = Entry(p)
  BY DEF Entry
<1>w. pc'[p] \notin Owning /\ pc'[p] \notin Opening /\ pc'[p] \notin Locking
      /\ pc'[p] \notin {"zeroProject", "zeroClaim", "claim", "hold", "claimManual", "idle", "freshProjected"}
  BY DEF Owning, Opening, Locking, WithTx
<1>1. OnItsRow(p)'
  BY <1>e, <1>n, <1>w DEF OnItsRow, TablesGoOn
<1>2. AmountsFit(p)'
  BY <1>0, <1>w DEF AmountsFit
<1>f. /\ pc'[p] = "settle" => loc[p].delivery # None
      /\ pc'[p] = "receipt" => loc[p].delivery = None
  BY DEF Finished
<1>3. OnItsReservation(p)'
  <2>1. loc[p].delivery # None =>
       /\ k \in ReservationKeys /\ res[k] # None
       /\ loc[p].wallet = res[k].wallet
       /\ loc[p].amount = Lower(res[k].amount, TokensOf[loc[p].delivery])
       /\ res[k].status # "reserved" /\ res[k].context = loc[p].delivery
    BY <1>0, <1>s DEF OnItsReservation, WithTx, Opening
  <2>2. loc[p].delivery # None =>
       /\ k \in ReservationKeys /\ res'[k] # None
       /\ loc[p].wallet = res'[k].wallet
       /\ loc[p].amount = Lower(res'[k].amount, TokensOf[loc[p].delivery])
       /\ res'[k].status # "reserved" /\ res'[k].context = loc[p].delivery
    BY <2>1 DEF TablesGoOn, ReservationsEvolve
  <2>3. k \in ReservationKeys /\ loc[p].delivery = None => res[k] # None /\ res[k].status \in Over /\ res'[k] = res[k]
    BY <1>s DEF OnItsReservation, TablesGoOn, ReservationsEvolve, Over
  <2>4. k \in ReservationKeys /\ loc[p].delivery = None =>
          res[k].hash = loc[p].tx /\ res[k].status = "settled"
    <3>1. ASSUME k \in ReservationKeys, loc[p].delivery = None
          PROVE  res[k].hash = loc[p].tx /\ res[k].status = "settled"
      <4>1. /\ op[k].amount = res[k].settled /\ op[k].hash = res[k].hash
            /\ res[k].status = "settled" <=> res[k].settled > 0
        BY <2>3, <3>1 DEF SInv, ReservationsMatch, Completion
      <4>2. res[k] \in Reservation
        BY <2>3, <3>1 DEF SInv, TypeOK
      <4>3. res[k].settled \in Nat
        BY <4>2, AmountsAssumption DEF Reservation
      <4> QED
        BY <1>r, <4>1, <4>3
    <3> QED
      BY <3>1
  <2> QED
    BY <1>f, <1>w, <2>2, <2>3, <2>4 DEF OnItsReservation, Settles
<1>4. OwnsItsRow(p)' /\ EntersOwning(p)
  BY <1>w DEF OwnsItsRow, EntersOwning, Owning
<1> QED
  BY <1>1, <1>2, <1>3, <1>4 DEF RunOK
-----------------------------------------------------------------------------
(* The table part of a step.                                               *)

\* Steps that only move their run.
LEMMA QuietTables ==
  ASSUME SInv, NEW p, UNCHANGED <<op, chainVars, lease, balance, res, spends, receipts>>
  PROVE  TablesGoOn(p)
<1>0. Tables
  BY Parts
<1>1. TableTypes' /\ TransfersMatch'
  BY <1>0 DEF Tables, TableTypes, TablesTyped, OperationsTypeOK, ChainTypeOK, LeaseTypeOK, chainVars,
     TransfersMatch, LeaseMatchesRow, NonceNeverReused, ChainIsLeased, Leased
<1>2. HashesSound' /\ ProjectedAreRecorded'
  BY <1>0 DEF Tables, HashesSound, ProjectedAreRecorded, SpendOf, chainVars
<1>3. ReservationsMatch' /\ ReceiptsMatch'
  BY <1>0 DEF Tables, ReservationsMatch, Settlement, Completion, SpendOf, ReceiptsMatch
<1>4. RowsEvolve /\ ReservationsEvolve /\ OwnedRowsStay(p) /\ reverted' = reverted
  BY DEF RowsEvolve, ReservationsEvolve, OwnedRowsStay, chainVars
<1> QED
  BY <1>1, <1>2, <1>3, <1>4 DEF TablesGoOn, Tables

\* An update of one row: the wallet, amount and hash of a row stay, and a new
\* row has no hash and is a settlement's own.
LEMMA RowTables ==
  ASSUME SInv, NEW p, NEW k \in Keys, OperationsTypeOK', LeaseTypeOK',
         UNCHANGED <<chainVars, balance, res, spends, receipts>>,
         \A l \in Keys \ {k} : op'[l] = op[l],
         \A l \in Keys : /\ lease'[l] = None <=> lease[l] = None
                         /\ lease[l] # None => lease'[l].tx = lease[l].tx,
         op[k] # None => /\ op'[k] # None /\ op'[k].hash = op[k].hash
                         /\ op'[k].wallet = op[k].wallet /\ op'[k].amount = op[k].amount
                         /\ op[k].status = "projected" => op'[k].status = "projected",
         op[k] = None /\ op'[k] # None => op'[k].hash = None /\ (k \in ReservationKeys => Settlement(k)'),
         op'[k] # None /\ op'[k].hash # None =>
           /\ op'[k].outcome = "no_movement" => op'[k].hash \in reverted
           /\ op'[k].status = "projected" => SpendOf(k)' \in spends,
         OwnedRowsStay(p)
  PROVE  TablesGoOn(p)
<1>0. Tables
  BY Parts
<1>1. TableTypes'
  BY <1>0 DEF Tables, TableTypes, TablesTyped, ChainTypeOK, chainVars
<1>2. TransfersMatch'
  BY <1>0, UpdatesMatch DEF Tables, TableTypes
<1>3. RowsEvolve /\ ReservationsEvolve /\ reverted' = reverted
  BY DEF RowsEvolve, ReservationsEvolve, chainVars
<1>4. HashesSound'
  BY <1>0, <1>3 DEF Tables, HashesSound
<1>5. ProjectedAreRecorded'
  <2>1. \A l \in Keys \ {k} : SpendOf(l)' = SpendOf(l)
    BY DEF SpendOf
  <2> QED
    BY <1>0, <2>1 DEF Tables, ProjectedAreRecorded
<1>6. ReservationsMatch'
  <2>1. ASSUME NEW l \in ReservationKeys PROVE Settlement(l)' /\ Completion(l)'
    <3>1. Settlement(l) /\ Completion(l) /\ l \in Keys
      BY <1>0, SpendAssumption DEF Tables, ReservationsMatch
    <3>2. CASE l # k
      BY <3>1, <3>2 DEF Settlement, Completion, SpendOf
    <3>3. CASE l = k /\ op[k] # None
      <4>1. Settlement(k)'
        BY <3>1, <3>3 DEF Settlement
      <4>2. SpendOf(k)' = SpendOf(k)
        BY <3>3 DEF SpendOf
      <4>3. Completion(k)'
        BY <3>1, <3>3, <4>2 DEF Completion
      <4> QED
        BY <3>3, <4>1, <4>3
    <3>4. CASE l = k /\ op[k] = None
      <4>1. Settlement(k)'
        BY <2>1, <3>4 DEF Settlement
      <4>2. Completion(k)'
        BY <3>1, <3>4 DEF Completion
      <4> QED
        BY <3>4, <4>1, <4>2
    <3> QED
      BY <3>2, <3>3, <3>4
  <2> QED
    BY <2>1 DEF ReservationsMatch
<1>7. ReceiptsMatch'
  <2>1. \A r \in receipts : r.key \in Keys /\ r.tx # None
    BY <1>0, NoneAssumption DEF Tables, TableTypes, SpendRow
  <2> QED
    BY <1>0, <1>3, <2>1 DEF Tables, ReceiptsMatch, RowsEvolve
<1> QED
  BY <1>1, <1>2, <1>3, <1>4, <1>5, <1>6, <1>7 DEF TablesGoOn, Tables

\* A reservation moves on, or is inserted.
LEMMA ReservationTables ==
  ASSUME SInv, NEW p, NEW k \in ReservationKeys, NEW r \in Reservation,
         res' \in {res, [res EXCEPT ![k] = r]},
         UNCHANGED <<op, chainVars, lease, balance, spends, receipts>>,
         res[k] # None =>
           /\ r.wallet = res[k].wallet /\ r.amount = res[k].amount
           /\ res[k].context # None => r.context = res[k].context
           /\ res[k].status # "reserved" => r.status # "reserved"
           /\ res[k].status \in Over => r = res[k],
         op[k] # None => res[k] # None /\ r.status # "reserved" /\ r.context # None,
         IF r.status \in Over
         THEN /\ op[k] # None /\ op[k].amount = r.settled /\ op[k].hash = r.hash
              /\ r.status = "settled" <=> r.settled > 0
              /\ r.status = "settled" => r.hash # None /\ SpendOf(k) \in spends
         ELSE r.hash = None
  PROVE  TablesGoOn(p)
<1>0. Tables /\ ReservationKeys \subseteq Keys
  BY Parts, SpendAssumption
<1>t. res \in [ReservationKeys -> Reservation \cup {None}] /\ r # None
  BY <1>0, SpendNoneAssumption DEF Tables, TableTypes
<1>n. /\ \A l \in ReservationKeys \ {k} : res'[l] = res[l]
      /\ res'[k] = res[k] \/ res'[k] = r
      /\ res' \in [ReservationKeys -> Reservation \cup {None}]
  BY <1>t
<1>1. TableTypes' /\ TransfersMatch'
  BY <1>0, <1>n DEF Tables, TableTypes, TablesTyped, OperationsTypeOK, ChainTypeOK, LeaseTypeOK, chainVars,
     TransfersMatch, LeaseMatchesRow, NonceNeverReused, ChainIsLeased, Leased
<1>2. HashesSound' /\ ProjectedAreRecorded'
  BY <1>0 DEF Tables, HashesSound, ProjectedAreRecorded, SpendOf, chainVars
<1>3. RowsEvolve /\ OwnedRowsStay(p) /\ reverted' = reverted
  BY DEF RowsEvolve, OwnedRowsStay, chainVars
<1>4. ReservationsEvolve
  BY <1>n, <1>t DEF ReservationsEvolve, Over
<1>5. ReservationsMatch'
  <2>1. ASSUME NEW l \in ReservationKeys PROVE Settlement(l)' /\ Completion(l)'
    <3>1. Settlement(l) /\ Completion(l) /\ SpendOf(l)' = SpendOf(l)
      BY <1>0 DEF Tables, ReservationsMatch, SpendOf
    <3>2. CASE res'[l] = res[l]
      BY <3>1, <3>2 DEF Settlement, Completion
    <3>3. CASE l = k /\ res'[k] = r
      BY <1>t, <3>1, <3>3 DEF Settlement, Completion
    <3> QED
      BY <1>n, <3>2, <3>3
  <2> QED
    BY <2>1 DEF ReservationsMatch
<1>6. ReceiptsMatch'
  <2>1. \A s \in receipts : s.key \in ReservationKeys => res[s.key] # None
    <3>1. \A s \in receipts : s.key \in Keys /\ op[s.key] # None
      BY <1>0 DEF Tables, TableTypes, SpendRow, ReceiptsMatch
    <3> QED
      BY <1>0, <3>1 DEF Tables, ReservationsMatch, Settlement
  <2> QED
    BY <1>0, <1>4, <2>1 DEF Tables, ReceiptsMatch, ReservationsEvolve
<1> QED
  BY <1>0, <1>1, <1>2, <1>3, <1>4, <1>5, <1>6 DEF TablesGoOn, Tables

\* The chain goes on.
LEMMA ChainTables ==
  ASSUME SInv, NEW p, ChainTypeOK', TransfersMatch', reverted \subseteq reverted',
         balance' \in [Wallets -> Nat], UNCHANGED <<op, lease, res, spends, receipts>>
  PROVE  TablesGoOn(p)
<1>0. Tables
  BY Parts
<1>1. TableTypes'
  BY <1>0 DEF Tables, TableTypes, TablesTyped, OperationsTypeOK, LeaseTypeOK
<1>2. HashesSound' /\ ProjectedAreRecorded'
  BY <1>0 DEF Tables, HashesSound, ProjectedAreRecorded, SpendOf
<1>3. ReservationsMatch' /\ ReceiptsMatch'
  BY <1>0 DEF Tables, ReservationsMatch, Settlement, Completion, SpendOf, ReceiptsMatch
<1>4. RowsEvolve /\ ReservationsEvolve /\ OwnedRowsStay(p)
  BY DEF RowsEvolve, ReservationsEvolve, OwnedRowsStay
<1> QED
  BY <1>1, <1>2, <1>3, <1>4 DEF TablesGoOn, Tables

\* A spend is recorded, or a receipt that its operation bears out is stored.
LEMMA RecordTables ==
  ASSUME SInv, NEW p, NEW e \in SpendRow, UNCHANGED <<op, chainVars, lease, balance, res>>,
         \/ spends' \in {spends, spends \cup {e}} /\ receipts' = receipts
         \/ /\ receipts' \in {receipts, receipts \cup {e}} /\ spends' = spends
            /\ op[e.key] # None /\ op[e.key].hash = e.tx
            /\ op[e.key].amount = e.amount /\ op[e.key].wallet = e.wallet
            /\ e.tx.key = e.key /\ e.tx.amount = e.amount /\ e.tx.wallet = e.wallet
            /\ e \in spends
            /\ e.key \in ReservationKeys => res[e.key].status = "settled" /\ res[e.key].hash = e.tx
  PROVE  TablesGoOn(p)
<1>0. Tables /\ spends \subseteq spends'
  BY Parts
<1>1. TableTypes' /\ TransfersMatch'
  BY <1>0 DEF Tables, TableTypes, TablesTyped, OperationsTypeOK, ChainTypeOK, LeaseTypeOK, chainVars,
     TransfersMatch, LeaseMatchesRow, NonceNeverReused, ChainIsLeased, Leased
<1>2. HashesSound' /\ ProjectedAreRecorded'
  BY <1>0 DEF Tables, HashesSound, ProjectedAreRecorded, SpendOf, chainVars
<1>3. ReservationsMatch'
  BY <1>0 DEF Tables, ReservationsMatch, Settlement, Completion, SpendOf
<1>4. ReceiptsMatch'
  BY <1>0 DEF Tables, ReceiptsMatch
<1>5. RowsEvolve /\ ReservationsEvolve /\ OwnedRowsStay(p) /\ reverted' = reverted
  BY DEF RowsEvolve, ReservationsEvolve, OwnedRowsStay, chainVars
<1> QED
  BY <1>0, <1>1, <1>2, <1>3, <1>4, <1>5 DEF TablesGoOn, Tables
-----------------------------------------------------------------------------
(* Marks, claims and transfers.                                            *)

LEMMA BudgetStays ==
  ASSUME SInv, NoFault \/ Fault
  PROVE  BudgetTyped'
BY DEF SInv, TypeOK, BudgetTyped, NoFault, Fault

LEMMA MarksPreserve ==
  ASSUME SInv, NEW p \in Procs, MarkStep(p), UNCHANGED spendVars
  PROVE  SInv'
<1>a. /\ pc[p] # "idle" /\ loc[p] \in SpendLocals /\ loc[p].key \in Keys /\ Marked(p)
      /\ UNCHANGED <<chainVars, balance, res, spends, receipts, lock>>
  <2>1. pc[p] # "idle"
    BY DEF MarkStep, PreflightFailed, SubmitLease, UnknownLease, Submit,
       StillUnknown, RejectEvidence, Confirm, ProjectionError, ZeroProject, CompleteSpend
  <2> QED
    BY <2>1, MarksMark DEF SInv, TypeOK, Marked, spendVars, SpendLocals
<1>k. PICK k \in Keys : k = loc[p].key
  BY <1>a
<1>0. /\ pc[p] # "idle" /\ loc[p] \in SpendLocals /\ k = loc[p].key /\ Marked(p)
      /\ UNCHANGED <<chainVars, balance, res, spends, receipts, lock>>
  BY <1>a, <1>k
<1>s. OnItsRow(p) /\ AmountsFit(p) /\ OnItsReservation(p) /\ OwnsItsRow(p)
  BY DEF SInv, RunsMatch
<1>1. TablesGoOn(p)
  <2>1. op[k] # None => Marks(p, op[k], op'[k])
    BY <1>0 DEF Marked
  <2>2. /\ op[k] # None => /\ op'[k] # None /\ op'[k].hash = op[k].hash
                           /\ op'[k].wallet = op[k].wallet /\ op'[k].amount = op[k].amount
                           /\ op[k].status = "projected" => op'[k].status = "projected"
        /\ op[k] = None => op'[k] = None
    BY <1>0, <2>1 DEF Marked, Marks
  <2>3. ASSUME op'[k] # None, op'[k].hash # None
        PROVE  /\ op'[k].outcome = "no_movement" => op'[k].hash \in reverted
               /\ op'[k].status = "projected" => SpendOf(k)' \in spends
    <3>1. op[k] # None /\ op[k].hash # None /\ op'[k].hash = op[k].hash /\ op[k].amount # 0
      BY <1>0, <2>2, <2>3 DEF SInv, HashesSound
    <3>2. op'[k].outcome = "no_movement" => op'[k].hash \in reverted
      BY <1>0, <2>1, <3>1 DEF Marks, SInv, HashesSound
    <3>3. SpendOf(k)' = SpendOf(k)
      BY <2>2, <3>1 DEF SpendOf
    <3>4. CASE op[k].status = "projected"
      BY <1>0, <3>1, <3>2, <3>3, <3>4 DEF SInv, ProjectedAreRecorded
    <3>5. CASE op'[k].status = "projected" /\ op[k].status # "projected"
      <4>1. pc[p] \in {"zeroProject", "complete"}
        BY <2>1, <3>1, <3>5 DEF Marks
      <4>2. op[k].amount = loc[p].amount /\ op[k].wallet = loc[p].wallet
        BY <1>0, <1>s, <4>1 DEF OnItsRow, WithTx
      <4>3. pc[p] = "complete"
        BY <1>s, <3>1, <4>1, <4>2 DEF AmountsFit
      <4>4. op[k].hash = loc[p].tx
        BY <1>0, <1>s, <4>3 DEF OnItsRow, WithTx
      <4>5. Entry(p) \in spends /\ Entry(p) = SpendOf(k)
        BY <1>0, <1>s, <3>1, <4>2, <4>3, <4>4 DEF OnItsRow, Entry, SpendOf
      <4> QED
        BY <3>2, <3>3, <4>5
    <3> QED
      BY <3>2, <3>4, <3>5
  <2>4. OwnedRowsStay(p)
    <3>1. ASSUME Untouched(op[k]), op[k].hash = None, op'[k] # op[k] PROVE pc[p] = "preflight"
      BY <2>1, <3>1 DEF Untouched, Marks
    <3> QED
      BY <1>0, <3>1 DEF OwnedRowsStay, Marked, Owning
  <2> QED
    BY <1>0, <2>2, <2>3, <2>4, RowTables DEF Marked
<1>2. PICK x \in SpendPoints :
        /\ Goto(p, x) /\ x \notin Locking /\ pc[p] \notin Locking
        /\ \/ x = "idle"
           \/ pc[p] \in WithTx \ {"receipt"} /\ x \in {"submit", "unknownLease", "verify", "unknown", "record"}
           \/ pc[p] = "complete" /\ x = Finished(loc[p].delivery)
           \/ pc[p] = "zeroProject" /\ x = "settle"
  <2>1. CASE \/ PreflightFailed(p) \/ StillUnknown(p) \/ RejectEvidence(p) \/ ProjectionError(p)
    BY <2>1 DEF PreflightFailed, StillUnknown, RejectEvidence, ProjectionError, SaveOp, Locking, SpendPoints
  <2>2. CASE SubmitLease(p)
    BY <2>2 DEF SubmitLease, Locking, SpendPoints, WithTx
  <2>3. CASE UnknownLease(p) \/ Submit(p) \/ Confirm(p)
    BY <2>3 DEF UnknownLease, Submit, Confirm, SaveOp, Locking, SpendPoints, WithTx
  <2>4. CASE ZeroProject(p)
    BY <2>4 DEF ZeroProject, SaveOp, Locking, SpendPoints
  <2>5. CASE CompleteSpend(p)
    <3>1. Finished(loc[p].delivery) \in SpendPoints \ Locking
      BY DEF Finished, SpendPoints, Locking
    <3> QED
      BY <2>5, <3>1 DEF CompleteSpend, SaveOp, Locking, SpendPoints
  <2> QED
    BY <2>1, <2>2, <2>3, <2>4, <2>5 DEF MarkStep
<1>3. x \in WithTx => pc[p] \in WithTx
  BY <1>2 DEF WithTx
<1>4. /\ RunsTyped' /\ OthersWait(p) /\ pc'[p] = x
      /\ x # "idle" => loc'[p] = loc[p]
  BY <1>0, <1>2, <1>3, StaysOn
<1>5. RunOK(p)' /\ EntersOwning(p)
  <2>1. CASE x = "idle"
    BY <1>4, <2>1, IdleRelies
  <2>2. CASE pc[p] \in WithTx \ {"receipt"} /\ x \in {"submit", "unknownLease", "verify", "unknown", "record"}
    <3>1. x \in (WithTx \ {"freshProjected", "failNoMovement"}) /\ x # "idle"
          /\ x \notin {"complete", "settle", "receipt", "failNoMovement"}
      BY <2>2 DEF WithTx
    <3> QED
      BY <1>1, <1>4, <2>2, <3>1, TransferGoesOn
  <2>3. CASE pc[p] = "complete" /\ x = Finished(loc[p].delivery)
    <3>1. /\ x \in {"settle", "receipt"} /\ pc[p] \in WithTx \ {"receipt"}
          /\ x \in (WithTx \ {"freshProjected"}) \cup {"settle"}
      BY <2>3 DEF Finished, WithTx
    <3>2. Entry(p) \in spends /\ spends' = spends
      BY <1>0, <1>s, <2>3, <3>1 DEF OnItsRow, SInv, TypeOK
    <3> QED
      BY <1>1, <1>4, <2>3, <3>1, <3>2, TransferGoesOn
  <2>4. CASE pc[p] = "zeroProject" /\ x = "settle"
    <3>1. /\ op[k] # None /\ op[k].wallet = loc[p].wallet /\ op[k].amount = 0
          /\ loc[p].amount = 0 /\ loc[p].tx = None /\ loc[p].delivery # None
      BY <1>0, <1>s, <2>4 DEF OnItsRow, AmountsFit, OnItsReservation, Settles
    <3>2. /\ op'[k] # None /\ op'[k].wallet = loc[p].wallet /\ op'[k].amount = 0
          /\ op'[k].hash = None
      BY <1>0, <1>1, <3>1 DEF TablesGoOn, Tables, HashesSound, RowsEvolve
    <3>3. OnItsRow(p)' /\ AmountsFit(p)' /\ OwnsItsRow(p)' /\ EntersOwning(p)
      BY <1>0, <1>4, <2>4, <3>1, <3>2 DEF OnItsRow, AmountsFit, OwnsItsRow, EntersOwning, WithTx, Owning, Opening, Locking
    <3>4. OnItsReservation(p)'
      BY <1>0, <1>4, <1>s, <2>4, <3>1 DEF OnItsReservation, WithTx, Owning, Opening, Settles
    <3> QED
      BY <3>3, <3>4 DEF RunOK
  <2> QED
    BY <1>2, <2>1, <2>2, <2>3, <2>4
<1>6. NoFault \/ Fault
  BY DEF MarkStep, PreflightFailed, SubmitLease, UnknownLease, Submit,
     StillUnknown, RejectEvidence, Confirm, ProjectionError, ZeroProject, CompleteSpend, SaveOp
<1> QED
  BY <1>1, <1>4, <1>5, <1>6, BudgetStays, StepGoesOn DEF RunGoesOn

\* TakeClaim writes a first row, or takes a preflight failure of this request
\* over; a run that goes on has a fresh row.
LEMMA ClaimTables ==
  ASSUME SInv, NEW p \in Procs, NEW k \in Keys, k = loc[p].key, pc[p] \in {"claimManual", "claim", "zeroClaim"},
         NEW done, TakeClaim(p, done), UNCHANGED <<chainVars, lease, balance, res, spends, receipts>>
  PROVE  /\ TablesGoOn(p) /\ ~Untouched(op[k])
         /\ \/ /\ Goto(p, done) /\ NoFault
               /\ op'[k] # None /\ op'[k].hash = None /\ op'[k].wallet = loc[p].wallet
               /\ op'[k].amount = loc[p].amount
               /\ op'[k].status = "submitting" /\ op'[k].outcome = "unknown"
            \/ Goto(p, "idle") /\ Fault
<1>0. /\ op \in [Keys -> Row \cup {None}] /\ loc[p] \in SpendLocals
      /\ LeaseTypeOK /\ ReservationKeys \subseteq Keys
  BY SpendAssumption DEF SInv, TypeOK, OperationsTypeOK
<1>s. AmountsFit(p) /\ OnItsReservation(p)
  BY DEF SInv, RunsMatch
<1> DEFINE new == NewRow(loc[p].intent, loc[p].wallet, loc[p].amount)
<1> DEFINE taken == [op[k] EXCEPT !.status = "submitting", !.outcome = "unknown"]
<1>1. /\ new \in Row /\ new # None /\ new.hash = None /\ new.wallet = loc[p].wallet
      /\ new.amount = loc[p].amount /\ new.status = "submitting" /\ new.outcome = "unknown"
  BY <1>0, SpendNoneAssumption DEF NewRow, Row, SpendLocals, Statuses, OpenStatuses, Outcomes
<1>2. op[k] # None =>
      /\ taken \in Row /\ taken # None /\ taken.hash = op[k].hash /\ taken.wallet = op[k].wallet
      /\ taken.amount = op[k].amount /\ taken.status = "submitting" /\ taken.outcome = "unknown"
  BY <1>0, SpendNoneAssumption DEF Row, Statuses, OpenStatuses, Outcomes
<1>3. op[k] # None => [op EXCEPT ![k].status = "submitting", ![k].outcome = "unknown"] = [op EXCEPT ![k] = taken]
  BY <1>0
<1> HIDE DEF new, taken
<1>4. CASE op[k] = None /\ SaveOp(p, Inserted(k, loc[p].intent, loc[p].wallet, loc[p].amount), done, "idle")
  <2>1. op' \in {op, [op EXCEPT ![k] = new]}
    BY <1>4 DEF SaveOp, Inserted, new
  <2>2. /\ op' \in [Keys -> Row \cup {None}] /\ \A l \in Keys \ {k} : op'[l] = op[l]
        /\ op'[k] = None \/ op'[k] = new
    BY <1>0, <1>1, <1>4, <2>1
  <2>3. op'[k] # None => (k \in ReservationKeys => Settlement(k)')
    <3>1. ASSUME op'[k] # None, k \in ReservationKeys PROVE Settlement(k)'
      <4>1. loc[p].delivery # None /\ pc[p] \in {"claim", "zeroClaim"}
        BY <1>s, <3>1 DEF OnItsReservation, ManualKeys, Settles
      <4>2. /\ res[k] # None /\ res[k].status # "reserved" /\ res[k].context = loc[p].delivery
            /\ loc[p].wallet = res[k].wallet
            /\ loc[p].amount = Lower(res[k].amount, TokensOf[loc[p].delivery])
        BY <1>s, <4>1 DEF OnItsReservation, Opening
      <4> QED
        BY <1>1, <2>2, <3>1, <4>1, <4>2 DEF Settlement
    <3> QED
      BY <3>1
  <2>4. OwnedRowsStay(p) /\ ~Untouched(op[k])
    BY <1>4, <2>2 DEF OwnedRowsStay, Untouched
  <2>5. TablesGoOn(p)
    BY <1>0, <1>1, <1>4, <2>2, <2>3, <2>4, RowTables DEF OperationsTypeOK, LeaseTypeOK
  <2>6. \/ Goto(p, done) /\ NoFault /\ op'[k] = new
        \/ Goto(p, "idle") /\ Fault
    BY <1>0, <1>4 DEF SaveOp, Inserted, new
  <2> QED
    BY <1>1, <2>4, <2>5, <2>6
<1>5. CASE /\ op[k] # None /\ Reclaimable(k)
           /\ SameSpend(k, loc[p].intent, loc[p].wallet, loc[p].amount)
           /\ SaveOp(p, Reclaimed(k), done, "idle")
  <2>1. op' \in {op, [op EXCEPT ![k] = taken]}
    BY <1>3, <1>5 DEF SaveOp, Reclaimed
  <2>2. /\ op' \in [Keys -> Row \cup {None}] /\ \A l \in Keys \ {k} : op'[l] = op[l]
        /\ op'[k] = op[k] \/ op'[k] = taken
    BY <1>0, <1>2, <1>5, <2>1
  <2>3. op[k].status = "failed" /\ op[k].hash = None
    BY <1>5 DEF Reclaimable
  <2>4. OwnedRowsStay(p) /\ ~Untouched(op[k])
    BY <2>2, <2>3 DEF OwnedRowsStay, Untouched
  <2>5. TablesGoOn(p)
    BY <1>0, <1>2, <1>5, <2>2, <2>3, <2>4, RowTables DEF OperationsTypeOK, LeaseTypeOK
  <2>6. \/ Goto(p, done) /\ NoFault /\ op'[k] = taken
        \/ Goto(p, "idle") /\ Fault
    BY <1>0, <1>3, <1>5 DEF SaveOp, Reclaimed
  <2>7. op[k].wallet = loc[p].wallet /\ op[k].amount = loc[p].amount
    BY <1>5 DEF SameSpend, SameIntent
  <2> QED
    BY <1>2, <1>5, <2>3, <2>4, <2>5, <2>6, <2>7
<1> QED
  BY <1>4, <1>5 DEF TakeClaim

\* What a run finds that replays the saved operation of its request.
LEMMA ReplayGoesOn ==
  ASSUME SInv, NEW p \in Procs, NEW k \in Keys, TablesGoOn(p), NEW m \in SpendLocals, m.key = k,
         op[k] # None, op' = op, m.tx = op[k].hash, m.amount = op[k].amount, m.wallet = op[k].wallet,
         NEW d, m.delivery = d, NEW x, x = SpendReplayPoint(k, d), pc'[p] = x, x # "idle" => loc'[p] = m,
         IF d = None THEN k \in ManualKeys
         ELSE /\ k \in ReservationKeys /\ res[k] # None /\ m.wallet = res[k].wallet
              /\ m.amount = Lower(res[k].amount, TokensOf[d])
              /\ res[k].status # "reserved" /\ res[k].context = d
  PROVE  RunOK(p)' /\ EntersOwning(p)
<1>1. CASE x = "idle"
  BY <1>1, IdleRelies
<1>2. CASE x # "idle"
  <2>1. /\ op[k].hash # None /\ x \in {"verify", "record", Finished(d)}
        /\ x = Finished(d) => op[k].status = "projected"
    BY <1>2 DEF SpendReplayPoint, Finished
  <2>2. x \in (WithTx \ {"freshProjected", "failNoMovement", "complete"}) \cup {"settle"}
    BY <2>1 DEF Finished, WithTx
  <2>3. /\ x = "settle" => d # None /\ op[k].status = "projected"
        /\ x = "receipt" => d = None /\ op[k].status = "projected"
    BY <2>1 DEF Finished
  <2>4. loc'[p] = m /\ pc'[p] = x
    BY <1>2
  <2>5. x \in {"settle", "receipt"} => Entry(p)' \in spends'
    <3>1. Entry(p)' = SpendOf(k)
      BY <2>4 DEF Entry, SpendOf
    <3> QED
      BY <2>1, <2>3, <3>1 DEF SInv, ProjectedAreRecorded, TablesGoOn
  <2>6. OnItsRow(p)'
    BY <2>2, <2>4, <2>5 DEF OnItsRow
  <2>7. /\ x \notin Owning /\ x \notin Opening /\ x \notin Locking
        /\ x \notin {"zeroProject", "zeroClaim", "claim", "hold", "claimManual"}
    BY <2>2 DEF Owning, Opening, Locking, WithTx
  <2>8. AmountsFit(p)' /\ OwnsItsRow(p)' /\ EntersOwning(p)
    BY <2>1, <2>4, <2>7 DEF AmountsFit, OwnsItsRow, EntersOwning, Owning
  <2>9. OnItsReservation(p)'
    <3>1. d # None => /\ res'[k] # None /\ m.wallet = res'[k].wallet
                      /\ m.amount = Lower(res'[k].amount, TokensOf[d])
                      /\ res'[k].status # "reserved" /\ res'[k].context = d
      BY DEF TablesGoOn, ReservationsEvolve
    <3>2. k \in ReservationKeys => d # None
      BY DEF ManualKeys
    <3> QED
      BY <2>3, <2>4, <2>7, <3>1, <3>2 DEF OnItsReservation, Settles
  <2> QED
    BY <2>6, <2>8, <2>9 DEF RunOK
<1> QED
  BY <1>1, <1>2

LEMMA ClaimsPreserve ==
  ASSUME SInv, NEW p \in Procs,
         \/ ClaimManual(p)
         \/ (ClaimSettlement(p) \/ ZeroClaim(p)) /\ UNCHANGED lock
  PROVE  SInv'
<1>a. /\ loc[p] \in SpendLocals /\ loc[p].key \in Keys /\ pc[p] # "idle"
      /\ pc[p] \in {"claimManual", "claim", "zeroClaim"}
      /\ UNCHANGED <<chainVars, lease, balance, res, spends, receipts>>
  <2>1. pc[p] \in {"claimManual", "claim", "zeroClaim"}
    BY DEF ClaimManual, ClaimSettlement, ZeroClaim
  <2> QED
    BY <2>1 DEF SInv, TypeOK, SpendLocals, ClaimManual, ClaimSettlement, ZeroClaim, spendVars
<1>k. PICK k \in Keys : k = loc[p].key
  BY <1>a
<1>s. OnItsRow(p) /\ AmountsFit(p) /\ OnItsReservation(p) /\ OwnsItsRow(p)
  BY DEF SInv, RunsMatch
<1>r. pc[p] \in {"claim", "zeroClaim"} =>
        /\ k \in ReservationKeys /\ loc[p].delivery # None /\ res[k] # None
        /\ loc[p].wallet = res[k].wallet
        /\ loc[p].amount = Lower(res[k].amount, TokensOf[loc[p].delivery])
        /\ res[k].status # "reserved" /\ res[k].context = loc[p].delivery
  BY <1>k, <1>s DEF OnItsReservation, Settles, Opening
<1>m. pc[p] = "claimManual" => k \notin ReservationKeys /\ loc[p].delivery = None
  BY <1>k, <1>s DEF OnItsReservation, ManualKeys
<1>1. ASSUME NEW done \in {"check", "zeroProject"}, TakeClaim(p, done),
             done = "check" => pc[p] \in {"claimManual", "claim"},
             done = "zeroProject" => pc[p] = "zeroClaim",
             IF pc[p] = "claimManual" THEN Unlock(p) ELSE UNCHANGED lock
      PROVE  SInv'
  <2>1. /\ TablesGoOn(p) /\ ~Untouched(op[k])
        /\ \/ /\ Goto(p, done) /\ NoFault
              /\ op'[k] # None /\ op'[k].hash = None /\ op'[k].wallet = loc[p].wallet
              /\ op'[k].amount = loc[p].amount
              /\ op'[k].status = "submitting" /\ op'[k].outcome = "unknown"
           \/ Goto(p, "idle") /\ Fault
    BY <1>1, <1>a, <1>k, ClaimTables
  <2>l. \/ lock' = lock /\ pc[p] \notin Locking
        \/ Unlock(p)
    BY <1>1, <1>a DEF Locking
  <2>2. CASE Goto(p, "idle") /\ Fault
    <3>1. RunsTyped' /\ OthersWait(p) /\ pc'[p] = "idle"
      BY <1>a, <2>2, <2>l, StaysOn DEF SpendPoints, WithTx, Locking
    <3> QED
      BY <2>1, <2>2, <3>1, BudgetStays, IdleRelies, StepGoesOn DEF RunGoesOn
  <2>3. CASE /\ Goto(p, done) /\ NoFault
             /\ op'[k] # None /\ op'[k].hash = None /\ op'[k].wallet = loc[p].wallet
             /\ op'[k].amount = loc[p].amount
             /\ op'[k].status = "submitting" /\ op'[k].outcome = "unknown"
    <3>1. RunsTyped' /\ OthersWait(p) /\ pc'[p] = done /\ loc'[p] = loc[p]
      <4>1. done \in SpendPoints /\ done \notin WithTx /\ done \notin Locking /\ done # "idle"
        BY DEF SpendPoints, WithTx, Locking
      <4> QED
        BY <1>a, <2>3, <2>l, <4>1, StaysOn
    <3>2. OnItsRow(p)' /\ EntersOwning(p)
      BY <1>k, <2>1, <2>3, <3>1 DEF OnItsRow, EntersOwning, WithTx
    <3>3. AmountsFit(p)' /\ OwnsItsRow(p)'
      BY <1>1, <1>k, <1>s, <2>3, <3>1 DEF AmountsFit, OwnsItsRow, Untouched, WithTx, Owning, Opening, Locking
    <3>4. OnItsReservation(p)'
      <4>1. pc[p] \in {"claim", "zeroClaim"} =>
              /\ k \in ReservationKeys /\ loc[p].delivery # None /\ res'[k] # None
              /\ loc[p].wallet = res'[k].wallet
              /\ loc[p].amount = Lower(res'[k].amount, TokensOf[loc[p].delivery])
              /\ res'[k].status # "reserved" /\ res'[k].context = loc[p].delivery
        BY <1>a, <1>r
      <4>2. done \notin {"hold", "claimManual", "receipt"} /\ (done \in Settles => pc[p] = "zeroClaim")
        BY <1>1 DEF Settles, Opening
      <4>3. pc'[p] = done /\ loc'[p] = loc[p] /\ loc[p].key = k
        BY <1>k, <3>1
      <4> QED
        BY <1>a, <1>m, <4>1, <4>2, <4>3 DEF OnItsReservation
    <3> QED
      BY <2>1, <2>3, <3>1, <3>2, <3>3, <3>4, BudgetStays, StepGoesOn DEF RunGoesOn, RunOK
  <2> QED
    BY <2>1, <2>2, <2>3
<1>2. CASE ClaimManual(p)
  BY <1>1, <1>2 DEF ClaimManual
<1>3. CASE ZeroClaim(p) /\ UNCHANGED lock
  <2>1. CASE TakeClaim(p, "zeroProject")
    BY <1>1, <1>3, <2>1 DEF ZeroClaim
  <2>2. CASE /\ op[k] # None /\ SameSpend(k, loc[p].intent, loc[p].wallet, 0) /\ op' = op /\ NoFault
             /\ Goto(p, "zeroProject")
    <3>1. TablesGoOn(p)
      BY <1>a, <2>2, QuietTables
    <3>2. RunsTyped' /\ OthersWait(p) /\ pc'[p] = "zeroProject" /\ loc'[p] = loc[p]
      BY <1>3, <1>a, <2>2, StaysOn DEF SpendPoints, WithTx, Locking, ZeroClaim
    <3>3. loc[p].amount = 0 /\ loc[p].tx = None /\ op[k].amount = 0 /\ op[k].wallet = loc[p].wallet
      BY <1>3, <1>s, <2>2 DEF AmountsFit, ZeroClaim, SameSpend, SameIntent
    <3>4. OnItsRow(p)' /\ AmountsFit(p)' /\ OwnsItsRow(p)' /\ EntersOwning(p)
      BY <1>k, <2>2, <3>2, <3>3 DEF OnItsRow, AmountsFit, OwnsItsRow, EntersOwning, WithTx, Owning, Opening, Locking
    <3>5. OnItsReservation(p)'
      BY <1>3, <1>a, <1>k, <1>r, <3>2 DEF OnItsReservation, WithTx, Owning, Opening, Settles, ZeroClaim
    <3> QED
      BY <2>2, <3>1, <3>2, <3>4, <3>5, BudgetStays, StepGoesOn DEF RunGoesOn, RunOK
  <2>3. CASE op' = op /\ NoFault /\ Goto(p, "idle")
    <3>1. TablesGoOn(p)
      BY <1>a, <2>3, QuietTables
    <3>2. RunsTyped' /\ OthersWait(p) /\ pc'[p] = "idle"
      BY <1>3, <1>a, <2>3, StaysOn DEF SpendPoints, WithTx, Locking, ZeroClaim
    <3> QED
      BY <2>3, <3>1, <3>2, BudgetStays, IdleRelies, StepGoesOn DEF RunGoesOn
  <2> QED
    BY <1>3, <1>k, <2>1, <2>2, <2>3 DEF ZeroClaim, NoFault
<1>4. CASE ClaimSettlement(p) /\ UNCHANGED lock
  <2>1. CASE TakeClaim(p, "check")
    BY <1>1, <1>4, <2>1 DEF ClaimSettlement
  <2> DEFINE m == [loc[p] EXCEPT !.tx = op[k].hash, !.amount = op[k].amount]
  <2> DEFINE x == SpendReplayPoint(k, loc[p].delivery)
  <2>2. CASE /\ op[k] # None /\ SameSpend(k, loc[p].intent, loc[p].wallet, loc[p].amount)
             /\ op' = op /\ NoFault /\ GotoWith(p, x, m)
    <3>1. TablesGoOn(p)
      BY <1>a, <2>2, QuietTables
    <3>2. /\ m \in SpendLocals /\ m.key = k /\ m.tx = op[k].hash /\ m.amount = op[k].amount
          /\ m.wallet = loc[p].wallet /\ m.delivery = loc[p].delivery
      <4>1. op[k] \in Row
        BY <2>2 DEF SInv, TypeOK, OperationsTypeOK
      <4> QED
        BY <1>a, <1>k, <4>1 DEF SpendLocals, Row
    <3>3. op[k].wallet = loc[p].wallet /\ op[k].amount = loc[p].amount
      BY <2>2 DEF SameSpend, SameIntent
    <3>4. /\ x \in SpendPoints /\ x \notin Locking /\ (x \in WithTx => op[k].hash # None)
      BY DEF SpendReplayPoint, Finished, SpendPoints, Locking, WithTx
    <3> HIDE DEF m, x
    <3>5. /\ RunsTyped' /\ OthersWait(p) /\ pc'[p] = x /\ (x # "idle" => loc'[p] = m)
      <4>1. lock' = lock /\ pc[p] \notin Locking
        BY <1>4 DEF Locking, ClaimSettlement
      <4> QED
        BY <2>2, <3>2, <3>4, <4>1, Moves
    <3>6. RunOK(p)' /\ EntersOwning(p)
      <4>1. pc[p] = "claim"
        BY <1>4 DEF ClaimSettlement
      <4> QED
        BY <1>a, <1>r, <2>2, <3>1, <3>2, <3>3, <3>5, <4>1, ReplayGoesOn DEF x
    <3> QED
      BY <2>2, <3>1, <3>5, <3>6, BudgetStays, StepGoesOn DEF RunGoesOn
  <2>3. CASE op' = op /\ NoFault /\ Goto(p, "idle")
    <3>1. TablesGoOn(p)
      BY <1>a, <2>3, QuietTables
    <3>2. RunsTyped' /\ OthersWait(p) /\ pc'[p] = "idle"
      BY <1>4, <1>a, <2>3, StaysOn DEF SpendPoints, WithTx, Locking, ClaimSettlement
    <3> QED
      BY <2>3, <3>1, <3>2, BudgetStays, IdleRelies, StepGoesOn DEF RunGoesOn
  <2> QED
    BY <1>4, <1>k, <2>1, <2>2, <2>3 DEF ClaimSettlement, NoFault
<1> QED
  BY <1>2, <1>3, <1>4

\* prepare commits the hash of a row its run owns.
LEMMA PreparePreserves ==
  ASSUME SInv, NEW p \in Procs, Prepare(p), UNCHANGED spendVars
  PROVE  SInv'
<1>a. /\ pc[p] = "prepare" /\ loc[p] \in SpendLocals /\ loc[p].key \in Keys
      /\ UNCHANGED <<balance, res, spends, receipts, lock>> /\ UNCHANGED chainVars
  BY DEF SInv, TypeOK, SpendLocals, Prepare, spendVars
<1>k. PICK k \in Keys : k = loc[p].key
  BY <1>a
<1>s. OnItsRow(p) /\ AmountsFit(p) /\ OnItsReservation(p) /\ OwnsItsRow(p)
  BY DEF SInv, RunsMatch
<1>0. Tables
  BY Parts
<1>r. /\ op[k] # None /\ op[k].hash = None /\ Untouched(op[k])
      /\ op[k].wallet = loc[p].wallet /\ op[k].amount = loc[p].amount
  BY <1>a, <1>k, <1>s DEF OnItsRow, OwnsItsRow, Owning
<1>p. PICK pending \in ReportedNonces :
        \E n \in NextNonces(pending) :
          /\ lease' = PreparedLease(k, Transfer(p, n)) /\ op' = PreparedTarget(k, Transfer(p, n))
          /\ \/ /\ NoFault \/ Fault
                /\ GotoWith(p, "broadcast", [loc[p] EXCEPT !.tx = Transfer(p, n)])
             \/ Goto(p, "preflight") /\ Fault
  BY <1>k DEF Prepare
<1>1. PICK n \in NextNonces(pending) :
        /\ lease' = PreparedLease(k, Transfer(p, n)) /\ op' = PreparedTarget(k, Transfer(p, n))
        /\ \/ /\ NoFault \/ Fault
              /\ GotoWith(p, "broadcast", [loc[p] EXCEPT !.tx = Transfer(p, n)])
           \/ Goto(p, "preflight") /\ Fault
  BY <1>p
<1>2. n \in Nat /\ \A l \in Keys : lease[l] # None => lease[l].tx.nonce # n
  BY <1>0, <1>1, NonceIsNew DEF Tables, TableTypes
<1>t. PICK t \in Tx : t = Transfer(p, n)
  BY <1>a, <1>2 DEF Transfer, Tx, SpendLocals
<1>3. t.key = k /\ t.nonce = n /\ t.wallet = loc[p].wallet /\ t.amount = loc[p].amount /\ t # None
  BY <1>k, <1>t, NoneAssumption DEF Transfer
<1>4. /\ TablesTyped' /\ TransfersMatch'
      /\ op'[k] # None /\ op'[k].hash = t /\ op'[k].status = "submitting"
      /\ op'[k].outcome = op[k].outcome
      /\ op'[k].amount = op[k].amount /\ op'[k].wallet = op[k].wallet
      /\ \A l \in Keys \ {k} : op'[l] = op[l]
  <2>1. op' = PreparedTarget(k, t) /\ lease' = PreparedLease(k, t)
    BY <1>1, <1>t
  <2>2. \A l \in Keys : lease[l] # None => lease[l].tx.nonce # t.nonce
    BY <1>2, <1>3
  <2>3. TablesTyped /\ TransfersMatch
    BY <1>0 DEF Tables, TableTypes
  <2> QED
    BY <1>3, <1>a, <1>r, <2>1, <2>2, <2>3, NoneIsNone, PreparedMatch
<1>5. TablesGoOn(p)
  <2>1. TableTypes'
    BY <1>0, <1>4, <1>a DEF Tables, TableTypes
  <2>2. RowsEvolve /\ ReservationsEvolve /\ reverted' = reverted /\ OwnedRowsStay(p)
    BY <1>4, <1>a, <1>k, <1>r DEF RowsEvolve, ReservationsEvolve, OwnedRowsStay, chainVars, Untouched, Owning
  <2>3. HashesSound'
    BY <1>0, <1>3, <1>4, <1>r, <2>2 DEF Tables, HashesSound, Untouched
  <2>4. ProjectedAreRecorded'
    BY <1>0, <1>4, <1>a DEF Tables, ProjectedAreRecorded, SpendOf
  <2>5. k \in ReservationKeys => res[k] # None /\ res[k].status \notin Over
    <3>1. ASSUME k \in ReservationKeys, res[k].status \in Over PROVE FALSE
      <4>1. /\ res[k] # None /\ op[k].amount = res[k].settled /\ op[k].hash = res[k].hash
            /\ res[k].status = "settled" <=> res[k].settled > 0
            /\ res[k].status = "settled" => res[k].hash # None
        BY <1>0, <1>r, <3>1 DEF Tables, ReservationsMatch, Settlement, Completion
      <4>2. res[k] \in Reservation
        BY <1>0, <3>1, <4>1 DEF Tables, TableTypes
      <4>3. res[k].settled \in Nat
        BY <4>2, AmountsAssumption DEF Reservation
      <4> QED
        BY <1>r, <4>1, <4>3 DEF Untouched
    <3>2. k \in ReservationKeys => res[k] # None
      BY <1>0, <1>r DEF Tables, ReservationsMatch, Settlement
    <3> QED
      BY <3>1, <3>2
  <2>6. ReservationsMatch'
    <3>1. ASSUME NEW l \in ReservationKeys PROVE Settlement(l)' /\ Completion(l)'
      <4>1. Settlement(l) /\ Completion(l) /\ l \in Keys
        BY <1>0, SpendAssumption DEF Tables, ReservationsMatch
      <4>2. CASE l # k
        BY <1>4, <1>a, <4>1, <4>2 DEF Settlement, Completion, SpendOf
      <4>3. CASE l = k
        BY <1>4, <1>a, <1>r, <2>5, <4>1, <4>3 DEF Settlement, Completion
      <4> QED
        BY <4>2, <4>3
    <3> QED
      BY <3>1 DEF ReservationsMatch
  <2>7. ReceiptsMatch'
    <3>1. \A r \in receipts : r.key \in Keys /\ r.tx # None
      BY <1>0, NoneAssumption DEF Tables, TableTypes, SpendRow
    <3> QED
      BY <1>0, <1>a, <2>2, <3>1 DEF Tables, ReceiptsMatch, RowsEvolve
  <2> QED
    BY <1>4, <1>a, <2>1, <2>2, <2>3, <2>4, <2>6, <2>7 DEF TablesGoOn, Tables
<1>d. k \in ReservationKeys => loc[p].delivery # None
  BY <1>a, <1>k, <1>s DEF OnItsReservation, Owning, WithTx
<1>v. loc[p].delivery # None =>
        /\ k \in ReservationKeys /\ res'[k] # None /\ loc[p].wallet = res'[k].wallet
        /\ loc[p].amount = Lower(res'[k].amount, TokensOf[loc[p].delivery])
        /\ res'[k].status # "reserved" /\ res'[k].context = loc[p].delivery
  BY <1>a, <1>k, <1>s DEF OnItsReservation, Opening
<1>6. CASE Goto(p, "preflight") /\ Fault
  <2>1. RunsTyped' /\ OthersWait(p) /\ pc'[p] = "preflight" /\ loc'[p] = loc[p]
    BY <1>6, <1>a, StaysOn DEF SpendPoints, WithTx, Locking
  <2>2. OnItsRow(p)' /\ AmountsFit(p)' /\ OwnsItsRow(p)' /\ EntersOwning(p)
    BY <1>3, <1>4, <1>a, <1>k, <1>r, <2>1
       DEF OnItsRow, AmountsFit, OwnsItsRow, EntersOwning, WithTx, Owning, Opening, Locking
  <2>3. OnItsReservation(p)'
    BY <1>d, <1>k, <1>v, <2>1 DEF OnItsReservation, WithTx, Settles, Opening
  <2> QED
    BY <1>5, <1>6, <2>1, <2>2, <2>3, BudgetStays, StepGoesOn DEF RunGoesOn, RunOK
<1>7. CASE (NoFault \/ Fault) /\ GotoWith(p, "broadcast", [loc[p] EXCEPT !.tx = t])
  <2> DEFINE m == [loc[p] EXCEPT !.tx = t]
  <2>1. /\ m \in SpendLocals /\ m.key = k /\ m.tx = t /\ m.wallet = loc[p].wallet
        /\ m.amount = loc[p].amount /\ m.delivery = loc[p].delivery
    BY <1>3, <1>a, <1>k DEF SpendLocals
  <2> HIDE DEF m
  <2>2. RunsTyped' /\ OthersWait(p) /\ pc'[p] = "broadcast" /\ loc'[p] = m
    BY <1>3, <1>7, <1>a, <2>1, Moves DEF SpendPoints, Locking, m
  <2>3. OnItsRow(p)' /\ AmountsFit(p)' /\ OwnsItsRow(p)' /\ EntersOwning(p)
    BY <1>3, <1>4, <1>r, <2>1, <2>2
       DEF OnItsRow, AmountsFit, OwnsItsRow, EntersOwning, WithTx, Owning, Opening, Locking
  <2>4. OnItsReservation(p)'
    BY <1>d, <1>v, <2>1, <2>2 DEF OnItsReservation, WithTx, Settles, Opening
  <2> QED
    BY <1>5, <1>7, <2>2, <2>3, <2>4, BudgetStays, StepGoesOn DEF RunGoesOn, RunOK
<1> QED
  BY <1>1, <1>6, <1>7, <1>t

\* broadcast hands the chain the transfer of the run's row.
LEMMA BroadcastPreserves ==
  ASSUME SInv, NEW p \in Procs, Broadcast(p), UNCHANGED spendVars
  PROVE  SInv'
<1>a. /\ pc[p] = "broadcast" /\ loc[p] \in SpendLocals /\ loc[p].key \in Keys /\ loc[p].tx # None
      /\ loc[p].tx \in Tx /\ UNCHANGED <<op, lease, paid, reverted, balance, res, spends, receipts, lock>>
  BY DEF SInv, TypeOK, SpendLocals, Broadcast, spendVars, WithTx
<1>0. Tables
  BY Parts
<1>s. OnItsRow(p)
  BY DEF SInv, RunsMatch
<1>1. lease[loc[p].tx.key] # None /\ lease[loc[p].tx.key].tx = loc[p].tx
  BY <1>0, <1>a, <1>s DEF OnItsRow, WithTx, Tables, TransfersMatch, LeaseMatchesRow
<1>2. pool' = pool \/ Accept(loc[p].tx)
  BY DEF Broadcast
<1>3. TransfersMatch' /\ ChainTypeOK'
  <2>1. TransfersMatch'
    BY <1>0, <1>1, <1>2, <1>a, BroadcastMatches DEF Tables
  <2> QED
    BY <1>0, <1>2, <1>a, <2>1 DEF Tables, TableTypes, TablesTyped, ChainTypeOK, Accept
<1>4. TablesGoOn(p)
  BY <1>0, <1>3, <1>a, ChainTables DEF Tables, TableTypes
<1>5. PICK x \in {"submitLease", "unknownLease"} : Goto(p, x) /\ (NoFault \/ Fault)
  BY DEF Broadcast
<1>6. RunsTyped' /\ OthersWait(p) /\ pc'[p] = x /\ loc'[p] = loc[p]
  BY <1>5, <1>a, StaysOn DEF SpendPoints, WithTx, Locking
<1>7. RunOK(p)' /\ EntersOwning(p)
  BY <1>4, <1>5, <1>6, <1>a, TransferGoesOn DEF WithTx
<1> QED
  BY <1>4, <1>5, <1>6, <1>7, BudgetStays, StepGoesOn DEF RunGoesOn

\* Reading evidence, and giving up before the transfer is prepared.
LEMMA ReadsPreserve ==
  ASSUME SInv, NEW p \in Procs, UNCHANGED spendVars,
         Verify(p) \/ VerifyFresh(p) \/ VerifyProjected(p) \/ PrepareRefused(p) \/ Check(p)
  PROVE  SInv'
<1>1. PICK x \in SpendPoints :
        /\ Goto(p, x) /\ (NoFault \/ Fault) /\ x \notin Locking /\ pc[p] \notin Locking \cup {"idle", "receipt"}
        /\ \/ x = "idle"
           \/ pc[p] \in WithTx /\ x \in {"confirm", "failReview", "unknown"}
           \/ pc[p] \in WithTx /\ x = "failNoMovement" /\ loc[p].tx \in reverted
           \/ pc[p] = "freshProjected" /\ x = Finished(loc[p].delivery)
           \/ pc[p] \in {"check", "prepare"} /\ x \in {"prepare", "preflight"}
  <2>1. CASE Verify(p)
    <3>1. PICK e : /\ Goto(p, EvidencePoint(e)) /\ (NoFault \/ Fault)
                   /\ e = Evidence(loc[p].tx, loc[p].wallet, loc[p].amount) \/ e \in DegradedEvidence
      BY <2>1 DEF Verify
    <3>2. e = "reverted" => loc[p].tx \in reverted
      BY <3>1 DEF Evidence, DegradedEvidence
    <3>3. /\ EvidencePoint(e) \in {"confirm", "failReview", "unknown", "failNoMovement"}
          /\ EvidencePoint(e) = "failNoMovement" => loc[p].tx \in reverted
      BY <3>2 DEF EvidencePoint
    <3> QED
      BY <2>1, <3>1, <3>3 DEF Verify, SpendPoints, Locking, WithTx
  <2>2. CASE VerifyFresh(p)
    <3>1. \A e : FreshPoint(e) \in {"confirm", "unknown", "idle"}
      BY DEF FreshPoint
    <3> QED
      BY <2>2, <3>1 DEF VerifyFresh, SpendPoints, Locking, WithTx
  <2>3. CASE VerifyProjected(p)
    BY <2>3 DEF VerifyProjected, SpendPoints, Locking, Finished
  <2>4. CASE PrepareRefused(p) \/ Check(p)
    BY <2>4 DEF PrepareRefused, Check, SpendPoints, Locking
  <2> QED
    BY <2>1, <2>2, <2>3, <2>4
<1>a. /\ loc[p] \in SpendLocals /\ loc[p].key \in Keys /\ pc[p] # "idle"
      /\ UNCHANGED <<op, chainVars, lease, balance, res, spends, receipts, lock>>
  BY <1>1 DEF SInv, TypeOK, SpendLocals, spendVars, Verify, VerifyFresh, VerifyProjected, PrepareRefused, Check
<1>2. TablesGoOn(p)
  BY <1>a, QuietTables
<1>3. /\ RunsTyped' /\ OthersWait(p) /\ pc'[p] = x
      /\ x # "idle" => loc'[p] = loc[p]
  <2>1. x \in WithTx => pc[p] \in WithTx
    BY <1>1 DEF WithTx
  <2> QED
    BY <1>1, <1>a, <2>1, StaysOn
<1>s. OnItsRow(p) /\ AmountsFit(p) /\ OnItsReservation(p) /\ OwnsItsRow(p)
  BY DEF SInv, RunsMatch
<1>4. RunOK(p)' /\ EntersOwning(p)
  <2>1. CASE x = "idle"
    BY <1>3, <2>1, IdleRelies
  <2>2. CASE \/ pc[p] \in WithTx /\ x \in {"confirm", "failReview", "unknown"}
             \/ pc[p] \in WithTx /\ x = "failNoMovement" /\ loc[p].tx \in reverted
    <3>1. /\ x \in (WithTx \ {"freshProjected"}) \cup {"settle"} /\ x # "idle" /\ pc[p] \in WithTx \ {"receipt"}
          /\ x \notin {"complete", "settle", "receipt"}
      BY <1>1, <2>2 DEF WithTx
    <3> QED
      BY <1>2, <1>3, <2>2, <3>1, TransferGoesOn
  <2>3. CASE pc[p] = "freshProjected" /\ x = Finished(loc[p].delivery)
    <3>1. /\ x \in (WithTx \ {"freshProjected"}) \cup {"settle"} /\ x # "idle" /\ pc[p] \in WithTx \ {"receipt"}
          /\ x \in {"settle", "receipt"}
      BY <2>3 DEF Finished, WithTx
    <3>2. Entry(p) \in spends'
      <4>1. /\ op[loc[p].key] # None /\ op[loc[p].key].status = "projected" /\ loc[p].tx # None
            /\ op[loc[p].key].wallet = loc[p].wallet /\ op[loc[p].key].amount = loc[p].amount
            /\ op[loc[p].key].hash = loc[p].tx
        BY <1>s, <2>3 DEF OnItsRow, WithTx, SInv, TypeOK
      <4>2. Entry(p) = SpendOf(loc[p].key)
        BY <4>1 DEF Entry, SpendOf
      <4> QED
        BY <1>a, <4>1, <4>2 DEF SInv, ProjectedAreRecorded
    <3> QED
      BY <1>2, <1>3, <2>3, <3>1, <3>2, TransferGoesOn
  <2>4. CASE pc[p] \in {"check", "prepare"} /\ x \in {"prepare", "preflight"}
    <3>1. /\ op[loc[p].key] # None /\ op[loc[p].key].hash = None /\ Untouched(op[loc[p].key])
          /\ op[loc[p].key].wallet = loc[p].wallet /\ op[loc[p].key].amount = loc[p].amount
      BY <1>s, <2>4 DEF OnItsRow, OwnsItsRow, Owning
    <3>2. OnItsRow(p)' /\ AmountsFit(p)' /\ OwnsItsRow(p)' /\ EntersOwning(p)
      BY <1>3, <1>a, <2>4, <3>1
         DEF OnItsRow, AmountsFit, OwnsItsRow, EntersOwning, WithTx, Owning, Opening, Locking, Untouched
    <3>3. OnItsReservation(p)'
      BY <1>3, <1>a, <1>s, <2>4 DEF OnItsReservation, WithTx, Owning, Settles, Opening
    <3> QED
      BY <3>2, <3>3 DEF RunOK
  <2> QED
    BY <1>1, <2>1, <2>2, <2>3, <2>4
<1> QED
  BY <1>1, <1>2, <1>3, <1>4, BudgetStays, StepGoesOn DEF RunGoesOn
-----------------------------------------------------------------------------
(* Requests, capacity and settlement.                                      *)

\* A run that ends, and leaves the tables as they may go on.
LEMMA Ends ==
  ASSUME SInv, NEW p \in Procs, TablesGoOn(p), Goto(p, "idle"), pc[p] # "idle", NoFault \/ Fault,
         \/ UNCHANGED lock /\ pc[p] \notin Locking
         \/ Unlock(p)
  PROVE  SInv'
<1>1. RunsTyped' /\ OthersWait(p) /\ pc'[p] = "idle"
  BY StaysOn DEF SpendPoints, WithTx, Locking
<1> QED
  BY <1>1, BudgetStays, IdleRelies, StepGoesOn DEF RunGoesOn

\* A run at a point before the transfer goes on with its reservation.
LEMMA OpeningGoesOn ==
  ASSUME SInv, NEW p \in Procs, NEW k \in ReservationKeys, NEW d \in Deliveries, TablesGoOn(p),
         NEW x \in Opening, RunsTyped', OthersWait(p), NoFault \/ Fault, pc'[p] = x,
         loc'[p].key = k, loc'[p].delivery = d, loc'[p].tx = None,
         res[k] # None, loc'[p].wallet = res[k].wallet,
         loc'[p].amount = Lower(res[k].amount, TokensOf[d]),
         x # "claimHold" => res'[k].status # "reserved"
  PROVE  SInv'
<1>1. d # None
  BY SpendAssumption
<1>2. res'[k] # None /\ res'[k].wallet = res[k].wallet /\ res'[k].amount = res[k].amount
  BY DEF TablesGoOn, ReservationsEvolve
<1>3. /\ x \notin WithTx /\ x \notin Owning /\ x \notin Locking /\ x \in Settles
      /\ x \notin {"zeroProject", "zeroClaim", "settle", "claim", "receipt", "hold", "claimManual", "check", "prepare", "preflight"}
  BY DEF WithTx, Owning, Locking, Opening, Settles
<1>4. OnItsRow(p)' /\ AmountsFit(p)' /\ OwnsItsRow(p)' /\ EntersOwning(p)
  BY <1>3 DEF OnItsRow, AmountsFit, OwnsItsRow, EntersOwning, WithTx
<1>5. OnItsReservation(p)'
  BY <1>1, <1>2, <1>3 DEF OnItsReservation
<1> QED
  BY <1>4, <1>5, BudgetStays, StepGoesOn DEF RunGoesOn, RunOK

\* A delivery is dispatched on the reservation that was read.
LEMMA DispatchPreserves ==
  ASSUME SInv, NEW p \in Procs, NEW k \in ReservationKeys, NEW d \in Deliveries, res[k] # None,
         Dispatch(p, k, d), pc[p] \notin Locking,
         UNCHANGED <<op, chainVars, lease, budget, spendVars>>
  PROVE  SInv'
<1>u. UNCHANGED <<chainVars, balance, res, lock, spends, receipts, lease, op>> /\ NoFault
  BY DEF spendVars, NoFault
<1>1. TablesGoOn(p)
  BY <1>u, QuietTables
<1>2. /\ res[k] \in Reservation /\ k \in Keys /\ Settlement(k) /\ Completion(k)
      /\ d # None
  BY SpendAssumption DEF SInv, TypeOK, ReservationsMatch
<1> DEFINE m == Memory(k, SettlementIntent, res[k].wallet, Lower(res[k].amount, TokensOf[d]), None, d, 0)
<1>3. /\ m \in SpendLocals /\ m.key = k /\ m.wallet = res[k].wallet
      /\ m.amount = Lower(res[k].amount, TokensOf[d]) /\ m.tx = None /\ m.delivery = d
  <2>1. Lower(res[k].amount, TokensOf[d]) \in Amounts
    BY <1>2, SpendAssumption DEF Lower, Reservation
  <2> QED
    BY <1>2, <2>1, SpendAssumption DEF Memory, SpendLocals, Reservation
<1> DEFINE n == [m EXCEPT !.amount = res[k].settled, !.tx = res[k].hash]
<1>4. /\ n \in SpendLocals /\ n.key = k /\ n.wallet = res[k].wallet
      /\ n.amount = res[k].settled /\ n.tx = res[k].hash /\ n.delivery = d
  BY <1>2, <1>3 DEF SpendLocals, Reservation
<1>5. \/ res[k].status = "reserved" /\ GotoWith(p, "claimHold", m)
      \/ res[k].status = "settling" /\ GotoWith(p, "lookup", m)
      \/ res[k].status = "settled" /\ ValidSettlement(k) /\ GotoWith(p, "receipt", n)
      \/ Goto(p, "idle")
  BY DEF Dispatch
<1> HIDE DEF m, n
<1>6. ASSUME NEW x \in {"claimHold", "lookup"}, GotoWith(p, x, m), x = "lookup" => res[k].status = "settling"
      PROVE  SInv'
  <2>1. RunsTyped' /\ OthersWait(p) /\ pc'[p] = x /\ loc'[p] = m
    <3>1. x \in SpendPoints /\ x \notin WithTx /\ x \notin Locking /\ x # "idle"
      BY DEF SpendPoints, WithTx, Locking
    <3> QED
      BY <1>3, <1>6, <1>u, <3>1, Moves
  <2>2. x \in Opening
    BY DEF Opening
  <2> QED
    BY <1>1, <1>3, <1>6, <1>u, <2>1, <2>2, OpeningGoesOn
<1>7. CASE res[k].status = "settled" /\ ValidSettlement(k) /\ GotoWith(p, "receipt", n)
  <2>1. /\ op[k] # None /\ op[k].amount = res[k].settled /\ op[k].hash = res[k].hash
        /\ op[k].wallet = res[k].wallet /\ res[k].hash # None /\ SpendOf(k) \in spends
    BY <1>2, <1>7 DEF Settlement, Completion, Over
  <2>2. RunsTyped' /\ OthersWait(p) /\ pc'[p] = "receipt" /\ loc'[p] = n
    BY <1>4, <1>7, <1>u, <2>1, Moves DEF SpendPoints, Locking
  <2>3. Entry(p)' = SpendOf(k)
    BY <1>4, <2>1, <2>2 DEF Entry, SpendOf
  <2>4. OnItsRow(p)' /\ AmountsFit(p)' /\ OwnsItsRow(p)' /\ EntersOwning(p)
    BY <1>4, <1>u, <2>1, <2>2, <2>3
       DEF OnItsRow, AmountsFit, OwnsItsRow, EntersOwning, Owning, Opening, Locking
  <2>5. OnItsReservation(p)'
    BY <1>2, <1>4, <1>7, <1>u, <2>1, <2>2 DEF OnItsReservation, Opening, Settles
  <2> QED
    BY <1>1, <1>u, <2>2, <2>4, <2>5, BudgetStays, StepGoesOn DEF RunGoesOn, RunOK
<1>8. CASE Goto(p, "idle")
  <2>1. RunsTyped' /\ OthersWait(p) /\ pc'[p] = "idle"
    <3>1. loc \in [Procs -> SpendLocals \cup {None}]
      BY DEF SInv, TypeOK
    <3>2. GotoWith(p, "idle", None)
      BY <1>8, <3>1 DEF Goto, GotoWith
    <3> QED
      BY <1>u, <3>2, Moves DEF SpendPoints, WithTx, Locking
  <2> QED
    BY <1>1, <1>u, <2>1, BudgetStays, IdleRelies, StepGoesOn DEF RunGoesOn
<1> QED
  BY <1>5, <1>6, <1>7, <1>8

\* The steps that write a reservation.
LEMMA ReservationsPreserve ==
  ASSUME SInv, NEW p \in Procs,
         \/ Hold(p)
         \/ (ClaimHold(p) \/ LookupOperation(p) \/ PersistContext(p) \/ CompleteHold(p)) /\ UNCHANGED lock
  PROVE  SInv'
<1>a. /\ pc[p] \in {"hold", "claimHold", "lookup", "context", "settle"} /\ pc[p] # "idle"
      /\ loc[p] \in SpendLocals
      /\ UNCHANGED <<op, chainVars, lease, balance, spends, receipts>>
  <2>1. pc[p] \in {"hold", "claimHold", "lookup", "context", "settle"}
    BY DEF Hold, ClaimHold, LookupOperation, PersistContext, CompleteHold
  <2> QED
    BY <2>1 DEF SInv, TypeOK, Hold, ClaimHold, LookupOperation, PersistContext, CompleteHold, spendVars
<1>s. OnItsRow(p) /\ AmountsFit(p) /\ OnItsReservation(p) /\ OwnsItsRow(p)
  BY DEF SInv, RunsMatch
<1>b. loc[p].key \in ReservationKeys
  BY <1>a, <1>s DEF OnItsReservation, Settles, Opening
<1>k. PICK k \in ReservationKeys : k = loc[p].key
  BY <1>b
<1>t. /\ k \in Keys /\ res \in [ReservationKeys -> Reservation \cup {None}]
      /\ Settlement(k) /\ Completion(k)
  BY SpendAssumption DEF SInv, TypeOK, ReservationsMatch
<1>d. pc[p] # "hold" =>
        /\ loc[p].delivery \in Deliveries /\ loc[p].delivery # None /\ res[k] # None /\ res[k] \in Reservation
        /\ loc[p].wallet = res[k].wallet
        /\ loc[p].amount = Lower(res[k].amount, TokensOf[loc[p].delivery])
        /\ pc[p] # "claimHold" => res[k].status # "reserved"
        /\ pc[p] = "settle" => res[k].context = loc[p].delivery
        /\ pc[p] # "settle" => loc[p].tx = None
  BY <1>a, <1>k, <1>s, <1>t DEF OnItsReservation, AmountsFit, Settles, Opening, SpendLocals
<1>q. UNCHANGED res => TablesGoOn(p)
  BY <1>a, QuietTables
<1>1. CASE Hold(p)
  <2> DEFINE r == NewReservation(loc[p].wallet, loc[p].amount)
  <2>1. /\ r \in Reservation /\ r.hash = None /\ r.status = "reserved"
    BY <1>a, AmountsAssumption DEF NewReservation, Reservation, SpendLocals
  <2>2. TablesGoOn(p)
    <3>1. CASE UNCHANGED res
      BY <1>q, <3>1
    <3>2. CASE res[k] = None /\ res' = [res EXCEPT ![k] = r]
      <4>1. op[k] = None
        BY <1>t, <3>2 DEF Settlement
      <4>2. r.status \notin Over
        BY <2>1 DEF Over
      <4> HIDE DEF r
      <4>3. PICK n \in Reservation : n = r
        BY <2>1
      <4> QED
        BY <1>a, <2>1, <3>2, <4>1, <4>2, <4>3, ReservationTables
    <3> QED
      BY <1>1, <1>k, <3>1, <3>2 DEF Hold
  <2> QED
    BY <1>1, <1>a, <2>2, Ends DEF Hold, SpendPoints, WithTx, Locking
<1>2. CASE ClaimHold(p) /\ UNCHANGED lock
  <2> DEFINE r == [res[k] EXCEPT !.status = "settling"]
  <2>0. pc[p] = "claimHold" /\ pc[p] \notin Locking
    BY <1>2 DEF ClaimHold, Locking
  <2>1. /\ r \in Reservation /\ r.hash = res[k].hash /\ r.status = "settling" /\ r.context = res[k].context
        /\ r.wallet = res[k].wallet /\ r.amount = res[k].amount
    BY <1>d, <2>0 DEF Reservation
  <2>2. CASE /\ ClaimableHold(k)
             /\ \/ res' = [res EXCEPT ![k].status = "settling"] /\ Goto(p, "context") /\ NoFault
                \/ res' \in {res, [res EXCEPT ![k].status = "settling"]} /\ Goto(p, "idle") /\ Fault
    <3>1. TablesGoOn(p)
      <4>1. res[k].status = "reserved" /\ op[k] = None /\ res[k].hash = None
        BY <1>d, <1>t, <2>0, <2>2 DEF ClaimableHold, Settlement, Completion, Over
      <4>2. res' \in {res, [res EXCEPT ![k] = r]}
        BY <1>t, <2>2
      <4> HIDE DEF r
      <4>3. PICK n \in Reservation : n = r
        BY <2>1
      <4>4. n.status \notin Over /\ n.hash = None
        BY <2>1, <4>1, <4>3 DEF Over
      <4> QED
        BY <1>a, <2>1, <4>1, <4>2, <4>3, <4>4, ReservationTables DEF Over
    <3>2. CASE res' = [res EXCEPT ![k].status = "settling"] /\ Goto(p, "context") /\ NoFault
      <4>1. RunsTyped' /\ OthersWait(p) /\ pc'[p] = "context" /\ loc'[p] = loc[p]
        BY <1>2, <1>a, <2>0, <3>2, StaysOn DEF SpendPoints, WithTx, Locking
      <4>2. res'[k].status # "reserved"
        BY <1>d, <1>t, <2>0, <2>1, <3>2
      <4>3. PICK d \in Deliveries : d = loc[p].delivery
        BY <1>d, <2>0
      <4>4. "context" \in Opening /\ (NoFault \/ Fault)
        BY <3>2 DEF Opening
      <4> QED
        BY <1>d, <1>k, <2>0, <3>1, <4>1, <4>2, <4>3, <4>4, OpeningGoesOn
    <3>3. CASE Goto(p, "idle") /\ Fault
      BY <1>2, <1>a, <2>0, <3>1, <3>3, Ends
    <3> QED
      BY <2>2, <3>2, <3>3
  <2>3. CASE ~ClaimableHold(k) /\ Dispatch(p, k, loc[p].delivery) /\ UNCHANGED <<res, budget>>
    <3>1. PICK d \in Deliveries : d = loc[p].delivery
      BY <1>d, <2>0
    <3>2. UNCHANGED <<op, chainVars, lease, budget, spendVars>>
      BY <1>2, <1>a, <2>3 DEF spendVars
    <3> QED
      BY <1>d, <2>0, <2>3, <3>1, <3>2, DispatchPreserves
  <2> QED
    BY <1>2, <1>k, <2>2, <2>3 DEF ClaimHold
<1>3. CASE LookupOperation(p) /\ UNCHANGED lock
  <2>0. pc[p] = "lookup" /\ pc[p] \notin Locking /\ UNCHANGED res
    BY <1>3 DEF LookupOperation, Locking, spendVars
  <2>1. CASE Goto(p, "context") /\ NoFault
    <3>1. RunsTyped' /\ OthersWait(p) /\ pc'[p] = "context" /\ loc'[p] = loc[p]
      BY <1>3, <1>a, <2>0, <2>1, StaysOn DEF SpendPoints, WithTx, Locking
    <3>2. PICK d \in Deliveries : d = loc[p].delivery
      BY <1>d, <2>0
    <3>3. "context" \in Opening /\ (NoFault \/ Fault) /\ res'[k].status # "reserved"
      BY <1>d, <2>0, <2>1 DEF Opening
    <3> QED
      BY <1>d, <1>k, <1>q, <2>0, <3>1, <3>2, <3>3, OpeningGoesOn
  <2>2. CASE Goto(p, "idle") /\ (NoFault \/ Fault)
    BY <1>3, <1>a, <1>q, <2>0, <2>2, Ends
  <2> QED
    BY <1>3, <2>1, <2>2 DEF LookupOperation
<1>4. CASE PersistContext(p) /\ UNCHANGED lock
  <2> DEFINE r == [res[k] EXCEPT !.context = loc[p].delivery]
  <2>0. pc[p] = "context" /\ pc[p] \notin Locking
    BY <1>4 DEF PersistContext, Locking
  <2>1. /\ r \in Reservation /\ r.hash = res[k].hash /\ r.status = res[k].status /\ r.context = loc[p].delivery
        /\ r.wallet = res[k].wallet /\ r.amount = res[k].amount /\ r.settled = res[k].settled
    BY <1>d, <2>0 DEF Reservation
  <2>2. ASSUME ContextMatches(k, loc[p].delivery), res' \in {res, [res EXCEPT ![k].context = loc[p].delivery]}
        PROVE  TablesGoOn(p)
    <3>1. res' \in {res, [res EXCEPT ![k] = r]}
      BY <1>t, <2>2
    <3>2. res[k].context \in {None, loc[p].delivery}
      BY <2>2 DEF ContextMatches
    <3>3. res[k].status \in Over => r = res[k]
      <4>1. res[k].status \in Over => res[k].context = loc[p].delivery
        BY <1>d, <1>t, <2>0, <3>2 DEF Settlement, Completion
      <4> QED
        BY <1>d, <2>0, <4>1 DEF Reservation
    <3> HIDE DEF r
    <3>4. PICK n \in Reservation : n = r
      BY <2>1
    <3>5. /\ res[k] # None => n.wallet = res[k].wallet /\ n.amount = res[k].amount
          /\ res[k].context # None => n.context = res[k].context
          /\ res[k].status # "reserved" => n.status # "reserved"
          /\ op[k] # None => res[k] # None /\ n.status # "reserved" /\ n.context # None
      BY <1>d, <2>0, <2>1, <3>2, <3>4
    <3>6. IF n.status \in Over
          THEN /\ op[k] # None /\ op[k].amount = n.settled /\ op[k].hash = n.hash
               /\ n.status = "settled" <=> n.settled > 0
               /\ n.status = "settled" => n.hash # None /\ SpendOf(k) \in spends
          ELSE n.hash = None
      BY <1>d, <1>t, <2>0, <2>1, <3>4 DEF Completion
    <3> QED
      BY <1>a, <3>1, <3>3, <3>4, <3>5, <3>6, ReservationTables
  <2>3. CASE /\ ContextMatches(k, loc[p].delivery) /\ res' = [res EXCEPT ![k].context = loc[p].delivery]
             /\ Goto(p, IF loc[p].amount = 0 THEN "zeroClaim" ELSE "claim") /\ NoFault
    <3> DEFINE x == IF loc[p].amount = 0 THEN "zeroClaim" ELSE "claim"
    <3>1. TablesGoOn(p)
      BY <2>2, <2>3
    <3>2. /\ x \in SpendPoints /\ x \notin WithTx /\ x \notin Locking /\ x # "idle" /\ x \in {"zeroClaim", "claim"}
          /\ x \notin Owning /\ x \notin Opening /\ (loc[p].amount = 0 <=> x = "zeroClaim")
      BY DEF SpendPoints, WithTx, Locking, Owning, Opening
    <3> HIDE DEF x
    <3>3. RunsTyped' /\ OthersWait(p) /\ pc'[p] = x /\ loc'[p] = loc[p]
      BY <1>4, <1>a, <2>0, <2>3, <3>2, StaysOn DEF x
    <3>4. res'[k] = r
      BY <1>t, <2>3
    <3>5. OnItsRow(p)' /\ AmountsFit(p)' /\ OwnsItsRow(p)' /\ EntersOwning(p)
      BY <1>d, <2>0, <3>2, <3>3 DEF OnItsRow, AmountsFit, OwnsItsRow, EntersOwning, WithTx
    <3>6. r # None
      BY <2>1, SpendNoneAssumption
    <3> HIDE DEF r
    <3>7. OnItsReservation(p)'
      BY <1>d, <1>k, <2>0, <2>1, <3>2, <3>3, <3>4, <3>6 DEF OnItsReservation
    <3> QED
      BY <2>3, <3>1, <3>3, <3>5, <3>7, BudgetStays, StepGoesOn DEF RunGoesOn, RunOK
  <2>4. CASE /\ Goto(p, "idle") /\ (NoFault \/ Fault)
             /\ \/ UNCHANGED res
                \/ ContextMatches(k, loc[p].delivery) /\ res' \in {res, [res EXCEPT ![k].context = loc[p].delivery]}
    BY <1>4, <1>a, <1>q, <2>0, <2>2, <2>4, Ends
  <2> QED
    BY <1>4, <1>k, <2>3, <2>4 DEF PersistContext
<1>5. CASE CompleteHold(p) /\ UNCHANGED lock
  <2>0. pc[p] = "settle" /\ pc[p] \notin Locking
    BY <1>5 DEF CompleteHold, Locking
  <2>r. /\ op[k] # None /\ op[k].wallet = loc[p].wallet /\ op[k].amount = loc[p].amount
        /\ op[k].hash = loc[p].tx /\ (loc[p].tx # None => Entry(p) \in spends /\ loc[p].amount # 0)
        /\ (loc[p].tx = None => loc[p].amount = 0)
    BY <1>k, <1>s, <1>t, <2>0 DEF OnItsRow, AmountsFit, SInv, HashesSound
  <2>n. loc[p].amount \in Nat /\ Lower(loc[p].amount, res[k].amount) = loc[p].amount
    <3>1. res[k].amount \in Nat /\ TokensOf[loc[p].delivery] \in Nat /\ loc[p].amount \in Nat
      BY <1>a, <1>d, <2>0, AmountsAssumption, SpendAssumption DEF Reservation, SpendLocals
    <3> QED
      BY <1>d, <2>0, <3>1 DEF Lower
  <2> DEFINE r == CompletedReservation(res[k], loc[p].delivery, loc[p].amount, loc[p].tx)
  <2>1. /\ r \in Reservation /\ r.hash = loc[p].tx /\ r.context = loc[p].delivery
        /\ r.wallet = res[k].wallet /\ r.amount = res[k].amount /\ r.settled = loc[p].amount
        /\ r.status = IF loc[p].amount > 0 THEN "settled" ELSE "released"
    BY <1>a, <1>d, <2>0, <2>n DEF CompletedReservation, Reservation, SpendLocals
  <2> HIDE DEF r
  <2>e. Entry(p) \in spends => SpendOf(k) \in spends
    BY <1>k, <2>r DEF Entry, SpendOf
  <2>2. ASSUME res[k].status \notin Over, res' \in {res, [res EXCEPT ![k] = r]}
        PROVE  TablesGoOn(p)
    <3>1. PICK n \in Reservation : n = r
      BY <2>1
    <3>2. /\ n.wallet = res[k].wallet /\ n.amount = res[k].amount /\ n.context = res[k].context
          /\ n.status # "reserved" /\ n.context # None
      BY <1>d, <2>0, <2>1, <3>1
    <3>3. /\ n.status \in Over /\ op[k].amount = n.settled /\ op[k].hash = n.hash
          /\ n.status = "settled" <=> n.settled > 0
          /\ n.status = "settled" => n.hash # None /\ SpendOf(k) \in spends
      BY <2>1, <2>e, <2>n, <2>r, <3>1 DEF Over
    <3> QED
      BY <1>a, <1>d, <2>0, <2>2, <2>r, <3>1, <3>2, <3>3, ReservationTables
  <2> DEFINE over == res[k].status \in {"settled", "released"}
  <2> DEFINE new == IF over THEN res ELSE [res EXCEPT ![k] = r]
  <2>3. ASSUME res' \in {res, new} PROVE TablesGoOn(p)
    BY <1>q, <2>2, <2>3 DEF Over
  <2>4. PICK x \in {"idle", "receipt"} :
          /\ Goto(p, x) /\ (NoFault \/ Fault) /\ res' \in {res, new}
          /\ x = "receipt" => res' = new /\ loc[p].tx # None
    BY <1>5, <1>k DEF CompleteHold, r
  <2>5. CASE x = "idle"
    BY <1>5, <1>a, <2>0, <2>3, <2>4, <2>5, Ends
  <2>6. CASE x = "receipt"
    <3>1. RunsTyped' /\ OthersWait(p) /\ pc'[p] = "receipt" /\ loc'[p] = loc[p]
      <4>1. loc[p].tx # None /\ GotoWith(p, "receipt", loc[p])
        BY <2>4, <2>6 DEF Goto, GotoWith, SInv, TypeOK
      <4> QED
        BY <1>5, <1>a, <2>0, <4>1, Moves DEF SpendPoints, Locking
    <3>2. res'[k] # None /\ res'[k].status = "settled" /\ res'[k].hash = loc[p].tx
      <4>1. CASE over
        <5>1. /\ op[k].amount = res[k].settled /\ op[k].hash = res[k].hash
              /\ res[k].status = "settled" <=> res[k].settled > 0
          BY <1>d, <1>t, <2>0, <4>1 DEF Completion, Over
        <5> QED
          BY <1>d, <2>0, <2>4, <2>6, <2>n, <2>r, <4>1, <5>1
      <4>2. CASE ~over
        BY <1>t, <2>1, <2>4, <2>6, <2>n, <2>r, <4>2, SpendNoneAssumption
      <4> QED
        BY <4>1, <4>2
    <3>3. Entry(p)' = Entry(p)
      BY <3>1 DEF Entry
    <3>4. OnItsRow(p)' /\ AmountsFit(p)' /\ OwnsItsRow(p)' /\ EntersOwning(p)
      BY <1>a, <1>k, <2>4, <2>6, <2>r, <3>1, <3>3
         DEF OnItsRow, AmountsFit, OwnsItsRow, EntersOwning, Owning, Opening, Locking
    <3>5. OnItsReservation(p)'
      BY <1>d, <1>k, <2>0, <3>1, <3>2 DEF OnItsReservation, Opening, Settles
    <3> QED
      BY <2>3, <2>4, <3>1, <3>4, <3>5, BudgetStays, StepGoesOn DEF RunGoesOn, RunOK
  <2> QED
    BY <2>4, <2>5, <2>6
<1> QED
  BY <1>1, <1>2, <1>3, <1>4, <1>5

\* New requests, the capacity check, and an operator's recovery.
LEMMA RequestsPreserve ==
  ASSUME SInv, NEW p \in Procs,
         \/ CheckCapacity(p)
         \/ \E k \in Keys : \/ Recover(p, k)
                            \/ \E a \in Amounts : \/ \E w \in Wallets : Reserve(p, k, w, a)
                                                  \/ \E i \in Intents : Spend(p, k, i, a)
  PROVE  SInv'
<1>1. CASE CheckCapacity(p)
  <2>0. /\ pc[p] = "capacity" /\ loc[p] \in SpendLocals /\ loc[p].key \in Keys
        /\ UNCHANGED <<op, chainVars, lease, balance, res, spends, receipts>>
    BY <1>1 DEF CheckCapacity, SInv, TypeOK, SpendLocals
  <2>1. TablesGoOn(p)
    BY <2>0, QuietTables
  <2>2. CASE Unlock(p) /\ Goto(p, "idle") /\ (NoFault \/ Fault)
    BY <2>0, <2>1, <2>2, Ends
  <2> DEFINE x == IF loc[p].key \in ReservationKeys THEN "hold" ELSE "claimManual"
  <2>3. CASE UNCHANGED lock /\ NoFault /\ Goto(p, x)
    <3>1. /\ x \in SpendPoints /\ x \in Locking /\ x \notin WithTx /\ x \in {"hold", "claimManual"}
          /\ x = "hold" => loc[p].key \in ReservationKeys
          /\ x = "claimManual" => loc[p].key \in ManualKeys
      BY <2>0 DEF SpendPoints, Locking, WithTx, ManualKeys
    <3> HIDE DEF x
    <3>2. RunsTyped' /\ OthersWait(p) /\ pc'[p] = x /\ loc'[p] = loc[p]
      BY <2>0, <2>3, <3>1, StaysOn DEF Locking
    <3>s. OnItsRow(p) /\ AmountsFit(p) /\ OnItsReservation(p) /\ OwnsItsRow(p)
      BY DEF SInv, RunsMatch
    <3>3. /\ x \notin Owning /\ x \notin Opening /\ x \notin Settles
          /\ x \notin {"zeroProject", "zeroClaim", "settle", "claim", "receipt", "claimHold"}
      BY <3>1 DEF Owning, Opening, Settles
    <3>4. OnItsRow(p)' /\ AmountsFit(p)' /\ OwnsItsRow(p)' /\ EntersOwning(p)
      BY <2>0, <3>1, <3>2, <3>3, <3>s
         DEF OnItsRow, AmountsFit, OwnsItsRow, EntersOwning, WithTx, Owning, Locking
    <3>5. OnItsReservation(p)'
      BY <2>0, <3>1, <3>2, <3>3, <3>s DEF OnItsReservation, WithTx, Opening
    <3> QED
      BY <2>1, <2>3, <3>2, <3>4, <3>5, BudgetStays, StepGoesOn DEF RunGoesOn, RunOK
  <2> QED
    BY <1>1, <2>2, <2>3 DEF CheckCapacity
<1>2. ASSUME NEW k \in Keys, NEW a \in Amounts, NEW w \in Wallets, NEW i \in Intents,
             pc[p] = "idle", a > 0, lock[w] = None, lock' = [lock EXCEPT ![w] = p],
             GotoWith(p, "capacity", Memory(k, i, w, a, None, None, balance[w])),
             UNCHANGED <<op, chainVars, lease, budget, balance, res, spends, receipts>>
      PROVE  SInv'
  <2> DEFINE m == Memory(k, i, w, a, None, None, balance[w])
  <2>1. /\ m \in SpendLocals /\ m.key = k /\ m.wallet = w /\ m.amount = a
        /\ m.tx = None /\ m.delivery = None
    BY DEF Memory, SpendLocals, SInv, TypeOK
  <2> HIDE DEF m
  <2>2. RunsTyped' /\ OthersWait(p) /\ pc'[p] = "capacity" /\ loc'[p] = m
    <3>1. \E v \in Wallets :
            /\ lock[v] = None /\ lock' = [lock EXCEPT ![v] = p]
            /\ pc[p] \notin Locking /\ "capacity" \in Locking /\ m.wallet = v
      BY <1>2, <2>1 DEF Locking
    <3>2. "capacity" \in SpendPoints /\ "capacity" \notin WithTx /\ GotoWith(p, "capacity", m)
      BY <1>2 DEF SpendPoints, WithTx, m
    <3> QED
      BY <2>1, <3>1, <3>2, Moves
  <2>3. TablesGoOn(p)
    BY <1>2, QuietTables
  <2>4. a # 0
    BY <1>2, AmountsAssumption
  <2>5. RunOK(p)' /\ EntersOwning(p)
    BY <2>1, <2>2, <2>4 DEF RunOK, OnItsRow, AmountsFit, OnItsReservation, OwnsItsRow, EntersOwning,
       WithTx, Owning, Opening, Settles, Locking
  <2> QED
    BY <1>2, <2>2, <2>3, <2>5, BudgetStays, StepGoesOn DEF RunGoesOn, NoFault
<1>3. ASSUME NEW k \in Keys, NEW a \in Amounts, NEW w \in Wallets, Reserve(p, k, w, a)
      PROVE  SInv'
  <2>1. SettlementIntent \in Intents
    BY SpendAssumption
  <2> QED
    BY <1>2, <1>3, <2>1 DEF Reserve, Free
<1>4. ASSUME NEW k \in Keys, NEW a \in Amounts, NEW i \in Intents, Spend(p, k, i, a)
      PROVE  SInv'
  <2>1. PICK w \in Wallets : w = ManagedWallet[k]
    BY SpendAssumption
  <2>2. CASE /\ lock' = [lock EXCEPT ![w] = p]
             /\ GotoWith(p, "capacity", Memory(k, i, w, a, None, None, balance[w]))
    BY <1>2, <1>4, <2>1, <2>2 DEF Spend, Free
  <2> DEFINE m == Memory(k, i, w, op[k].amount, op[k].hash, None, 0)
  <2> DEFINE x == SpendReplayPoint(k, None)
  <2>3. CASE op[k] # None /\ SameSpend(k, i, w, a) /\ UNCHANGED lock /\ GotoWith(p, x, m)
    <3>1. /\ m \in SpendLocals /\ m.key = k /\ m.wallet = w /\ m.amount = op[k].amount
          /\ m.tx = op[k].hash /\ m.delivery = None
      <4>1. op[k] \in Row
        BY <2>3 DEF SInv, TypeOK, OperationsTypeOK
      <4> QED
        BY <4>1 DEF Memory, SpendLocals, Row
    <3>2. /\ x \in SpendPoints /\ x \notin Locking /\ (x \in WithTx => op[k].hash # None)
      BY DEF SpendReplayPoint, Finished, SpendPoints, Locking, WithTx
    <3>3. /\ pc[p] = "idle" /\ UNCHANGED <<op, chainVars, lease, budget, balance, res, spends, receipts>>
          /\ k \in ManualKeys
      BY <1>4 DEF Spend
    <3> HIDE DEF m, x
    <3>4. /\ RunsTyped' /\ OthersWait(p) /\ pc'[p] = x /\ (x # "idle" => loc'[p] = m)
      BY <2>3, <3>1, <3>2, <3>3, Moves DEF Locking
    <3>5. TablesGoOn(p)
      BY <3>3, QuietTables
    <3>6. op[k].wallet = w
      BY <2>3 DEF SameSpend, SameIntent
    <3>n. PICK n \in SpendLocals : n = m
      BY <3>1
    <3>7. RunOK(p)' /\ EntersOwning(p)
      <4>1. /\ n.key = k /\ n.tx = op[k].hash /\ n.amount = op[k].amount /\ n.wallet = op[k].wallet
            /\ n.delivery = None /\ (x # "idle" => loc'[p] = n) /\ op[k] # None /\ op' = op
        BY <2>3, <3>1, <3>3, <3>4, <3>6, <3>n
      <4>2. PICK y : y = x
        OBVIOUS
      <4> QED
        BY <3>3, <3>4, <3>5, <4>1, <4>2, ReplayGoesOn DEF x
    <3> QED
      BY <3>3, <3>4, <3>5, <3>7, BudgetStays, StepGoesOn DEF RunGoesOn, NoFault
  <2> QED
    BY <1>4, <2>1, <2>2, <2>3 DEF Spend
<1>5. ASSUME NEW k \in Keys, Recover(p, k)
      PROVE  SInv'
  <2>0. /\ pc[p] = "idle" /\ op[k] # None /\ op[k].hash # None
        /\ UNCHANGED <<op, chainVars, lease, budget, balance, res, lock, spends, receipts>>
    BY <1>5 DEF Recover, spendVars
  <2>1. k \in ReservationKeys => res[k] # None /\ res[k].status \in Over
    <3>1. ASSUME k \in ReservationKeys PROVE res[k] # None /\ res[k].status \in Over
      <4>1. Settlement(k) /\ Completion(k) /\ RecoverableReservation(k)
        BY <1>5, <3>1 DEF Recover, SInv, ReservationsMatch
      <4> QED
        BY <2>0, <4>1 DEF Settlement, Completion, RecoverableReservation, Over
    <3> QED
      BY <3>1
  <2>2. RecoveredDelivery(k) = None
    BY <2>1 DEF RecoveredDelivery, Over
  <2> DEFINE m == Memory(k, op[k].intent, op[k].wallet, op[k].amount, op[k].hash, RecoveredDelivery(k), 0)
  <2> DEFINE x == IF op[k].status = "projected" THEN "freshProjected" ELSE "fresh"
  <2>3. /\ m \in SpendLocals /\ m.key = k /\ m.wallet = op[k].wallet /\ m.amount = op[k].amount
        /\ m.tx = op[k].hash /\ m.delivery = None
    <3>1. op[k] \in Row
      BY <2>0 DEF SInv, TypeOK, OperationsTypeOK
    <3> QED
      BY <2>2, <3>1 DEF Memory, SpendLocals, Row
  <2>4. /\ x \in SpendPoints /\ x \notin Locking /\ x # "idle" /\ x \in {"fresh", "freshProjected"}
        /\ x = "freshProjected" => op[k].status = "projected"
    BY DEF SpendPoints, Locking
  <2>5. GotoWith(p, x, m)
    BY <1>5 DEF Recover
  <2> HIDE DEF m, x
  <2>6. RunsTyped' /\ OthersWait(p) /\ pc'[p] = x /\ loc'[p] = m
    BY <2>0, <2>3, <2>4, <2>5, Moves DEF Locking
  <2>7. TablesGoOn(p)
    BY <2>0, QuietTables
  <2>8. RunOK(p)' /\ EntersOwning(p)
    BY <2>0, <2>1, <2>3, <2>4, <2>6 DEF RunOK, OnItsRow, AmountsFit, OnItsReservation, OwnsItsRow, EntersOwning,
       WithTx, Owning, Opening, Settles, Locking
  <2> QED
    BY <2>0, <2>6, <2>7, <2>8, BudgetStays, StepGoesOn DEF RunGoesOn, NoFault
<1> QED
  BY <1>1, <1>3, <1>4, <1>5

\* The spend is recorded, and its receipt signed.
LEMMA ProjectionPreserves ==
  ASSUME SInv, NEW p \in Procs, RecordSpend(p) \/ Receipt(p)
  PROVE  SInv'
<1>a. /\ pc[p] \in {"record", "receipt"} /\ loc[p] \in SpendLocals /\ loc[p].key \in Keys
      /\ loc[p].tx # None /\ loc[p].tx \in Tx
      /\ UNCHANGED <<op, chainVars, lease, balance, res, lock>> /\ Entry(p) \in SpendRow
  <2>1. pc[p] \in {"record", "receipt"}
    BY DEF RecordSpend, Receipt
  <2>2. loc[p] \in SpendLocals /\ loc[p].key \in Keys /\ loc[p].tx # None /\ loc[p].tx \in Tx
    BY <2>1 DEF SInv, TypeOK, SpendLocals, WithTx
  <2>3. Entry(p) \in SpendRow
    BY <2>2 DEF Entry, SpendRow, SpendLocals
  <2> QED
    BY <2>1, <2>2, <2>3 DEF RecordSpend, Receipt
<1>s. OnItsRow(p) /\ OnItsReservation(p)
  BY DEF SInv, RunsMatch
<1>e. PICK e \in SpendRow : e = Entry(p)
  BY <1>a
<1>1. CASE RecordSpend(p)
  <2>1. spends' \in {spends, spends \cup {e}} /\ receipts' = receipts
    BY <1>1, <1>e DEF RecordSpend
  <2>2. TablesGoOn(p)
    BY <1>a, <2>1, RecordTables
  <2>3. PICK x \in {"complete", "projectionError"} :
          Goto(p, x) /\ (NoFault \/ Fault) /\ (x = "complete" => Entry(p) \in spends')
    BY <1>1 DEF RecordSpend
  <2>4. RunsTyped' /\ OthersWait(p) /\ pc'[p] = x /\ loc'[p] = loc[p]
    BY <1>1, <1>a, <2>3, StaysOn DEF SpendPoints, WithTx, Locking, RecordSpend
  <2>5. RunOK(p)' /\ EntersOwning(p)
    <3>1. /\ x \in (WithTx \ {"freshProjected"}) \cup {"settle"} /\ x # "idle" /\ pc[p] \in WithTx \ {"receipt"}
          /\ x \notin {"settle", "receipt", "failNoMovement"}
      BY <1>1, <2>3 DEF WithTx, RecordSpend
    <3> QED
      BY <2>2, <2>3, <2>4, <3>1, TransferGoesOn
  <2> QED
    BY <2>2, <2>3, <2>4, <2>5, BudgetStays, StepGoesOn DEF RunGoesOn
<1>2. CASE Receipt(p)
  <2>0. pc[p] = "receipt" /\ receipts' \in {receipts, receipts \cup {e}} /\ spends' = spends
    BY <1>2, <1>e DEF Receipt
  <2>1. /\ op[loc[p].key] # None /\ op[loc[p].key].hash = loc[p].tx
        /\ op[loc[p].key].amount = loc[p].amount /\ op[loc[p].key].wallet = loc[p].wallet
        /\ Entry(p) \in spends
    BY <1>a, <1>s, <2>0 DEF OnItsRow, WithTx
  <2>2. loc[p].tx.key = loc[p].key
    <3>1. lease[loc[p].key] # None /\ lease[loc[p].key].tx = loc[p].tx /\ lease[loc[p].key].tx.key = loc[p].key
      BY <1>a, <2>1 DEF SInv, TransfersMatch, LeaseMatchesRow
    <3> QED
      BY <3>1
  <2>3. loc[p].tx.amount = loc[p].amount /\ loc[p].tx.wallet = loc[p].wallet
    BY <1>a, <2>1 DEF SInv, HashesSound
  <2>4. loc[p].key \in ReservationKeys => res[loc[p].key].status = "settled" /\ res[loc[p].key].hash = loc[p].tx
    BY <1>s, <2>0 DEF OnItsReservation, WithTx
  <2>5. e.key = loc[p].key /\ e.tx = loc[p].tx /\ e.amount = loc[p].amount /\ e.wallet = loc[p].wallet
    BY <1>e DEF Entry
  <2>6. TablesGoOn(p)
    BY <1>a, <1>e, <2>0, <2>1, <2>2, <2>3, <2>4, <2>5, RecordTables
  <2> QED
    BY <1>2, <1>a, <2>0, <2>6, Ends DEF Receipt, Locking
<1> QED
  BY <1>1, <1>2

\* A crash, and the chain.
LEMMA EnvironmentPreserves ==
  ASSUME SInv, (\E p \in Procs : CrashSpend(p)) \/ Environment
  PROVE  SInv'
<1>1. ASSUME NEW p \in Procs, CrashSpend(p) PROVE SInv'
  <2>1. TablesGoOn(p)
    BY <1>1, QuietTables DEF CrashSpend, Crash
  <2> QED
    BY <1>1, <2>1, Ends DEF CrashSpend, Crash
<1>2. CASE Environment
  <2>0. /\ UNCHANGED <<op, lease, pc, loc, res, lock, spends, receipts>>
        /\ \E t \in pool : Evict(t) \/ \E ok \in BOOLEAN : Mine(t, ok)
    BY <1>2 DEF Environment, MineSpend, EvictOne, spendVars
  <2>1. BudgetTyped' /\ balance' \in [Wallets -> Nat]
    <3>0. /\ budget \in [faults: Nat, reverts: Nat, evictions: Nat] /\ balance \in [Wallets -> Nat]
          /\ \A t \in pool : t.wallet \in Wallets /\ t.amount \in Nat
      BY AmountsAssumption DEF SInv, TypeOK, ChainTypeOK, Tx
    <3>1. CASE MineSpend
      <4>1. PICK t \in pool :
              \/ UNCHANGED <<balance, budget>>
              \/ /\ balance[t.wallet] >= t.amount /\ NoFault
                 /\ balance' = [balance EXCEPT ![t.wallet] = @ - t.amount]
              \/ UNCHANGED balance /\ budget.reverts > 0 /\ budget' = [budget EXCEPT !.reverts = @ - 1]
        BY <3>1 DEF MineSpend, NoFault
      <4> QED
        BY <3>0, <4>1 DEF NoFault, BudgetTyped
    <3>2. CASE EvictOne /\ UNCHANGED spendVars
      BY <3>0, <3>2 DEF EvictOne, spendVars, BudgetTyped
    <3> QED
      BY <1>2, <3>1, <3>2 DEF Environment
  <2>2. ChainTypeOK' /\ TransfersMatch' /\ reverted \subseteq reverted'
    BY <2>0, Parts, ChainMatches DEF Tables, TableTypes
  <2>3. TablesGoOn(None)
    BY <2>0, <2>1, <2>2, ChainTables
  <2>4. \A q \in Procs : RunOK(q)'
    BY <2>0, <2>3, SpendNoneAssumption, OthersRely
  <2>5. RunsTyped'
    BY <2>0, Parts DEF RunsTyped
  <2>6. TypeOK' /\ TransfersMatch' /\ HashesSound' /\ ProjectedAreRecorded' /\ ReservationsMatch' /\ ReceiptsMatch'
    BY <2>1, <2>3, <2>5 DEF TablesGoOn, Tables, TableTypes, TablesTyped, RunsTyped, BudgetTyped, TypeOK
  <2>7. OwnersExclude'
    BY <2>0 DEF SInv, OwnersExclude
  <2>8. RunsMatch'
    BY <2>4 DEF RunsMatch, RunOK
  <2> QED
    BY <2>6, <2>7, <2>8 DEF SInv
<1> QED
  BY <1>1, <1>2
-----------------------------------------------------------------------------
(* The inductive invariant, and what follows from it.                      *)

LEMMA InitSInv == Init => SInv
<1> SUFFICES ASSUME Init PROVE SInv
  OBVIOUS
<1>0. /\ op = [k \in Keys |-> None] /\ lease = [k \in Keys |-> None]
      /\ pool = {} /\ paid = {} /\ reverted = {}
      /\ pc = [p \in Procs |-> "idle"] /\ loc = [p \in Procs |-> None]
      /\ res = [k \in ReservationKeys |-> None] /\ spends = {} /\ receipts = {}
  BY DEF Init, OperationsInit, ChainInit, LeaseInit
<1>1. TypeOK
  <2>1. OperationsTypeOK /\ ChainTypeOK /\ LeaseTypeOK
    BY <1>0 DEF OperationsTypeOK, ChainTypeOK, LeaseTypeOK
  <2>2. /\ balance \in [Wallets -> Nat] /\ lock \in [Wallets -> Procs \cup {None}]
        /\ budget \in [faults: Nat, reverts: Nat, evictions: Nat]
    BY SpendAssumption, SpendBoundsAssumption DEF Init
  <2>3. /\ pc \in [Procs -> SpendPoints] /\ loc \in [Procs -> SpendLocals \cup {None}]
        /\ res \in [ReservationKeys -> Reservation \cup {None}]
        /\ spends \subseteq SpendRow /\ receipts \subseteq SpendRow
    BY <1>0 DEF SpendPoints
  <2>4. \A p \in Procs : pc[p] = "idle" /\ loc[p] = None /\ pc[p] \notin WithTx /\ pc[p] \notin Locking
    BY <1>0 DEF WithTx, Locking
  <2>5. \A p \in Procs, w \in Wallets : lock[w] # p
    BY SpendNoneAssumption DEF Init
  <2> QED
    BY <2>1, <2>2, <2>3, <2>4, <2>5 DEF TypeOK
<1>2. TransfersMatch
  BY <1>0 DEF TransfersMatch, LeaseMatchesRow, NonceNeverReused, ChainIsLeased, Leased
<1>3. HashesSound /\ ProjectedAreRecorded /\ ReservationsMatch /\ ReceiptsMatch
  BY <1>0, SpendAssumption DEF HashesSound, ProjectedAreRecorded, ReservationsMatch, Settlement, Completion, ReceiptsMatch
<1>4. RunsMatch /\ OwnersExclude
  BY <1>0 DEF RunsMatch, OnItsRow, AmountsFit, OnItsReservation, OwnsItsRow, OwnersExclude, WithTx,
     Owning, Opening, Settles, Locking
<1> QED
  BY <1>1, <1>2, <1>3, <1>4 DEF SInv

LEMMA StutterSInv == SInv /\ UNCHANGED vars => SInv'
<1> SUFFICES ASSUME SInv, UNCHANGED vars PROVE SInv'
  OBVIOUS
<1>u. UNCHANGED <<op, pool, paid, reverted, lease, pc, loc, budget, balance, res, lock, spends, receipts>>
  BY DEF vars, spendVars
<1>1. TablesGoOn(None)
  BY <1>u, QuietTables DEF chainVars
<1>2. \A q \in Procs : RunOK(q)'
  BY <1>1, <1>u, SpendNoneAssumption, OthersRely
<1>3. TypeOK' /\ OwnersExclude'
  BY <1>u DEF SInv, TypeOK, OperationsTypeOK, ChainTypeOK, LeaseTypeOK, OwnersExclude
<1> QED
  BY <1>1, <1>2, <1>3 DEF SInv, TablesGoOn, Tables, RunsMatch, RunOK

\* The kinds of steps, as the lemmas above treat them.
LEMMA NextSInv == SInv /\ Next => SInv'
<1> SUFFICES ASSUME SInv, Next PROVE SInv'
  OBVIOUS
<1>1. ASSUME NEW p \in Procs, Claiming(p) PROVE SInv'
  <2>1. CASE Check(p)
    BY <2>1, ReadsPreserve DEF Check
  <2>2. CASE CheckCapacity(p)
    BY <2>2, RequestsPreserve
  <2>3. CASE Hold(p)
    BY <2>3, ReservationsPreserve
  <2>4. CASE ClaimManual(p)
    BY <2>4, ClaimsPreserve
  <2> QED
    BY <1>1, <2>1, <2>2, <2>3, <2>4 DEF Claiming
<1>2. ASSUME NEW p \in Procs, Settling(p) PROVE SInv'
  <2>1. CASE ZeroProject(p)
    BY <2>1, MarksPreserve DEF ZeroProject, MarkStep
  <2>2. CASE ClaimSettlement(p) \/ ZeroClaim(p)
    BY <2>2, ClaimsPreserve DEF ClaimSettlement, ZeroClaim, spendVars
  <2>3. CASE ClaimHold(p) \/ LookupOperation(p) \/ PersistContext(p) \/ CompleteHold(p)
    BY <2>3, ReservationsPreserve DEF ClaimHold, LookupOperation, PersistContext, CompleteHold, spendVars
  <2> QED
    BY <1>2, <2>1, <2>2, <2>3 DEF Settling
<1>3. ASSUME NEW p \in Procs, Transferring(p) PROVE SInv'
  <2>1. UNCHANGED spendVars
    BY <1>3 DEF Transferring
  <2>2. CASE MarkStep(p)
    BY <2>1, <2>2, MarksPreserve
  <2>3. CASE Verify(p) \/ VerifyFresh(p) \/ PrepareRefused(p)
    BY <2>1, <2>3, ReadsPreserve
  <2> QED
    BY <1>3, <2>1, <2>2, <2>3, PreparePreserves, BroadcastPreserves
       DEF Transferring, SubmissionStep, EvidenceStep, MarkStep
<1>4. ASSUME NEW p \in Procs, Projection(p) PROVE SInv'
  <2>1. CASE CompleteSpend(p)
    BY <2>1, MarksPreserve DEF CompleteSpend, MarkStep
  <2>2. CASE VerifyProjected(p)
    BY <2>2, ReadsPreserve DEF VerifyProjected
  <2> QED
    BY <1>4, <2>1, <2>2, ProjectionPreserves DEF Projection
<1>5. ASSUME NEW p \in Procs, Start(p) PROVE SInv'
  <2>1. ASSUME NEW k \in Keys, NEW d \in Deliveries, Settle(p, k, d) PROVE SInv'
    <3>1. /\ k \in ReservationKeys /\ res[k] # None /\ Dispatch(p, k, d)
          /\ pc[p] \notin Locking /\ UNCHANGED <<op, chainVars, lease, budget, spendVars>>
      BY <2>1 DEF Settle, Locking
    <3> QED
      BY <3>1, DispatchPreserves
  <2> QED
    BY <1>5, <2>1, RequestsPreserve DEF Start
<1> QED
  BY <1>1, <1>2, <1>3, <1>4, <1>5, EnvironmentPreserves DEF Next, Step

LEMMA SpendsInductive == Spec => []SInv
BY InitSInv, NextSInv, StutterSInv, PTL DEF Spec

\* Every variable keeps its type; a run past its broadcast has a signed
\* transfer, and the advisory lock of a wallet is held exactly by the run
\* whose open transaction checks its capacity.
THEOREM SpendsTypeCorrect == Spec => []TypeOK
<1>1. SInv => TypeOK
  BY DEF SInv
<1> QED
  BY <1>1, SpendsInductive, PTL

\* Every transfer the treasury signed for a spend or a settlement is saved
\* before it is broadcast, at a nonce of its own.
THEOREM SpendsTraceable == Spec => [](MovementIsTraceable /\ NonceNeverReused)
<1>1. SInv => MovementIsTraceable /\ NonceNeverReused
  BY DEF SInv, TransfersMatch, ChainIsLeased, LeaseMatchesRow, TypeOK, ChainTypeOK, Tx,
     MovementIsTraceable, Known, Mined
<1> QED
  BY <1>1, SpendsInductive, PTL

\* A row that says no tokens moved is right: a spend or a settlement that
\* failed is not paid and cannot be mined any more.
THEOREM SpendsNoMovement == Spec => []NoMovementIsTrue
<1>1. SInv => NoMovementIsTrue
  <2> SUFFICES ASSUME SInv, NEW k \in Keys, op[k] # None, op[k].outcome = "no_movement",
                      NEW t \in pool \cup paid, t.key = k
               PROVE  FALSE
    BY DEF NoMovementIsTrue
  <2>1. op[k].hash = t /\ t # None
    BY NoneAssumption DEF SInv, TransfersMatch, ChainIsLeased, LeaseMatchesRow, TypeOK, ChainTypeOK
  <2>2. t \in reverted
    BY <2>1 DEF SInv, HashesSound
  <2> QED
    BY <2>2 DEF SInv, TransfersMatch, ChainIsLeased
<1> QED
  BY <1>1, SpendsInductive, PTL

\* A terminal reservation is the settlement of the first final CDR: its
\* operation and the only transfer of its key have the delivered amount,
\* bounded by the hold.
THEOREM SettlementsFollowCdr == Spec => []SettlementFollowsCdr
<1>1. SInv => SettlementFollowsCdr
  <2> SUFFICES ASSUME SInv, NEW k \in ReservationKeys, res[k] # None, res[k].status \in {"settled", "released"}
               PROVE  /\ op[k] # None /\ op[k].amount = res[k].settled /\ op[k].hash = res[k].hash
                      /\ res[k].context # None
                      /\ res[k].settled = Lower(res[k].amount, TokensOf[res[k].context])
                      /\ res[k].status = "settled" <=> res[k].settled > 0
                      /\ \A t \in Known : t.key = k =>
                           t = res[k].hash /\ t.wallet = res[k].wallet /\ t.amount = res[k].settled
    BY DEF SettlementFollowsCdr
  <2>1. Settlement(k) /\ Completion(k) /\ k \in Keys
    BY SpendAssumption DEF SInv, ReservationsMatch
  <2>2. /\ op[k] # None /\ op[k].amount = res[k].settled /\ op[k].hash = res[k].hash
        /\ res[k].context # None /\ op[k].wallet = res[k].wallet
        /\ res[k].settled = Lower(res[k].amount, TokensOf[res[k].context])
        /\ res[k].status = "settled" <=> res[k].settled > 0
    BY <2>1 DEF Settlement, Completion, Over
  <2>3. ASSUME NEW t \in Known, t.key = k
        PROVE  t = res[k].hash /\ t.wallet = res[k].wallet /\ t.amount = res[k].settled
    <3>0. lease[k] # None /\ lease[k].tx = t /\ t # None
      BY <2>3, NoneAssumption DEF SInv, TransfersMatch, ChainIsLeased, TypeOK, ChainTypeOK, Known, Mined
    <3>1. op[k].hash = t /\ t # None
      BY <2>1, <3>0 DEF SInv, TransfersMatch, LeaseMatchesRow
    <3>2. op[k].hash.wallet = op[k].wallet /\ op[k].hash.amount = op[k].amount
      BY <2>1, <2>2, <3>1 DEF SInv, HashesSound
    <3> QED
      BY <2>2, <3>1, <3>2
  <2> QED
    BY <2>2, <2>3
<1> QED
  BY <1>1, SpendsInductive, PTL

\* A receipt tells what its operation did: the saved amount and wallet, the
\* signed transfer, a recorded spend, and a reservation settled with it.
THEOREM ReceiptsTruthful == Spec => []ReceiptsMatch
<1>1. SInv => ReceiptsMatch
  BY DEF SInv
<1> QED
  BY <1>1, SpendsInductive, PTL

\* How the steps move a reservation on.
LEMMA StepsMoveForward == SInv /\ [Next]_vars => ReservationsEvolve
<1>1. ASSUME SInv, [Next]_vars PROVE ReservationsEvolve
  <2>t. res \in [ReservationKeys -> Reservation \cup {None}]
    BY <1>1 DEF SInv, TypeOK
  <2>1. CASE UNCHANGED res
    BY <2>1 DEF ReservationsEvolve
  <2>2. ASSUME NEW p \in Procs, Hold(p) \/ ClaimHold(p) \/ PersistContext(p) \/ CompleteHold(p)
        PROVE  ReservationsEvolve
    <3>0. /\ pc[p] \in {"hold", "claimHold", "context", "settle"}
          /\ OnItsReservation(p) /\ OnItsRow(p)
      BY <1>1, <2>2 DEF Hold, ClaimHold, PersistContext, CompleteHold, SInv, RunsMatch
    <3>b. loc[p].key \in ReservationKeys
      BY <3>0 DEF OnItsReservation, Settles, Opening
    <3>k. PICK k \in ReservationKeys : k = loc[p].key
      BY <3>b
    <3>s. Settlement(k) /\ Completion(k) /\ (res[k] # None => res[k] \in Reservation)
      BY <1>1, <2>t DEF SInv, ReservationsMatch
    <3>1. ASSUME NEW r, res' \in {res, [res EXCEPT ![k] = r]},
                 res[k] # None =>
                   /\ r # None /\ r.wallet = res[k].wallet /\ r.amount = res[k].amount
                   /\ res[k].context # None => r.context = res[k].context
                   /\ res[k].status # "reserved" => r.status # "reserved"
                   /\ res[k].status \in Over => r = res[k]
          PROVE  ReservationsEvolve
      <4>1. /\ \A l \in ReservationKeys \ {k} : res'[l] = res[l]
            /\ res'[k] = res[k] \/ res'[k] = r
        BY <2>t, <3>1
      <4> QED
        BY <3>1, <4>1 DEF ReservationsEvolve, Over
    <3>2. CASE Hold(p)
      BY <2>1, <3>1, <3>2, <3>k DEF Hold
    <3>3. CASE ClaimHold(p)
      <4> DEFINE r == [res[k] EXCEPT !.status = "settling"]
      <4>1. res[k] # None
        BY <3>3, <3>0, <3>k DEF OnItsReservation, ClaimHold, Settles, Opening
      <4>2. /\ r.wallet = res[k].wallet /\ r.amount = res[k].amount /\ r.context = res[k].context
            /\ r.status = "settling" /\ r \in Reservation /\ r # None
        BY <3>s, <4>1, SpendNoneAssumption DEF Reservation
      <4>3. res' = res \/ (res[k].status = "reserved" /\ res' \in {res, [res EXCEPT ![k] = r]})
        BY <2>t, <3>3, <3>k DEF ClaimHold, ClaimableHold
      <4> HIDE DEF r
      <4> QED
        BY <2>1, <3>1, <4>2, <4>3 DEF Over
    <3>4. CASE PersistContext(p)
      <4> DEFINE d == loc[p].delivery
      <4> DEFINE r == [res[k] EXCEPT !.context = d]
      <4>1. res[k] # None /\ d \in Deliveries
        BY <1>1, <3>4, <3>0, <3>k DEF OnItsReservation, PersistContext, Settles, Opening, SInv, TypeOK, SpendLocals
      <4>2. /\ r.wallet = res[k].wallet /\ r.amount = res[k].amount /\ r.context = d
            /\ r.status = res[k].status /\ r \in Reservation /\ r # None
        BY <3>s, <4>1, SpendNoneAssumption DEF Reservation
      <4>3. res' = res \/ (res[k].context \in {None, d} /\ res' \in {res, [res EXCEPT ![k] = r]})
        BY <2>t, <3>4, <3>k DEF PersistContext, ContextMatches
      <4>4. res[k].status \in Over /\ res[k].context \in {None, d} => r = res[k]
        <5>1. res[k].status \in Over => res[k].context # None
          BY <3>s, <4>1 DEF Settlement, Completion
        <5> QED
          BY <3>s, <4>1, <5>1 DEF Reservation
      <4> HIDE DEF r
      <4> QED
        BY <2>1, <3>1, <4>2, <4>3, <4>4
    <3>5. CASE CompleteHold(p)
      <4> DEFINE d == loc[p].delivery
      <4> DEFINE r == CompletedReservation(res[k], d, loc[p].amount, loc[p].tx)
      <4>1. res[k] # None /\ res[k].context = d
        BY <3>5, <3>0, <3>k DEF OnItsReservation, CompleteHold, Settles, Opening
      <4>2. /\ r.wallet = res[k].wallet /\ r.amount = res[k].amount /\ r.context = d
            /\ r.status \in Over /\ r # None
        <5>1. r.wallet = res[k].wallet /\ r.amount = res[k].amount /\ r.context = d /\ r.status \in Over
          BY <3>s, <4>1 DEF CompletedReservation, Reservation, Over
        <5>2. r \in Reservation
          <6>1. /\ loc[p].amount \in Amounts /\ d \in Deliveries \cup {None} /\ loc[p].tx \in Tx \cup {None}
                /\ res[k].amount \in Amounts
            BY <1>1, <3>5, <3>s, <4>1 DEF CompleteHold, SInv, TypeOK, SpendLocals, Reservation
          <6>2. Lower(loc[p].amount, res[k].amount) \in Amounts
            BY <6>1 DEF Lower
          <6> QED
            BY <3>s, <4>1, <6>1, <6>2 DEF CompletedReservation, Reservation
        <5> QED
          BY <5>1, <5>2, SpendNoneAssumption
      <4>3. res' = res \/ (res[k].status \notin Over /\ res' \in {res, [res EXCEPT ![k] = r]})
        BY <3>5, <3>k DEF CompleteHold, Over
      <4> HIDE DEF r
      <4> QED
        BY <2>1, <3>1, <4>1, <4>2, <4>3 DEF Over
    <3> QED
      BY <2>2, <3>2, <3>3, <3>4, <3>5
  <2>3. ASSUME NEW p \in Procs, Step(p) PROVE ReservationsEvolve
    <3>1. CASE Claiming(p)
      BY <2>1, <2>2, <3>1 DEF Claiming, CheckCapacity, ClaimManual, Check, spendVars
    <3>2. CASE Settling(p)
      BY <2>1, <2>2, <3>2 DEF Settling, LookupOperation, ClaimSettlement, ZeroClaim, ZeroProject, spendVars
    <3>3. CASE Transferring(p) \/ Projection(p)
      BY <2>1, <3>3 DEF Transferring, Projection, RecordSpend, CompleteSpend, Receipt, VerifyProjected, spendVars
    <3> QED
      BY <2>3, <3>1, <3>2, <3>3 DEF Step
  <2>4. ASSUME NEW p \in Procs, Start(p) \/ CrashSpend(p) PROVE ReservationsEvolve
    BY <2>1, <2>4 DEF Start, Recover, Settle, Reserve, Spend, CrashSpend, spendVars
  <2>5. CASE Environment \/ UNCHANGED vars
    BY <2>1, <2>5 DEF Environment, MineSpend, spendVars, vars
  <2> QED
    BY <1>1, <2>3, <2>4, <2>5 DEF Next
<1> QED
  BY <1>1

\* No step reopens a reservation, changes its hold, replaces the delivery it
\* was claimed with, or touches one that is over.
THEOREM ReservationsForward == Spec => ReservationsMoveForward
<1>1. SInv /\ [Next]_vars => [ReservationsEvolve]_vars
  BY StepsMoveForward
<1> QED
  BY <1>1, SpendsInductive, PTL DEF Spec, ReservationsMoveForward, ReservationsEvolve
-----------------------------------------------------------------------------
(* Admission within funds. A run that found its request covered holds the  *)
(* lock of its wallet until it writes the row, so nothing else is admitted *)
(* to that wallet in between, and what is admitted only ever ends.         *)

\* A row that failed before it had a hash says so, and a row that says that
\* nothing moved is over.
Decided(r) ==
  /\ r.status = "failed" /\ r.hash = None => r.outcome = "no_movement"
  /\ r.outcome = "no_movement" => r.status \in {"failed", "projected"}

RowsDecided == \A k \in Keys : op[k] # None => Decided(op[k])

\* What wallet w owes apart from the keys of K.
Besides(w, K) == Active(w) \ K

Admitting == {"hold", "claimManual"}

\* A sample is a balance the wallet had, and a covered request fits beside
\* everything else the wallet owes.
FitsFunds(p) ==
  /\ pc[p] = "capacity" => loc[p].sample <= Funds[loc[p].wallet]
  /\ pc[p] \in Admitting =>
       loc[p].amount + Total(Besides(loc[p].wallet, {loc[p].key})) <= Funds[loc[p].wallet]

AInv ==
  /\ \A w \in Wallets : balance[w] <= Funds[w]
  /\ \A w \in Wallets : IsFiniteSet(Tokens(Active(w)))
  /\ RowsDecided /\ AdmittedWithinFunds
  /\ \A p \in Procs : FitsFunds(p)

\* Key l of w stays what it was, if it is still open.
StillAsked(w, l) == l \in Active(w)' => l \in Active(w) /\ Asked(l)' = Asked(l)

\* The tokens of fewer keys.
LEMMA FewerTokens ==
  ASSUME NEW S, NEW T, S \subseteq T, IsFiniteSet(Tokens(T))
  PROVE  IsFiniteSet(Tokens(S)) /\ Total(S) \in Nat /\ Total(T) \in Nat /\ Total(S) <= Total(T)
<1>1. Tokens(S) \subseteq Tokens(T)
  BY DEF Tokens
<1> QED
  BY <1>1, FS_Subset, FS_CardinalityType DEF Total

\* Without a new key no tokens are added.
LEMMA TokensEnd ==
  ASSUME NEW w \in Wallets, NEW K, \A l \in Active(w)' \ K : StillAsked(w, l)
  PROVE  Tokens(Besides(w, K))' \subseteq Tokens(Besides(w, K))
<1>1. SUFFICES ASSUME NEW x \in Tokens(Besides(w, K))' PROVE x \in Tokens(Besides(w, K))
  OBVIOUS
<1>2. PICK l \in Besides(w, K)' : x \in {l} \X (1..Asked(l)')
  BY <1>1 DEF Tokens
<1>3. l \in Besides(w, K) /\ Asked(l)' = Asked(l)
  BY <1>2 DEF Besides, StillAsked
<1> QED
  BY <1>2, <1>3 DEF Tokens

\* Hence the sum does not grow.
LEMMA TotalFalls ==
  ASSUME AInv, NEW w \in Wallets, NEW K, \A l \in Active(w)' \ K : StillAsked(w, l)
  PROVE  /\ IsFiniteSet(Tokens(Besides(w, K)))' /\ Total(Besides(w, K))' \in Nat
         /\ Total(Besides(w, K)) \in Nat
         /\ Total(Besides(w, K))' <= Total(Besides(w, K))
<1>1. IsFiniteSet(Tokens(Besides(w, K))) /\ Total(Besides(w, K)) \in Nat
  <2>1. Besides(w, K) \subseteq Active(w)
    BY DEF Besides
  <2> QED
    BY <2>1, FewerTokens DEF AInv
<1>2. Tokens(Besides(w, K))' \subseteq Tokens(Besides(w, K))
  BY TokensEnd
<1> QED
  BY <1>1, <1>2, FS_Subset, FS_CardinalityType DEF Total

LEMMA AllBesides == ASSUME NEW w PROVE Besides(w, {}) = Active(w)
BY DEF Besides

\* A step that admits nothing: what is open only ends, and no run comes to
\* believe more than it did.
LEMMA NothingAdmitted ==
  ASSUME SInv, AInv, SInv',
         \A w \in Wallets : balance'[w] <= Funds[w],
         RowsDecided',
         \A w \in Wallets : \A l \in Active(w)' : StillAsked(w, l),
         \A q \in Procs :
           \/ pc'[q] = pc[q] /\ loc'[q] = loc[q]
           \/ pc'[q] \notin Locking
           \/ pc'[q] = "capacity" /\ loc'[q].sample <= Funds[loc'[q].wallet]
  PROVE  AInv'
<1>1. ASSUME NEW w \in Wallets
      PROVE  IsFiniteSet(Tokens(Active(w)))' /\ Total(Active(w))' <= Funds[w]
  <2>1. /\ IsFiniteSet(Tokens(Besides(w, {})))' /\ Total(Besides(w, {}))' \in Nat
        /\ Total(Besides(w, {})) \in Nat /\ Total(Besides(w, {}))' <= Total(Besides(w, {}))
    BY TotalFalls
  <2>2. Besides(w, {}) = Active(w) /\ Besides(w, {})' = Active(w)'
    BY AllBesides DEF Besides
  <2>3. /\ IsFiniteSet(Tokens(Active(w)))' /\ Total(Active(w))' \in Nat
        /\ Total(Active(w)) \in Nat /\ Total(Active(w))' <= Total(Active(w))
    BY <2>1, <2>2
  <2> QED
    BY <2>3, SpendAssumption DEF AInv, AdmittedWithinFunds
<1>2. ASSUME NEW q \in Procs PROVE FitsFunds(q)'
  <2>1. CASE pc'[q] \notin Locking
    BY <2>1 DEF FitsFunds, Locking, Admitting
  <2>2. CASE pc'[q] = "capacity" /\ loc'[q].sample <= Funds[loc'[q].wallet]
    BY <2>2 DEF FitsFunds, Admitting
  <2>3. CASE pc'[q] = pc[q] /\ loc'[q] = loc[q]
    <3>1. FitsFunds(q)
      BY DEF AInv
    <3>2. CASE pc[q] \notin Admitting
      BY <2>3, <3>1, <3>2 DEF FitsFunds
    <3>3. CASE pc[q] \in Admitting
      <4>1. loc[q] \in SpendLocals
        BY <3>3 DEF SInv, TypeOK, Admitting
      <4>2. loc[q].wallet \in Wallets /\ loc[q].amount \in Nat
        BY <4>1, AmountsAssumption DEF SpendLocals
      <4>w. PICK w \in Wallets : w = loc[q].wallet
        BY <4>2
      <4>k. PICK k : k = loc[q].key
        OBVIOUS
      <4>3. /\ Total(Besides(w, {k}))' \in Nat /\ Total(Besides(w, {k})) \in Nat
            /\ Total(Besides(w, {k}))' <= Total(Besides(w, {k}))
        BY TotalFalls
      <4>4. loc[q].amount + Total(Besides(w, {k})) <= Funds[w] /\ Funds[w] \in Nat
        BY <3>1, <3>3, <4>w, <4>k, SpendAssumption DEF FitsFunds
      <4>5. loc[q].amount + Total(Besides(w, {k}))' <= Funds[w]
        BY <4>2, <4>3, <4>4
      <4>6. (loc[q].amount + Total(Besides(w, {k})) <= Funds[w])'
        BY <2>3, <4>5
      <4> QED
        BY <2>3, <3>3, <4>6, <4>w, <4>k DEF FitsFunds, Admitting
    <3> QED
      BY <3>2, <3>3
  <2> QED
    BY <2>1, <2>2, <2>3
<1> QED
  BY <1>1, <1>2 DEF AInv, AdmittedWithinFunds

\* The tokens of a new key.
LEMMA NewTokens ==
  ASSUME NEW k, NEW a \in Nat
  PROVE  IsFiniteSet({k} \X (1..a)) /\ Cardinality({k} \X (1..a)) = a
<1>1. IsFiniteSet({k}) /\ Cardinality({k}) = 1
  BY FS_Singleton
<1>2. IsFiniteSet(1..a) /\ Cardinality(1..a) = a
  BY FS_Interval
<1>3. IsFiniteSet({k} \X (1..a)) /\ Cardinality({k} \X (1..a)) = Cardinality({k}) * Cardinality(1..a)
  BY <1>1, <1>2, FS_Product
<1> QED
  BY <1>1, <1>2, <1>3

\* The step that writes the row of a covered request. Whoever else admits
\* something holds the lock of another wallet.
LEMMA RequestAdmitted ==
  ASSUME SInv, AInv, SInv', NEW p \in Procs, pc[p] \in Admitting, OthersWait(p), pc'[p] \notin Locking,
         UNCHANGED balance, RowsDecided', NEW k, k = loc[p].key, NEW u, u = loc[p].wallet,
         \A w \in Wallets : \A l \in Active(w)' : l # k \/ w # u => StillAsked(w, l),
         k \in Active(u)' => Asked(k)' = loc[p].amount
  PROVE  AInv'
<1>l. loc[p] \in SpendLocals
  BY DEF SInv, TypeOK, Admitting
<1>0. loc[p].wallet \in Wallets /\ loc[p].amount \in Nat
  BY <1>l, AmountsAssumption DEF SpendLocals
<1>w. u \in Wallets /\ u = loc[p].wallet
  BY <1>0
<1>k. k = loc[p].key
  OBVIOUS
<1>a. PICK a \in Nat : a = loc[p].amount
  BY <1>0
<1>f. a + Total(Besides(u, {k})) <= Funds[u] /\ Funds[u] \in Nat
  BY <1>w, <1>k, <1>a, SpendAssumption DEF AInv, FitsFunds
<1>1. IsFiniteSet(Tokens(Active(u)))' /\ Total(Active(u))' <= Funds[u]
  <2>1. \A l \in Active(u)' \ {k} : StillAsked(u, l)
    BY <1>w, <1>k
  <2>2. Tokens(Besides(u, {k}))' \subseteq Tokens(Besides(u, {k}))
    BY <1>w, <2>1, TokensEnd
  <2>3. IsFiniteSet(Tokens(Besides(u, {k})))
    <3>1. Besides(u, {k}) \subseteq Active(u)
      BY DEF Besides
    <3> QED
      BY <1>w, <3>1, FewerTokens DEF AInv
  <2>4. Tokens(Active(u))' \subseteq Tokens(Besides(u, {k}))' \cup ({k} \X (1..a))
    <3>1. SUFFICES ASSUME NEW x \in Tokens(Active(u))'
                   PROVE  x \in Tokens(Besides(u, {k}))' \cup ({k} \X (1..a))
      OBVIOUS
    <3>2. PICK l \in Active(u)' : x \in {l} \X (1..Asked(l)')
      BY <3>1 DEF Tokens
    <3>3. CASE l = k
      <4>1. Asked(k)' = a
        BY <1>w, <1>k, <1>a, <3>2, <3>3
      <4> QED
        BY <3>2, <3>3, <4>1
    <3>4. CASE l # k
      BY <3>2, <3>4 DEF Tokens, Besides
    <3> QED
      BY <3>3, <3>4
  <2> DEFINE old == Tokens(Besides(u, {k}))
  <2> DEFINE new == {k} \X (1..a)
  <2>5. IsFiniteSet(new) /\ Cardinality(new) = a
    BY NewTokens
  <2>6. Tokens(Active(u))' \subseteq old \cup new
    BY <2>2, <2>4
  <2>7. Cardinality(old) + a <= Funds[u]
    BY <1>f, <2>3, FS_CardinalityType DEF Total
  <2> HIDE DEF old, new
  <2>8. /\ IsFiniteSet(old \cup new)
        /\ Cardinality(old \cup new) = Cardinality(old) + Cardinality(new) - Cardinality(old \cap new)
    BY <2>3, <2>5, FS_Union DEF old
  <2>9. Cardinality(old \cap new) \in Nat /\ Cardinality(old) \in Nat /\ Cardinality(old \cup new) \in Nat
    BY <2>3, <2>8, FS_Intersection, FS_CardinalityType DEF old
  <2>10. IsFiniteSet(Tokens(Active(u)))' /\ Total(Active(u))' <= Cardinality(old \cup new)
    BY <2>6, <2>8, FS_Subset DEF Total
  <2>11. Total(Active(u))' \in Nat
    BY <2>10, FS_CardinalityType DEF Total
  <2>12. Cardinality(old \cup new) <= Funds[u]
    BY <1>f, <2>5, <2>7, <2>8, <2>9
  <2> QED
    BY <1>f, <2>9, <2>10, <2>11, <2>12
<1>2. ASSUME NEW w \in Wallets, w # u
      PROVE  IsFiniteSet(Tokens(Active(w)))' /\ Total(Active(w))' <= Funds[w]
  <2>1. /\ IsFiniteSet(Tokens(Besides(w, {})))' /\ Total(Besides(w, {}))' \in Nat
        /\ Total(Besides(w, {})) \in Nat /\ Total(Besides(w, {}))' <= Total(Besides(w, {}))
    BY <1>2, <1>w, TotalFalls
  <2>2. Besides(w, {}) = Active(w) /\ Besides(w, {})' = Active(w)'
    BY AllBesides DEF Besides
  <2>3. /\ IsFiniteSet(Tokens(Active(w)))' /\ Total(Active(w))' \in Nat
        /\ Total(Active(w)) \in Nat /\ Total(Active(w))' <= Total(Active(w))
    BY <2>1, <2>2
  <2> QED
    BY <2>3, SpendAssumption DEF AInv, AdmittedWithinFunds
<1>3. ASSUME NEW q \in Procs PROVE FitsFunds(q)'
  <2>1. CASE q = p
    BY <2>1 DEF FitsFunds, Locking, Admitting
  <2>2. CASE q # p
    <3>0. pc'[q] = pc[q] /\ loc'[q] = loc[q] /\ FitsFunds(q)
      BY <2>2 DEF OthersWait, AInv
    <3>1. CASE pc[q] \notin Admitting
      BY <3>0, <3>1 DEF FitsFunds
    <3>2. CASE pc[q] \in Admitting
      <4>1. loc[q] \in SpendLocals
        BY <3>2 DEF SInv, TypeOK, Admitting
      <4>2. loc[q].wallet \in Wallets /\ loc[q].amount \in Nat
        BY <4>1, AmountsAssumption DEF SpendLocals
      <4>w. PICK w \in Wallets : w = loc[q].wallet
        BY <4>2
      <4>j. PICK j : j = loc[q].key
        OBVIOUS
      <4>u. w # u
        <5>1. lock[u] = p /\ lock[w] = q
          BY <1>w, <3>2, <4>w DEF SInv, TypeOK, Locking, Admitting
        <5> QED
          BY <2>2, <5>1
      <4>3. /\ Total(Besides(w, {j}))' \in Nat /\ Total(Besides(w, {j})) \in Nat
            /\ Total(Besides(w, {j}))' <= Total(Besides(w, {j}))
        BY <1>w, <4>u, TotalFalls
      <4>4. loc[q].amount + Total(Besides(w, {j})) <= Funds[w] /\ Funds[w] \in Nat
        BY <3>0, <3>2, <4>w, <4>j, SpendAssumption DEF FitsFunds
      <4>5. loc[q].amount + Total(Besides(w, {j}))' <= Funds[w]
        BY <4>2, <4>3, <4>4
      <4>6. (loc[q].amount + Total(Besides(w, {j})) <= Funds[w])'
        BY <3>0, <4>5
      <4> QED
        BY <3>0, <3>2, <4>6, <4>w, <4>j DEF FitsFunds, Admitting
    <3> QED
      BY <3>1, <3>2
  <2> QED
    BY <2>1, <2>2
<1> QED
  BY <1>1, <1>2, <1>3 DEF AInv, AdmittedWithinFunds

\* A request that is covered by the balance and by what is held.
LEMMA RequestCovered ==
  ASSUME SInv, AInv, SInv', NEW p \in Procs, CheckCapacity(p), Covered(p), Goto(p, pc'[p])
  PROVE  AInv'
<1>l. pc[p] = "capacity" /\ loc[p] \in SpendLocals
  BY DEF SInv, TypeOK, CheckCapacity
<1>0. /\ pc[p] = "capacity" /\ loc[p].wallet \in Wallets /\ loc[p].amount \in Nat
      /\ loc[p].sample \in Nat /\ UNCHANGED <<op, chainVars, lease, balance, res, spends, receipts>>
  BY <1>l, AmountsAssumption DEF CheckCapacity, SpendLocals
<1>w. PICK u \in Wallets : u = loc[p].wallet
  BY <1>0
<1>k. PICK k : k = loc[p].key
  OBVIOUS
<1>1. Besides(u, {k}) \subseteq Holds(u) \cup OpenManual(u, k)
  <2>1. ASSUME NEW l \in ActiveHolds(u) PROVE l \in Holds(u)
    BY DEF ActiveHolds, Holds, SInv, TypeOK, Reservation
  <2>2. ASSUME NEW l \in ActiveManual(u), l # k PROVE l \in OpenManual(u, k)
    <3>1. l \in ManualKeys /\ l \in Keys /\ op[l] # None /\ op[l] \in Row
      BY <2>2 DEF ActiveManual, ManualKeys, SInv, TypeOK, OperationsTypeOK
    <3>2. op[l].hash # None \/ op[l].status \in OpenStatuses \cup {"confirmed"}
      BY <2>2, <3>1 DEF ActiveManual, AInv, RowsDecided, Decided, Row, Statuses
    <3> QED
      BY <2>2, <3>1, <3>2 DEF ActiveManual, OpenManual
  <2> QED
    BY <2>1, <2>2 DEF Besides, Active
<1>2. Holds(u) \cup OpenManual(u, k) \subseteq Active(u)
  BY DEF Active, ActiveHolds, ActiveManual, Holds, OpenManual
<1>3. /\ IsFiniteSet(Tokens(Holds(u) \cup OpenManual(u, k)))
      /\ Held(u, k) \in Nat
  BY <1>2, FewerTokens DEF AInv, Held
<1>4. /\ Total(Besides(u, {k})) \in Nat /\ Total(Besides(u, {k})) <= Held(u, k)
  BY <1>1, <1>3, FewerTokens DEF Held
<1>5. loc[p].amount + Held(u, k) <= loc[p].sample /\ loc[p].sample <= Funds[u] /\ Funds[u] \in Nat
  BY <1>0, <1>w, <1>k, SpendAssumption DEF Covered, AInv, FitsFunds
<1>6. loc[p].amount + Total(Besides(u, {k})) <= Funds[u]
  BY <1>0, <1>3, <1>4, <1>5
<1>7. OthersWait(p) /\ (pc'[p] # "idle" => loc'[p] = loc[p])
  BY DEF SInv, TypeOK, Goto, OthersWait
<1>8. \A l : Asked(l)' = Asked(l)
  BY <1>0 DEF Asked
<1>9. \A w \in Wallets : Active(w)' = Active(w)
  BY <1>0 DEF Active, ActiveHolds, ActiveManual
<1>10. Besides(u, {k})' = Besides(u, {k}) /\ Total(Besides(u, {k}))' = Total(Besides(u, {k}))
  BY <1>8, <1>9 DEF Besides, Total, Tokens
<1>11. FitsFunds(p)'
  <2>1. CASE pc'[p] \in Admitting
    <3>1. loc'[p] = loc[p] /\ pc'[p] # "capacity"
      BY <1>7, <2>1 DEF Admitting
    <3>2. (loc[p].amount + Total(Besides(u, {k})) <= Funds[u])'
      BY <1>6, <1>10, <3>1
    <3> QED
      BY <1>w, <1>k, <3>1, <3>2 DEF FitsFunds
  <2>2. CASE pc'[p] \notin Admitting
    <3>1. pc'[p] # "capacity"
      BY DEF SInv, TypeOK, CheckCapacity, Goto
    <3> QED
      BY <2>2, <3>1 DEF FitsFunds
  <2> QED
    BY <2>1, <2>2
<1>12. ASSUME NEW q \in Procs, q # p PROVE FitsFunds(q)'
  <2>1. pc'[q] = pc[q] /\ loc'[q] = loc[q] /\ FitsFunds(q)
    BY <1>7, <1>12 DEF OthersWait, AInv
  <2>2. pc[q] \in Admitting => loc[q].wallet \in Wallets
    BY DEF SInv, TypeOK, Admitting, SpendLocals
  <2>3. pc[q] \in Admitting => Total(Besides(loc[q].wallet, {loc[q].key}))' = Total(Besides(loc[q].wallet, {loc[q].key}))
    BY <1>8, <1>9, <2>1, <2>2 DEF Besides, Total, Tokens
  <2> QED
    BY <2>1, <2>3 DEF FitsFunds
<1>13. \A w \in Wallets : /\ IsFiniteSet(Tokens(Active(w)))' /\ Total(Active(w))' <= Funds[w]
                          /\ balance'[w] <= Funds[w]
  BY <1>0, <1>8, <1>9 DEF AInv, AdmittedWithinFunds, Total, Tokens
<1>14. RowsDecided'
  BY <1>0 DEF AInv, RowsDecided
<1> QED
  BY <1>11, <1>12, <1>13, <1>14 DEF AInv, AdmittedWithinFunds

-----------------------------------------------------------------------------
(* What the steps do to the rows and the holds.                            *)

Done(r) == r.status = "projected" \/ r.outcome = "no_movement"

\* A row goes on as n: it asks for the same, and what is over stays over.
GoesOn(r, n) ==
  /\ n # None /\ n.wallet = r.wallet /\ n.amount = r.amount /\ Decided(n)
  /\ Done(r) => Done(n)

RowsGoOn == \A k \in Keys : op'[k] = op[k] \/ (op[k] # None /\ GoesOn(op[k], op'[k]))

\* A reservation keeps its wallet and its hold, and stays over.
HoldsGoOn ==
  \A k \in ReservationKeys :
    IF res[k] = None THEN res'[k] = None
    ELSE /\ res'[k] # None /\ res'[k].wallet = res[k].wallet /\ res'[k].amount = res[k].amount
         /\ res[k].status \in Over => res'[k].status \in Over

LEMMA RowsStayDecided ==
  ASSUME AInv, RowsGoOn
  PROVE  RowsDecided'
BY DEF AInv, RowsDecided, RowsGoOn, GoesOn

\* Rows and holds that go on are no new obligations.
LEMMA NothingNew ==
  ASSUME RowsGoOn \/ (\A k \in ManualKeys : op'[k] = op[k]), HoldsGoOn, NEW w \in Wallets, NEW l \in Active(w)'
  PROVE  StillAsked(w, l)
<1>1. CASE l \in ActiveHolds(w)'
  <2>1. l \in ReservationKeys /\ res'[l] # None /\ res'[l].wallet = w /\ res'[l].status \notin Over
    BY <1>1 DEF ActiveHolds, Over
  <2>2. res[l] # None /\ res[l].wallet = w /\ res'[l].amount = res[l].amount /\ res[l].status \notin Over
    BY <2>1 DEF HoldsGoOn
  <2> QED
    BY <2>1, <2>2 DEF StillAsked, Active, ActiveHolds, Asked, Over
<1>2. CASE l \in ActiveManual(w)'
  <2>1. /\ l \in ManualKeys /\ l \in Keys /\ l \notin ReservationKeys
        /\ op'[l] # None /\ op'[l].wallet = w /\ ~Done(op'[l])
    BY <1>2 DEF ActiveManual, ManualKeys, Done
  <2>2. op[l] # None /\ op[l].wallet = w /\ op'[l].amount = op[l].amount /\ ~Done(op[l])
    BY <2>1 DEF RowsGoOn, GoesOn
  <2> QED
    BY <2>1, <2>2 DEF StillAsked, Active, ActiveManual, Asked, Done
<1> QED
  BY <1>1, <1>2 DEF Active

\* Without a write the holds go on.
LEMMA HoldsStay == UNCHANGED res => HoldsGoOn
BY DEF HoldsGoOn

\* A run that goes to a point outside the lock.
LEMMA GoesElsewhere ==
  ASSUME SInv, NEW p \in Procs, NEW x \in SpendPoints \ Locking, NEW m, Goto(p, x) \/ GotoWith(p, x, m)
  PROVE  OthersWait(p) /\ pc'[p] \notin Locking
BY DEF SInv, TypeOK, Goto, GotoWith, OthersWait

\* A step that leaves the capacity alone.
LEMMA StepAdmitsNothing ==
  ASSUME SInv, AInv, SInv', NEW p \in Procs, UNCHANGED balance, RowsDecided', HoldsGoOn,
         RowsGoOn \/ (\A k \in ManualKeys : op'[k] = op[k]), OthersWait(p), pc'[p] \notin Locking
  PROVE  AInv'
<1>1. \A w \in Wallets : \A l \in Active(w)' : StillAsked(w, l)
  BY NothingNew
<1>2. \A w \in Wallets : balance'[w] <= Funds[w]
  BY DEF AInv
<1>3. \A q \in Procs : pc'[q] \notin Locking \/ (pc'[q] = pc[q] /\ loc'[q] = loc[q])
  BY DEF OthersWait
<1> QED
  BY <1>1, <1>2, <1>3, NothingAdmitted

\* Updates of open rows.
LEMMA UpdateGoesOn ==
  ASSUME SInv, AInv, NEW k \in Keys, NEW guard, NEW row,
         op[k] # None /\ guard => GoesOn(op[k], row),
         op' \in {op, UpdateWhere(k, guard, row)}
  PROVE  RowsGoOn
<1>1. op \in [Keys -> Row \cup {None}]
  BY DEF SInv, TypeOK, OperationsTypeOK
<1>2. /\ \A l \in Keys \ {k} : op'[l] = op[l]
      /\ op'[k] = op[k] \/ (op[k] # None /\ guard /\ op'[k] = row)
  BY <1>1 DEF UpdateWhere
<1> QED
  BY <1>2 DEF RowsGoOn

\* Every marking step lets the rows go on.
LEMMA MarksGoOn ==
  ASSUME SInv, AInv, NEW p \in Procs, MarkStep(p)
  PROVE  RowsGoOn
<1> DEFINE k == loc[p].key
<1> DEFINE r == op[k]
<1>0. /\ pc[p] # "idle" /\ loc[p] \in SpendLocals /\ op \in [Keys -> Row \cup {None}]
  BY DEF SInv, TypeOK, OperationsTypeOK, MarkStep, PreflightFailed, SubmitLease, UnknownLease, Submit,
     StillUnknown, RejectEvidence, Confirm, ProjectionError, ZeroProject, CompleteSpend
<1>k. k \in Keys
  BY <1>0 DEF SpendLocals
<1>r. r # None => r \in Row /\ Decided(r) /\ r.status \in Statuses
  BY <1>0, <1>k DEF AInv, RowsDecided, Row
<1>d. r # None /\ r.status \in OpenStatuses \cup {"confirmed"} => ~Done(r)
  BY <1>r DEF Decided, Done, OpenStatuses
<1>1. ASSUME NEW guard, NEW row, op' \in {op, UpdateWhere(k, guard, row)}, r # None,
             row \in Row, row.wallet = r.wallet, row.amount = r.amount,
             guard => /\ r.status \in OpenStatuses \cup {"confirmed"} \/ Done(row)
                      /\ Decided(row)
      PROVE  RowsGoOn
  <2>1. guard => GoesOn(r, row)
    BY <1>1, <1>d, SpendNoneAssumption DEF GoesOn
  <2> QED
    BY <1>1, <1>k, <2>1, UpdateGoesOn
<1>n. r = None => \A guard, row : UpdateWhere(k, guard, row) = op
  BY DEF UpdateWhere
<1>s. op' = op => RowsGoOn
  BY DEF RowsGoOn
<1>2. CASE r = None
  <2>1. op' = op
    BY <1>2, <1>n DEF MarkStep, PreflightFailed, SubmitLease, UnknownLease, Submit,
     StillUnknown, RejectEvidence, Confirm, ProjectionError, ZeroProject, CompleteSpend, SaveOp,
     MarkPreflightFailed, MarkSubmitted, MarkUnknown, MarkFailed, MarkConfirmed, MarkProjectionError,
     MarkProjected, TargetMarked
  <2> QED
    BY <1>s, <2>1
<1>3. CASE r # None
  <2>1. CASE PreflightFailed(p)
    <3>1. op' \in {op, UpdateWhere(k, r.hash = None, [r EXCEPT !.status = "failed", !.outcome = "no_movement"])}
      BY <2>1 DEF PreflightFailed, SaveOp, MarkPreflightFailed
    <3> DEFINE row == [r EXCEPT !.status = "failed", !.outcome = "no_movement"]
    <3>2. /\ row \in Row /\ row.wallet = r.wallet /\ row.amount = r.amount /\ row.hash = r.hash
          /\ row.status = "failed" /\ row.outcome = "no_movement"
      BY <1>3, <1>r DEF Row, Statuses, OpenStatuses, Outcomes
    <3> DEFINE guard == r.hash = None
    <3> HIDE DEF row
    <3>3. guard => (r.status \in OpenStatuses \cup {"confirmed"} \/ Done(row)) /\ Decided(row)
      BY <1>3, <1>d, <3>2 DEF Decided, Done, OpenStatuses
    <3>4. op' \in {op, UpdateWhere(k, guard, row)}
      BY <3>1 DEF row
    <3> HIDE DEF guard
    <3> QED
      BY <1>1, <1>3, <3>2, <3>3, <3>4
  <2>2. CASE SubmitLease(p) \/ UnknownLease(p)
    <3>1. PICK s \in {"submitted", "unknown"} : op' \in {op, UpdateWhere(k, (lease[k] # None /\ r.status \in OpenStatuses), [r EXCEPT !.status = s])}
      BY <2>2 DEF SubmitLease, UnknownLease, TargetMarked
    <3> DEFINE row == [r EXCEPT !.status = s]
    <3>2. /\ row \in Row /\ row.wallet = r.wallet /\ row.amount = r.amount /\ row.hash = r.hash
          /\ row.status = s /\ row.outcome = r.outcome
      BY <1>3, <1>r DEF Row, Statuses, OpenStatuses, Outcomes
    <3> DEFINE guard == (lease[k] # None /\ r.status \in OpenStatuses)
    <3> HIDE DEF row
    <3>3. guard => (r.status \in OpenStatuses \cup {"confirmed"} \/ Done(row)) /\ Decided(row)
      BY <1>3, <1>d, <3>2 DEF Decided, Done, OpenStatuses
    <3>4. op' \in {op, UpdateWhere(k, guard, row)}
      BY <3>1 DEF row
    <3> HIDE DEF guard
    <3> QED
      BY <1>1, <1>3, <3>2, <3>3, <3>4
  <2>3. CASE Submit(p)
    <3>0. loc[p].tx \in Tx \cup {None}
      BY <1>0 DEF SpendLocals
    <3>1. op' \in {op, UpdateWhere(k, (r.status \in OpenStatuses /\ r.hash \in {None, loc[p].tx}), [r EXCEPT !.hash = loc[p].tx, !.status = "submitted"])}
      BY <2>3 DEF Submit, SaveOp, MarkSubmitted
    <3> DEFINE row == [r EXCEPT !.hash = loc[p].tx, !.status = "submitted"]
    <3>2. /\ row \in Row /\ row.wallet = r.wallet /\ row.amount = r.amount /\ row.hash = loc[p].tx
          /\ row.status = "submitted" /\ row.outcome = r.outcome
      BY <1>3, <1>r, <3>0 DEF Row, Statuses, OpenStatuses, Outcomes
    <3> DEFINE guard == (r.status \in OpenStatuses /\ r.hash \in {None, loc[p].tx})
    <3> HIDE DEF row
    <3>3. guard => (r.status \in OpenStatuses \cup {"confirmed"} \/ Done(row)) /\ Decided(row)
      BY <1>3, <1>d, <3>2 DEF Decided, Done, OpenStatuses
    <3>4. op' \in {op, UpdateWhere(k, guard, row)}
      BY <3>1 DEF row
    <3> HIDE DEF guard
    <3> QED
      BY <1>1, <1>3, <3>2, <3>3, <3>4
  <2>4. CASE StillUnknown(p)
    <3>1. op' \in {op, UpdateWhere(k, r.status \in OpenStatuses, [r EXCEPT !.status = "unknown"])}
      BY <2>4 DEF StillUnknown, SaveOp, MarkUnknown
    <3> DEFINE row == [r EXCEPT !.status = "unknown"]
    <3>2. /\ row \in Row /\ row.wallet = r.wallet /\ row.amount = r.amount /\ row.hash = r.hash
          /\ row.status = "unknown" /\ row.outcome = r.outcome
      BY <1>3, <1>r DEF Row, Statuses, OpenStatuses, Outcomes
    <3> DEFINE guard == r.status \in OpenStatuses
    <3> HIDE DEF row
    <3>3. guard => (r.status \in OpenStatuses \cup {"confirmed"} \/ Done(row)) /\ Decided(row)
      BY <1>3, <1>d, <3>2 DEF Decided, Done, OpenStatuses
    <3>4. op' \in {op, UpdateWhere(k, guard, row)}
      BY <3>1 DEF row
    <3> HIDE DEF guard
    <3> QED
      BY <1>1, <1>3, <3>2, <3>3, <3>4
  <2>5. CASE RejectEvidence(p)
    <3>1. PICK o \in {"no_movement", "review"} : op' \in {op, UpdateWhere(k, (r.hash # None /\ r.status \in OpenStatuses), [r EXCEPT !.status = "failed", !.outcome = o])}
      BY <2>5 DEF RejectEvidence, SaveOp, MarkFailed
    <3> DEFINE row == [r EXCEPT !.status = "failed", !.outcome = o]
    <3>2. /\ row \in Row /\ row.wallet = r.wallet /\ row.amount = r.amount /\ row.hash = r.hash
          /\ row.status = "failed" /\ row.outcome = o
      BY <1>3, <1>r DEF Row, Statuses, OpenStatuses, Outcomes
    <3> DEFINE guard == (r.hash # None /\ r.status \in OpenStatuses)
    <3> HIDE DEF row
    <3>3. guard => (r.status \in OpenStatuses \cup {"confirmed"} \/ Done(row)) /\ Decided(row)
      BY <1>3, <1>d, <3>2 DEF Decided, Done, OpenStatuses
    <3>4. op' \in {op, UpdateWhere(k, guard, row)}
      BY <3>1 DEF row
    <3> HIDE DEF guard
    <3> QED
      BY <1>1, <1>3, <3>2, <3>3, <3>4
  <2>6. CASE Confirm(p)
    <3>1. op' \in {op, UpdateWhere(k, (r.hash # None /\ r.status \in OpenStatuses \cup {"confirmed"}), [r EXCEPT !.status = "confirmed", !.outcome = "confirmed"])}
      BY <2>6 DEF Confirm, SaveOp, MarkConfirmed
    <3> DEFINE row == [r EXCEPT !.status = "confirmed", !.outcome = "confirmed"]
    <3>2. /\ row \in Row /\ row.wallet = r.wallet /\ row.amount = r.amount /\ row.hash = r.hash
          /\ row.status = "confirmed" /\ row.outcome = "confirmed"
      BY <1>3, <1>r DEF Row, Statuses, OpenStatuses, Outcomes
    <3> DEFINE guard == (r.hash # None /\ r.status \in OpenStatuses \cup {"confirmed"})
    <3> HIDE DEF row
    <3>3. guard => (r.status \in OpenStatuses \cup {"confirmed"} \/ Done(row)) /\ Decided(row)
      BY <1>3, <1>d, <3>2 DEF Decided, Done, OpenStatuses
    <3>4. op' \in {op, UpdateWhere(k, guard, row)}
      BY <3>1 DEF row
    <3> HIDE DEF guard
    <3> QED
      BY <1>1, <1>3, <3>2, <3>3, <3>4
  <2>7. CASE ProjectionError(p)
    <3>1. op' \in {op, UpdateWhere(k, (r.hash # None /\ r.status \in OpenStatuses \cup {"confirmed"}), [r EXCEPT !.status = "confirmed"])}
      BY <2>7 DEF ProjectionError, SaveOp, MarkProjectionError
    <3> DEFINE row == [r EXCEPT !.status = "confirmed"]
    <3>2. /\ row \in Row /\ row.wallet = r.wallet /\ row.amount = r.amount /\ row.hash = r.hash
          /\ row.status = "confirmed" /\ row.outcome = r.outcome
      BY <1>3, <1>r DEF Row, Statuses, OpenStatuses, Outcomes
    <3> DEFINE guard == (r.hash # None /\ r.status \in OpenStatuses \cup {"confirmed"})
    <3> HIDE DEF row
    <3>3. guard => (r.status \in OpenStatuses \cup {"confirmed"} \/ Done(row)) /\ Decided(row)
      BY <1>3, <1>d, <3>2 DEF Decided, Done, OpenStatuses
    <3>4. op' \in {op, UpdateWhere(k, guard, row)}
      BY <3>1 DEF row
    <3> HIDE DEF guard
    <3> QED
      BY <1>1, <1>3, <3>2, <3>3, <3>4
  <2>8. CASE ZeroProject(p) \/ CompleteSpend(p)
    <3>1. op' \in {op, UpdateWhere(k, (r.status # "failed" /\ (r.hash # None \/ r.amount = 0)), [r EXCEPT !.status = "projected", !.outcome = IF r.amount = 0 THEN "no_movement" ELSE "confirmed"])}
      BY <2>8 DEF ZeroProject, CompleteSpend, SaveOp, MarkProjected
    <3> DEFINE row == [r EXCEPT !.status = "projected", !.outcome = IF r.amount = 0 THEN "no_movement" ELSE "confirmed"]
    <3>2. /\ row \in Row /\ row.wallet = r.wallet /\ row.amount = r.amount /\ row.hash = r.hash
          /\ row.status = "projected" /\ row.outcome = (IF r.amount = 0 THEN "no_movement" ELSE "confirmed")
      BY <1>3, <1>r DEF Row, Statuses, OpenStatuses, Outcomes
    <3> DEFINE guard == (r.status # "failed" /\ (r.hash # None \/ r.amount = 0))
    <3> HIDE DEF row
    <3>3. guard => (r.status \in OpenStatuses \cup {"confirmed"} \/ Done(row)) /\ Decided(row)
      BY <1>3, <1>d, <3>2 DEF Decided, Done, OpenStatuses
    <3>4. op' \in {op, UpdateWhere(k, guard, row)}
      BY <3>1 DEF row
    <3> HIDE DEF guard
    <3> QED
      BY <1>1, <1>3, <3>2, <3>3, <3>4
  <2> QED
    BY <2>1, <2>2, <2>3, <2>4, <2>5, <2>6, <2>7, <2>8 DEF MarkStep
<1> QED
  BY <1>2, <1>3

-----------------------------------------------------------------------------
(* The steps.                                                              *)

\* Where the steps that hold no lock go.
LEMMA MarksGoElsewhere ==
  ASSUME SInv, NEW p \in Procs, MarkStep(p)
  PROVE  OthersWait(p) /\ pc'[p] \notin Locking
<1>1. PICK x \in SpendPoints \ Locking : Goto(p, x)
  <2>1. CASE \/ PreflightFailed(p) \/ StillUnknown(p) \/ RejectEvidence(p) \/ ProjectionError(p)
    BY <2>1 DEF PreflightFailed, StillUnknown, RejectEvidence, ProjectionError, SaveOp, Locking, SpendPoints
  <2>2. CASE SubmitLease(p)
    BY <2>2 DEF SubmitLease, Locking, SpendPoints
  <2>3. CASE UnknownLease(p) \/ Submit(p) \/ Confirm(p)
    BY <2>3 DEF UnknownLease, Submit, Confirm, SaveOp, Locking, SpendPoints
  <2>4. CASE ZeroProject(p)
    BY <2>4 DEF ZeroProject, SaveOp, Locking, SpendPoints
  <2>5. CASE CompleteSpend(p)
    <3>1. Finished(loc[p].delivery) \in SpendPoints \ Locking
      BY DEF Finished, SpendPoints, Locking
    <3> QED
      BY <2>5, <3>1 DEF CompleteSpend, SaveOp, Locking, SpendPoints
  <2> QED
    BY <2>1, <2>2, <2>3, <2>4, <2>5 DEF MarkStep
<1> QED
  BY <1>1, GoesElsewhere

LEMMA MarksAdmitNothing ==
  ASSUME SInv, AInv, SInv', NEW p \in Procs, MarkStep(p), UNCHANGED spendVars
  PROVE  AInv'
BY MarksGoOn, RowsStayDecided, MarksGoElsewhere, HoldsStay, StepAdmitsNothing DEF spendVars

\* Steps that write neither a row nor a reservation.
LEMMA ReadsAdmitNothing ==
  ASSUME SInv, AInv, SInv', NEW p \in Procs, UNCHANGED <<op, balance, res>>,
         NEW x \in SpendPoints \ Locking, NEW m, Goto(p, x) \/ GotoWith(p, x, m)
  PROVE  AInv'
<1>1. RowsGoOn
  BY DEF RowsGoOn
<1> QED
  BY <1>1, RowsStayDecided, GoesElsewhere, HoldsStay, StepAdmitsNothing

\* A preparation saves the hash of an open row.
LEMMA PrepareAdmitsNothing ==
  ASSUME SInv, AInv, SInv', NEW p \in Procs, Prepare(p), UNCHANGED spendVars
  PROVE  AInv'
<1>0. op \in [Keys -> Row \cup {None}] /\ loc[p] \in SpendLocals /\ UNCHANGED <<balance, res>>
  BY DEF SInv, TypeOK, OperationsTypeOK, Prepare, spendVars
<1>k. PICK k \in Keys : k = loc[p].key
  BY <1>0 DEF SpendLocals
<1>1. PICK t : TargetOpen(k, t) /\ op' = PreparedTarget(k, t)
  BY <1>k DEF Prepare
<1>2. op[k] # None /\ op[k] \in Row /\ op[k].status \in OpenStatuses /\ Decided(op[k])
  BY <1>0, <1>1 DEF TargetOpen, AInv, RowsDecided
<1>3. /\ \A l \in Keys \ {k} : op'[l] = op[l]
      /\ op'[k] = [op[k] EXCEPT !.hash = t, !.status = "submitting"]
  BY <1>0, <1>1 DEF PreparedTarget
<1>4. /\ op'[k].wallet = op[k].wallet /\ op'[k].amount = op[k].amount
      /\ op'[k].status = "submitting" /\ op'[k].outcome = op[k].outcome
  BY <1>2, <1>3 DEF Row
<1>5. op'[k] # None
  <2>1. pc'[p] \in {"broadcast", "preflight"} /\ loc'[p].key = k
    BY <1>0, <1>k DEF SInv, TypeOK, Prepare, Goto, GotoWith, SpendLocals
  <2>2. OnItsRow(p)'
    BY DEF SInv, RunsMatch
  <2> QED
    BY <2>1, <2>2 DEF OnItsRow, WithTx, Owning
<1>6. RowsGoOn
  BY <1>2, <1>3, <1>4, <1>5 DEF RowsGoOn, GoesOn, Decided, Done, OpenStatuses
<1>7. OthersWait(p) /\ pc'[p] \notin Locking
  <2>1. \E x \in SpendPoints \ Locking : \E m : Goto(p, x) \/ GotoWith(p, x, m)
    BY DEF Prepare, SpendPoints, Locking
  <2> QED
    BY <2>1, GoesElsewhere
<1> QED
  BY <1>0, <1>6, <1>7, RowsStayDecided, HoldsStay, StepAdmitsNothing

\* A claim inserts a row or takes one over; for a settlement that is no new
\* obligation, its hold is there.
LEMMA ClaimsDecided ==
  ASSUME SInv, AInv, SInv', NEW p \in Procs, NEW k \in Keys, k = loc[p].key, NEW done, TakeClaim(p, done),
         loc[p] \in SpendLocals
  PROVE  /\ \A l \in Keys \ {k} : op'[l] = op[l]
         /\ RowsDecided'
         /\ \/ op'[k] = op[k]
            \/ /\ op'[k] # None => op'[k].wallet = loc[p].wallet /\ op'[k].amount = loc[p].amount
<1>0. op \in [Keys -> Row \cup {None}]
  BY DEF SInv, TypeOK, OperationsTypeOK
<1> DEFINE new == NewRow(loc[p].intent, loc[p].wallet, loc[p].amount)
<1> DEFINE taken == [op[k] EXCEPT !.status = "submitting", !.outcome = "unknown"]
<1>1. Decided(new) /\ new.wallet = loc[p].wallet /\ new.amount = loc[p].amount
  BY DEF NewRow, Decided
<1>2. op[k] # None /\ SameSpend(k, loc[p].intent, loc[p].wallet, loc[p].amount) =>
        Decided(taken) /\ taken.wallet = loc[p].wallet /\ taken.amount = loc[p].amount
  BY <1>0 DEF Row, Decided, SameSpend, SameIntent
<1>3. op[k] # None => [op EXCEPT ![k].status = "submitting", ![k].outcome = "unknown"] = [op EXCEPT ![k] = taken]
  BY <1>0
<1> HIDE DEF new, taken
<1>4. /\ \A l \in Keys \ {k} : op'[l] = op[l]
      /\ \/ op'[k] = op[k]
         \/ /\ Decided(op'[k]) /\ op'[k].wallet = loc[p].wallet /\ op'[k].amount = loc[p].amount
  <2>1. CASE op[k] = None /\ SaveOp(p, Inserted(k, loc[p].intent, loc[p].wallet, loc[p].amount), done, "idle")
    <3>1. op' \in {op, [op EXCEPT ![k] = new]}
      BY <2>1 DEF SaveOp, Inserted, new
    <3> QED
      BY <1>0, <1>1, <3>1
  <2>2. CASE /\ op[k] # None /\ SameSpend(k, loc[p].intent, loc[p].wallet, loc[p].amount)
             /\ SaveOp(p, Reclaimed(k), done, "idle")
    <3>1. op' \in {op, [op EXCEPT ![k] = taken]}
      BY <1>3, <2>2 DEF SaveOp, Reclaimed
    <3> QED
      BY <1>0, <1>2, <2>2, <3>1
  <2> QED
    BY <2>1, <2>2 DEF TakeClaim
<1>5. RowsDecided'
  BY <1>4 DEF AInv, RowsDecided
<1> QED
  BY <1>4, <1>5

LEMMA SettlementAdmitsNothing ==
  ASSUME SInv, AInv, SInv', NEW p \in Procs, ClaimSettlement(p) \/ ZeroClaim(p)
  PROVE  AInv'
<1>0. /\ pc[p] \in {"claim", "zeroClaim"} /\ loc[p] \in SpendLocals /\ UNCHANGED <<balance, res>>
      /\ OnItsReservation(p)
  BY DEF SInv, TypeOK, RunsMatch, ClaimSettlement, ZeroClaim, spendVars
<1>b. loc[p].key \in ReservationKeys /\ loc[p].key \in Keys
  BY <1>0, SpendAssumption DEF OnItsReservation, Settles
<1>k. PICK k \in ReservationKeys : k = loc[p].key /\ k \in Keys
  BY <1>b
<1>1. RowsDecided' /\ \A l \in Keys \ {k} : op'[l] = op[l]
  <2>1. ASSUME NEW done, TakeClaim(p, done) PROVE RowsDecided' /\ \A l \in Keys \ {k} : op'[l] = op[l]
    BY <1>0, <1>k, <2>1, ClaimsDecided
  <2>2. ASSUME UNCHANGED op PROVE RowsDecided' /\ \A l \in Keys \ {k} : op'[l] = op[l]
    BY <2>2 DEF AInv, RowsDecided
  <2> QED
    BY <2>1, <2>2 DEF ClaimSettlement, ZeroClaim
<1>2. \A l \in ManualKeys : op'[l] = op[l]
  BY <1>1 DEF ManualKeys
<1>3. OthersWait(p) /\ pc'[p] \notin Locking
  <2>0. Finished(loc[p].delivery) \in SpendPoints \ Locking
    BY DEF Finished, SpendPoints, Locking
  <2>1. \E x \in SpendPoints \ Locking : \E m : Goto(p, x) \/ GotoWith(p, x, m)
    <3>1. SpendReplayPoint(loc[p].key, loc[p].delivery) \in SpendPoints \ Locking
      BY <2>0 DEF SpendReplayPoint, SpendPoints, Locking
    <3>2. CASE ClaimSettlement(p)
      <4>1. CASE TakeClaim(p, "check")
        BY <4>1 DEF TakeClaim, SaveOp, SpendPoints, Locking
      <4>2. CASE \E m : GotoWith(p, SpendReplayPoint(loc[p].key, loc[p].delivery), m)
        BY <3>1, <4>2
      <4>3. CASE Goto(p, "idle")
        BY <4>3 DEF SpendPoints, Locking
      <4> QED
        BY <3>2, <4>1, <4>2, <4>3 DEF ClaimSettlement
    <3>3. CASE ZeroClaim(p)
      BY <3>3 DEF ZeroClaim, TakeClaim, SaveOp, SpendPoints, Locking
    <3> QED
      BY <3>2, <3>3
  <2> QED
    BY <2>1, GoesElsewhere
<1> QED
  BY <1>0, <1>1, <1>2, <1>3, HoldsStay, StepAdmitsNothing

\* The claim of a manual spend writes the row it was covered for.
LEMMA ManualAdmitted ==
  ASSUME SInv, AInv, SInv', NEW p \in Procs, ClaimManual(p)
  PROVE  AInv'
<1>0. /\ pc[p] = "claimManual" /\ loc[p] \in SpendLocals /\ UNCHANGED <<balance, res>>
      /\ TakeClaim(p, "check") /\ OnItsReservation(p)
  BY DEF SInv, TypeOK, RunsMatch, ClaimManual
<1>k. PICK k \in ManualKeys : k = loc[p].key /\ k \in Keys
  BY <1>0 DEF OnItsReservation, ManualKeys
<1>u. PICK u \in Wallets : u = loc[p].wallet
  BY <1>0 DEF SpendLocals
<1>1. OthersWait(p) /\ pc'[p] \notin Locking
  <2>1. \E x \in SpendPoints \ Locking : Goto(p, x)
    BY <1>0 DEF TakeClaim, SaveOp, SpendPoints, Locking
  <2> QED
    BY <2>1, GoesElsewhere
<1>2. /\ \A l \in Keys \ {k} : op'[l] = op[l]
      /\ RowsDecided'
      /\ \/ op'[k] = op[k]
         \/ op'[k] # None => op'[k].wallet = u /\ op'[k].amount = loc[p].amount
  BY <1>0, <1>k, <1>u, ClaimsDecided
<1>3. CASE op'[k] = op[k]
  <2>1. RowsGoOn
    BY <1>2, <1>3 DEF RowsGoOn
  <2> QED
    BY <1>0, <1>1, <1>2, <2>1, HoldsStay, StepAdmitsNothing
<1>4. CASE op'[k] # None => op'[k].wallet = u /\ op'[k].amount = loc[p].amount
  <2>1. ASSUME NEW w \in Wallets, NEW l \in Active(w)', l # k \/ w # u PROVE StillAsked(w, l)
    <3>1. CASE l \in ActiveHolds(w)'
      BY <1>0, <3>1 DEF StillAsked, Active, ActiveHolds, Asked
    <3>2. CASE l \in ActiveManual(w)'
      <4>1. /\ l \in ManualKeys /\ l \in Keys /\ l \notin ReservationKeys /\ op'[l] # None /\ op'[l].wallet = w
        BY <3>2 DEF ActiveManual, ManualKeys
      <4>2. op'[l] = op[l]
        BY <1>2, <1>4, <2>1, <4>1
      <4> QED
        BY <3>2, <4>1, <4>2 DEF StillAsked, Active, ActiveManual, Asked
    <3> QED
      BY <2>1, <3>1, <3>2 DEF Active
  <2>2. k \in Active(u)' => Asked(k)' = loc[p].amount
    BY <1>4 DEF Active, ActiveHolds, ActiveManual, ManualKeys, Asked
  <2>3. pc[p] \in Admitting
    BY <1>0 DEF Admitting
  <2> QED
    BY <1>0, <1>1, <1>2, <1>k, <1>u, <2>1, <2>2, <2>3, RequestAdmitted
<1> QED
  BY <1>2, <1>3, <1>4

\* The insertion of a reservation.
LEMMA HoldAdmitted ==
  ASSUME SInv, AInv, SInv', NEW p \in Procs, Hold(p)
  PROVE  AInv'
<1>0. /\ pc[p] = "hold" /\ loc[p] \in SpendLocals /\ UNCHANGED <<balance, op>>
      /\ OnItsReservation(p) /\ Goto(p, "idle") /\ res \in [ReservationKeys -> Reservation \cup {None}]
  BY DEF SInv, TypeOK, RunsMatch, Hold
<1>k. PICK k \in ReservationKeys : k = loc[p].key
  BY <1>0 DEF OnItsReservation
<1>u. PICK u \in Wallets : u = loc[p].wallet
  BY <1>0 DEF SpendLocals
<1>1. OthersWait(p) /\ pc'[p] \notin Locking
  BY <1>0, GoesElsewhere DEF SpendPoints, Locking
<1>2. RowsGoOn /\ RowsDecided'
  BY <1>0 DEF RowsGoOn, AInv, RowsDecided
<1>3. CASE res' = res
  BY <1>0, <1>1, <1>2, <1>3, HoldsStay, StepAdmitsNothing
<1>4. CASE res[k] = None /\ res' = [res EXCEPT ![k] = NewReservation(u, loc[p].amount)]
  <2>0. /\ \A l \in ReservationKeys \ {k} : res'[l] = res[l]
        /\ res'[k].wallet = u /\ res'[k].amount = loc[p].amount
    BY <1>0, <1>4 DEF NewReservation
  <2>1. ASSUME NEW w \in Wallets, NEW l \in Active(w)', l # k \/ w # u PROVE StillAsked(w, l)
    <3>1. CASE l \in ActiveHolds(w)'
      <4>1. l \in ReservationKeys /\ res'[l] = res[l]
        BY <2>0, <2>1, <3>1 DEF ActiveHolds
      <4> QED
        BY <3>1, <4>1 DEF StillAsked, Active, ActiveHolds, Asked
    <3>2. CASE l \in ActiveManual(w)'
      BY <1>0, <3>2 DEF StillAsked, Active, ActiveManual, ManualKeys, Asked
    <3> QED
      BY <2>1, <3>1, <3>2 DEF Active
  <2>2. k \in Active(u)' => Asked(k)' = loc[p].amount
    BY <2>0 DEF Asked
  <2>3. pc[p] \in Admitting
    BY <1>0 DEF Admitting
  <2> QED
    BY <1>0, <1>1, <1>2, <1>k, <1>u, <2>1, <2>2, <2>3, RequestAdmitted
<1> QED
  BY <1>3, <1>4, <1>k, <1>u DEF Hold

\* The steps of a reservation that is there.
LEMMA ReservationsAdmitNothing ==
  ASSUME SInv, AInv, SInv', NEW p \in Procs, Next,
         ClaimHold(p) \/ LookupOperation(p) \/ PersistContext(p) \/ CompleteHold(p)
  PROVE  AInv'
<1>0. /\ pc[p] \in {"claimHold", "lookup", "context", "settle"} /\ loc[p] \in SpendLocals
      /\ UNCHANGED <<balance, op>> /\ OnItsReservation(p)
      /\ res \in [ReservationKeys -> Reservation \cup {None}]
  BY DEF SInv, TypeOK, RunsMatch, ClaimHold, LookupOperation, PersistContext, CompleteHold, spendVars
<1>k. PICK k \in ReservationKeys : k = loc[p].key /\ res[k] # None
  BY <1>0 DEF OnItsReservation, Settles, Opening
<1>1. HoldsGoOn
  <2>1. ReservationsEvolve
    BY StepsMoveForward
  <2>2. \A l \in ReservationKeys \ {k} : res'[l] = res[l]
    BY <1>0, <1>k DEF ClaimHold, LookupOperation, PersistContext, CompleteHold, spendVars
  <2> QED
    BY <1>k, <2>1, <2>2 DEF ReservationsEvolve, HoldsGoOn, Over
<1>2. OthersWait(p) /\ pc'[p] \notin Locking
  <2>1. \E x \in SpendPoints \ Locking : \E m : Goto(p, x) \/ GotoWith(p, x, m)
    <3>1. CASE ClaimHold(p)
      BY <3>1 DEF ClaimHold, Dispatch, SpendPoints, Locking
    <3>2. CASE LookupOperation(p)
      BY <3>2 DEF LookupOperation, SpendPoints, Locking
    <3>3. CASE PersistContext(p)
      BY <3>3 DEF PersistContext, SpendPoints, Locking
    <3>4. CASE CompleteHold(p)
      BY <3>4 DEF CompleteHold, SpendPoints, Locking
    <3> QED
      BY <3>1, <3>2, <3>3, <3>4
  <2> QED
    BY <2>1, GoesElsewhere
<1>3. RowsGoOn /\ RowsDecided'
  BY <1>0 DEF RowsGoOn, AInv, RowsDecided
<1> QED
  BY <1>0, <1>1, <1>2, <1>3, StepAdmitsNothing

\* The requests. A sample is the balance that the wallet has now.
LEMMA SampleFits ==
  ASSUME SInv, AInv, SInv', NEW p \in Procs, UNCHANGED <<op, balance, res>>,
         NEW u \in Wallets, NEW m, m.wallet = u, m.sample = balance[u], GotoWith(p, "capacity", m)
  PROVE  AInv'
<1>1. \A q \in Procs : \/ pc'[q] = pc[q] /\ loc'[q] = loc[q]
                       \/ pc'[q] = "capacity" /\ loc'[q].sample <= Funds[loc'[q].wallet]
  <2>1. balance[u] <= Funds[u]
    BY DEF AInv
  <2>2. pc'[p] = "capacity" /\ loc'[p] = m /\ OthersWait(p)
    BY DEF SInv, TypeOK, GotoWith, OthersWait
  <2> QED
    BY <2>1, <2>2 DEF OthersWait
<1>2. RowsGoOn /\ HoldsGoOn /\ RowsDecided' /\ \A w \in Wallets : balance'[w] <= Funds[w]
  BY DEF RowsGoOn, HoldsGoOn, AInv, RowsDecided
<1>3. \A w \in Wallets : \A l \in Active(w)' : StillAsked(w, l)
  BY <1>2, NothingNew
<1> QED
  BY <1>1, <1>2, <1>3, NothingAdmitted

LEMMA RequestsKeepFunds ==
  ASSUME SInv, AInv, SInv', NEW p \in Procs, Start(p) \/ CheckCapacity(p)
  PROVE  AInv'
<1>1. ASSUME NEW k \in Keys, Recover(p, k) PROVE AInv'
  <2>1. \E x \in SpendPoints \ Locking : \E m : GotoWith(p, x, m)
    BY <1>1 DEF Recover, SpendPoints, Locking
  <2>2. UNCHANGED <<op, balance, res>>
    BY <1>1 DEF Recover, spendVars
  <2> QED
    BY <2>1, <2>2, ReadsAdmitNothing
<1>2. ASSUME NEW k \in Keys, NEW d \in Deliveries, Settle(p, k, d) PROVE AInv'
  <2>1. \E x \in SpendPoints \ Locking : \E m : Goto(p, x) \/ GotoWith(p, x, m)
    BY <1>2 DEF Settle, Dispatch, SpendPoints, Locking
  <2>2. UNCHANGED <<op, balance, res>>
    BY <1>2 DEF Settle, spendVars
  <2> QED
    BY <2>1, <2>2, ReadsAdmitNothing
<1>3. ASSUME NEW k \in Keys, NEW a \in Amounts, NEW w \in Wallets, Reserve(p, k, w, a) PROVE AInv'
  <2> DEFINE m == Memory(k, SettlementIntent, w, a, None, None, balance[w])
  <2>1. m.wallet = w /\ m.sample = balance[w]
    BY DEF Memory
  <2>2. GotoWith(p, "capacity", m) /\ UNCHANGED <<op, balance, res>>
    BY <1>3 DEF Reserve
  <2> HIDE DEF m
  <2> QED
    BY <2>1, <2>2, SampleFits
<1>4. ASSUME NEW k \in Keys, NEW a \in Amounts, NEW i \in Intents, Spend(p, k, i, a) PROVE AInv'
  <2> DEFINE w == ManagedWallet[k]
  <2> DEFINE m == Memory(k, i, w, a, None, None, balance[w])
  <2>0. w \in Wallets /\ m.wallet = w /\ m.sample = balance[w] /\ UNCHANGED <<op, balance, res>>
    BY <1>4, SpendAssumption DEF Memory, Spend
  <2>1. CASE GotoWith(p, "capacity", m)
    <3> HIDE DEF m, w
    <3> QED
      BY <2>0, <2>1, SampleFits
  <2>2. CASE \E n : GotoWith(p, SpendReplayPoint(k, None), n)
    <3>1. SpendReplayPoint(k, None) \in SpendPoints \ Locking
      BY DEF SpendReplayPoint, Finished, SpendPoints, Locking
    <3> QED
      BY <2>0, <2>2, <3>1, ReadsAdmitNothing
  <2> QED
    BY <1>4, <2>1, <2>2 DEF Spend
<1>5. ASSUME CheckCapacity(p) PROVE AInv'
  <2>0. UNCHANGED <<op, balance, res>>
    BY <1>5 DEF CheckCapacity
  <2>1. CASE Goto(p, "idle")
    BY <2>0, <2>1, ReadsAdmitNothing DEF SpendPoints, Locking
  <2>2. CASE \E x \in Admitting : Covered(p) /\ Goto(p, x)
    <3>1. PICK x \in Admitting : Covered(p) /\ Goto(p, x)
      BY <2>2
    <3>2. pc'[p] = x
      BY <3>1 DEF SInv, TypeOK, Goto
    <3> QED
      BY <1>5, <3>1, <3>2, RequestCovered
  <2> QED
    BY <1>5, <2>1, <2>2 DEF CheckCapacity, Admitting
<1> QED
  BY <1>1, <1>2, <1>3, <1>4, <1>5 DEF Start

LEMMA EnvironmentAdmitsNothing ==
  ASSUME SInv, AInv, SInv', Environment
  PROVE  AInv'
<1>0. UNCHANGED <<op, res, pc, loc>>
  BY DEF Environment, MineSpend, EvictOne, spendVars
<1>1. RowsGoOn /\ HoldsGoOn /\ RowsDecided'
  BY <1>0 DEF RowsGoOn, HoldsGoOn, AInv, RowsDecided
<1>2. \A w \in Wallets : \A l \in Active(w)' : StillAsked(w, l)
  BY <1>1, NothingNew
<1>3. \A w \in Wallets : balance'[w] <= Funds[w]
  <2>1. CASE balance' = balance
    BY <2>1 DEF AInv
  <2>2. ASSUME NEW t \in pool, balance' = [balance EXCEPT ![t.wallet] = @ - t.amount]
        PROVE  \A w \in Wallets : balance'[w] <= Funds[w]
    <3>1. t.wallet \in Wallets /\ t.amount \in Nat /\ balance \in [Wallets -> Nat]
      BY AmountsAssumption DEF SInv, TypeOK, ChainTypeOK, Tx
    <3>2. ASSUME NEW w \in Wallets PROVE balance'[w] <= Funds[w]
      <4>1. balance[w] <= Funds[w] /\ Funds[w] \in Nat /\ balance[w] \in Nat
        BY <3>1, SpendAssumption DEF AInv
      <4>2. balance'[w] = balance[w] \/ balance'[w] = balance[w] - t.amount
        BY <2>2, <3>1
      <4> QED
        BY <3>1, <4>1, <4>2
    <3> QED
      BY <3>2
  <2> QED
    BY <2>1, <2>2 DEF Environment, MineSpend, spendVars
<1> QED
  BY <1>0, <1>1, <1>2, <1>3, NothingAdmitted

LEMMA NextAInv == SInv /\ SInv' /\ AInv /\ [Next]_vars => AInv'
<1> SUFFICES ASSUME SInv, SInv', AInv, [Next]_vars PROVE AInv'
  OBVIOUS
<1>1. ASSUME NEW p \in Procs, Claiming(p) PROVE AInv'
  <2>1. CASE Check(p)
    <3>1. UNCHANGED <<op, balance, res>> /\ \E x \in SpendPoints \ Locking : Goto(p, x)
      BY <2>1 DEF Check, spendVars, SpendPoints, Locking
    <3> QED
      BY <3>1, ReadsAdmitNothing
  <2> QED
    BY <1>1, <2>1, RequestsKeepFunds, HoldAdmitted, ManualAdmitted DEF Claiming
<1>2. ASSUME NEW p \in Procs, Settling(p), Next PROVE AInv'
  <2>1. CASE ZeroProject(p)
    BY <2>1, MarksAdmitNothing DEF ZeroProject, MarkStep
  <2> QED
    BY <1>2, <2>1, SettlementAdmitsNothing, ReservationsAdmitNothing DEF Settling
<1>3. ASSUME NEW p \in Procs, Transferring(p) PROVE AInv'
  <2>0. UNCHANGED spendVars /\ UNCHANGED <<balance, res>>
    BY <1>3 DEF Transferring, spendVars
  <2>1. CASE MarkStep(p)
    BY <2>0, <2>1, MarksAdmitNothing
  <2>2. CASE Verify(p) \/ VerifyFresh(p) \/ PrepareRefused(p) \/ Broadcast(p)
    <3>1. UNCHANGED op /\ \E x \in SpendPoints \ Locking : Goto(p, x)
      <4>1. \A e : EvidencePoint(e) \in SpendPoints \ Locking /\ FreshPoint(e) \in SpendPoints \ Locking
        BY DEF EvidencePoint, FreshPoint, SpendPoints, Locking
      <4> QED
        BY <2>2, <4>1 DEF Verify, VerifyFresh, PrepareRefused, Broadcast, SpendPoints, Locking
    <3> QED
      BY <2>0, <3>1, ReadsAdmitNothing
  <2> QED
    BY <1>3, <2>0, <2>1, <2>2, PrepareAdmitsNothing DEF Transferring, SubmissionStep, EvidenceStep, MarkStep
<1>4. ASSUME NEW p \in Procs, Projection(p) PROVE AInv'
  <2>1. CASE CompleteSpend(p)
    BY <2>1, MarksAdmitNothing DEF CompleteSpend, MarkStep
  <2>2. CASE RecordSpend(p) \/ Receipt(p) \/ VerifyProjected(p)
    <3>0. Finished(loc[p].delivery) \in SpendPoints \ Locking
      BY DEF Finished, SpendPoints, Locking
    <3>1. UNCHANGED <<op, balance, res>> /\ \E x \in SpendPoints \ Locking : Goto(p, x)
      BY <2>2, <3>0 DEF RecordSpend, Receipt, VerifyProjected, spendVars, SpendPoints, Locking
    <3> QED
      BY <3>1, ReadsAdmitNothing
  <2> QED
    BY <1>4, <2>1, <2>2 DEF Projection
<1>5. ASSUME NEW p \in Procs, CrashSpend(p) PROVE AInv'
  <2>1. UNCHANGED <<op, balance, res>> /\ Goto(p, "idle") /\ "idle" \in SpendPoints \ Locking
    BY <1>5 DEF CrashSpend, Crash, SpendPoints, Locking
  <2> QED
    BY <2>1, ReadsAdmitNothing
<1>6. CASE UNCHANGED vars
  <2>1. UNCHANGED <<op, balance, res, pc, loc>>
    BY <1>6 DEF vars, spendVars
  <2>2. RowsGoOn /\ HoldsGoOn /\ RowsDecided' /\ \A w \in Wallets : balance'[w] <= Funds[w]
    BY <2>1 DEF RowsGoOn, HoldsGoOn, AInv, RowsDecided
  <2>3. \A w \in Wallets : \A l \in Active(w)' : StillAsked(w, l)
    BY <2>2, NothingNew
  <2> QED
    BY <2>1, <2>2, <2>3, NothingAdmitted
<1> QED
  BY <1>1, <1>2, <1>3, <1>4, <1>5, <1>6, RequestsKeepFunds, EnvironmentAdmitsNothing DEF Next, Step

LEMMA InitAInv == Init => AInv
<1> SUFFICES ASSUME Init PROVE AInv
  OBVIOUS
<1>0. /\ op = [k \in Keys |-> None] /\ res = [k \in ReservationKeys |-> None]
      /\ pc = [p \in Procs |-> "idle"] /\ balance = Funds
  BY DEF Init, OperationsInit
<1>1. ASSUME NEW w \in Wallets PROVE Active(w) = {}
  BY <1>0 DEF Active, ActiveHolds, ActiveManual, ManualKeys
<1>2. Tokens({}) = {} /\ Total({}) = 0 /\ IsFiniteSet({})
  BY FS_EmptySet DEF Tokens, Total
<1>3. \A w \in Wallets : Funds[w] \in Nat
  BY SpendAssumption
<1>4. \A p \in Procs : FitsFunds(p)
  BY <1>0 DEF FitsFunds, Admitting
<1>5. RowsDecided
  BY <1>0 DEF RowsDecided
<1>6. ASSUME NEW w \in Wallets
      PROVE  IsFiniteSet(Tokens(Active(w))) /\ Total(Active(w)) <= Funds[w] /\ balance[w] <= Funds[w]
  <2>1. IsFiniteSet(Tokens(Active(w))) /\ Total(Active(w)) = 0
    BY <1>1, <1>2
  <2> QED
    BY <1>0, <1>3, <2>1
<1> QED
  BY <1>4, <1>5, <1>6 DEF AInv, AdmittedWithinFunds

\* Concurrent admissions never promise more than a wallet was given: the
\* reservations and manual spends that are not over, whatever runs race or
\* have crashed, ask for no more than its opening balance.
THEOREM SpendsAdmittedWithinFunds == Spec => []AdmittedWithinFunds
<1>1. AInv => AdmittedWithinFunds
  BY DEF AInv
<1> QED
  BY <1>1, InitAInv, NextAInv, SpendsInductive, PTL DEF Spec
=============================================================================
