------------------------- MODULE TransferRunsProofs -------------------------
(***************************************************************************)
(* What the proofs about awards and spends share: how rows, leases and the *)
(* chain hang together, and what the updates of TokenOperations return.    *)
(***************************************************************************)
EXTENDS TransferRuns, TLAPS

\* A lease and its row carry the same hash, and neither has one alone.
LeaseMatchesRow ==
  \A k \in Keys :
    /\ lease[k] # None => /\ op[k] # None /\ op[k].hash = lease[k].tx
                          /\ lease[k].tx.key = k
    /\ op[k] # None /\ op[k].hash # None => lease[k] # None

\* The chain only knows leased transfers, each in one place.
ChainIsLeased ==
  /\ \A t \in pool \cup paid \cup reverted : lease[t.key] # None /\ lease[t.key].tx = t
  /\ \A t \in reverted : t \notin pool /\ t \notin paid

\* A row between claim and commit, which no transfer has been prepared for.
Untouched(row) ==
  row # None /\ row.status = "submitting" /\ row.outcome = "unknown" /\ row.amount # 0
-----------------------------------------------------------------------------
(* The updates of TokenOperations keep the table well typed.               *)

\* An UPDATE that writes a well-typed row leaves a well-typed table.
LEMMA UpdateType ==
  ASSUME OperationsTypeOK, NEW k \in Keys, NEW guard, NEW row,
         op[k] # None => row \in Row
  PROVE  UpdateWhere(k, guard, row) \in [Keys -> Row \cup {None}]
BY DEF UpdateWhere, OperationsTypeOK

\* So do all the mark updates of TokenOperations.
LEMMA MarksType ==
  ASSUME OperationsTypeOK, NEW k \in Keys
  PROVE  /\ \A t \in Tx \cup {None} : MarkSubmitted(k, t) \in [Keys -> Row \cup {None}]
         /\ MarkUnknown(k) \in [Keys -> Row \cup {None}]
         /\ MarkConfirmed(k) \in [Keys -> Row \cup {None}]
         /\ MarkProjectionError(k) \in [Keys -> Row \cup {None}]
         /\ MarkProjected(k) \in [Keys -> Row \cup {None}]
         /\ \A o \in Outcomes : MarkFailed(k, o) \in [Keys -> Row \cup {None}]
         /\ MarkPreflightFailed(k) \in [Keys -> Row \cup {None}]
<1> DEFINE r == op[k]
<1>1. ASSUME r # None
      PROVE  /\ \A t \in Tx \cup {None} : [r EXCEPT !.hash = t, !.status = "submitted"] \in Row
             /\ [r EXCEPT !.status = "unknown"] \in Row
             /\ [r EXCEPT !.status = "confirmed", !.outcome = "confirmed"] \in Row
             /\ [r EXCEPT !.status = "confirmed"] \in Row
             /\ [r EXCEPT !.status = "projected",
                          !.outcome = IF r.amount = 0 THEN "no_movement" ELSE "confirmed"] \in Row
             /\ \A o \in Outcomes : [r EXCEPT !.status = "failed", !.outcome = o] \in Row
             /\ [r EXCEPT !.status = "failed", !.outcome = "no_movement"] \in Row
  <2>1. r \in Row
    BY <1>1 DEF OperationsTypeOK
  <2> QED
    BY <2>1 DEF Row, Statuses, OpenStatuses, Outcomes
<1> QED
  BY <1>1, UpdateType DEF MarkSubmitted, MarkUnknown, MarkConfirmed, MarkProjectionError,
     MarkProjected, MarkFailed, MarkPreflightFailed
-----------------------------------------------------------------------------
(* Rows, leases and the chain stay consistent.                             *)

TablesTyped == OperationsTypeOK /\ ChainTypeOK /\ LeaseTypeOK

\* Every transfer that the chain knows or may come to know is the one of its
\* lease and of its row, at a nonce of its own.
TransfersMatch == LeaseMatchesRow /\ NonceNeverReused /\ ChainIsLeased

\* None stands for no row and no lease.
NoneIsNoRow == None \notin Row /\ None \notin Lease

\* An update of row k that keeps its hash, or the first row of k, changes
\* nothing the leases and the chain depend on; nor does a mark on a lease.
LEMMA UpdatesMatch ==
  ASSUME TablesTyped, TransfersMatch, NEW k \in Keys, UNCHANGED chainVars,
         \A l \in Keys \ {k} : op'[l] = op[l],
         op[k] # None => op'[k] # None /\ op'[k].hash = op[k].hash,
         op[k] = None /\ op'[k] # None => op'[k].hash = None,
         \A l \in Keys : /\ lease'[l] = None <=> lease[l] = None
                         /\ lease[l] # None => lease'[l].tx = lease[l].tx
  PROVE  TransfersMatch'
<1>1. LeaseMatchesRow'
  BY DEF TransfersMatch, LeaseMatchesRow
<1>2. NonceNeverReused'
  BY DEF TransfersMatch, NonceNeverReused, Leased
<1>3. ChainIsLeased'
  BY DEF TransfersMatch, ChainIsLeased, chainVars, TablesTyped, ChainTypeOK, Tx
<1> QED
  BY <1>1, <1>2, <1>3 DEF TransfersMatch

\* A mark on a lease keeps its transfer.
LEMMA MarkedLeases ==
  ASSUME LeaseTypeOK, NoneIsNoRow, NEW k \in Keys, NEW status \in LeaseStatuses,
         lease' \in {lease, LeaseMarked(k, status)}
  PROVE  /\ LeaseTypeOK'
         /\ \A l \in Keys : /\ lease'[l] = None <=> lease[l] = None
                            /\ lease[l] # None => lease'[l].tx = lease[l].tx
<1>1. lease[k] # None =>
        LET new == [lease[k] EXCEPT !.status = status] IN
        new \in Lease /\ new.tx = lease[k].tx
  BY DEF LeaseTypeOK, Lease
<1> QED
  BY <1>1 DEF LeaseMarked, LeaseTypeOK, NoneIsNoRow

\* prepare signs at a nonce above those of all leases.
LEMMA NonceIsNew ==
  ASSUME TablesTyped, NEW pending \in ReportedNonces, NEW n \in NextNonces(pending)
  PROVE  n \in Nat /\ \A l \in Keys : lease[l] # None => lease[l].tx.nonce # n
<1>1. \A l \in Keys : lease[l] # None => lease[l].tx.nonce \in Nat
  BY DEF TablesTyped, LeaseTypeOK, Lease, Tx
<1>2. ReportedNonces \subseteq Nat
  BY DEF ReportedNonces, Known, Mined, TablesTyped, ChainTypeOK, Tx
<1>3. \A l \in Keys : lease[l] # None => lease[l].status # "failed"
  BY DEF TablesTyped, LeaseTypeOK, Lease, LeaseStatuses
<1> QED
  BY <1>1, <1>2, <1>3 DEF NextNonces, Holding, Leased

\* A lease and a hash are committed together, for a row that had none.
LEMMA PreparedMatch ==
  ASSUME TablesTyped, TransfersMatch, NoneIsNoRow, NEW k \in Keys, NEW t \in Tx, t.key = k,
         op[k] # None, op[k].hash = None, UNCHANGED chainVars,
         \A l \in Keys : lease[l] # None => lease[l].tx.nonce # t.nonce,
         lease' = PreparedLease(k, t), op' = PreparedTarget(k, t)
  PROVE  /\ TablesTyped' /\ TransfersMatch'
         /\ op'[k] # None /\ op'[k] = [op[k] EXCEPT !.hash = t, !.status = "submitting"]
         /\ op'[k].hash = t /\ op'[k].status = "submitting" /\ op'[k].outcome = op[k].outcome
         /\ op'[k].amount = op[k].amount /\ op'[k].wallet = op[k].wallet
         /\ \A l \in Keys \ {k} : op'[l] = op[l]
<1>0. /\ op \in [Keys -> Row \cup {None}] /\ lease \in [Keys -> Lease \cup {None}]
      /\ op[k] \in Row /\ t # None
  BY NoneAssumption DEF TablesTyped, OperationsTypeOK, LeaseTypeOK
<1> DEFINE row == [op[k] EXCEPT !.hash = t, !.status = "submitting"]
<1>1. op' = [op EXCEPT ![k] = row]
  BY <1>0 DEF PreparedTarget, Row
<1>2. /\ row \in Row /\ row # None /\ row.hash = t /\ row.status = "submitting"
      /\ row.outcome = op[k].outcome /\ row.amount = op[k].amount /\ row.wallet = op[k].wallet
  BY <1>0 DEF Row, Statuses, OpenStatuses, NoneIsNoRow
<1>3. op'[k] = row /\ \A l \in Keys \ {k} : op'[l] = op[l]
  BY <1>0, <1>1
<1> DEFINE new == [tx |-> t, status |-> "prepared"]
<1>4. new \in Lease /\ new # None /\ new.tx = t
  BY DEF Lease, LeaseStatuses, NoneIsNoRow
<1>5. lease'[k] = new /\ \A l \in Keys \ {k} : lease'[l] = lease[l]
  BY <1>0 DEF PreparedLease
<1>6. lease[k] = None
  BY <1>0, NoneAssumption DEF TransfersMatch, LeaseMatchesRow, Lease
<1>7. TablesTyped'
  BY <1>0, <1>1, <1>2, <1>4 DEF TablesTyped, OperationsTypeOK, LeaseTypeOK, ChainTypeOK, chainVars, PreparedLease
<1> HIDE DEF row, new
<1>8. LeaseMatchesRow'
  BY <1>0, <1>2, <1>3, <1>4, <1>5 DEF TransfersMatch, LeaseMatchesRow
<1>9. NonceNeverReused'
  BY <1>4, <1>5 DEF TransfersMatch, NonceNeverReused, Leased
<1>10. ChainIsLeased'
  BY <1>5, <1>6 DEF TransfersMatch, ChainIsLeased, chainVars, TablesTyped, ChainTypeOK, Tx
<1> QED
  BY <1>2, <1>3, <1>7, <1>8, <1>9, <1>10 DEF TransfersMatch, row

\* A broadcast hands the chain the leased transfer, or nothing.
LEMMA BroadcastMatches ==
  ASSUME TransfersMatch, NEW t, lease[t.key] # None, lease[t.key].tx = t,
         UNCHANGED <<op, lease, paid, reverted>>, pool' = pool \/ Accept(t)
  PROVE  TransfersMatch'
<1>1. pool' = pool \/ (pool' = pool \cup {t} /\ t \notin Known)
  BY DEF Accept
<1>2. ChainIsLeased'
  BY <1>1 DEF TransfersMatch, ChainIsLeased, Known, Mined
<1> QED
  BY <1>2 DEF TransfersMatch, LeaseMatchesRow, NonceNeverReused, Leased

\* Mining and eviction move leased transfers only, and a transfer is mined
\* with one receipt.
LEMMA ChainMatches ==
  ASSUME TablesTyped, TransfersMatch, UNCHANGED <<op, lease>>,
         \E t \in pool : Evict(t) \/ \E ok \in BOOLEAN : Mine(t, ok)
  PROVE  ChainTypeOK' /\ TransfersMatch' /\ reverted \subseteq reverted'
<1>1. PICK t \in pool : Evict(t) \/ \E ok \in BOOLEAN : Mine(t, ok)
  OBVIOUS
<1>2. /\ pool' = pool \ {t}
      /\ \/ UNCHANGED <<paid, reverted>>
         \/ t \notin Mined /\ paid' = paid \cup {t} /\ reverted' = reverted
         \/ t \notin Mined /\ paid' = paid /\ reverted' = reverted \cup {t}
  <2>1. t.nonce \in 0..t.nonce
    BY DEF TablesTyped, ChainTypeOK, Tx
  <2>2. ASSUME NEW ok \in BOOLEAN, Mine(t, ok) PROVE t \notin Mined
    BY <2>1, <2>2 DEF Mine, TablesTyped, ChainTypeOK, Tx
  <2> QED
    BY <1>1, <2>2 DEF Mine, Evict
<1>3. ChainIsLeased'
  BY <1>2 DEF TransfersMatch, ChainIsLeased, Mined
<1>4. ChainTypeOK' /\ reverted \subseteq reverted'
  BY <1>2 DEF TablesTyped, ChainTypeOK
<1> QED
  BY <1>3, <1>4 DEF TransfersMatch, LeaseMatchesRow, NonceNeverReused, Leased
=============================================================================
