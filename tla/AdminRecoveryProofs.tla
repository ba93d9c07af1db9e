------------------------ MODULE AdminRecoveryProofs ------------------------
(***************************************************************************)
(* What a recovery answers and what the operator is shown are true. A row  *)
(* only ever grows: it keeps its hash, its wallet and its amount, stays    *)
(* projected, and what is paid, booked, receipted or audited stays so. So  *)
(* what a request has read stays true enough to act on, whatever the       *)
(* executors and the other requests do meanwhile.                          *)
(*                                                                         *)
(* What recovery and every other part read and submit goes through the RPC *)
(* endpoints: the second half proves that a call keeps to the configured   *)
(* chain, that a submission goes out once, and that no read gives up       *)
(* before it asked every endpoint.                                         *)
(***************************************************************************)
EXTENDS AdminRecovery, RpcProvider, FiniteSetTheorems, SequenceTheorems,
        WellFoundedInduction, TLAPS

-----------------------------------------------------------------------------
(* The tables and the chain.                                               *)

TablesTyped ==
  /\ OperationsTypeOK /\ ChainTypeOK /\ owed \in [Keys -> Amounts]
  /\ transient \subseteq Keys /\ booked \subseteq Keys
  /\ settled \subseteq Reserved /\ receipts \subseteq Keys \ Awards
  /\ IsFiniteSet({k \in Keys : op[k] # None})

\* The chain knows the transfers of rows only, and mines each once.
ChainFollowsRows ==
  /\ \A t \in Known : op[t.key] # None /\ op[t.key].hash = t
  /\ \A t \in reverted : t \notin pool /\ t \notin paid

\* What a row says of the chain and of the books. A transfer is of the amount
\* of the run that signed it, which for an award need not be the saved one; a
\* row is failed for review only where the two differ.
RowTrue(k, row) ==
  /\ row.hash # None => /\ row.hash.key = k /\ row.hash.wallet = row.wallet /\ row.amount # 0
                        /\ k \notin Awards => row.hash.amount = row.amount
  /\ row.status = "confirmed" => row.hash # None
  /\ row.status = "projected" => row.amount = 0 \/ (row.hash # None /\ k \in booked)
  /\ row.status = "failed" =>
       /\ row.amount # 0
       /\ \/ row.hash = None \/ row.hash \in reverted
          \/ row.outcome = "review" /\ row.hash.amount # row.amount

RowsTrue ==
  /\ \A k \in Keys : op[k] # None => RowTrue(k, op[k])
  /\ \A k \in booked : op[k] # None /\ op[k].hash # None

\* A run signs nothing for a zero row, and of a spend what was saved.
Signable(k, row, a) == a # 0 => row.amount # 0 /\ (k \notin Awards => a = row.amount)
OwedTrue == \A k \in Keys : op[k] # None => Signable(k, op[k], owed[k])

Tables == TablesTyped /\ ChainFollowsRows /\ RowsTrue /\ OwedTrue
-----------------------------------------------------------------------------
(* The requests.                                                           *)

ServiceTyped ==
  /\ sessions \subseteq Admins
  /\ req \in [Requests -> Recovery \cup {None}]
  /\ faults \in 0 .. MaxFaults

\* The saved amount was paid.
Paid(k) == op[k].hash # None /\ op[k].hash \in paid /\ op[k].hash.amount = op[k].amount

\* Everything an answer of success promises.
Done(k) ==
  /\ op[k].status = "projected" /\ k \in booked
  /\ k \notin Awards => k \in receipts /\ Paid(k)

Announced(m) == [admin |-> m.admin, key |-> m.key] \in trail

\* What a request may rely on at each point.
Sound(m) ==
  /\ m.at \notin {"lookup", "announce"} => Announced(m)
  /\ m.at # "lookup" => op[m.key] # None
  /\ m.proven => m.at # "lookup" /\ Paid(m.key)
  /\ m.at = "verify" =>
       /\ m.row # None /\ m.row.hash # None /\ op[m.key].hash = m.row.hash
       /\ op[m.key].wallet = m.row.wallet /\ op[m.key].amount = m.row.amount
       /\ m.row.status = "projected" => m.key \notin Awards /\ op[m.key].status = "projected"
  /\ m.at \in {"confirm", "record", "projectionError", "project", "receipt"} => Paid(m.key)
  /\ m.at = "project" => m.key \in booked
  /\ m.at = "receipt" => op[m.key].status = "projected" /\ m.key \in booked /\ m.key \notin Awards
  /\ m.result = "completed" => m.at = "conclude" /\ Done(m.key)

RInv == Tables /\ ServiceTyped /\ \A r \in Requests : req[r] # None => Sound(req[r])
-----------------------------------------------------------------------------
(* What a step leaves alone.                                               *)

\* The row may be overwritten by one that keeps its transfer and its end.
Kept(old, row) ==
  /\ old.hash # None => row.hash = old.hash
  /\ row.wallet = old.wallet /\ row.amount = old.amount
  /\ old.status = "projected" => row.status = "projected"

Grow ==
  /\ \A k \in Keys : op[k] # None => op'[k] # None /\ Kept(op[k], op'[k])
  /\ paid \subseteq paid' /\ booked \subseteq booked'
  /\ receipts \subseteq receipts' /\ trail \subseteq trail'

\* What a request relies on stays true.
LEMMA SoundStays ==
  ASSUME NEW m \in Recovery, Sound(m), Grow
  PROVE  Sound(m)'
<1>1. m.key \in Keys
  BY DEF Recovery
<1>2. /\ op[m.key] # None => op'[m.key] # None
      /\ op[m.key] # None /\ op[m.key].hash # None => op'[m.key].hash = op[m.key].hash
      /\ op[m.key] # None => /\ op'[m.key].wallet = op[m.key].wallet
                             /\ op'[m.key].amount = op[m.key].amount
                             /\ op[m.key].status = "projected" => op'[m.key].status = "projected"
  BY <1>1 DEF Grow, Kept
<1>3. op[m.key] # None /\ Paid(m.key) => Paid(m.key)'
  BY <1>2 DEF Grow, Paid
<1>4. op[m.key] # None /\ Done(m.key) => Done(m.key)'
  BY <1>2, <1>3 DEF Grow, Done
<1>5. Announced(m) => Announced(m)'
  BY DEF Grow, Announced
<1> QED
  BY <1>1, <1>2, <1>3, <1>4, <1>5 DEF Sound, Grow

\* The next memory of a request, named.
LEMMA SoundNext ==
  ASSUME NEW r \in Requests, NEW m, req'[r] = m, Sound(m)'
  PROVE  Sound(req[r])'
BY DEF Sound, Announced, Paid, Done

\* Nothing is lost where nothing is written.
LEMMA QuietTables ==
  ASSUME Tables, UNCHANGED <<op, owed, chainVars, books>>, trail \subseteq trail'
  PROVE  Tables' /\ Grow
<1>1. UNCHANGED <<op, owed, pool, paid, reverted, transient, booked, settled, receipts>>
  BY DEF chainVars, books
<1>2. Tables'
  BY <1>1 DEF Tables, TablesTyped, OperationsTypeOK, ChainTypeOK, ChainFollowsRows, Known, Mined,
              RowsTrue, RowTrue, OwedTrue, Signable
<1> QED
  BY <1>1, <1>2 DEF Grow, Kept

\* The steps that write no row and move no request.
LEMMA RequestsStay ==
  ASSUME RInv, Tables', Grow, UNCHANGED req, sessions' \subseteq Admins, Fault \/ NoFault
  PROVE  RInv'
<1>1. ServiceTyped'
  BY RecoveryBoundsAssumption DEF RInv, ServiceTyped, Fault, NoFault
<1>2. ASSUME NEW r \in Requests, req'[r] # None
      PROVE  Sound(req[r])'
  <2>1. req[r] \in Recovery /\ Sound(req[r]) /\ req'[r] = req[r]
    BY <1>2 DEF RInv, ServiceTyped
  <2>2. PICK m \in Recovery : m = req[r]
    BY <2>1
  <2> QED
    BY <2>1, <2>2, SoundStays, SoundNext
<1> QED
  BY <1>1, <1>2 DEF RInv

\* One request moves; the others rely on what they did before.
LEMMA RequestMoves ==
  ASSUME RInv, Tables', Grow, NEW r \in Requests, NEW m \in Recovery \cup {None},
         req' = [req EXCEPT ![r] = m], m # None => Sound(m)',
         UNCHANGED sessions, Fault \/ NoFault
  PROVE  RInv'
<1>1. ServiceTyped'
  BY RecoveryBoundsAssumption DEF RInv, ServiceTyped, Fault, NoFault
<1>2. ASSUME NEW q \in Requests, req'[q] # None
      PROVE  Sound(req[q])'
  <2>1. CASE q = r
    <3>1. req'[q] = m
      BY <2>1 DEF RInv, ServiceTyped
    <3> QED
      BY <1>2, <3>1, SoundNext
  <2>2. CASE q # r
    <3>1. req[q] \in Recovery /\ Sound(req[q]) /\ req'[q] = req[q]
      BY <1>2, <2>2 DEF RInv, ServiceTyped
    <3>2. PICK n \in Recovery : n = req[q]
      BY <3>1
    <3> QED
      BY <3>1, <3>2, SoundStays, SoundNext
  <2> QED
    BY <2>1, <2>2
<1> QED
  BY <1>1, <1>2 DEF RInv
-----------------------------------------------------------------------------
(* Writing a row.                                                          *)

\* A true row in place of one whose transfer it keeps.
Replaces(k, row) == row \in Row /\ RowTrue(k, row) /\ Kept(op[k], row)

LEMMA RowWritten ==
  ASSUME Tables, NEW k \in Keys, NEW row,
         op[k] # None => Replaces(k, row),
         op[k] = None => row \in Row /\ RowTrue(k, row) /\ row.hash = None,
         op' = [op EXCEPT ![k] = row],
         NEW a \in Amounts, owed' = [owed EXCEPT ![k] = a], Signable(k, row, a),
         UNCHANGED <<chainVars, booked, settled, receipts>>, transient' \subseteq Keys,
         trail \subseteq trail'
  PROVE  Tables' /\ Grow
<1>0. /\ UNCHANGED <<pool, paid, reverted, booked, settled, receipts>>
      /\ row \in Row /\ row # None /\ op \in [Keys -> Row \cup {None}]
  BY RowsAssumption DEF chainVars, Tables, TablesTyped, OperationsTypeOK, Replaces
<1>1. op'[k] = row /\ \A l \in Keys : l # k => op'[l] = op[l]
  BY <1>0
<1>2. TablesTyped'
  <2>1. OperationsTypeOK' /\ ChainTypeOK'
    BY <1>0 DEF Tables, TablesTyped, OperationsTypeOK, ChainTypeOK
  <2>2. {l \in Keys : op'[l] # None} = {l \in Keys : op[l] # None} \cup {k}
    BY <1>0, <1>1
  <2>3. IsFiniteSet({l \in Keys : op'[l] # None})
    BY <2>2, FS_AddElement DEF Tables, TablesTyped
  <2> QED
    BY <1>0, <2>1, <2>3 DEF Tables, TablesTyped
<1>3. Grow
  <2>1. ASSUME NEW l \in Keys, op[l] # None
        PROVE  op'[l] # None /\ Kept(op[l], op'[l])
    BY <1>0, <1>1, <2>1 DEF Kept, Replaces
  <2> QED
    BY <1>0, <2>1 DEF Grow
<1>4. ChainFollowsRows'
  <2> SUFFICES ASSUME NEW t \in Known
               PROVE  op'[t.key] # None /\ op'[t.key].hash = t
    BY <1>0 DEF Tables, ChainFollowsRows, Known, Mined
  <2>1. t \in Tx /\ t.key \in Keys /\ t # None
    BY NoneAssumption DEF Known, Mined, Tables, TablesTyped, ChainTypeOK, Tx
  <2>2. op[t.key] # None /\ op[t.key].hash = t
    BY DEF Tables, ChainFollowsRows
  <2> QED
    BY <1>3, <2>1, <2>2 DEF Grow, Kept
<1>5. RowsTrue'
  <2>1. ASSUME NEW l \in Keys, op'[l] # None
        PROVE  RowTrue(l, op[l])'
    <3>1. RowTrue(l, op'[l])
      BY <1>1, <2>1 DEF Tables, RowsTrue, Replaces
    <3> QED
      BY <1>0, <3>1 DEF RowTrue
  <2>2. ASSUME NEW l \in booked
        PROVE  op'[l] # None /\ op'[l].hash # None
    <3>1. l \in Keys /\ op[l] # None /\ op[l].hash # None
      BY DEF Tables, TablesTyped, RowsTrue
    <3> QED
      BY <1>3, <3>1 DEF Grow, Kept
  <2> QED
    BY <1>0, <2>1, <2>2 DEF RowsTrue
<1>6. OwedTrue'
  <2> SUFFICES ASSUME NEW l \in Keys, op'[l] # None
               PROVE  Signable(l, op'[l], owed'[l])
    BY DEF OwedTrue, Signable
  <2>1. owed'[k] = a /\ \A q \in Keys : q # k => owed'[q] = owed[q]
    BY DEF Tables, TablesTyped
  <2> QED
    BY <1>1, <2>1 DEF Tables, OwedTrue, Signable
<1> QED
  BY <1>2, <1>3, <1>4, <1>5, <1>6 DEF Tables

\* UPDATE ... WHERE: the row is replaced or stays as it is.
LEMMA UpdateWritten ==
  ASSUME Tables, NEW k \in Keys, NEW guard, NEW row,
         op[k] # None /\ guard => Replaces(k, row),
         op' \in {op, UpdateWhere(k, guard, row)},
         UNCHANGED owed \/ owed' = [owed EXCEPT ![k] = 0],
         UNCHANGED <<chainVars, booked, settled, receipts>>, transient' \subseteq Keys,
         trail \subseteq trail'
  PROVE  Tables' /\ Grow
<1>0. PICK a \in {owed[k], 0} : owed' = [owed EXCEPT ![k] = a] /\ a \in Amounts
  BY AmountsAssumption DEF Tables, TablesTyped
<1>1. CASE op[k] # None /\ guard /\ op' = [op EXCEPT ![k] = row]
  <2>1. Signable(k, row, a)
    BY <1>0, <1>1 DEF Tables, OwedTrue, Signable, Replaces, Kept
  <2> QED
    BY <1>0, <1>1, <2>1, RowWritten
<1>2. CASE op' = op
  <2>1. CASE op[k] # None
    <3>1. op' = [op EXCEPT ![k] = op[k]]
      BY <1>2 DEF Tables, TablesTyped, OperationsTypeOK
    <3>2. Replaces(k, op[k])
      BY <2>1 DEF Replaces, Kept, Tables, TablesTyped, OperationsTypeOK, RowsTrue
    <3>3. Signable(k, op[k], a)
      BY <1>0, <2>1 DEF Tables, OwedTrue, Signable
    <3> QED
      BY <1>0, <2>1, <3>1, <3>2, <3>3, RowWritten
  <2>2. CASE op[k] = None
    <3>1. UNCHANGED <<op, pool, paid, reverted, booked, settled, receipts>>
      BY <1>2 DEF chainVars
    <3>2. TablesTyped' /\ ChainFollowsRows' /\ RowsTrue'
      BY <1>0, <3>1 DEF Tables, TablesTyped, OperationsTypeOK, ChainTypeOK, ChainFollowsRows,
                  Known, Mined, RowsTrue, RowTrue
    <3>3. OwedTrue'
      BY <1>0, <2>2, <3>1 DEF Tables, TablesTyped, OwedTrue, Signable
    <3> QED
      BY <3>1, <3>2, <3>3 DEF Tables, Grow, Kept
  <2> QED
    BY <2>1, <2>2
<1> QED
  BY <1>1, <1>2 DEF UpdateWhere

\* The marks of TokenOperations write true rows, where their callers know what
\* they say of the chain and the books.
LEMMA MarksReplace ==
  ASSUME Tables, NEW k \in Keys, op[k] # None
  PROVE  /\ op[k].status \in OpenStatuses =>
              Replaces(k, [op[k] EXCEPT !.status = "unknown"])
         /\ op[k].status \in OpenStatuses =>
              Replaces(k, [op[k] EXCEPT !.hash = op[k].hash, !.status = "submitted"])
         /\ op[k].status \in OpenStatuses \cup {"confirmed"} /\ op[k].hash # None =>
              /\ Replaces(k, [op[k] EXCEPT !.status = "confirmed", !.outcome = "confirmed"])
              /\ Replaces(k, [op[k] EXCEPT !.status = "confirmed"])
         /\ op[k].status \in OpenStatuses /\ op[k].hash \in reverted =>
              Replaces(k, [op[k] EXCEPT !.status = "failed", !.outcome = "no_movement"])
         /\ op[k].status \in OpenStatuses /\ op[k].hash # None /\ op[k].hash.amount # op[k].amount =>
              Replaces(k, [op[k] EXCEPT !.status = "failed", !.outcome = "review"])
         /\ op[k].hash = None /\ op[k].status # "projected" /\ op[k].amount # 0 =>
              Replaces(k, [op[k] EXCEPT !.status = "failed", !.outcome = "no_movement"])
         /\ op[k].amount = 0 \/ (op[k].hash # None /\ k \in booked) =>
              Replaces(k, [op[k] EXCEPT !.status = "projected",
                              !.outcome = IF op[k].amount = 0 THEN "no_movement" ELSE "confirmed"])
<1>1. op[k] \in Row /\ RowTrue(k, op[k])
  BY DEF Tables, TablesTyped, OperationsTypeOK, RowsTrue
<1>2. None \notin reverted
  BY NoneAssumption DEF Tables, TablesTyped, ChainTypeOK
<1> QED
  BY <1>1, <1>2 DEF Replaces, Kept, RowTrue, Row, Statuses, OpenStatuses, Outcomes

\* Awards and spends are claimed without a transfer, and a claim takes over
\* only a row that never had one.
LEMMA ClaimWrites ==
  ASSUME Tables, NEW k \in Keys, Claim(k), UNCHANGED <<chainVars, booked, settled, receipts, trail>>
  PROVE  Tables' /\ Grow
<1>0. transient' \subseteq Keys /\ trail \subseteq trail'
  BY DEF Claim, Tables, TablesTyped
<1>1. ASSUME NEW i \in Intents, NEW w \in Wallets, NEW a \in Amounts,
             op[k] = None, op' = Inserted(k, i, w, a), owed' = [owed EXCEPT ![k] = a]
      PROVE  Tables' /\ Grow
  <2>1. /\ NewRow(i, w, a) \in Row /\ RowTrue(k, NewRow(i, w, a)) /\ NewRow(i, w, a).hash = None
        /\ Signable(k, NewRow(i, w, a), a)
    BY DEF NewRow, Row, Statuses, OpenStatuses, Outcomes, RowTrue, Signable
  <2>2. op' = [op EXCEPT ![k] = NewRow(i, w, a)]
    BY <1>1 DEF Inserted
  <2> HIDE DEF NewRow
  <2> QED
    BY <1>0, <1>1, <2>1, <2>2, RowWritten
<1>2. ASSUME op[k] # None, Reclaimable(k), op' = Reclaimed(k), NEW a \in Amounts,
             k \notin Awards => a = op[k].amount, owed' = [owed EXCEPT ![k] = a]
      PROVE  Tables' /\ Grow
  <2> DEFINE row == [op[k] EXCEPT !.status = "submitting", !.outcome = "unknown"]
  <2>1. op[k] \in Row /\ RowTrue(k, op[k]) /\ op \in [Keys -> Row \cup {None}]
    BY <1>2 DEF Tables, TablesTyped, OperationsTypeOK, RowsTrue
  <2>2. op' = [op EXCEPT ![k] = row]
    BY <1>2, <2>1 DEF Reclaimed
  <2>3. Replaces(k, row)
    BY <1>2, <2>1
       DEF Reclaimable, Replaces, Kept, RowTrue, Row, Statuses, OpenStatuses, Outcomes
  <2>4. Signable(k, row, a)
    BY <1>2, <2>1 DEF Reclaimable, RowTrue, Row, Signable
  <2> HIDE DEF row
  <2> QED
    BY <1>0, <1>2, <2>2, <2>3, <2>4, RowWritten
<1>3. CASE op[k] = None
  <2>1. PICK i \in Intents, w \in Wallets, a \in Amounts :
           op' = Inserted(k, i, w, a) /\ owed' = [owed EXCEPT ![k] = a]
    BY <1>3, RecoveryBoundsAssumption DEF Claim
  <2> QED
    BY <1>1, <1>3, <2>1
<1>4. CASE op[k] # None
  <2>1. op[k].amount \in Amounts
    BY <1>4 DEF Tables, TablesTyped, OperationsTypeOK, Row
  <2>2. PICK a \in Amounts : (k \notin Awards => a = op[k].amount) /\ owed' = [owed EXCEPT ![k] = a]
    BY <1>4, <2>1 DEF Claim
  <2> QED
    BY <1>2, <1>4, <2>2 DEF Claim
<1> QED
  BY <1>3, <1>4

\* The signed transfer is of the run's amount, and the row had none.
LEMMA PrepareWrites ==
  ASSUME Tables, NEW k \in Keys, Prepare(k), UNCHANGED <<chainVars, books, trail>>
  PROVE  Tables' /\ Grow
<1> DEFINE n == Cardinality({l \in Keys : op[l] # None /\ op[l].hash # None})
           t == [key |-> k, nonce |-> n, wallet |-> op[k].wallet, amount |-> owed[k]]
           row == [op[k] EXCEPT !.hash = t]
<1>0. /\ UNCHANGED <<booked, settled, receipts>> /\ transient' \subseteq Keys
      /\ trail \subseteq trail'
  BY DEF books, Tables, TablesTyped
<1>1. /\ op[k] # None /\ op[k].status = "submitting" /\ op[k].hash = None /\ owed[k] > 0
      /\ op' = [op EXCEPT ![k].hash = t] /\ owed' = [owed EXCEPT ![k] = 0] /\ 0 \in Amounts
  BY AmountsAssumption DEF Prepare
<1>2. op[k] \in Row /\ op \in [Keys -> Row \cup {None}] /\ owed[k] \in Amounts /\ owed[k] # 0
  BY <1>1, AmountsAssumption DEF Tables, TablesTyped, OperationsTypeOK
<1>3. n \in Nat
  <2>1. {l \in Keys : op[l] # None /\ op[l].hash # None} \subseteq {l \in Keys : op[l] # None}
    OBVIOUS
  <2>2. IsFiniteSet({l \in Keys : op[l] # None /\ op[l].hash # None})
    BY <2>1, FS_Subset DEF Tables, TablesTyped
  <2> QED
    BY <2>2, FS_CardinalityType
<1> HIDE DEF n
<1>4. /\ t \in Tx /\ t.key = k /\ t.wallet = op[k].wallet /\ t.amount = owed[k]
      /\ op[k].amount # 0 /\ (k \notin Awards => owed[k] = op[k].amount)
  BY <1>1, <1>2, <1>3 DEF Row, Tx, Tables, OwedTrue, Signable
<1>5. op' = [op EXCEPT ![k] = row]
  BY <1>1, <1>2
<1> HIDE DEF t
<1>6. row \in Row /\ row.hash = t /\ row.wallet = op[k].wallet /\ row.amount = op[k].amount
      /\ row.status = "submitting"
  BY <1>1, <1>2, <1>4 DEF Row
<1>7. Replaces(k, row) /\ Signable(k, row, 0)
  BY <1>1, <1>4, <1>6 DEF Replaces, Kept, RowTrue, Signable
<1> HIDE DEF row
<1> QED
  BY <1>0, <1>1, <1>5, <1>7, RowWritten

\* A read of the chain that says valid is of a paid transfer of this amount;
\* a mismatch is of another wallet or amount.
LEMMA EvidenceMeans ==
  ASSUME NEW t, NEW w, NEW a
  PROVE  /\ Evidence(t, w, a) = "valid" => t \in paid /\ t.amount = a
         /\ Evidence(t, w, a) = "reverted" => t \in reverted
         /\ Evidence(t, w, a) = "mismatch" => t.wallet # w \/ t.amount # a
BY DEF Evidence, Known, Mined

LEMMA MarkWrites ==
  ASSUME Tables, NEW k \in Keys, Mark(k), UNCHANGED <<owed, chainVars, books, trail>>
  PROVE  Tables' /\ Grow
<1>0. /\ UNCHANGED <<owed, booked, settled, receipts>> /\ transient' \subseteq Keys
      /\ trail \subseteq trail'
  BY DEF books, Tables, TablesTyped
<1>1. op[k] # None /\ op[k].hash # None
  BY DEF Mark
<1>2. CASE op' = MarkSubmitted(k, op[k].hash)
  BY <1>0, <1>1, <1>2, MarksReplace, UpdateWritten DEF MarkSubmitted
<1>3. CASE op' = MarkUnknown(k)
  BY <1>0, <1>1, <1>3, MarksReplace, UpdateWritten DEF MarkUnknown
<1>4. CASE op' = MarkProjectionError(k)
  BY <1>0, <1>1, <1>4, MarksReplace, UpdateWritten DEF MarkProjectionError
<1>5. CASE op' = MarkConfirmed(k)
  BY <1>0, <1>1, <1>5, MarksReplace, UpdateWritten DEF MarkConfirmed
<1>6. ASSUME NEW a \in {op[k].amount, op[k].hash.amount},
             Evidence(op[k].hash, op[k].wallet, a) = "reverted", op' = MarkFailed(k, "no_movement")
      PROVE  Tables' /\ Grow
  <2>1. op[k].hash \in reverted
    BY <1>6, EvidenceMeans
  <2> QED
    BY <1>0, <1>1, <1>6, <2>1, MarksReplace, UpdateWritten DEF MarkFailed
<1>7. ASSUME NEW a \in {op[k].amount, op[k].hash.amount},
             Evidence(op[k].hash, op[k].wallet, a) = "mismatch", op' = MarkFailed(k, "review")
      PROVE  Tables' /\ Grow
  <2>1. op[k].hash.wallet = op[k].wallet
    BY <1>1 DEF Tables, RowsTrue, RowTrue
  <2>2. op[k].hash.amount # op[k].amount
    BY <1>7, <2>1, EvidenceMeans
  <2> QED
    BY <1>0, <1>1, <1>7, <2>2, MarksReplace, UpdateWritten DEF MarkFailed
<1> QED
  BY <1>2, <1>3, <1>4, <1>5, <1>6, <1>7 DEF Mark

LEMMA RefuseWrites ==
  ASSUME Tables, NEW k \in Keys, Refuse(k),
         UNCHANGED <<chainVars, booked, settled, receipts, trail>>
  PROVE  Tables' /\ Grow
<1>1. /\ op[k] # None /\ op[k].status = "submitting" /\ op[k].hash = None /\ owed[k] > 0
      /\ op' = MarkPreflightFailed(k) /\ transient' \subseteq Keys /\ trail \subseteq trail'
      /\ owed' = [owed EXCEPT ![k] = 0]
  BY DEF Refuse, Tables, TablesTyped
<1>2. op[k].amount # 0
  BY <1>1 DEF Tables, OwedTrue, Signable
<1> QED
  BY <1>1, <1>2, MarksReplace, UpdateWritten DEF MarkPreflightFailed

LEMMA ProjectWrites ==
  ASSUME Tables, NEW k \in Keys, Project(k), UNCHANGED <<owed, chainVars, books, trail>>
  PROVE  Tables' /\ Grow
<1>0. /\ UNCHANGED <<owed, booked, settled, receipts>> /\ transient' \subseteq Keys
      /\ trail \subseteq trail'
  BY DEF books, Tables, TablesTyped
<1>1. /\ op[k] # None /\ op' = MarkProjected(k)
      /\ op[k].amount = 0 \/ (op[k].hash # None /\ k \in booked)
  BY DEF Project, Tables, RowsTrue
<1> QED
  BY <1>0, <1>1, MarksReplace, UpdateWritten DEF MarkProjected
-----------------------------------------------------------------------------
(* The books and the chain.                                                *)

\* Only operations with a transfer are booked, and only spends get receipts.
LEMMA BooksWritten ==
  ASSUME Tables, UNCHANGED <<op, owed, chainVars, transient>>, trail \subseteq trail',
         booked \subseteq booked', receipts \subseteq receipts',
         booked' \subseteq Keys, settled' \subseteq Reserved, receipts' \subseteq Keys \ Awards,
         \A k \in booked' : k \in booked \/ (op[k] # None /\ op[k].hash # None)
  PROVE  Tables' /\ Grow
<1>1. UNCHANGED <<op, owed, pool, paid, reverted, transient>>
  BY DEF chainVars
<1>2. TablesTyped'
  BY <1>1 DEF Tables, TablesTyped, OperationsTypeOK, ChainTypeOK
<1>3. ChainFollowsRows' /\ RowsTrue' /\ OwedTrue'
  BY <1>1 DEF Tables, ChainFollowsRows, Known, Mined, RowsTrue, RowTrue, OwedTrue, Signable
<1> QED
  BY <1>1, <1>2, <1>3 DEF Tables, Grow, Kept

\* The chain hears of transfers of rows only.
LEMMA BroadcastWrites ==
  ASSUME Tables, NEW k \in Keys, Broadcast(k), UNCHANGED <<op, owed, paid, reverted, books, trail>>
  PROVE  Tables' /\ Grow
<1>1. UNCHANGED <<op, owed, paid, reverted, transient, booked, settled, receipts, trail>>
  BY DEF books
<1>2. /\ op[k] # None /\ op[k].hash # None /\ op[k].hash \notin Known
      /\ pool' = pool \/ pool' = pool \cup {op[k].hash}
  BY DEF Broadcast, Accept
<1>3. op[k].hash \in Tx /\ op[k].hash.key = k
  BY <1>2 DEF Tables, TablesTyped, OperationsTypeOK, Row, RowsTrue, RowTrue
<1>4. TablesTyped'
  BY <1>1, <1>2, <1>3 DEF Tables, TablesTyped, OperationsTypeOK, ChainTypeOK
<1>5. ChainFollowsRows' /\ RowsTrue' /\ OwedTrue'
  BY <1>1, <1>2, <1>3 DEF Tables, ChainFollowsRows, Known, Mined, RowsTrue, RowTrue, OwedTrue, Signable
<1> QED
  BY <1>1, <1>4, <1>5 DEF Tables, Grow, Kept

\* Mining and eviction move transfers that the chain knew, each once.
LEMMA ChainWrites ==
  ASSUME Tables, Chain
  PROVE  Tables' /\ Grow
<1>1. UNCHANGED <<op, owed, transient, booked, settled, receipts, trail>>
  BY DEF Chain, books
<1>2. PICK t \in pool : Mine(t, TRUE) \/ Mine(t, FALSE) \/ Evict(t)
  BY DEF Chain
<1>3. t \in Tx /\ t.nonce \in Nat /\ t.nonce \in 0..t.nonce
  BY DEF Tables, TablesTyped, ChainTypeOK, Tx
<1>4. /\ pool' = pool \ {t}
      /\ \/ UNCHANGED <<paid, reverted>>
         \/ t \notin Mined /\ paid' = paid \cup {t} /\ reverted' = reverted
         \/ t \notin Mined /\ paid' = paid /\ reverted' = reverted \cup {t}
  <2>1. ASSUME NEW ok \in BOOLEAN, Mine(t, ok)
        PROVE  t \notin Mined
    BY <1>3, <2>1 DEF Mine
  <2> QED
    BY <1>2, <2>1 DEF Mine, Evict
<1>5. TablesTyped'
  BY <1>1, <1>3, <1>4 DEF Tables, TablesTyped, OperationsTypeOK, ChainTypeOK
<1>6. ChainFollowsRows'
  BY <1>1, <1>4 DEF Tables, ChainFollowsRows, Known, Mined
<1>7. paid \subseteq paid' /\ reverted \subseteq reverted'
  BY <1>4
<1>8. RowsTrue' /\ OwedTrue'
  BY <1>1, <1>7 DEF Tables, RowsTrue, RowTrue, OwedTrue, Signable
<1> QED
  BY <1>1, <1>5, <1>6, <1>7, <1>8 DEF Tables, Grow, Kept

LEMMA ExecutorWrites ==
  ASSUME Tables, Executor
  PROVE  Tables' /\ Grow
<1>1. PICK k \in Keys :
        \/ Claim(k) /\ UNCHANGED <<chainVars, booked, settled, receipts>>
        \/ Refuse(k) /\ UNCHANGED <<chainVars, booked, settled, receipts>>
        \/ Prepare(k) /\ UNCHANGED <<chainVars, books>>
        \/ Broadcast(k) /\ UNCHANGED <<op, owed, paid, reverted, books>>
        \/ Mark(k) /\ UNCHANGED <<owed, chainVars, books>>
        \/ Record(k) /\ UNCHANGED <<op, owed, chainVars, transient, settled, receipts>>
        \/ Project(k) /\ UNCHANGED <<owed, chainVars, books>>
        \/ Settle(k) /\ UNCHANGED <<op, owed, chainVars, transient, booked, receipts>>
        \/ Sign(k) /\ UNCHANGED <<op, owed, chainVars, transient, booked, settled>>
  BY DEF Executor
<1>2. UNCHANGED trail
  BY DEF Executor
<1>3. CASE Record(k) /\ UNCHANGED <<op, owed, chainVars, transient, settled, receipts>>
  <2>1. op[k] # None /\ op[k].hash # None /\ booked' = booked \cup {k}
    BY <1>3 DEF Record
  <2>2. booked' \subseteq Keys /\ settled' \subseteq Reserved /\ receipts' \subseteq Keys \ Awards
    BY <1>3, <2>1 DEF Tables, TablesTyped
  <2> QED
    BY <1>2, <1>3, <2>1, <2>2, BooksWritten
<1>4. CASE Settle(k) /\ UNCHANGED <<op, owed, chainVars, transient, booked, receipts>>
  <2>1. settled' \subseteq Reserved /\ booked' \subseteq Keys /\ receipts' \subseteq Keys \ Awards
    BY <1>4 DEF Settle, Tables, TablesTyped
  <2> QED
    BY <1>2, <1>4, <2>1, BooksWritten
<1>5. CASE Sign(k) /\ UNCHANGED <<op, owed, chainVars, transient, booked, settled>>
  <2>1. /\ receipts' = receipts \cup {k} /\ receipts' \subseteq Keys \ Awards
        /\ booked' \subseteq Keys /\ settled' \subseteq Reserved
    BY <1>5 DEF Sign, Tables, TablesTyped
  <2> QED
    BY <1>2, <1>5, <2>1, BooksWritten
<1> QED
  BY <1>1, <1>2, <1>3, <1>4, <1>5, ClaimWrites, RefuseWrites, PrepareWrites, BroadcastWrites,
     MarkWrites, ProjectWrites
-----------------------------------------------------------------------------
(* The steps of a request.                                                 *)

\* What is known of a request that is under way.
LEMMA UnderWay ==
  ASSUME RInv, NEW r \in Requests, req[r] # None
  PROVE  req[r] \in Recovery /\ Sound(req[r]) /\ req[r].key \in Keys /\ req[r].admin \in Admins
<1>1. req[r] \in Recovery /\ Sound(req[r])
  BY DEF RInv, ServiceTyped
<1> QED
  BY <1>1 DEF Recovery

\* A paid transfer stays paid.
LEMMA PaidStays ==
  ASSUME Grow, NEW k \in Keys, op[k] # None, Paid(k)
  PROVE  Paid(k)' /\ op'[k] # None
BY DEF Grow, Kept, Paid

\* A request that has been announced ends with its result; success only when
\* everything it promises is done.
LEMMA ConcludeMoves ==
  ASSUME RInv, Tables', Grow, NEW r \in Requests, req[r] # None, req[r].at # "lookup",
         NEW k \in Keys, k = req[r].key,
         NEW result \in Results, Conclude(r, result), Entry(r) \in trail',
         result = "completed" => Done(k)',
         UNCHANGED sessions, Fault \/ NoFault
  PROVE  RInv'
<1> DEFINE m == [req[r] EXCEPT !.at = "conclude", !.result = result, !.row = None]
<1>1. req[r] \in Recovery /\ Sound(req[r])
  BY UnderWay
<1>2. /\ m \in Recovery /\ m.key = k /\ m.admin = req[r].admin /\ m.at = "conclude"
      /\ m.result = result /\ m.proven = req[r].proven
  BY <1>1 DEF Recovery, Points
<1>3. PICK n \in Recovery : n = m
  BY <1>2
<1>4. req' = [req EXCEPT ![r] = n]
  BY <1>1, <1>3 DEF Conclude, RInv, ServiceTyped
<1>5. op'[k] # None
  BY <1>1 DEF Sound, Grow
<1>6. /\ n.at = "conclude" /\ n.key = k /\ n.admin = req[r].admin /\ n.result = result
      /\ n.proven => Paid(n.key)'
  BY <1>1, <1>2, <1>3, PaidStays DEF Sound
<1>7. Announced(n)'
  BY <1>6 DEF Announced, Entry
<1>8. result = "completed" => Done(n.key)'
  BY <1>6
<1>9. Sound(n)'
  BY <1>5, <1>6, <1>7, <1>8 DEF Sound
<1> QED
  BY <1>4, <1>9, RequestMoves

\* An announced request goes on to a call that what it knows entitles it to.
LEMMA GoMoves ==
  ASSUME RInv, Tables', Grow, NEW r \in Requests, req[r] # None,
         req[r].at \notin {"lookup", "conclude"}, NEW k \in Keys, k = req[r].key,
         NEW to \in Points \ {"lookup", "announce", "verify", "conclude"},
         Goto(r, to) \/ Proceed(r, to) \/ (Proven(r, to) /\ Paid(k)'), Entry(r) \in trail',
         to \in {"confirm", "record", "projectionError", "project", "receipt"} => Paid(k)',
         to = "project" => k \in booked',
         to = "receipt" => op'[k].status = "projected" /\ k \in booked' /\ k \notin Awards,
         UNCHANGED sessions, Fault \/ NoFault
  PROVE  RInv'
<1>1. req[r] \in Recovery /\ Sound(req[r])
  BY UnderWay
<1>2. ASSUME NEW m, m \in {[req[r] EXCEPT !.at = to], [req[r] EXCEPT !.at = to, !.row = None],
                              [req[r] EXCEPT !.at = to, !.row = None, !.proven = TRUE]}
      PROVE  m \in Recovery /\ m.key = k /\ m.admin = req[r].admin /\ m.at = to
             /\ m.result = req[r].result
  BY <1>1, <1>2 DEF Recovery
<1>3. PICK n \in Recovery : /\ req' = [req EXCEPT ![r] = n]
                            /\ n.key = k /\ n.admin = req[r].admin /\ n.at = to
                            /\ n.result = req[r].result
                            /\ n.proven => Paid(k)'
  <2>0. req[r].proven => Paid(k)'
    BY <1>1, PaidStays DEF Sound
  <2>1. CASE Goto(r, to)
    BY <1>1, <1>2, <2>0, <2>1 DEF Goto, RInv, ServiceTyped, Recovery
  <2>2. CASE Proceed(r, to)
    BY <1>1, <1>2, <2>0, <2>2 DEF Proceed, RInv, ServiceTyped, Recovery
  <2>3. CASE Proven(r, to) /\ Paid(k)'
    BY <1>1, <1>2, <2>3 DEF Proven, RInv, ServiceTyped
  <2> QED
    BY <2>1, <2>2, <2>3
<1>4. op'[k] # None /\ n.result # "completed"
  BY <1>1, <1>3 DEF Sound, Grow
<1>5. Announced(n)'
  BY <1>3 DEF Announced, Entry
<1>6. /\ to \in {"confirm", "record", "projectionError", "project", "receipt"} => Paid(n.key)'
      /\ n.proven => Paid(n.key)'
  BY <1>3
<1>7. Sound(n)'
  BY <1>3, <1>4, <1>5, <1>6 DEF Sound
<1> QED
  BY <1>3, <1>7, RequestMoves

\* A request that is answered is forgotten.
LEMMA AnsweredMoves ==
  ASSUME RInv, Tables', Grow, NEW r \in Requests, Answered(r), UNCHANGED sessions,
         Fault \/ NoFault
  PROVE  RInv'
BY RequestMoves DEF Answered
-----------------------------------------------------------------------------
(* The calls of a recovery.                                                *)

\* A request at work, past its announcement.
LEMMA AtWork ==
  ASSUME RInv, NEW r \in Requests, req[r] # None, req[r].at \notin {"lookup", "announce"}
  PROVE  Entry(r) \in trail
BY UnderWay DEF Sound, Announced, Entry

\* What is answered short of success.
LEMMA ResultsTyped ==
  ASSUME NEW pending, NEW review
  PROVE  Result(pending, review) \in Results \ {"completed"}
BY DEF Result, Results

\* A request that stops short of success, having written nothing.
LEMMA GiveUp ==
  ASSUME RInv, NEW r \in Requests, req[r] # None, req[r].at \notin {"lookup", "announce"},
         NEW result \in Results \ {"completed"}, Conclude(r, result), Fault \/ NoFault,
         UNCHANGED <<op, owed, chainVars, books, sessions, trail>>
  PROVE  RInv'
<1>1. Tables' /\ Grow
  BY QuietTables DEF RInv
<1>2. PICK k \in Keys : k = req[r].key
  BY UnderWay
<1>3. Entry(r) \in trail'
  BY AtWork
<1> QED
  BY <1>1, <1>2, <1>3, ConcludeMoves

LEMMA AskMoves ==
  ASSUME RInv, NEW r \in Requests, NEW x \in Admins, NEW k \in Keys, Ask(r, x, k)
  PROVE  RInv'
<1> DEFINE m == [admin |-> x, key |-> k, at |-> "lookup", row |-> None,
              proven |-> FALSE, result |-> None]
<1>1. /\ req' = [req EXCEPT ![r] = m] /\ Tables' /\ Grow /\ UNCHANGED sessions /\ NoFault
  BY QuietTables DEF Ask, RInv, NoFault
<1>2. m \in Recovery /\ m.at = "lookup" /\ m.result # "completed" /\ ~m.proven
  BY RowsAssumption DEF Recovery, Points, Results
<1> HIDE DEF m
<1>3. Sound(m)'
  BY <1>2 DEF Sound
<1> QED
  BY <1>1, <1>2, <1>3, RequestMoves

LEMMA LookupMoves ==
  ASSUME RInv, NEW r \in Requests, Lookup(r)
  PROVE  RInv'
<1>1. /\ req[r] # None /\ req[r].at = "lookup" /\ Tables' /\ Grow
      /\ UNCHANGED <<op, sessions>> /\ (Fault \/ NoFault)
  BY QuietTables DEF Lookup, Step, RInv
<1>2. CASE Answered(r)
  BY <1>1, <1>2, AnsweredMoves
<1>3. CASE op[req[r].key] # None /\ req' = [req EXCEPT ![r].at = "announce", ![r].row = op[req[r].key]]
  <2>1. PICK k \in Keys : k = req[r].key
    BY <1>1, UnderWay
  <2> DEFINE m == [req[r] EXCEPT !.at = "announce", !.row = op[k]]
  <2>2. req[r] \in Recovery /\ Sound(req[r])
    BY <1>1, UnderWay
  <2>3. op[k] \in Row
    BY <1>3, <2>1 DEF RInv, Tables, TablesTyped, OperationsTypeOK
  <2>4. m \in Recovery /\ m.at = "announce" /\ m.key = k /\ m.result = req[r].result
        /\ m.proven = req[r].proven
    BY <2>1, <2>2, <2>3 DEF Recovery, Points
  <2>5. PICK n \in Recovery : n = m
    BY <2>4
  <2>6. req' = [req EXCEPT ![r] = n]
    BY <1>3, <2>1, <2>2, <2>5 DEF RInv, ServiceTyped
  <2>7. n.at = "announce" /\ n.key = k /\ n.result # "completed" /\ op'[k] # None /\ ~n.proven
    BY <1>1, <1>3, <2>1, <2>2, <2>4, <2>5 DEF Sound
  <2>8. Sound(n)'
    BY <2>7 DEF Sound
  <2> QED
    BY <1>1, <2>6, <2>8, RequestMoves
<1> QED
  BY <1>2, <1>3 DEF Lookup

LEMMA AnnounceMoves ==
  ASSUME RInv, NEW r \in Requests, Announce(r)
  PROVE  RInv'
<1>1. /\ req[r] # None /\ req[r].at = "announce"
      /\ UNCHANGED <<op, owed, chainVars, books, sessions>> /\ (Fault \/ NoFault)
      /\ trail \subseteq trail'
  BY DEF Announce, Step
<1>2. Tables' /\ Grow
  BY <1>1, QuietTables DEF RInv
<1>3. PICK k \in Keys : k = req[r].key
  BY <1>1, UnderWay
<1>4. CASE Answered(r)
  BY <1>1, <1>2, <1>4, AnsweredMoves
<1>5. CASE Conclude(r, "blocked") /\ trail' = trail \cup {Entry(r)}
  <2>1. "blocked" \in Results /\ "blocked" # "completed"
    BY DEF Results
  <2> QED
    BY <1>1, <1>2, <1>3, <1>5, <2>1, ConcludeMoves
<1>6. ASSUME NEW to \in {"reservation", "read"}, Proceed(r, to),
             trail' = trail \cup {Entry(r)}
      PROVE  RInv'
  <2>1. to \in Points \ {"lookup", "announce", "verify", "conclude"}
    BY DEF Points
  <2> QED
    BY <1>1, <1>2, <1>3, <1>6, <2>1, GoMoves
<1> QED
  BY <1>4, <1>5, <1>6 DEF Announce

LEMMA ReservationMoves ==
  ASSUME RInv, NEW r \in Requests, ReadReservation(r)
  PROVE  RInv'
<1>1. /\ req[r] # None /\ req[r].at = "reservation"
      /\ UNCHANGED <<op, owed, chainVars, books, sessions, trail>> /\ (Fault \/ NoFault)
  BY DEF ReadReservation, Step
<1>2. Tables' /\ Grow
  BY <1>1, QuietTables DEF RInv
<1>3. PICK k \in Keys : k = req[r].key
  BY <1>1, UnderWay
<1>4. CASE Goto(r, "read")
  <2>1. "read" \in Points \ {"lookup", "announce", "verify", "conclude"}
    BY DEF Points
  <2> QED
    BY <1>1, <1>2, <1>3, <1>4, <2>1, GoMoves, AtWork
<1>5. CASE Conclude(r, "blocked")
  <2>1. "blocked" \in Results \ {"completed"}
    BY DEF Results
  <2> QED
    BY <1>1, <1>5, <2>1, GiveUp
<1> QED
  BY <1>4, <1>5 DEF ReadReservation

\* A projected award is finished; any other row with a hash is verified, as it
\* was read.
LEMMA ReadMoves ==
  ASSUME RInv, NEW r \in Requests, Read(r)
  PROVE  RInv'
<1>1. /\ req[r] # None /\ req[r].at = "read"
      /\ UNCHANGED <<op, owed, chainVars, books, sessions, trail>> /\ (Fault \/ NoFault)
  BY DEF Read, Step
<1>2. Tables' /\ Grow
  BY <1>1, QuietTables DEF RInv
<1>3. PICK k \in Keys : k = req[r].key
  BY <1>1, UnderWay
<1>4. req[r] \in Recovery /\ Sound(req[r]) /\ Entry(r) \in trail
  BY <1>1, UnderWay, AtWork
<1>5. op[k] # None /\ op[k] \in Row /\ RowTrue(k, op[k])
  BY <1>1, <1>3, <1>4 DEF Sound, RInv, Tables, TablesTyped, OperationsTypeOK, RowsTrue
<1>6. ASSUME NEW result \in Results \ {"completed"}, Conclude(r, result)
      PROVE  RInv'
  BY <1>1, <1>6, GiveUp
<1>7. {"blocked", "error"} \subseteq Results \ {"completed"}
  BY DEF Results
<1>8. CASE k \in Awards /\ op[k].status = "projected" /\ op[k].hash # None
           /\ Conclude(r, "completed")
  <2>1. Done(k)
    BY <1>5, <1>8 DEF Done, RowTrue
  <2>2. UNCHANGED <<op, paid, booked, receipts>>
    BY <1>1 DEF chainVars, books
  <2>3. Done(k)'
    BY <2>1, <2>2 DEF Done, Paid
  <2>4. "completed" \in Results
    BY DEF Results
  <2> QED
    BY <1>1, <1>2, <1>3, <1>4, <1>8, <2>3, <2>4, ConcludeMoves
<1>9. CASE /\ ~(k \in Awards /\ op[k].status = "projected" /\ op[k].hash # None)
           /\ op[k].hash # None
           /\ req' = [req EXCEPT ![r].at = "verify", ![r].row = op[k]]
  <2> DEFINE m == [req[r] EXCEPT !.at = "verify", !.row = op[k]]
  <2>1. /\ m \in Recovery /\ m.at = "verify" /\ m.key = k /\ m.result = req[r].result
        /\ m.admin = req[r].admin /\ m.row = op[k] /\ m.proven = req[r].proven
    BY <1>3, <1>4, <1>5 DEF Recovery, Points
  <2>2. PICK n \in Recovery : n = m
    BY <2>1
  <2>3. req' = [req EXCEPT ![r] = n]
    BY <1>3, <1>4, <1>9, <2>2 DEF RInv, ServiceTyped
  <2>4. /\ n.at = "verify" /\ n.key = k /\ n.admin = req[r].admin /\ n.result # "completed"
        /\ n.row = op'[k] /\ op'[k] # None /\ op'[k].hash # None
        /\ n.row.status = "projected" => k \notin Awards
        /\ n.proven => Paid(n.key)'
    BY <1>1, <1>2, <1>3, <1>4, <1>5, <1>9, <2>1, <2>2, PaidStays DEF Sound
  <2>5. Announced(n)'
    BY <1>1, <1>3, <1>4, <2>4 DEF Announced, Entry
  <2>6. Sound(n)'
    BY <2>4, <2>5, RowsAssumption DEF Sound
  <2> QED
    BY <1>1, <1>2, <2>3, <2>6, RequestMoves
<1>10. CASE Conclude(r, Result(FALSE, op[k].outcome # "no_movement"))
  BY <1>6, <1>10, ResultsTyped
<1>11. CASE Conclude(r, "blocked") \/ Conclude(r, "error")
  BY <1>6, <1>7, <1>11
<1>12. CASE Conclude(r, Result(TRUE, k \in Awards))
  BY <1>6, <1>12, ResultsTyped
<1> QED
  BY <1>3, <1>8, <1>9, <1>10, <1>11, <1>12 DEF Read

\* Valid evidence of the row as it was read is evidence of the row as it is.
LEMMA VerifyMoves ==
  ASSUME RInv, NEW r \in Requests, Verify(r)
  PROVE  RInv'
<1>1. /\ req[r] # None /\ req[r].at = "verify"
      /\ UNCHANGED <<op, owed, chainVars, books, sessions, trail>> /\ (Fault \/ NoFault)
  BY DEF Verify, Step
<1>2. Tables' /\ Grow /\ UNCHANGED <<op, paid, booked>>
  BY <1>1, QuietTables DEF RInv, chainVars, books
<1>3. PICK k \in Keys : k = req[r].key
  BY <1>1, UnderWay
<1>4. req[r] \in Recovery /\ Sound(req[r]) /\ Entry(r) \in trail
  BY <1>1, UnderWay, AtWork
<1> DEFINE row == req[r].row
           judged(e) ==
             CASE e = "valid" /\ row.status = "failed" ->
                    Conclude(r, Result(TRUE, row.outcome # "no_movement"))
               [] e = "valid" /\ row.status = "projected" -> Proven(r, "receipt")
               [] e = "valid" -> Proven(r, "confirm")
               [] e \in {"pending", "provider_error"} -> Proceed(r, "unknown")
               [] OTHER -> Conclude(r, "blocked")
<1>5. PICK e : /\ e = "valid" => row.hash \in paid /\ row.hash.amount = row.amount
               /\ judged(e)
  <2>1. CASE judged(Evidence(row.hash, row.wallet, row.amount))
    <3> DEFINE v == Evidence(row.hash, row.wallet, row.amount)
    <3>1. v = "valid" => row.hash \in paid /\ row.hash.amount = row.amount
      BY EvidenceMeans
    <3>2. judged(v)
      BY <2>1
    <3> HIDE DEF v, judged
    <3> QED
      BY <3>1, <3>2
  <2>2. ASSUME NEW d \in DegradedEvidence, judged(d)
        PROVE  \E x : (x = "valid" => row.hash \in paid /\ row.hash.amount = row.amount) /\ judged(x)
    <3>1. d # "valid"
      BY DEF DegradedEvidence
    <3> QED
      BY <2>2, <3>1
  <2> QED
    BY <2>1, <2>2 DEF Verify
<1>6. /\ op[k] # None /\ op[k].hash = row.hash /\ row.hash # None /\ op[k].amount = row.amount
      /\ row.status = "projected" => k \notin Awards /\ op[k].status = "projected"
  BY <1>1, <1>3, <1>4 DEF Sound
<1>7. e = "valid" => Paid(k)'
  BY <1>2, <1>5, <1>6 DEF Paid
<1>8. op[k] # None /\ RowTrue(k, op[k])
  BY <1>6 DEF RInv, Tables, RowsTrue
<1>9. {"unknown", "confirm", "receipt"} \subseteq Points \ {"lookup", "announce", "verify", "conclude"}
  BY DEF Points
<1>10. CASE Conclude(r, Result(TRUE, row.outcome # "no_movement"))
  BY <1>1, <1>10, GiveUp, ResultsTyped
<1>11. CASE Conclude(r, "blocked")
  <2>1. "blocked" \in Results \ {"completed"}
    BY DEF Results
  <2> QED
    BY <1>1, <1>11, <2>1, GiveUp
<1>12. CASE e = "valid" /\ row.status = "projected" /\ Proven(r, "receipt")
  <2>1. op'[k].status = "projected" /\ k \in booked' /\ k \notin Awards
    BY <1>2, <1>6, <1>8, <1>12 DEF RowTrue
  <2> QED
    BY <1>1, <1>2, <1>3, <1>4, <1>7, <1>9, <1>12, <2>1, GoMoves
<1>13. CASE e = "valid" /\ Proven(r, "confirm")
  BY <1>1, <1>2, <1>3, <1>4, <1>7, <1>9, <1>13, GoMoves
<1>14. CASE Proceed(r, "unknown")
  BY <1>1, <1>2, <1>3, <1>4, <1>9, <1>14, GoMoves
<1> QED
  BY <1>5, <1>10, <1>11, <1>12, <1>13, <1>14

LEMMA ThrowMoves ==
  ASSUME RInv, NEW r \in Requests, Throw(r)
  PROVE  RInv'
<1>1. /\ req[r] # None /\ req[r].at = "verify" /\ Fault
      /\ UNCHANGED <<op, owed, chainVars, books, sessions, trail>>
      /\ Conclude(r, "pending") \/ Conclude(r, "blocked")
  BY DEF Throw, Step
<1>2. {"pending", "blocked"} \subseteq Results \ {"completed"}
  BY DEF Results
<1> QED
  BY <1>1, <1>2, GiveUp

\* The marks of a recovery write true rows: it has seen the transfer paid.
LEMMA RecoveryMarks ==
  ASSUME Tables, NEW k \in Keys, op[k] # None, UNCHANGED <<owed, chainVars, books, trail>>,
         \/ op' \in {op, MarkUnknown(k)}
         \/ Paid(k) /\ op' \in {op, MarkConfirmed(k), MarkProjectionError(k)}
         \/ Paid(k) /\ k \in booked /\ op' \in {op, MarkProjected(k)}
  PROVE  Tables' /\ Grow
<1>1. /\ UNCHANGED <<owed, booked, settled, receipts>> /\ transient' \subseteq Keys
      /\ trail \subseteq trail' /\ UNCHANGED chainVars
  BY DEF books, Tables, TablesTyped
<1>2. CASE op' \in {op, MarkUnknown(k)}
  BY <1>1, <1>2, MarksReplace, UpdateWritten DEF MarkUnknown
<1>3. CASE Paid(k) /\ op' \in {op, MarkConfirmed(k)}
  BY <1>1, <1>3, MarksReplace, UpdateWritten DEF MarkConfirmed, Paid
<1>4. CASE Paid(k) /\ op' \in {op, MarkProjectionError(k)}
  BY <1>1, <1>4, MarksReplace, UpdateWritten DEF MarkProjectionError, Paid
<1>5. CASE Paid(k) /\ k \in booked /\ op' \in {op, MarkProjected(k)}
  BY <1>1, <1>5, MarksReplace, UpdateWritten DEF MarkProjected, Paid
<1> QED
  BY <1>2, <1>3, <1>4, <1>5

LEMMA UnknownMoves ==
  ASSUME RInv, NEW r \in Requests, StillUnknown(r)
  PROVE  RInv'
<1>1. PICK k \in Keys : k = req[r].key
  BY UnderWay DEF StillUnknown, Step
<1>2. /\ req[r] # None /\ req[r].at = "unknown" /\ op' \in {op, MarkUnknown(k)}
      /\ Conclude(r, "pending") /\ (Fault \/ NoFault)
      /\ UNCHANGED <<owed, chainVars, books, sessions, trail>>
  BY <1>1 DEF StillUnknown, Step, Save
<1>3. op[k] # None /\ Entry(r) \in trail'
  BY <1>1, <1>2, UnderWay, AtWork DEF Sound
<1>4. Tables' /\ Grow
  BY <1>2, <1>3, RecoveryMarks DEF RInv
<1>5. "pending" \in Results /\ "pending" # "completed"
  BY DEF Results
<1> QED
  BY <1>1, <1>2, <1>3, <1>4, <1>5, ConcludeMoves

LEMMA ConfirmMoves ==
  ASSUME RInv, NEW r \in Requests, Confirm(r)
  PROVE  RInv'
<1>1. PICK k \in Keys : k = req[r].key
  BY UnderWay DEF Confirm, Step
<1>2. /\ req[r] # None /\ req[r].at = "confirm" /\ op' \in {op, MarkConfirmed(k)}
      /\ Goto(r, "record") \/ Conclude(r, Result(TRUE, k \notin Awards))
      /\ Fault \/ NoFault
      /\ UNCHANGED <<owed, chainVars, books, sessions, trail>>
  BY <1>1 DEF Confirm, Step, Save
<1>3. op[k] # None /\ Paid(k) /\ Entry(r) \in trail'
  BY <1>1, <1>2, UnderWay, AtWork DEF Sound
<1>4. Tables' /\ Grow
  BY <1>2, <1>3, RecoveryMarks DEF RInv
<1>5. Paid(k)'
  BY <1>3, <1>4, PaidStays
<1>6. CASE Goto(r, "record")
  <2>1. "record" \in Points \ {"lookup", "announce", "verify", "conclude"}
    BY DEF Points
  <2> QED
    BY <1>1, <1>2, <1>3, <1>4, <1>5, <1>6, <2>1, GoMoves
<1>7. CASE Conclude(r, Result(TRUE, k \notin Awards))
  <2> DEFINE result == Result(TRUE, k \notin Awards)
  <2>1. result \in Results /\ result # "completed"
    BY ResultsTyped
  <2>2. Conclude(r, result)
    BY <1>7
  <2> HIDE DEF result
  <2> QED
    BY <1>1, <1>2, <1>3, <1>4, <2>1, <2>2, ConcludeMoves
<1> QED
  BY <1>2, <1>6, <1>7

LEMMA BookMoves ==
  ASSUME RInv, NEW r \in Requests, Book(r)
  PROVE  RInv'
<1>1. PICK k \in Keys : k = req[r].key
  BY UnderWay DEF Book, Step
<1>2. /\ req[r] # None /\ req[r].at = "record" /\ booked' \in {booked, booked \cup {k}}
      /\ \/ k \in booked' /\ Goto(r, "project")
         \/ Goto(r, "projectionError")
      /\ Fault \/ NoFault
      /\ UNCHANGED <<op, owed, chainVars, transient, settled, receipts, sessions, trail>>
  BY <1>1 DEF Book, Step
<1>3. op[k] # None /\ Paid(k) /\ Entry(r) \in trail'
  BY <1>1, <1>2, UnderWay, AtWork DEF Sound
<1>4. Tables' /\ Grow
  <2>1. /\ booked \subseteq booked' /\ booked' \subseteq Keys
        /\ settled' \subseteq Reserved /\ receipts' \subseteq Keys \ Awards
        /\ receipts \subseteq receipts' /\ trail \subseteq trail'
        /\ \A l \in booked' : l \in booked \/ (op[l] # None /\ op[l].hash # None)
    BY <1>2, <1>3 DEF RInv, Tables, TablesTyped, Paid
  <2> QED
    BY <1>2, <2>1, BooksWritten DEF RInv
<1>5. Paid(k)'
  BY <1>3, <1>4, PaidStays
<1>6. {"project", "projectionError"} \subseteq Points \ {"lookup", "announce", "verify", "conclude"}
  BY DEF Points
<1>7. CASE k \in booked' /\ Goto(r, "project")
  BY <1>1, <1>2, <1>3, <1>4, <1>5, <1>6, <1>7, GoMoves
<1>8. CASE Goto(r, "projectionError")
  BY <1>1, <1>2, <1>3, <1>4, <1>5, <1>6, <1>8, GoMoves
<1> QED
  BY <1>2, <1>7, <1>8

LEMMA ProjectionErrorMoves ==
  ASSUME RInv, NEW r \in Requests, ProjectionError(r)
  PROVE  RInv'
<1>1. PICK k \in Keys : k = req[r].key
  BY UnderWay DEF ProjectionError, Step
<1>2. /\ req[r] # None /\ req[r].at = "projectionError"
      /\ op' \in {op, MarkProjectionError(k)}
      /\ Conclude(r, "pending") /\ (Fault \/ NoFault)
      /\ UNCHANGED <<owed, chainVars, books, sessions, trail>>
  BY <1>1 DEF ProjectionError, Step, Save
<1>3. op[k] # None /\ Paid(k) /\ Entry(r) \in trail'
  BY <1>1, <1>2, UnderWay, AtWork DEF Sound
<1>4. Tables' /\ Grow
  BY <1>2, <1>3, RecoveryMarks DEF RInv
<1>5. "pending" \in Results /\ "pending" # "completed"
  BY DEF Results
<1> QED
  BY <1>1, <1>2, <1>3, <1>4, <1>5, ConcludeMoves

\* markProjected refuses a failed row and says nothing: but a paid transfer is
\* not a failed one, so a success of the call means a projected row.
LEMMA CompleteMoves ==
  ASSUME RInv, NEW r \in Requests, Complete(r)
  PROVE  RInv'
<1>1. PICK k \in Keys : k = req[r].key
  BY UnderWay DEF Complete, Step
<1>2. /\ req[r] # None /\ req[r].at = "project" /\ op' \in {op, MarkProjected(k)}
      /\ \/ op' = MarkProjected(k) /\ k \in Awards /\ Conclude(r, "completed")
         \/ op' = MarkProjected(k) /\ k \notin Awards /\ Goto(r, "receipt")
         \/ Conclude(r, "pending")
      /\ Fault \/ NoFault
      /\ UNCHANGED <<owed, chainVars, books, sessions, trail>>
  BY <1>1 DEF Complete, Step, Save
<1>3. op[k] # None /\ Paid(k) /\ k \in booked /\ Entry(r) \in trail'
  BY <1>1, <1>2, UnderWay, AtWork DEF Sound
<1>4. Tables' /\ Grow
  BY <1>2, <1>3, RecoveryMarks DEF RInv
<1>5. Paid(k)' /\ k \in booked'
  BY <1>2, <1>3, <1>4, PaidStays DEF books
<1>6. op' = MarkProjected(k) => op'[k].status = "projected"
  <2>1. op[k] \in Row /\ RowTrue(k, op[k]) /\ op \in [Keys -> Row \cup {None}]
    BY <1>3 DEF RInv, Tables, TablesTyped, OperationsTypeOK, RowsTrue
  <2>2. op[k].status # "failed"
    BY <1>3, <2>1 DEF Paid, RowTrue, RInv, Tables, ChainFollowsRows
  <2>3. MarkProjected(k)[k].status = "projected"
    BY <1>3, <2>1, <2>2 DEF MarkProjected, UpdateWhere, Paid, Row
  <2> QED
    BY <2>3
<1>7. CASE op' = MarkProjected(k) /\ k \in Awards /\ Conclude(r, "completed")
  <2>1. Done(k)'
    BY <1>5, <1>6, <1>7 DEF Done
  <2>2. "completed" \in Results
    BY DEF Results
  <2> QED
    BY <1>1, <1>2, <1>3, <1>4, <1>7, <2>1, <2>2, ConcludeMoves
<1>8. CASE op' = MarkProjected(k) /\ k \notin Awards /\ Goto(r, "receipt")
  <2>1. "receipt" \in Points \ {"lookup", "announce", "verify", "conclude"}
    BY DEF Points
  <2> QED
    BY <1>1, <1>2, <1>3, <1>4, <1>5, <1>6, <1>8, <2>1, GoMoves
<1>9. CASE Conclude(r, "pending")
  <2>1. "pending" \in Results /\ "pending" # "completed"
    BY DEF Results
  <2> QED
    BY <1>1, <1>2, <1>3, <1>4, <1>9, <2>1, ConcludeMoves
<1> QED
  BY <1>2, <1>7, <1>8, <1>9

LEMMA ReceiptMoves ==
  ASSUME RInv, NEW r \in Requests, StoreReceipt(r)
  PROVE  RInv'
<1>1. PICK k \in Keys : k = req[r].key
  BY UnderWay DEF StoreReceipt, Step
<1>2. /\ req[r] # None /\ req[r].at = "receipt" /\ receipts' \in {receipts, receipts \cup {k}}
      /\ \/ k \in receipts' /\ Conclude(r, "completed")
         \/ Conclude(r, "pending")
      /\ Fault \/ NoFault
      /\ UNCHANGED <<op, owed, chainVars, transient, booked, settled, sessions, trail>>
  BY <1>1 DEF StoreReceipt, Step
<1>3. /\ op[k] # None /\ Paid(k) /\ op[k].status = "projected" /\ k \in booked /\ k \notin Awards
      /\ Entry(r) \in trail'
  BY <1>1, <1>2, UnderWay, AtWork DEF Sound
<1>4. Tables' /\ Grow
  <2>1. /\ booked \subseteq booked' /\ booked' \subseteq Keys
        /\ settled' \subseteq Reserved /\ receipts' \subseteq Keys \ Awards
        /\ receipts \subseteq receipts' /\ trail \subseteq trail'
    BY <1>2, <1>3 DEF RInv, Tables, TablesTyped
  <2>2. \A l \in booked' : l \in booked
    BY <1>2
  <2> QED
    BY <1>2, <2>1, <2>2, BooksWritten DEF RInv
<1>5. {"pending", "completed"} \subseteq Results /\ "pending" # "completed"
  BY DEF Results
<1>6. CASE k \in receipts' /\ Conclude(r, "completed")
  <2>1. Paid(k)'
    BY <1>3, <1>4, PaidStays
  <2>2. Done(k)'
    BY <1>2, <1>3, <1>6, <2>1 DEF Done
  <2> QED
    BY <1>1, <1>2, <1>3, <1>4, <1>5, <1>6, <2>2, ConcludeMoves
<1>7. CASE Conclude(r, "pending")
  BY <1>1, <1>2, <1>3, <1>4, <1>5, <1>7, ConcludeMoves
<1> QED
  BY <1>2, <1>6, <1>7

LEMMA ReportMoves ==
  ASSUME RInv, NEW r \in Requests, Report(r)
  PROVE  RInv'
<1>1. /\ Answered(r) /\ UNCHANGED <<op, owed, chainVars, books, sessions>> /\ (Fault \/ NoFault)
      /\ trail \subseteq trail'
  BY DEF Report
<1> QED
  BY <1>1, QuietTables, AnsweredMoves DEF RInv
-----------------------------------------------------------------------------
(* The invariant.                                                          *)

LEMMA InitRInv ==
  ASSUME Init
  PROVE  RInv
<1>1. \A k \in Keys : op[k] = None
  BY DEF Init, OperationsInit
<1>2. {k \in Keys : op[k] # None} = {}
  BY <1>1
<1>3. TablesTyped
  BY <1>2, FS_EmptySet, AmountsAssumption
     DEF Init, OperationsInit, ChainInit, TablesTyped, OperationsTypeOK, ChainTypeOK
<1>4. ChainFollowsRows /\ RowsTrue /\ OwedTrue
  BY <1>1 DEF Init, ChainInit, ChainFollowsRows, Known, Mined, RowsTrue, OwedTrue
<1>5. ServiceTyped /\ \A r \in Requests : req[r] = None
  BY RecoveryBoundsAssumption DEF Init, ServiceTyped
<1> QED
  BY <1>3, <1>4, <1>5 DEF RInv, Tables

LEMMA StutterRInv ==
  ASSUME RInv, UNCHANGED vars
  PROVE  RInv'
<1>1. UNCHANGED <<op, owed, chainVars, books, req, sessions, trail, faults>>
  BY DEF vars
<1>2. sessions' \subseteq Admins /\ NoFault
  BY <1>1 DEF RInv, ServiceTyped, NoFault
<1> QED
  BY <1>1, <1>2, QuietTables, RequestsStay DEF RInv

LEMMA NextRInv ==
  ASSUME RInv, Next
  PROVE  RInv'
<1>0. Tables /\ sessions \subseteq Admins
  BY DEF RInv, ServiceTyped
<1>1. CASE Executor
  BY <1>0, <1>1, ExecutorWrites, RequestsStay DEF Executor, NoFault
<1>2. CASE Chain
  BY <1>0, <1>2, ChainWrites, RequestsStay DEF Chain, NoFault
<1>3. CASE Restart
  <2>1. Tables' /\ Grow
    BY <1>0, <1>3, QuietTables DEF Restart
  <2>2. /\ req' = [r \in Requests |-> None] /\ sessions' = {} /\ Fault
    BY <1>3 DEF Restart
  <2>3. ServiceTyped'
    BY <2>2, RecoveryBoundsAssumption DEF ServiceTyped, RInv, Fault
  <2>4. \A r \in Requests : req'[r] = None
    BY <2>2
  <2> QED
    BY <2>1, <2>3, <2>4 DEF RInv
<1>4. ASSUME NEW x \in Admins, Login(x) \/ Logout(x)
      PROVE  RInv'
  <2>1. /\ sessions' \subseteq Admins /\ NoFault
        /\ UNCHANGED <<op, owed, chainVars, books, req, trail>>
    BY <1>0, <1>4 DEF Login, Logout, NoFault
  <2> QED
    BY <1>0, <2>1, QuietTables, RequestsStay
<1>5. ASSUME NEW r \in Requests, Work(r)
      PROVE  RInv'
  BY <1>5, LookupMoves, AnnounceMoves, ReservationMoves, ReadMoves, VerifyMoves, ThrowMoves,
     UnknownMoves, ConfirmMoves, BookMoves, ProjectionErrorMoves, CompleteMoves, ReceiptMoves,
     ReportMoves DEF Work
<1> QED
  BY <1>1, <1>2, <1>3, <1>4, <1>5, AskMoves DEF Next

\* The invariant holds of every reachable state.
THEOREM RecoveryInductive == Spec => []RInv
<1>1. RInv /\ [Next]_vars => RInv'
  BY NextRInv, StutterRInv
<1> QED
  BY <1>1, InitRInv, PTL DEF Spec

\* RecoveryIsTrue: an answer of completion is complete, every recovery was
\* announced in the audit log, none makes room for a second transfer, and the
\* operator's view is true of rows and chain
\* (executeAdminOperationRecovery, getAdminOperationNextAction).
THEOREM RecoveryTruthful == Spec => []RecoveryIsTrue
<1>1. ASSUME RInv
      PROVE  TypeOK
  <2>1. ASSUME NEW r \in Requests, req[r] # None
        PROVE  req[r].admin \in Admins /\ req[r].key \in Keys /\ req[r].row \in Row \cup {None}
    BY <1>1, <2>1, UnderWay DEF Recovery
  <2> QED
    BY <1>1, <2>1 DEF TypeOK, RInv, Tables, TablesTyped, ServiceTyped
<1>2. ASSUME RInv
      PROVE  CompletedIsTrue
  BY <1>2 DEF CompletedIsTrue, RInv, Sound, Done, Paid
<1>3. ASSUME RInv
      PROVE  AuditPrecedesRecovery
  BY <1>3, AtWork DEF AuditPrecedesRecovery
<1>4. ASSUME RInv
      PROVE  NoReplacementTransfer
  BY <1>4 DEF NoReplacementTransfer, RInv, Tables, ChainFollowsRows
<1>5. ASSUME RInv
      PROVE  HintsAreTrue
  <2> SUFFICES ASSUME NEW k \in Keys, op[k] # None
               PROVE  /\ NextAction(k) \in {"retry", "no movement"} => \A t \in pool \cup paid : t.key # k
                      /\ NextAction(k) = "verify projection and receipt" => k \in booked \/ op[k].amount = 0
    BY DEF HintsAreTrue
  <2>1. RowTrue(k, op[k])
    BY <1>5 DEF RInv, Tables, RowsTrue
  <2>2. NextAction(k) \in {"retry", "no movement"} =>
          op[k].status = "failed" /\ op[k].outcome = "no_movement"
    BY DEF NextAction
  <2>3. NextAction(k) = "verify projection and receipt" => op[k].status = "projected"
    BY DEF NextAction
  <2>4. ASSUME op[k].status = "failed", op[k].outcome = "no_movement", NEW t \in pool \cup paid, t.key = k
        PROVE  FALSE
    <3>1. op[k].hash = t /\ t \in Tx
      BY <1>5, <2>4 DEF RInv, Tables, TablesTyped, ChainTypeOK, ChainFollowsRows, Known, Mined
    <3> QED
      BY <1>5, <2>1, <2>4, <3>1, NoneAssumption DEF RowTrue, RInv, Tables, ChainFollowsRows
  <2> QED
    BY <2>1, <2>2, <2>3, <2>4 DEF RowTrue
<1>6. ASSUME RInv
      PROVE  PaidIsVisible
  <2> SUFFICES ASSUME NEW t \in paid
               PROVE  t.key \in booked \cup Listed
    BY DEF PaidIsVisible
  <2>1. t \in Tx /\ t.key \in Keys /\ t # None
    BY <1>6, NoneAssumption DEF RInv, Tables, TablesTyped, ChainTypeOK, Tx
  <2>2. op[t.key] # None /\ op[t.key].hash = t
    BY <1>6 DEF RInv, Tables, ChainFollowsRows, Known, Mined
  <2>3. RowTrue(t.key, op[t.key])
    BY <1>6, <2>1, <2>2 DEF RInv, Tables, RowsTrue
  <2> QED
    BY <2>1, <2>2, <2>3 DEF Listed, RowTrue
<1> QED
  BY <1>1, <1>2, <1>3, <1>4, <1>5, <1>6, RecoveryInductive, PTL DEF RecoveryIsTrue
-----------------------------------------------------------------------------
(* The RPC endpoints.                                                      *)

N == Len(Endpoints)

\* The time that the endpoints from the k-th on may take.
SlotsFrom(k) == EndpointTimeout * (N + 1 - k)

CallRecord ==
  [kind : CallKinds, phase : {"open", "check", "request", "passed", "answered"},
   ep : 1 .. N + 1, attempt : 1 .. MaxAttempts, used : Nat, slot : Nat, end : Nat,
   null : BOOLEAN, err : AllErrors \cup {Nil}, result : {Nil, "value", "null", "error"},
   reached : SUBSET (1 .. N)]

\* Whether what a call came to shows that every endpoint was tried.
TriedAll(m) ==
  \/ m.result = "value" \/ m.kind = "managed"
  \/ m.result = "error" /\ ~Retryable(m.err)
  \/ m.reached = 1 .. N

\* A pass: the endpoints behind it were reached, and the time left is enough
\* for a slot of each one ahead.
PassSound(m) ==
  /\ m.phase \in {"open", "check", "request"} =>
       /\ 1 .. m.ep - 1 \subseteq m.reached
       /\ m.attempt = 1 => m.end <= ReadTimeout
       /\ m.attempt > 1 => m.reached = 1 .. N
  /\ m.phase = "open" => m.used + SlotsFrom(m.ep) <= m.end
  /\ m.phase \in {"check", "request"} =>
       /\ m.ep \in m.reached
       /\ m.used <= m.slot /\ m.slot + SlotsFrom(m.ep + 1) <= m.end
  /\ m.phase \in {"passed", "answered"} => TriedAll(m)
  /\ m.kind \in Reads => m.used <= ReadTimeout
  /\ m.kind \notin Reads => m.used <= m.end

\* What was sent: only to checked endpoints, a submission once to each, and
\* one that the endpoint signs once at all.
SentSound(m, s) ==
  /\ m.kind # "chain" => ToSet(s) \cap foreign = {}
  /\ m.kind # "chain" /\ m.phase = "request" => Endpoints[m.ep] \in validated
  /\ m.kind = "managed" =>
       /\ m.phase \in {"open", "check", "request"} => s = <<>>
       /\ Len(s) <= 1
  /\ m.kind = "raw" =>
       /\ m.attempt = 1 /\ IsInjective(s)
       /\ m.phase \in {"open", "check", "request"} => ToSet(s) \subseteq {Endpoints[i] : i \in 1 .. m.ep - 1}

CallSound(m, s) == m # Nil => m \in CallRecord /\ PassSound(m) /\ SentSound(m, s)

EndpointsSound ==
  /\ foreign \subseteq ToSet(Endpoints) /\ validated \subseteq ToSet(Endpoints)
  /\ validated \cap foreign = {}

CallsTyped ==
  /\ calls = [c \in Calls |-> calls[c]]
  /\ sent \in [Calls -> Seq(ToSet(Endpoints))]

RpcSound == CallsTyped /\ EndpointsSound /\ \A c \in Calls : CallSound(calls[c], sent[c])
-----------------------------------------------------------------------------
(* The list of endpoints.                                                  *)

\* A set of numbers that is not empty has a least element.
LEMMA LeastNumber ==
  ASSUME NEW I \in SUBSET Nat, I # {}
  PROVE  \E x \in I : \A y \in I : x <= y
<1>1. PICK x \in I : \A y \in I : ~(<<y, x>> \in OpToRel(<, Nat))
  BY NatLessThanWellFounded, WFMin
<1>2. \A y \in I : ~(y < x)
  BY <1>1 DEF OpToRel
<1> QED
  BY <1>2

\* A finite set of numbers has an element with k smaller ones, for every k
\* that is less than its size.
LEMMA KthExists ==
  ASSUME NEW I \in SUBSET Nat, IsFiniteSet(I)
  PROVE  \A k \in 0 .. Cardinality(I) - 1 : \E i \in I : Cardinality({j \in I : j < i}) = k
<1> DEFINE Below(i) == {j \in I : j < i}
            Bad == {k \in 0 .. Cardinality(I) - 1 : \A i \in I : Cardinality(Below(i)) # k}
<1>1. Cardinality(I) \in Nat
  BY FS_CardinalityType
<1>3. Bad \in SUBSET Nat
  BY <1>1
<1>2. ASSUME Bad # {} PROVE FALSE
  <2>1. PICK k \in Bad : \A y \in Bad : k <= y
    <3> HIDE DEF Bad
    <3> QED
      BY <1>3, <1>2, LeastNumber
  <2>2. k \in Nat /\ k < Cardinality(I)
    BY <1>1, <2>1
  <2>3. k # 0
    <3>1. SUFFICES ASSUME k = 0 PROVE FALSE
      OBVIOUS
    <3>2. I # {}
      BY <2>2, FS_EmptySet
    <3>3. PICK x \in I : \A y \in I : x <= y
      BY <3>2, LeastNumber
    <3>4. Below(x) = {}
      <4>1. ASSUME NEW j \in I, j < x PROVE FALSE
        BY <3>3, <4>1
      <4> QED
        BY <4>1
    <3> QED
      BY <2>1, <3>1, <3>4, FS_EmptySet
  <2>4. PICK i \in I : Cardinality(Below(i)) = k - 1
    <3>1. k - 1 \in 0 .. Cardinality(I) - 1 /\ k - 1 \notin Bad
      BY <1>1, <2>1, <2>2, <2>3
    <3> QED
      BY <3>1
  <2>5. Below(i) \cup {i} \in SUBSET I /\ i \notin Below(i) /\ IsFiniteSet(Below(i))
    <3>1. Below(i) \in SUBSET I /\ i \notin Below(i)
      OBVIOUS
    <3> QED
      BY <3>1, FS_Subset
  <2>6. Cardinality(Below(i) \cup {i}) = k
    <3>1. Cardinality(Below(i) \cup {i}) = Cardinality(Below(i)) + 1
      <4> HIDE DEF Below
      <4> QED
        BY <2>5, FS_AddElement
    <3> QED
      BY <2>2, <2>4, <3>1
  <2>7. I \ (Below(i) \cup {i}) # {}
    <3>1. SUFFICES ASSUME I \ (Below(i) \cup {i}) = {} PROVE FALSE
      OBVIOUS
    <3>2. I = Below(i) \cup {i}
      <4> HIDE DEF Below
      <4> QED
        BY <2>5, <3>1
    <3> QED
      BY <2>2, <2>6, <3>2
  <2>8. PICK x \in I \ (Below(i) \cup {i}) : \A y \in I \ (Below(i) \cup {i}) : x <= y
    <3>1. I \ (Below(i) \cup {i}) \in SUBSET Nat
      OBVIOUS
    <3> HIDE DEF Below
    <3> QED
      BY <2>7, <3>1, LeastNumber
  <2>9. Below(x) = Below(i) \cup {i}
    <3>1. i < x
      BY <2>8
    <3>2. ASSUME NEW j \in Below(x) PROVE j \in Below(i) \cup {i}
      BY <2>8, <3>2
    <3>3. ASSUME NEW j \in Below(i) \cup {i} PROVE j \in Below(x)
      BY <3>1, <3>3
    <3> QED
      BY <3>2, <3>3
  <2> QED
    BY <2>1, <2>6, <2>8, <2>9
<1> QED
  BY <1>2

\* The endpoints are different URLs, at least one of them.
LEMMA EndpointsDiffer ==
  /\ N \in Nat \ {0} /\ DOMAIN Endpoints = 1 .. N /\ N <= MaxEndpoints
  /\ Endpoints \in Seq(ToSet(Endpoints))
  /\ IsInjective(Endpoints)
<1> DEFINE Pick(k) == CHOOSE i \in New : Before(i) = k - 1
            n == Min2(Cardinality(New), MaxEndpoints)
<1>1. Len(Candidates) \in Nat \ {0} /\ DOMAIN Candidates = 1 .. Len(Candidates)
  <2>1. Candidates \in Seq(ToSet(Candidates)) /\ Candidates # <<>>
    BY CandidatesAssumption
  <2> QED
    BY <2>1, EmptySeq, LenProperties
<1>2. New \in SUBSET Nat /\ IsFiniteSet(New) /\ New # {}
  <2>1. New \in SUBSET (1 .. Len(Candidates))
    BY <1>1 DEF New
  <2>2. 1 \in New
    BY <1>1 DEF New
  <2>3. IsFiniteSet(1 .. Len(Candidates))
    BY <1>1, FS_Interval
  <2>4. IsFiniteSet(New)
    BY <2>1, <2>3, FS_Subset
  <2> QED
    BY <1>1, <2>1, <2>2, <2>4
<1>3. Cardinality(New) \in Nat \ {0}
  BY <1>2, FS_CardinalityType, FS_EmptySet
<1>4. n \in Nat \ {0} /\ n <= Cardinality(New) /\ n <= MaxEndpoints
  BY <1>3, TimeAssumption DEF Min2
<1>5. Endpoints = [k \in 1 .. n |-> Candidates[Pick(k)]]
  BY DEF Endpoints
<1>6. Len(Endpoints) = n /\ DOMAIN Endpoints = 1 .. n
  <2> HIDE DEF n, Pick
  <2> QED
    BY <1>4, <1>5
<1>7. Endpoints \in Seq(ToSet(Endpoints))
  <2>1. Endpoints = [k \in 1 .. n |-> Endpoints[k]]
    <3> HIDE DEF n, Pick
    <3> QED
      BY <1>5
  <2> HIDE DEF n
  <2> QED
    BY <1>4, <1>6, <2>1 DEF ToSet
<1>8. ASSUME NEW k \in 1 .. n PROVE Pick(k) \in New /\ Before(Pick(k)) = k - 1
  <2>1. k - 1 \in 0 .. Cardinality(New) - 1
    BY <1>3, <1>4
  <2>2. \E i \in New : Before(i) = k - 1
    BY <1>2, <2>1, KthExists DEF Before
  <2> QED
    BY <2>2
<1>9. ASSUME NEW k \in 1 .. n, NEW l \in 1 .. n, Endpoints[k] = Endpoints[l] PROVE k = l
  <2>1. Candidates[Pick(k)] = Candidates[Pick(l)]
    <3> HIDE DEF n, Pick
    <3> QED
      BY <1>5, <1>9
  <2>2. /\ Pick(k) \in New /\ Before(Pick(k)) = k - 1
        /\ Pick(l) \in New /\ Before(Pick(l)) = l - 1
    BY <1>8
  <2>3. Pick(k) = Pick(l)
    <3> HIDE DEF Pick
    <3> QED
      BY <1>1, <2>1, <2>2 DEF New
  <2> HIDE DEF Pick
  <2> QED
    BY <1>4, <2>2, <2>3
<1> QED
  BY <1>4, <1>6, <1>7, <1>9 DEF N, IsInjective

\* The slots ahead of a pass.
LEMMA SlotsAdd ==
  /\ \A k \in 1 .. N + 1 : SlotsFrom(k) \in Nat
  /\ \A k \in 1 .. N : SlotsFrom(k) = EndpointTimeout + SlotsFrom(k + 1)
  /\ SlotsFrom(1) = EndpointTimeout * N /\ EndpointTimeout * N <= ReadTimeout
<1>1. N \in Nat /\ N <= MaxEndpoints /\ EndpointTimeout \in Nat /\ MaxEndpoints \in Nat
  BY EndpointsDiffer, TimeAssumption
<1>2. \A a, b \in Nat : a * b \in Nat /\ a * (b + 1) = a * b + a
  OBVIOUS
<1>3. ASSUME NEW k \in 1 .. N + 1 PROVE SlotsFrom(k) \in Nat
  <2>1. N + 1 - k \in Nat
    BY <1>1
  <2> QED
    BY <1>1, <1>2, <2>1 DEF SlotsFrom
<1>4. ASSUME NEW k \in 1 .. N PROVE SlotsFrom(k) = EndpointTimeout + SlotsFrom(k + 1)
  <2>1. PICK r \in Nat : r = N - k
    BY <1>1
  <2>2. N + 1 - k = r + 1 /\ N + 1 - (k + 1) = r
    BY <1>1, <2>1
  <2>3. EndpointTimeout * (r + 1) = EndpointTimeout * r + EndpointTimeout /\ EndpointTimeout * r \in Nat
    BY <1>1, <1>2
  <2> QED
    BY <1>1, <2>2, <2>3 DEF SlotsFrom
<1>5. SlotsFrom(1) = EndpointTimeout * N
  BY <1>1 DEF SlotsFrom
<1>6. EndpointTimeout * N <= ReadTimeout
  <2>1. PICK d \in Nat : MaxEndpoints = N + d
    <3>1. MaxEndpoints - N \in Nat /\ MaxEndpoints = N + (MaxEndpoints - N)
      BY <1>1
    <3> QED
      BY <3>1
  <2>2. EndpointTimeout * (N + d) = EndpointTimeout * N + EndpointTimeout * d
    BY <1>1, <2>1
  <2>3. EndpointTimeout * N \in Nat /\ EndpointTimeout * d \in Nat
    BY <1>1, <1>2
  <2> QED
    BY <2>1, <2>2, <2>3, SlotsAssumption, TimeAssumption
<1> QED
  BY <1>3, <1>4, <1>5, <1>6

\* What sending to one more endpoint adds.
LEMMA SendingOn ==
  ASSUME NEW s \in Seq(ToSet(Endpoints)), NEW k \in 1 .. N
  PROVE  /\ Append(s, Endpoints[k]) \in Seq(ToSet(Endpoints))
         /\ ToSet(Append(s, Endpoints[k])) = ToSet(s) \cup {Endpoints[k]}
         /\ s = <<>> => Len(Append(s, Endpoints[k])) = 1
         /\ /\ IsInjective(s) /\ ToSet(s) \subseteq {Endpoints[i] : i \in 1 .. k - 1}
            => IsInjective(Append(s, Endpoints[k]))
<1> DEFINE t == Append(s, Endpoints[k])
<1>1. Endpoints[k] \in ToSet(Endpoints)
  BY EndpointsDiffer DEF ToSet
<1>2. /\ Len(s) \in Nat /\ DOMAIN s = 1 .. Len(s)
      /\ t \in Seq(ToSet(Endpoints)) /\ Len(t) = Len(s) + 1 /\ DOMAIN t = 1 .. Len(s) + 1
      /\ \A i \in 1 .. Len(s) : t[i] = s[i]
      /\ t[Len(s) + 1] = Endpoints[k]
  BY <1>1, LenProperties, AppendProperties
<1> HIDE DEF t
<1>3. ToSet(t) = ToSet(s) \cup {Endpoints[k]}
  <2>1. ASSUME NEW i \in 1 .. Len(s) + 1 PROVE t[i] \in {s[j] : j \in 1 .. Len(s)} \cup {Endpoints[k]}
    BY <1>2
  <2>2. ASSUME NEW i \in 1 .. Len(s) PROVE s[i] \in {t[j] : j \in 1 .. Len(s) + 1}
    BY <1>2
  <2>3. Endpoints[k] \in {t[j] : j \in 1 .. Len(s) + 1}
    BY <1>2
  <2> QED
    BY <1>2, <2>1, <2>2, <2>3 DEF ToSet
<1>4. s = <<>> => Len(t) = 1
  <2>1. s = <<>> => Len(s) = 0
    BY EmptySeq
  <2> QED
    BY <1>2, <2>1
<1>5. ASSUME IsInjective(s), ToSet(s) \subseteq {Endpoints[i] : i \in 1 .. k - 1}
      PROVE  IsInjective(t)
  <2>1. ASSUME NEW i \in 1 .. Len(s) PROVE s[i] # Endpoints[k]
    <3>1. s[i] \in ToSet(s)
      BY <1>2 DEF ToSet
    <3>2. PICK l \in 1 .. k - 1 : s[i] = Endpoints[l]
      BY <1>5, <3>1
    <3>3. l \in DOMAIN Endpoints /\ k \in DOMAIN Endpoints /\ l # k
      BY EndpointsDiffer
    <3> QED
      BY <3>2, <3>3, EndpointsDiffer DEF IsInjective
  <2>2. \A i, j \in 1 .. Len(s) : s[i] = s[j] => i = j
    BY <1>2, <1>5 DEF IsInjective
  <2>3. ASSUME NEW i \in 1 .. Len(s) + 1, NEW j \in 1 .. Len(s) + 1, t[i] = t[j] PROVE i = j
    BY <1>2, <2>1, <2>2, <2>3
  <2> QED
    BY <1>2, <2>3 DEF IsInjective
<1> QED
  BY <1>2, <1>3, <1>4, <1>5 DEF t
-----------------------------------------------------------------------------
(* A step of one call.                                                     *)

\* It is enough that the call itself stays sound: the others are not touched,
\* and an endpoint that was checked stays so.
LEMMA OneCallMoves ==
  ASSUME RpcSound, NEW c \in Calls, NEW M, NEW S \in Seq(ToSet(Endpoints)),
         calls' = [calls EXCEPT ![c] = M], sent' = [sent EXCEPT ![c] = S],
         foreign' = foreign, validated \subseteq validated', EndpointsSound',
         M \in CallRecord, PassSound(M), SentSound(M, S)'
  PROVE  RpcSound'
<1>1. CallsTyped'
  BY DEF RpcSound, CallsTyped
<1>2. calls'[c] = M /\ sent'[c] = S
  BY DEF RpcSound, CallsTyped
<1>3. CallSound(calls[c], sent[c])'
  BY <1>2 DEF CallSound, SentSound, PassSound, TriedAll, SlotsFrom, CallRecord, AllErrors
<1>4. ASSUME NEW d \in Calls, d # c PROVE CallSound(calls[d], sent[d])'
  <2>1. calls'[d] = calls[d] /\ sent'[d] = sent[d]
    BY <1>4 DEF RpcSound, CallsTyped
  <2>2. CallSound(calls[d], sent[d])
    BY DEF RpcSound
  <2> QED
    BY <2>1, <2>2 DEF CallSound, SentSound, PassSound, TriedAll, SlotsFrom, CallRecord, AllErrors
<1> QED
  BY <1>1, <1>3, <1>4 DEF RpcSound

\* What is known of a call in progress.
LEMMA CallKnown ==
  ASSUME RpcSound, NEW c \in Calls, calls[c] # Nil
  PROVE  /\ calls[c] \in CallRecord /\ PassSound(calls[c]) /\ SentSound(calls[c], sent[c])
         /\ sent[c] \in Seq(ToSet(Endpoints))
BY DEF RpcSound, CallSound, CallsTyped

\* A failure moves the call to the next endpoint or ends the pass.
LEMMA FailedSound ==
  ASSUME RpcSound, NEW c \in Calls, calls[c] # Nil, calls[c].phase \in {"check", "request"},
         NEW e \in AllErrors, NEW t \in Nat, t <= calls[c].slot, t <= Deadline(c)
  PROVE  /\ Failed(c, e, t) \in CallRecord /\ PassSound(Failed(c, e, t))
         /\ Failed(c, e, t).kind = calls[c].kind /\ Failed(c, e, t).attempt = calls[c].attempt
         /\ \/ /\ Failed(c, e, t).phase = "open" /\ Failed(c, e, t).ep = calls[c].ep + 1
               /\ calls[c].kind # "managed"
            \/ Failed(c, e, t).phase = "passed"
<1>1. PICK m \in CallRecord : m = calls[c]
  BY CallKnown
<1>2. PassSound(m)
  BY <1>1, CallKnown
<1>3. N \in Nat \ {0}
  BY EndpointsDiffer
<1>4. m.phase \in {"check", "request"} /\ t <= m.slot /\ t <= (IF m.kind \in Reads THEN ReadTimeout ELSE m.end)
  BY <1>1 DEF Deadline
<1>5. m.slot + SlotsFrom(m.ep + 1) <= m.end /\ m.ep \in m.reached /\ 1 .. m.ep - 1 \subseteq m.reached
  BY <1>2, <1>4 DEF PassSound
<1>6. m.ep <= N
  BY <1>5 DEF CallRecord
<1>7. SlotsFrom(m.ep + 1) \in Nat
  BY <1>3, <1>6, SlotsAdd DEF CallRecord
<1>8. CASE Moves(m.kind, e)
  <2>1. PICK M : M = [m EXCEPT !.used = t, !.err = e, !.phase = "open", !.ep = @ + 1]
    OBVIOUS
  <2>2. Failed(c, e, t) = M
    BY <1>1, <1>8, <2>1 DEF Failed
  <2>3. /\ M.kind = m.kind /\ M.phase = "open" /\ M.ep = m.ep + 1 /\ M.attempt = m.attempt
        /\ M.used = t /\ M.end = m.end /\ M.reached = m.reached
    BY <2>1 DEF CallRecord
  <2>4. M \in CallRecord
    <3>1. m.ep + 1 \in 1 .. N + 1
      BY <1>3, <1>6 DEF CallRecord
    <3> QED
      BY <2>1, <3>1 DEF CallRecord
  <2>5. 1 .. M.ep - 1 \subseteq M.reached
    BY <1>5, <2>3 DEF CallRecord
  <2>6. M.used + SlotsFrom(M.ep) <= M.end
    BY <1>4, <1>5, <1>7, <2>3 DEF CallRecord
  <2>7. PassSound(M)
    BY <1>2, <1>4, <2>3, <2>5, <2>6 DEF PassSound, CallRecord
  <2>8. m.kind # "managed"
    BY <1>8 DEF Moves
  <2> QED
    BY <1>1, <2>2, <2>3, <2>4, <2>7, <2>8
<1>9. CASE ~ Moves(m.kind, e)
  <2>1. PICK M : M = [m EXCEPT !.used = t, !.err = e, !.phase = "passed", !.result = "error"]
    OBVIOUS
  <2>2. Failed(c, e, t) = M
    BY <1>1, <1>9, <2>1 DEF Failed
  <2>3. /\ M.kind = m.kind /\ M.phase = "passed" /\ M.attempt = m.attempt /\ M.result = "error"
        /\ M.used = t /\ M.end = m.end /\ M.err = e
    BY <2>1 DEF CallRecord
  <2>4. M \in CallRecord
    BY <2>1 DEF CallRecord
  <2>5. TriedAll(M)
    BY <1>9, <2>3 DEF TriedAll, Moves
  <2>6. PassSound(M)
    BY <1>4, <2>3, <2>5 DEF PassSound, CallRecord
  <2> QED
    BY <1>1, <2>2, <2>3, <2>4, <2>6
<1> QED
  BY <1>8, <1>9

\* After an answer or a failure of the request: it was sent once more.
LEMMA SentToNext ==
  ASSUME RpcSound, NEW c \in Calls, calls[c] # Nil, calls[c].phase = "request",
         NEW M, M.kind = calls[c].kind, M.attempt = calls[c].attempt,
         \/ M.phase = "open" /\ M.ep = calls[c].ep + 1 /\ calls[c].kind # "managed"
         \/ M.phase = "passed",
         NEW t, t = Append(sent[c], Endpoints[calls[c].ep]), foreign' = foreign
  PROVE  SentSound(M, t)' /\ t \in Seq(ToSet(Endpoints))
<1>1. PICK m, k, s : m = calls[c] /\ k = m.ep /\ s = sent[c]
  OBVIOUS
<1>2. m \in CallRecord /\ PassSound(m) /\ SentSound(m, s) /\ s \in Seq(ToSet(Endpoints))
  BY <1>1, CallKnown
<1>3. m.phase = "request" /\ N \in Nat \ {0}
  BY <1>1, EndpointsDiffer
<1>4. k \in 1 .. N
  BY <1>1, <1>2, <1>3 DEF PassSound, CallRecord
<1>5. t = Append(s, Endpoints[k])
  BY <1>1
<1>6. /\ t \in Seq(ToSet(Endpoints)) /\ ToSet(t) = ToSet(s) \cup {Endpoints[k]}
      /\ s = <<>> => Len(t) = 1
      /\ IsInjective(s) /\ ToSet(s) \subseteq {Endpoints[i] : i \in 1 .. k - 1} => IsInjective(t)
  BY <1>2, <1>4, <1>5, SendingOn
<1>7. m.kind # "chain" => ToSet(t) \cap foreign = {}
  <2>1. SUFFICES ASSUME m.kind # "chain" PROVE ToSet(t) \cap foreign = {}
    OBVIOUS
  <2>2. Endpoints[k] \in validated /\ ToSet(s) \cap foreign = {}
    BY <1>1, <1>2, <1>3, <2>1 DEF SentSound
  <2>3. validated \cap foreign = {}
    BY DEF RpcSound, EndpointsSound
  <2> QED
    BY <1>6, <2>2, <2>3
<1>8. m.kind = "managed" => Len(t) <= 1
  <2>1. m.kind = "managed" => s = <<>>
    BY <1>2, <1>3 DEF SentSound
  <2> QED
    BY <1>6, <2>1
<1>9. ASSUME m.kind = "raw"
      PROVE  /\ m.attempt = 1 /\ IsInjective(t)
             /\ M.phase = "open" => ToSet(t) \subseteq {Endpoints[i] : i \in 1 .. M.ep - 1}
  <2>1. /\ m.attempt = 1 /\ IsInjective(s)
        /\ ToSet(s) \subseteq {Endpoints[i] : i \in 1 .. k - 1}
    BY <1>1, <1>2, <1>3, <1>9 DEF SentSound
  <2>2. ASSUME M.phase = "open" PROVE ToSet(t) \subseteq {Endpoints[i] : i \in 1 .. M.ep - 1}
    <3>1. M.ep = k + 1
      BY <1>1, <2>2
    <3>2. 1 .. k - 1 \subseteq 1 .. M.ep - 1 /\ k \in 1 .. M.ep - 1
      BY <1>4, <3>1
    <3> QED
      BY <1>6, <2>1, <3>2
  <2> QED
    BY <1>6, <2>1, <2>2
<1>10. SentSound(M, t)'
  BY <1>1, <1>7, <1>8, <1>9 DEF SentSound
<1> QED
  BY <1>6, <1>10

\* Before the request: nothing more was sent.
LEMMA SentToNone ==
  ASSUME RpcSound, NEW c \in Calls, calls[c] # Nil, calls[c].phase # "request",
         NEW M, M.kind = calls[c].kind, M.attempt = calls[c].attempt,
         \/ M.phase = "open" /\ M.ep = calls[c].ep + 1 /\ calls[c].phase = "check"
         \/ M.phase \in {"passed", "answered"}
         \/ /\ M.phase \in {"check", "request"} /\ M.ep = calls[c].ep /\ calls[c].phase \in {"open", "check"}
            /\ M.phase = "request" /\ M.kind # "chain" => Endpoints[M.ep] \in validated',
         NEW s, s = sent[c], foreign' = foreign
  PROVE  SentSound(M, s)'
<1>1. PICK m : m = calls[c]
  OBVIOUS
<1>2. m \in CallRecord /\ PassSound(m) /\ SentSound(m, s) /\ N \in Nat \ {0}
  BY <1>1, CallKnown, EndpointsDiffer
<1>3. M.kind # "chain" => ToSet(s) \cap foreign = {}
  BY <1>1, <1>2 DEF SentSound
<1>4. M.kind = "managed" => /\ M.phase \in {"open", "check", "request"} => s = <<>>
                            /\ Len(s) <= 1
  BY <1>1, <1>2 DEF SentSound
<1>5. ASSUME M.kind = "raw"
      PROVE  /\ M.attempt = 1 /\ IsInjective(s)
             /\ M.phase \in {"open", "check", "request"} =>
                  ToSet(s) \subseteq {Endpoints[i] : i \in 1 .. M.ep - 1}
  <2>1. /\ m.attempt = 1 /\ IsInjective(s)
        /\ m.phase \in {"open", "check", "request"} =>
             ToSet(s) \subseteq {Endpoints[i] : i \in 1 .. m.ep - 1}
    BY <1>1, <1>2, <1>5 DEF SentSound
  <2>2. ASSUME M.phase \in {"open", "check", "request"}
        PROVE  ToSet(s) \subseteq {Endpoints[i] : i \in 1 .. M.ep - 1}
    <3>1. m.phase \in {"open", "check"} /\ M.ep \in {m.ep, m.ep + 1}
      BY <1>1, <2>2
    <3>2. 1 .. m.ep - 1 \subseteq 1 .. M.ep - 1
      BY <1>2, <3>1 DEF CallRecord
    <3> QED
      BY <2>1, <3>1, <3>2
  <2> QED
    BY <1>1, <2>1, <2>2
<1>6. M.kind # "chain" /\ M.phase = "request" => Endpoints[M.ep] \in validated'
  BY <1>1
<1> QED
  BY <1>1, <1>3, <1>4, <1>5, <1>6 DEF SentSound
-----------------------------------------------------------------------------
(* Each action.                                                            *)

LEMMA RpcInitSound == RpcInit => RpcSound
<1>1. SUFFICES ASSUME RpcInit PROVE RpcSound
  OBVIOUS
<1>2. CallsTyped
  BY <1>1, EmptySeq DEF RpcInit, CallsTyped
<1>3. EndpointsSound
  BY <1>1 DEF RpcInit, EndpointsSound
<1>4. \A c \in Calls : CallSound(calls[c], sent[c])
  BY <1>1 DEF RpcInit, CallSound
<1> QED
  BY <1>2, <1>3, <1>4 DEF RpcSound

\* A pass that begins, with the time used and what was reached before.
LEMMA FreshSound ==
  ASSUME NEW kind \in CallKinds, NEW M, M = Fresh(kind)
  PROVE  /\ M \in CallRecord /\ PassSound(M) /\ M.kind = kind /\ M.phase = "open" /\ M.attempt = 1
         /\ M.end = EndpointTimeout * N /\ M.ep = 1
         /\ SlotsFrom(1) = M.end /\ M.end \in Nat
<1>1. N \in Nat \ {0} /\ MaxAttempts \in Nat \ {0} /\ ReadTimeout \in Nat
  BY EndpointsDiffer, TimeAssumption
<1>2. SlotsFrom(1) \in Nat /\ SlotsFrom(1) = EndpointTimeout * N /\ EndpointTimeout * N <= ReadTimeout
  BY <1>1, SlotsAdd
<1>3. /\ M.kind = kind /\ M.phase = "open" /\ M.ep = 1 /\ M.attempt = 1 /\ M.used = 0
      /\ M.end = SlotsFrom(1) /\ M.reached = {}
  BY <1>2 DEF Fresh, N
<1>4. M \in CallRecord
  BY <1>1, <1>2 DEF Fresh, N, CallRecord
<1>5. PassSound(M)
  BY <1>1, <1>2, <1>3 DEF PassSound
<1> QED
  BY <1>2, <1>3, <1>4, <1>5

LEMMA StartKeeps ==
  ASSUME RpcSound, NEW c \in Calls, NEW kind \in CallKinds, Start(c, kind), UNCHANGED foreign
  PROVE  RpcSound'
<1>1. PICK M : M = Fresh(kind)
  OBVIOUS
<1>2. M \in CallRecord /\ PassSound(M) /\ M.attempt = 1
  BY <1>1, FreshSound
<1>3. PICK S : S = <<>>
  OBVIOUS
<1>4. S \in Seq(ToSet(Endpoints)) /\ Len(S) = 0 /\ DOMAIN S = {}
  BY <1>3, EmptySeq
<1>5. ToSet(S) = {} /\ IsInjective(S)
  BY <1>4 DEF ToSet, IsInjective
<1>6. SentSound(M, S)'
  BY <1>2, <1>3, <1>4, <1>5, FreshSound, <1>1 DEF SentSound
<1>7. calls' = [calls EXCEPT ![c] = M] /\ sent' = [sent EXCEPT ![c] = S]
  BY <1>1, <1>3 DEF Start, Set
<1>8. EndpointsSound' /\ validated' = validated
  BY DEF Start, RpcSound, EndpointsSound
<1> QED
  BY <1>2, <1>4, <1>6, <1>7, <1>8, OneCallMoves

LEMMA OpenKeeps ==
  ASSUME RpcSound, NEW c \in Calls, Open(c), UNCHANGED foreign
  PROVE  RpcSound'
<1>1. PICK m : m = calls[c]
  OBVIOUS
<1>2. /\ m # Nil /\ m.phase = "open" /\ m.ep <= N /\ Slot(c) > m.used
  BY <1>1 DEF Open, N
<1>3. m \in CallRecord /\ PassSound(m) /\ N \in Nat \ {0} /\ EndpointTimeout \in Nat
  BY <1>1, <1>2, CallKnown, EndpointsDiffer, TimeAssumption
<1>4. m.ep \in 1 .. N /\ m.used \in Nat /\ m.end \in Nat
  BY <1>2, <1>3 DEF CallRecord
<1>5. SlotsFrom(m.ep) = EndpointTimeout + SlotsFrom(m.ep + 1) /\ SlotsFrom(m.ep + 1) \in Nat
  <2>1. m.ep + 1 \in 1 .. N + 1
    BY <1>3, <1>4
  <2> QED
    BY <1>4, <2>1, SlotsAdd
<1>6. m.used + SlotsFrom(m.ep) <= m.end
  BY <1>2, <1>3 DEF PassSound
<1>7. PICK t : t = Slot(c)
  OBVIOUS
<1>8. t \in Nat /\ m.used <= t /\ t <= m.used + EndpointTimeout
  BY <1>1, <1>2, <1>3, <1>4, <1>7 DEF Slot, Min2
<1>9. t + SlotsFrom(m.ep + 1) <= m.end
  BY <1>3, <1>4, <1>5, <1>6, <1>8
<1>10. PICK M : M = [m EXCEPT !.slot = t, !.reached = @ \cup {m.ep},
                              !.phase = IF NeedsCheck(c) THEN "check" ELSE "request"]
  OBVIOUS
<1>11. /\ M.kind = m.kind /\ M.ep = m.ep /\ M.attempt = m.attempt /\ M.used = m.used /\ M.end = m.end
       /\ M.slot = t /\ M.reached = m.reached \cup {m.ep}
       /\ M.phase = IF NeedsCheck(c) THEN "check" ELSE "request"
  BY <1>3, <1>10 DEF CallRecord
<1>12. M \in CallRecord
  <2>1. m.reached \cup {m.ep} \in SUBSET (1 .. N)
    BY <1>3, <1>4 DEF CallRecord
  <2> QED
    BY <1>3, <1>8, <1>10, <2>1 DEF CallRecord
<1>13. PassSound(M)
  <2>1. M.attempt > 1 => M.reached = 1 .. N
    BY <1>2, <1>3, <1>4, <1>11 DEF PassSound
  <2>2. M.attempt = 1 => M.end <= ReadTimeout
    BY <1>2, <1>3, <1>11 DEF PassSound
  <2>3. 1 .. M.ep - 1 \subseteq M.reached
    BY <1>2, <1>3, <1>11 DEF PassSound
  <2> QED
    BY <1>3, <1>8, <1>9, <1>11, <2>1, <2>2, <2>3 DEF PassSound
<1>14. calls' = [calls EXCEPT ![c] = M] /\ validated' = validated /\ sent' = [sent EXCEPT ![c] = sent[c]]
  <2>1. calls' = [calls EXCEPT ![c] = M]
    BY <1>1, <1>7, <1>10 DEF Open, Set
  <2>2. sent' = [sent EXCEPT ![c] = sent[c]]
    BY DEF Open, RpcSound, CallsTyped
  <2> QED
    BY <2>1, <2>2 DEF Open
<1>15. M.phase = "request" /\ M.kind # "chain" => Endpoints[M.ep] \in validated'
  BY <1>1, <1>11, <1>14 DEF NeedsCheck
<1>16. PICK S : S = sent[c]
  OBVIOUS
<1>17. S \in Seq(ToSet(Endpoints))
  BY <1>16 DEF RpcSound, CallsTyped
<1>18. SentSound(M, S)'
  BY <1>1, <1>2, <1>11, <1>15, <1>16, SentToNone
<1>19. EndpointsSound'
  BY <1>14 DEF RpcSound, EndpointsSound
<1> QED
  BY <1>12, <1>13, <1>14, <1>16, <1>17, <1>18, <1>19, OneCallMoves

\* A call that waits for an endpoint, and when its answer may come.
LEMMA WaitingKnown ==
  ASSUME RpcSound, NEW c \in Calls, calls[c] # Nil, calls[c].phase \in {"check", "request"}
  PROVE  /\ calls[c].ep \in 1 .. N /\ Endpoints[calls[c].ep] \in ToSet(Endpoints)
         /\ calls[c].slot \in Nat /\ Deadline(c) \in Nat
         /\ calls[c].slot <= calls[c].end
         /\ \A t \in Moments(c) : t \in Nat /\ t <= calls[c].slot /\ t <= Deadline(c)
<1>1. PICK m \in CallRecord : m = calls[c]
  BY CallKnown
<1>2. PassSound(m) /\ N \in Nat \ {0} /\ ReadTimeout \in Nat /\ DOMAIN Endpoints = 1 .. N
  BY <1>1, CallKnown, EndpointsDiffer, TimeAssumption
<1>3. m.ep \in 1 .. N /\ m.slot + SlotsFrom(m.ep + 1) <= m.end
  BY <1>1, <1>2 DEF PassSound, CallRecord
<1>4. SlotsFrom(m.ep + 1) \in Nat
  <2>1. m.ep + 1 \in 1 .. N + 1
    BY <1>2, <1>3
  <2> QED
    BY <2>1, SlotsAdd
<1>5. m.slot \in Nat /\ m.end \in Nat /\ m.used \in Nat
  BY DEF CallRecord
<1>6. Deadline(c) \in Nat
  BY <1>1, <1>2, <1>5 DEF Deadline
<1>7. \A t \in Moments(c) : t \in Nat /\ t <= m.slot /\ t <= Deadline(c)
  BY <1>1, <1>5 DEF Moments
<1>8. m.slot <= m.end
  BY <1>3, <1>4, <1>5
<1>9. Endpoints[m.ep] \in ToSet(Endpoints)
  BY <1>2, <1>3 DEF ToSet
<1> QED
  BY <1>1, <1>3, <1>5, <1>6, <1>7, <1>8, <1>9

\* Nothing else changes in the tables.
LEMMA SentStays ==
  ASSUME RpcSound, NEW c \in Calls, sent' = sent
  PROVE  sent' = [sent EXCEPT ![c] = sent[c]] /\ sent[c] \in Seq(ToSet(Endpoints))
BY DEF RpcSound, CallsTyped

LEMMA ChainsStay ==
  ASSUME RpcSound, UNCHANGED <<validated, foreign>>
  PROVE  EndpointsSound' /\ validated \subseteq validated'
BY DEF RpcSound, EndpointsSound

LEMMA ChainLearnt ==
  ASSUME RpcSound, NEW url \in ToSet(Endpoints), url \notin foreign,
         validated' = validated \cup {url}, UNCHANGED foreign
  PROVE  EndpointsSound' /\ validated \subseteq validated' /\ url \in validated'
BY DEF RpcSound, EndpointsSound

\* The request failed, or its chain was not the configured one.
LEMMA RequestFails ==
  ASSUME RpcSound, NEW c \in Calls, calls[c] # Nil, calls[c].phase = "request",
         NEW e \in AllErrors, NEW t \in Nat, t <= calls[c].slot, t <= Deadline(c),
         Set(c, Failed(c, e, t)), sent' = [sent EXCEPT ![c] = Append(sent[c], Endpoints[calls[c].ep])],
         UNCHANGED <<validated, foreign>>
  PROVE  RpcSound'
<1>1. PICK M, S : M = Failed(c, e, t) /\ S = Append(sent[c], Endpoints[calls[c].ep])
  OBVIOUS
<1>2. /\ M \in CallRecord /\ PassSound(M) /\ M.kind = calls[c].kind /\ M.attempt = calls[c].attempt
      /\ \/ M.phase = "open" /\ M.ep = calls[c].ep + 1 /\ calls[c].kind # "managed"
         \/ M.phase = "passed"
  BY <1>1, FailedSound
<1>3. SentSound(M, S)' /\ S \in Seq(ToSet(Endpoints))
  BY <1>1, <1>2, SentToNext
<1>4. calls' = [calls EXCEPT ![c] = M] /\ sent' = [sent EXCEPT ![c] = S]
  BY <1>1 DEF Set
<1>5. EndpointsSound' /\ validated \subseteq validated' /\ foreign' = foreign
  BY ChainsStay
<1> QED
  BY <1>2, <1>3, <1>4, <1>5, OneCallMoves

\* The check of the chain failed.
LEMMA CheckFails ==
  ASSUME RpcSound, NEW c \in Calls, calls[c] # Nil, calls[c].phase = "check",
         NEW e \in AllErrors, NEW t \in Nat, t <= calls[c].slot, t <= Deadline(c),
         Set(c, Failed(c, e, t)), UNCHANGED <<sent, validated, foreign>>
  PROVE  RpcSound'
<1>1. PICK M, S : M = Failed(c, e, t) /\ S = sent[c]
  OBVIOUS
<1>2. /\ M \in CallRecord /\ PassSound(M) /\ M.kind = calls[c].kind /\ M.attempt = calls[c].attempt
      /\ (M.phase = "open" /\ M.ep = calls[c].ep + 1) \/ M.phase = "passed"
  BY <1>1, FailedSound
<1>3. SentSound(M, S)'
  BY <1>1, <1>2, SentToNone
<1>4. calls' = [calls EXCEPT ![c] = M] /\ sent' = [sent EXCEPT ![c] = S] /\ S \in Seq(ToSet(Endpoints))
  BY <1>1, SentStays DEF Set
<1>5. EndpointsSound' /\ validated \subseteq validated' /\ foreign' = foreign
  BY ChainsStay
<1> QED
  BY <1>2, <1>3, <1>4, <1>5, OneCallMoves

LEMMA SlotTimesOutKeeps ==
  ASSUME RpcSound, NEW c \in Calls, SlotTimesOut(c), UNCHANGED foreign
  PROVE  RpcSound'
<1>1. /\ calls[c] # Nil /\ calls[c].phase \in {"check", "request"} /\ calls[c].slot <= Deadline(c)
      /\ Set(c, Failed(c, TimeoutError, calls[c].slot)) /\ validated' = validated
  BY DEF SlotTimesOut
<1>2. PICK t : t = calls[c].slot
  OBVIOUS
<1>3. t \in Nat /\ t <= calls[c].slot /\ t <= Deadline(c)
  BY <1>1, <1>2, WaitingKnown
<1>4. PICK e : e = TimeoutError
  OBVIOUS
<1>5. e \in AllErrors
  BY <1>4 DEF AllErrors
<1>6. CASE calls[c].phase = "check"
  <2>1. sent' = sent
    BY <1>6 DEF SlotTimesOut
  <2> QED
    BY <1>1, <1>2, <1>3, <1>4, <1>5, <1>6, <2>1, CheckFails
<1>7. CASE calls[c].phase = "request"
  <2>1. sent' = [sent EXCEPT ![c] = Append(sent[c], Endpoints[calls[c].ep])]
    BY <1>7 DEF SlotTimesOut
  <2> QED
    BY <1>1, <1>2, <1>3, <1>4, <1>5, <1>7, <2>1, RequestFails
<1> QED
  BY <1>1, <1>6, <1>7

\* What an endpoint fails with, and when.
LEMMA FailuresKnown ==
  ASSUME RpcSound, NEW c \in Calls, calls[c] # Nil, calls[c].phase \in {"check", "request"},
         NEW f \in Failures(c)
  PROVE  f[1] \in AllErrors /\ f[2] \in Nat /\ f[2] <= calls[c].slot /\ f[2] <= Deadline(c)
<1>1. f[1] \in Errors \cup {Malformed} /\ f[2] \in Moments(c)
  BY DEF Failures
<1> QED
  BY <1>1, WaitingKnown DEF AllErrors

LEMMA CheckEndpointKeeps ==
  ASSUME RpcSound, NEW c \in Calls, CheckEndpoint(c), UNCHANGED foreign
  PROVE  RpcSound'
<1>1. PICK m, url : m = calls[c] /\ url = Endpoints[m.ep]
  OBVIOUS
<1>2. m # Nil /\ m.phase = "check" /\ sent' = sent
  BY <1>1 DEF CheckEndpoint
<1>3. /\ m \in CallRecord /\ PassSound(m) /\ url \in ToSet(Endpoints)
      /\ \A t \in Moments(c) : t \in Nat /\ t <= m.slot /\ t <= Deadline(c)
  BY <1>1, <1>2, CallKnown, WaitingKnown
<1>4. CASE /\ url \notin foreign /\ validated' = validated \cup {url}
           /\ \E t \in Moments(c) : Set(c, [m EXCEPT !.used = t, !.phase = "request"])
  <2>1. PICK t \in Moments(c) : Set(c, [m EXCEPT !.used = t, !.phase = "request"])
    BY <1>4
  <2>2. t \in Nat /\ t <= m.slot /\ t <= Deadline(c)
    BY <1>3
  <2>3. PICK M : M = [m EXCEPT !.used = t, !.phase = "request"]
    OBVIOUS
  <2>4. /\ M \in CallRecord /\ M.kind = m.kind /\ M.phase = "request" /\ M.ep = m.ep
        /\ M.attempt = m.attempt /\ M.used = t /\ M.slot = m.slot /\ M.end = m.end /\ M.reached = m.reached
    BY <1>3, <2>2, <2>3 DEF CallRecord
  <2>5. M.kind \in Reads => M.used <= ReadTimeout
    BY <1>1, <2>2, <2>4 DEF Deadline
  <2>6. M.kind \notin Reads => M.used <= M.end
    BY <1>1, <2>2, <2>4 DEF Deadline
  <2>7. PassSound(M)
    BY <1>2, <1>3, <2>2, <2>4, <2>5, <2>6 DEF PassSound
  <2>8. EndpointsSound' /\ validated \subseteq validated' /\ url \in validated'
    BY <1>3, <1>4, ChainLearnt
  <2>9. PICK S : S = sent[c]
    OBVIOUS
  <2>10. SentSound(M, S)'
    BY <1>1, <1>2, <2>4, <2>8, <2>9, SentToNone
  <2>11. calls' = [calls EXCEPT ![c] = M] /\ sent' = [sent EXCEPT ![c] = S] /\ S \in Seq(ToSet(Endpoints))
    BY <1>2, <2>1, <2>3, <2>9, SentStays DEF Set
  <2> QED
    BY <2>4, <2>7, <2>8, <2>10, <2>11, OneCallMoves
<1>5. CASE url \in foreign /\ UNCHANGED validated /\ \E t \in Moments(c) : Set(c, Failed(c, Mismatch, t))
  <2>1. PICK t \in Moments(c) : Set(c, Failed(c, Mismatch, t))
    BY <1>5
  <2>2. PICK e : e = Mismatch
    OBVIOUS
  <2>3. e \in AllErrors
    BY <2>2 DEF AllErrors
  <2> QED
    BY <1>1, <1>2, <1>3, <1>5, <2>1, <2>2, <2>3, CheckFails
<1>6. CASE UNCHANGED validated /\ \E f \in Failures(c) : Set(c, Failed(c, f[1], f[2]))
  <2>1. PICK f \in Failures(c) : Set(c, Failed(c, f[1], f[2]))
    BY <1>6
  <2>2. PICK e, t : e = f[1] /\ t = f[2]
    OBVIOUS
  <2>3. e \in AllErrors /\ t \in Nat /\ t <= m.slot /\ t <= Deadline(c)
    BY <1>1, <1>2, <2>2, FailuresKnown
  <2> QED
    BY <1>1, <1>2, <1>6, <2>1, <2>2, <2>3, CheckFails
<1> QED
  BY <1>1, <1>4, <1>5, <1>6 DEF CheckEndpoint

\* The pass ends with an answer.
LEMMA AnswerArrives ==
  ASSUME RpcSound, NEW c \in Calls, calls[c] # Nil, calls[c].phase = "request",
         NEW t \in Moments(c), NEW r \in {"value", "null"},
         r = "null" => calls[c].ep = N,
         Set(c, [calls[c] EXCEPT !.used = t, !.phase = "passed", !.result = r]),
         sent' = [sent EXCEPT ![c] = Append(sent[c], Endpoints[calls[c].ep])],
         EndpointsSound', validated \subseteq validated', UNCHANGED foreign
  PROVE  RpcSound'
<1>1. PICK m, S : m = calls[c] /\ S = Append(sent[c], Endpoints[calls[c].ep])
  OBVIOUS
<1>2. m \in CallRecord /\ PassSound(m) /\ N \in Nat \ {0}
  BY <1>1, CallKnown, EndpointsDiffer
<1>3. t \in Nat /\ t <= Deadline(c)
  BY WaitingKnown
<1>4. PICK M : M = [m EXCEPT !.used = t, !.phase = "passed", !.result = r]
  OBVIOUS
<1>5. /\ M \in CallRecord /\ M.kind = m.kind /\ M.phase = "passed" /\ M.attempt = m.attempt
      /\ M.used = t /\ M.end = m.end /\ M.reached = m.reached /\ M.result = r
  BY <1>2, <1>3, <1>4 DEF CallRecord
<1>6. TriedAll(M)
  <2>1. CASE r = "value"
    BY <1>5, <2>1 DEF TriedAll
  <2>2. CASE r = "null"
    <3>1. m.ep = N /\ m.ep \in m.reached /\ 1 .. m.ep - 1 \subseteq m.reached
      BY <1>1, <1>2, <2>2 DEF PassSound
    <3>2. m.reached \subseteq 1 .. N
      BY <1>2 DEF CallRecord
    <3>3. 1 .. N \subseteq m.reached
      BY <1>2, <3>1
    <3> QED
      BY <1>5, <3>2, <3>3 DEF TriedAll
  <2> QED
    BY <2>1, <2>2
<1>7. PassSound(M)
  BY <1>1, <1>3, <1>5, <1>6 DEF PassSound, Deadline
<1>8. SentSound(M, S)' /\ S \in Seq(ToSet(Endpoints))
  BY <1>1, <1>5, SentToNext
<1>9. calls' = [calls EXCEPT ![c] = M] /\ sent' = [sent EXCEPT ![c] = S]
  BY <1>1, <1>4 DEF Set
<1> QED
  BY <1>5, <1>7, <1>8, <1>9, OneCallMoves

LEMMA NullMovesOn ==
  ASSUME RpcSound, NEW c \in Calls, calls[c] # Nil, calls[c].phase = "request", calls[c].kind = "lookup",
         NEW t \in Moments(c), NullPasses(c),
         Set(c, [calls[c] EXCEPT !.used = t, !.null = TRUE, !.phase = "open", !.ep = @ + 1]),
         sent' = [sent EXCEPT ![c] = Append(sent[c], Endpoints[calls[c].ep])],
         UNCHANGED <<validated, foreign>>
  PROVE  RpcSound'
<1>1. PICK m, S : m = calls[c] /\ S = Append(sent[c], Endpoints[calls[c].ep])
  OBVIOUS
<1>2. m \in CallRecord /\ PassSound(m) /\ N \in Nat \ {0} /\ m.ep \in 1 .. N /\ m.ep # N
  BY <1>1, CallKnown, WaitingKnown, EndpointsDiffer DEF NullPasses, AtLast, N
<1>3. t \in Nat /\ t <= m.slot /\ t <= Deadline(c)
  BY <1>1, WaitingKnown
<1>4. m.ep + 1 \in 1 .. N + 1 /\ SlotsFrom(m.ep + 1) \in Nat
  <2>1. m.ep + 1 \in 1 .. N + 1
    BY <1>2
  <2> QED
    BY <2>1, SlotsAdd
<1>5. PICK M : M = [m EXCEPT !.used = t, !.null = TRUE, !.phase = "open", !.ep = @ + 1]
  OBVIOUS
<1>6. M \in CallRecord
  BY <1>2, <1>3, <1>4, <1>5 DEF CallRecord
<1>7. /\ M.kind = m.kind /\ M.phase = "open" /\ M.attempt = m.attempt /\ M.ep = m.ep + 1
      /\ M.used = t /\ M.end = m.end /\ M.reached = m.reached
  BY <1>2, <1>5 DEF CallRecord
<1>8. PassSound(M)
  <2>1. /\ m.slot + SlotsFrom(m.ep + 1) <= m.end /\ m.ep \in m.reached
        /\ 1 .. m.ep - 1 \subseteq m.reached
        /\ m.attempt = 1 => m.end <= ReadTimeout
        /\ m.attempt > 1 => m.reached = 1 .. N
    BY <1>1, <1>2 DEF PassSound
  <2>2. 1 .. M.ep - 1 \subseteq M.reached
    BY <1>2, <1>7, <2>1
  <2>3. m.slot \in Nat /\ m.end \in Nat
    BY <1>2 DEF CallRecord
  <2>4. M.used + SlotsFrom(M.ep) <= M.end
    BY <1>3, <1>4, <1>7, <2>1, <2>3
  <2>5. M.kind = "lookup" /\ M.used <= ReadTimeout
    BY <1>1, <1>3, <1>7 DEF Deadline, Reads
  <2> QED
    BY <1>7, <2>1, <2>2, <2>4, <2>5 DEF PassSound, Reads
<1>9. m.kind # "managed" /\ M.ep = calls[c].ep + 1 /\ M.kind = calls[c].kind /\ M.attempt = calls[c].attempt
  BY <1>1, <1>7
<1>10. SentSound(M, S)' /\ S \in Seq(ToSet(Endpoints))
  BY <1>1, <1>7, <1>9, SentToNext
<1>11. calls' = [calls EXCEPT ![c] = M] /\ sent' = [sent EXCEPT ![c] = S]
  BY <1>1, <1>5 DEF Set
<1>12. EndpointsSound' /\ validated \subseteq validated'
  BY ChainsStay
<1> QED
  BY <1>6, <1>8, <1>10, <1>11, <1>12, OneCallMoves

LEMMA RequestKeeps ==
  ASSUME RpcSound, NEW c \in Calls, Request(c), UNCHANGED foreign
  PROVE  RpcSound'
<1>1. PICK m, url : m = calls[c] /\ url = Endpoints[m.ep]
  OBVIOUS
<1>2. m # Nil /\ m.phase = "request" /\ sent' = [sent EXCEPT ![c] = Append(sent[c], Endpoints[m.ep])]
  BY <1>1 DEF Request
<1>3. /\ m \in CallRecord /\ url \in ToSet(Endpoints)
      /\ \A t \in Moments(c) : t \in Nat /\ t <= m.slot /\ t <= Deadline(c)
  BY <1>1, <1>2, CallKnown, WaitingKnown
<1> DEFINE AnsweredBy(r) == \E t \in Moments(c) :
             Set(c, [calls[c] EXCEPT !.used = t, !.phase = "passed", !.result = r])
<1>4. CASE AnsweredBy("value") /\ UNCHANGED validated
  BY <1>1, <1>2, <1>4, ChainsStay, AnswerArrives
<1>5. CASE /\ url \notin foreign /\ validated' = validated \cup {url} /\ AnsweredBy("value")
  <2>1. EndpointsSound' /\ validated \subseteq validated'
    BY <1>3, <1>5, ChainLearnt
  <2> QED
    BY <1>1, <1>2, <1>5, <2>1, AnswerArrives
<1>6. CASE /\ m.kind = "lookup" /\ UNCHANGED validated /\ NullPasses(c)
           /\ \E t \in Moments(c) :
                Set(c, [calls[c] EXCEPT !.used = t, !.null = TRUE, !.phase = "open", !.ep = @ + 1])
  BY <1>1, <1>2, <1>6, NullMovesOn
<1>7. CASE UNCHANGED validated /\ ~NullPasses(c) /\ AnsweredBy("null")
  <2>1. calls[c].ep = N
    BY <1>7 DEF NullPasses, AtLast, N
  <2> QED
    BY <1>1, <1>2, <1>7, <2>1, ChainsStay, AnswerArrives
<1>8. CASE UNCHANGED validated /\ \E t \in Moments(c) : Set(c, Failed(c, Mismatch, t))
  <2>1. PICK t \in Moments(c) : Set(c, Failed(c, Mismatch, t))
    BY <1>8
  <2>2. PICK e : e = Mismatch
    OBVIOUS
  <2>3. e \in AllErrors
    BY <2>2 DEF AllErrors
  <2> QED
    BY <1>1, <1>2, <1>3, <1>8, <2>1, <2>2, <2>3, RequestFails
<1>9. CASE UNCHANGED validated /\ \E f \in Failures(c) : Set(c, Failed(c, f[1], f[2]))
  <2>1. PICK f \in Failures(c) : Set(c, Failed(c, f[1], f[2]))
    BY <1>9
  <2>2. PICK e, t : e = f[1] /\ t = f[2]
    OBVIOUS
  <2>3. e \in AllErrors /\ t \in Nat /\ t <= m.slot /\ t <= Deadline(c)
    BY <1>1, <1>2, <2>2, FailuresKnown
  <2> QED
    BY <1>1, <1>2, <1>9, <2>1, <2>2, <2>3, RequestFails
<1> QED
  BY <1>1, <1>4, <1>5, <1>6, <1>7, <1>8, <1>9 DEF Request

LEMMA ExhaustedKeeps ==
  ASSUME RpcSound, NEW c \in Calls, Exhausted(c), UNCHANGED foreign
  PROVE  RpcSound'
<1>1. PICK m, S : m = calls[c] /\ S = sent[c]
  OBVIOUS
<1>2. /\ m # Nil /\ m.phase = "open" /\ (m.ep > N \/ Slot(c) <= m.used)
      /\ UNCHANGED <<validated, sent>>
  BY <1>1 DEF Exhausted, N
<1>3. m \in CallRecord /\ PassSound(m) /\ N \in Nat \ {0} /\ EndpointTimeout \in Nat \ {0}
  BY <1>1, <1>2, CallKnown, EndpointsDiffer, TimeAssumption
<1>4. m.ep = N + 1
  <2>1. SUFFICES ASSUME m.ep <= N PROVE FALSE
    BY <1>3 DEF CallRecord
  <2>2. m.ep \in 1 .. N /\ m.ep + 1 \in 1 .. N + 1 /\ m.used \in Nat /\ m.end \in Nat
    BY <1>3, <2>1 DEF CallRecord
  <2>3. SlotsFrom(m.ep) = EndpointTimeout + SlotsFrom(m.ep + 1) /\ SlotsFrom(m.ep + 1) \in Nat
    BY <2>2, SlotsAdd
  <2>4. m.used + SlotsFrom(m.ep) <= m.end
    BY <1>2, <1>3 DEF PassSound
  <2>5. m.used + EndpointTimeout <= m.end
    BY <1>3, <2>2, <2>3, <2>4
  <2>6. Slot(c) > m.used
    BY <1>1, <1>3, <2>2, <2>5 DEF Slot, Min2
  <2>7. Slot(c) \in Nat
    BY <1>1, <1>3, <2>2 DEF Slot, Min2
  <2> QED
    BY <1>2, <1>3, <2>1, <2>2, <2>6, <2>7
<1>5. m.reached = 1 .. N
  <2>1. 1 .. m.ep - 1 \subseteq m.reached
    BY <1>2, <1>3 DEF PassSound
  <2>2. m.reached \subseteq 1 .. N
    BY <1>3 DEF CallRecord
  <2>3. m.ep - 1 = N
    BY <1>3, <1>4
  <2> QED
    BY <2>1, <2>2, <2>3
<1>6. PICK M : M = [m EXCEPT !.phase = "passed", !.result = IF m.null THEN "null" ELSE "error",
                             !.err = IF @ = Nil THEN Unavailable ELSE @]
  OBVIOUS
<1>7. /\ M.kind = m.kind /\ M.phase = "passed" /\ M.attempt = m.attempt /\ M.used = m.used
      /\ M.end = m.end /\ M.reached = m.reached
  BY <1>3, <1>6 DEF CallRecord
<1>8. M \in CallRecord
  <2>1. Unavailable \in AllErrors
    BY DEF AllErrors
  <2> QED
    BY <1>3, <1>6, <2>1 DEF CallRecord
<1>9. PassSound(M)
  BY <1>3, <1>5, <1>7 DEF PassSound, TriedAll
<1>10. SentSound(M, S)'
  BY <1>1, <1>2, <1>7, SentToNone
<1>11. calls' = [calls EXCEPT ![c] = M] /\ sent' = [sent EXCEPT ![c] = S] /\ S \in Seq(ToSet(Endpoints))
  BY <1>1, <1>2, <1>6, SentStays DEF Exhausted, Set
<1>12. EndpointsSound' /\ validated \subseteq validated'
  BY <1>2, ChainsStay
<1> QED
  BY <1>8, <1>9, <1>10, <1>11, <1>12, OneCallMoves

\* An attempt is repeated only after a pass that tried every endpoint.
LEMMA RetryKeeps ==
  ASSUME RpcSound, NEW c \in Calls, Retry(c), UNCHANGED foreign
  PROVE  RpcSound'
<1>1. PICK m, S : m = calls[c] /\ S = sent[c]
  OBVIOUS
<1>2. m # Nil /\ m.phase = "passed" /\ Repeats(c) /\ UNCHANGED <<validated, sent>>
  BY <1>1 DEF Retry
<1>3. m \in CallRecord /\ PassSound(m) /\ SentSound(m, S) /\ N \in Nat \ {0}
  BY <1>1, <1>2, CallKnown, EndpointsDiffer
<1>4. /\ m.kind \in Reads /\ m.attempt < MaxAttempts
      /\ (m.result = "error" /\ Transient(m.err)) \/ m.result = "null"
  BY <1>1, <1>2 DEF Repeats, Again
<1>5. m.kind \notin {"managed", "raw", "chain"}
  BY <1>4 DEF Reads
<1>6. m.reached = 1 .. N
  BY <1>2, <1>3, <1>4, <1>5 DEF PassSound, TriedAll, Retryable
<1>7. m.kind \in CallKinds /\ m.attempt \in Nat \ {0} /\ m.used \in Nat
  BY <1>3, TimeAssumption DEF CallRecord
<1>8. PICK F : F = Fresh(m.kind)
  OBVIOUS
<1>9. /\ F \in CallRecord /\ F.kind = m.kind /\ F.phase = "open" /\ F.ep = 1
      /\ F.end \in Nat /\ F.end = SlotsFrom(1)
  BY <1>7, <1>8, FreshSound
<1>10. PICK now : now = Min2(m.used + RetryDelay * m.attempt, ReadTimeout)
  OBVIOUS
<1>11. now \in Nat /\ now <= ReadTimeout
  <2>1. RetryDelay * m.attempt \in Nat /\ ReadTimeout \in Nat
    BY <1>7, TimeAssumption
  <2>2. m.used + RetryDelay * m.attempt \in Nat
    BY <1>7, <2>1
  <2> QED
    BY <1>10, <2>1, <2>2 DEF Min2
<1>12. PICK M : M = [F EXCEPT !.attempt = m.attempt + 1, !.used = now, !.end = now + @, !.reached = m.reached]
  OBVIOUS
<1>13. /\ M.kind = m.kind /\ M.phase = "open" /\ M.ep = 1 /\ M.attempt = m.attempt + 1 /\ M.used = now
       /\ M.end = now + F.end /\ M.reached = m.reached
  BY <1>9, <1>12 DEF CallRecord
<1>14. M \in CallRecord
  <2>1. m.attempt + 1 \in 1 .. MaxAttempts
    BY <1>4, <1>7, TimeAssumption
  <2>2. now + F.end \in Nat
    BY <1>9, <1>11
  <2>3. m.reached \in SUBSET (1 .. N)
    BY <1>6
  <2> QED
    BY <1>9, <1>11, <1>12, <2>1, <2>2, <2>3 DEF CallRecord
<1>15. PassSound(M)
  <2>1. M.attempt > 1 /\ M.attempt # 1
    BY <1>7, <1>13
  <2>2. M.used + SlotsFrom(M.ep) <= M.end
    BY <1>9, <1>11, <1>13
  <2>3. 1 .. M.ep - 1 \subseteq M.reached
    BY <1>13
  <2> QED
    BY <1>4, <1>6, <1>11, <1>13, <2>1, <2>2, <2>3 DEF PassSound
<1>16. SentSound(M, S)'
  <2>1. ToSet(S) \cap foreign = {}
    BY <1>3, <1>5 DEF SentSound
  <2> QED
    BY <1>5, <1>13, <2>1 DEF SentSound
<1>17. calls' = [calls EXCEPT ![c] = M]
  BY <1>1, <1>8, <1>10, <1>12 DEF Retry, Set
<1>18. sent' = [sent EXCEPT ![c] = S] /\ S \in Seq(ToSet(Endpoints))
  BY <1>1, <1>2, SentStays
<1>19. EndpointsSound' /\ validated \subseteq validated'
  BY <1>2, ChainsStay
<1> QED
  BY <1>14, <1>15, <1>16, <1>17, <1>18, <1>19, OneCallMoves

LEMMA FinishKeeps ==
  ASSUME RpcSound, NEW c \in Calls, Finish(c), UNCHANGED foreign
  PROVE  RpcSound'
<1>1. PICK m, S : m = calls[c] /\ S = sent[c]
  OBVIOUS
<1>2. m # Nil /\ m.phase = "passed" /\ UNCHANGED <<validated, sent>>
  BY <1>1 DEF Finish
<1>3. m \in CallRecord /\ PassSound(m)
  BY <1>1, <1>2, CallKnown
<1>4. PICK M : M = [m EXCEPT !.phase = "answered"]
  OBVIOUS
<1>5. /\ M \in CallRecord /\ M.kind = m.kind /\ M.phase = "answered" /\ M.attempt = m.attempt
      /\ M.used = m.used /\ M.end = m.end /\ M.reached = m.reached /\ M.result = m.result /\ M.err = m.err
  BY <1>3, <1>4 DEF CallRecord
<1>6. PassSound(M)
  BY <1>2, <1>3, <1>5 DEF PassSound, TriedAll
<1>7. SentSound(M, S)'
  BY <1>1, <1>2, <1>5, SentToNone
<1>8. calls' = [calls EXCEPT ![c] = M] /\ sent' = [sent EXCEPT ![c] = S] /\ S \in Seq(ToSet(Endpoints))
  BY <1>1, <1>2, <1>4, SentStays DEF Finish, Set
<1>9. EndpointsSound' /\ validated \subseteq validated'
  BY <1>2, ChainsStay
<1> QED
  BY <1>5, <1>6, <1>7, <1>8, <1>9, OneCallMoves

\* The time of a read is up only in a later attempt, when every endpoint was
\* tried: the slots of the first pass fit into it.
LEMMA ReadTimesOutKeeps ==
  ASSUME RpcSound, NEW c \in Calls, ReadTimesOut(c), UNCHANGED foreign
  PROVE  RpcSound'
<1>1. PICK m : m = calls[c]
  OBVIOUS
<1>2. /\ m # Nil /\ m.phase \in {"check", "request"} /\ m.slot > Deadline(c)
      /\ UNCHANGED <<validated, sent>>
  BY <1>1 DEF ReadTimesOut
<1>3. /\ m \in CallRecord /\ PassSound(m) /\ SentSound(m, sent[c]) /\ N \in Nat \ {0}
      /\ ReadTimeout \in Nat /\ m.slot <= m.end /\ m.slot \in Nat
  BY <1>1, <1>2, CallKnown, WaitingKnown, EndpointsDiffer, TimeAssumption
<1>4. m.end \in Nat /\ m.attempt \in Nat \ {0}
  BY <1>3, TimeAssumption DEF CallRecord
<1>5. m.kind \in Reads
  BY <1>1, <1>2, <1>3, <1>4 DEF Deadline
<1>6. m.slot > ReadTimeout
  BY <1>1, <1>2, <1>5 DEF Deadline
<1>7. m.attempt > 1 /\ m.reached = 1 .. N
  BY <1>2, <1>3, <1>4, <1>6 DEF PassSound
<1>8. PICK M : M = [m EXCEPT !.used = ReadTimeout, !.phase = "answered", !.result = "error", !.err = TimeoutError]
  OBVIOUS
<1>9. /\ M.kind = m.kind /\ M.phase = "answered" /\ M.attempt = m.attempt
      /\ M.used = ReadTimeout /\ M.reached = m.reached
  BY <1>3, <1>8 DEF CallRecord
<1>10. M \in CallRecord
  <2>1. TimeoutError \in AllErrors
    BY DEF AllErrors
  <2> QED
    BY <1>3, <1>8, <2>1 DEF CallRecord
<1>11. PassSound(M)
  BY <1>3, <1>5, <1>7, <1>9 DEF PassSound, TriedAll
<1>12. PICK S : S = sent[c]
  OBVIOUS
<1>13. SentSound(M, S)'
  <2>1. m.kind \notin {"managed", "raw", "chain"}
    BY <1>5 DEF Reads
  <2>2. ToSet(S) \cap foreign = {}
    BY <1>3, <1>12, <2>1 DEF SentSound
  <2> QED
    BY <1>9, <2>1, <2>2 DEF SentSound
<1>14. calls' = [calls EXCEPT ![c] = M] /\ sent' = [sent EXCEPT ![c] = S] /\ S \in Seq(ToSet(Endpoints))
  BY <1>1, <1>2, <1>8, <1>12, SentStays DEF ReadTimesOut, Set
<1>15. EndpointsSound' /\ validated \subseteq validated'
  BY <1>2, ChainsStay
<1> QED
  BY <1>10, <1>11, <1>13, <1>14, <1>15, OneCallMoves

LEMMA RpcStepsKeep == RpcSound /\ [RpcNext]_rpcVars => RpcSound'
<1> SUFFICES ASSUME RpcSound, [RpcNext]_rpcVars PROVE RpcSound'
  OBVIOUS
<1>1. ASSUME NEW c \in Calls, UNCHANGED foreign, Internal(c) PROVE RpcSound'
  BY <1>1, OpenKeeps, SlotTimesOutKeeps, ExhaustedKeeps, RetryKeeps, FinishKeeps, ReadTimesOutKeeps
     DEF Internal
<1>2. ASSUME NEW c \in Calls, UNCHANGED foreign, CheckEndpoint(c) PROVE RpcSound'
  BY <1>2, CheckEndpointKeeps
<1>3. ASSUME NEW c \in Calls, UNCHANGED foreign, Request(c) PROVE RpcSound'
  BY <1>3, RequestKeeps
<1>4. ASSUME NEW c \in Calls, UNCHANGED foreign, NEW kind \in CallKinds, Start(c, kind) PROVE RpcSound'
  BY <1>4, StartKeeps
<1>5. CASE UNCHANGED rpcVars
  BY <1>5 DEF rpcVars, RpcSound, CallsTyped, EndpointsSound, CallSound, SentSound, PassSound,
              TriedAll, SlotsFrom, CallRecord, AllErrors
<1> QED
  BY <1>1, <1>2, <1>3, <1>4, <1>5 DEF RpcNext

\* Every call keeps to the right chain; a submission goes out once; and no call
\* that may be repeated gives up before it tried every endpoint.
THEOREM CallsAreSafe ==
  RpcSpec => [](RpcTypeOK /\ RightChainOnly /\ SubmittedOnce /\ EveryEndpointTried)
<1>1. ASSUME RpcSound PROVE RpcTypeOK /\ RightChainOnly /\ SubmittedOnce /\ EveryEndpointTried
  <2>1. DOMAIN Endpoints = 1 .. N
    BY EndpointsDiffer
  <2>2. \A c \in Calls : calls[c] # Nil =>
          calls[c] \in CallRecord /\ PassSound(calls[c]) /\ SentSound(calls[c], sent[c])
    BY <1>1 DEF RpcSound, CallSound
  <2>3. ASSUME NEW c \in Calls, calls[c] # Nil
        PROVE  /\ calls[c].kind \in CallKinds
               /\ calls[c].phase \in {"open", "check", "request", "passed", "answered"}
               /\ calls[c].ep \in 1 .. Len(Endpoints) + 1
               /\ calls[c].phase \in {"check", "request"} => calls[c].ep <= Len(Endpoints)
               /\ calls[c].attempt \in 1 .. MaxAttempts
               /\ calls[c].used <= Deadline(c)
               /\ calls[c].err \in AllErrors \cup {Nil}
               /\ calls[c].result \in {Nil, "value", "null", "error"}
    <3>1. calls[c] \in CallRecord /\ PassSound(calls[c])
      BY <2>2, <2>3
    <3>2. calls[c].phase \in {"check", "request"} => calls[c].ep <= Len(Endpoints)
      BY <1>1, <2>3, WaitingKnown, EndpointsDiffer DEF N
    <3>3. calls[c].used <= Deadline(c)
      BY <3>1 DEF PassSound, Deadline
    <3> QED
      BY <3>1, <3>2, <3>3 DEF CallRecord, N
  <2>4. \A c \in Calls : ToSet(sent[c]) \subseteq ToSet(Endpoints)
    <3> SUFFICES ASSUME NEW c \in Calls PROVE ToSet(sent[c]) \subseteq ToSet(Endpoints)
      OBVIOUS
    <3>1. PICK s : s = sent[c]
      OBVIOUS
    <3>2. s \in Seq(ToSet(Endpoints))
      BY <1>1, <3>1 DEF RpcSound, CallsTyped
    <3>3. \A i \in DOMAIN s : s[i] \in ToSet(Endpoints)
      BY <3>2, LenProperties
    <3>4. ToSet(s) \subseteq ToSet(Endpoints)
      BY <3>3 DEF ToSet
    <3> QED
      BY <3>1, <3>4
  <2>5. RpcTypeOK
    BY <1>1, <2>3, <2>4 DEF RpcTypeOK, RpcSound, EndpointsSound
  <2>6. RightChainOnly
    BY <2>2 DEF RightChainOnly, SentSound
  <2>7. SubmittedOnce
    BY <2>2 DEF SubmittedOnce, SentSound
  <2>8. EveryEndpointTried
    <3> SUFFICES ASSUME NEW c \in Calls, calls[c] # Nil, calls[c].phase = "answered"
                 PROVE  \/ calls[c].result = "value" \/ calls[c].kind = "managed"
                        \/ calls[c].result = "error" /\ ~Retryable(calls[c].err)
                        \/ calls[c].reached = DOMAIN Endpoints
      BY DEF EveryEndpointTried
    <3>1. TriedAll(calls[c])
      BY <2>2 DEF PassSound
    <3> QED
      BY <2>1, <3>1 DEF TriedAll
  <2> QED
    BY <2>5, <2>6, <2>7, <2>8
<1> QED
  BY <1>1, RpcInitSound, RpcStepsKeep, PTL DEF RpcSpec
=============================================================================
