--------------------------- MODULE SpendExecutor ---------------------------
(***************************************************************************)
(* Concurrent manual spends, reservations and their settlement, and admin  *)
(* recovery, over the tables and the chain that awards use too. A          *)
(* reservation holds part of a wallet's tokens; the final CDR of its       *)
(* session debits what was delivered and releases the rest. The claim of a *)
(* manual spend and a new reservation check the wallet's capacity in a     *)
(* transaction that holds the wallet's advisory lock, with the balance     *)
(* read from the chain in between. The transfer itself is TransferRuns.    *)
(***************************************************************************)
EXTENDS TransferRuns, FiniteSets

CONSTANTS
  ReservationKeys,  \* operation keys of reservations; the others are manual
  ManagedWallet,    \* the managed wallet of a manual key's owner
  SettlementIntent, \* the fingerprinted contents of every settlement
  Deliveries,       \* delivered energy a final CDR may report
  TokensOf,         \* the delivered energy, truncated to token precision
  Funds,            \* opening balance of each wallet
  MaxFaults,        \* bound on failing calls and crashes
  MaxReverts,       \* bound on transfers that fail although they are funded
  MaxEvictions      \* bound on transfers evicted from the pool

ASSUME SpendAssumption ==
  /\ ReservationKeys \subseteq Keys /\ ManagedWallet \in [Keys -> Wallets]
  /\ SettlementIntent \in Intents /\ None \notin Deliveries
  /\ TokensOf \in [Deliveries -> Amounts] /\ Funds \in [Wallets -> Nat]
ASSUME SpendBoundsAssumption ==
  MaxFaults \in Nat /\ MaxReverts \in Nat /\ MaxEvictions \in Nat

ManualKeys == Keys \ ReservationKeys

\* A row of spend_reservations. The context is the delivered energy of the
\* first settlement, the hash the transfer it was completed with.
Reservation ==
  [wallet: Wallets, amount: Amounts, settled: Amounts, context: Deliveries \cup {None},
   hash: Tx \cup {None}, status: {"reserved", "settling", "settled", "released"}]

\* A row of spends, and a signed receipt.
SpendRow == [key: Keys, wallet: Wallets, amount: Amounts, tx: Tx]

SpendPoints ==
  {"idle", "capacity", "hold", "claimManual", "claimHold", "lookup", "context", "zeroClaim",
   "zeroProject", "claim", "check", "prepare", "preflight", "broadcast",
   "submitLease", "unknownLease", "submit", "verify", "fresh",
   "freshProjected", "confirm", "unknown", "failNoMovement", "failReview",
   "record", "projectionError", "complete", "settle", "receipt"}

\* What a run holds in memory; sample is the balance it read under the lock.
SpendLocals ==
  [key: Keys, intent: Intents, wallet: Wallets, amount: Amounts, tx: Tx \cup {None},
   delivery: Deliveries \cup {None}, sample: Nat]

ASSUME SpendNoneAssumption ==
  /\ None \notin Procs /\ None \notin Reservation
  /\ None \notin SpendLocals /\ None \notin Row /\ None \notin Lease

VARIABLES
  balance,   \* the tokens of each wallet on the chain
  res,       \* res[k]: the reservation of key k, or None
  lock,      \* the run that holds the advisory lock of a wallet, or None
  spends,    \* the spends table
  receipts   \* the signed receipts

spendVars == <<balance, res, lock, spends, receipts>>
vars == <<op, pool, paid, reverted, lease, pc, loc, budget, spendVars>>

Memory(k, i, w, a, t, d, s) ==
  [key |-> k, intent |-> i, wallet |-> w, amount |-> a, tx |-> t, delivery |-> d, sample |-> s]

\* calculateReservationSettlement: what was delivered, up to the hold.
Lower(a, b) == IF a < b THEN a ELSE b

\* Mutant: requests on one wallet do not wait for each other.
FreeAlways(w) == TRUE

\* No open transaction holds the advisory lock of wallet w.
Free(w) == lock[w] = None

\* Mutant: a transaction ends without releasing its lock.
UnlockNever(p) == UNCHANGED lock

\* The end of a transaction of run p releases its locks.
Unlock(p) == lock' = [w \in Wallets |-> IF lock[w] = p THEN None ELSE lock[w]]
-----------------------------------------------------------------------------
(* Capacity of a wallet.                                                   *)

\* Reservations that hold tokens of wallet w.
Holds(w) ==
  {k \in ReservationKeys :
     res[k] # None /\ res[k].wallet = w /\ res[k].status \in {"reserved", "settling"}}

\* Manual spends other than k that may still move tokens of wallet w.
OpenManual(w, k) ==
  {l \in ManualKeys \ {k} :
     /\ op[l] # None /\ op[l].wallet = w
     /\ op[l].status # "projected" /\ op[l].outcome # "no_movement"
     /\ op[l].hash # None \/ op[l].status \in OpenStatuses \cup {"confirmed"}}

\* What key k asks for: the amount of its reservation or of its spend.
Asked(k) == IF k \in ReservationKeys THEN res[k].amount ELSE op[k].amount

\* The sum of what the keys of S ask for, counted token by token.
Tokens(S) == UNION {{k} \X (1..Asked(k)) : k \in S}
Total(S) == Cardinality(Tokens(S))

Held(w, k) == Total(Holds(w) \cup OpenManual(w, k))

\* The sampled balance covers the request on top of everything held.
Covered(p) == loc[p].amount + Held(loc[p].wallet, loc[p].key) <= loc[p].sample

\* Sum what is held, after the balance was read and before the row is
\* written. reserve sums the reservations before it reads the balance: as only
\* transactions that take the lock add or end one, it finds the same ones.
CheckCapacity(p) ==
  /\ pc[p] = "capacity"
  /\ \/ /\ Covered(p) /\ UNCHANGED lock /\ NoFault
        /\ Goto(p, IF loc[p].key \in ReservationKeys THEN "hold" ELSE "claimManual")
     \/ ~Covered(p) /\ Unlock(p) /\ Goto(p, "idle") /\ NoFault
     \/ Unlock(p) /\ Goto(p, "idle") /\ Fault
  /\ UNCHANGED <<op, chainVars, lease, balance, res, spends, receipts>>
-----------------------------------------------------------------------------
(* SpendReservations.reserve (POST /spend/me).                             *)

\* Take the wallet's lock, find no reservation, and read the balance.
Reserve(p, k, w, a) ==
  /\ pc[p] = "idle" /\ k \in ReservationKeys /\ a > 0
  /\ Free(w) /\ res[k] = None
  /\ lock' = [lock EXCEPT ![w] = p]
  /\ GotoWith(p, "capacity", Memory(k, SettlementIntent, w, a, None, None, balance[w]))
  /\ UNCHANGED <<op, chainVars, lease, budget, balance, res, spends, receipts>>

NewReservation(w, a) ==
  [wallet |-> w, amount |-> a, settled |-> 0, context |-> None, hash |-> None,
   status |-> "reserved"]

\* Insert and commit; the unique session index refuses a second row.
Hold(p) ==
  LET k == loc[p].key
      new == [res EXCEPT ![k] = NewReservation(loc[p].wallet, loc[p].amount)] IN
  /\ pc[p] = "hold"
  /\ \/ res[k] = None /\ res' = new /\ NoFault
     \/ res[k] # None /\ UNCHANGED res /\ NoFault
     \/ res[k] = None /\ res' \in {res, new} /\ Fault
  /\ Unlock(p) /\ Goto(p, "idle")
  /\ UNCHANGED <<op, chainVars, lease, balance, spends, receipts>>
-----------------------------------------------------------------------------
(* processSpend: claim. A request that differs from the saved one is       *)
(* refused without a step.                                                 *)

\* Mutant: the amount is left out, as it is for awards.
SameSpendAnyAmount(k, i, w, a) == SameIntent(k, i, w)

\* The saved operation is this very request, amount included.
SameSpend(k, i, w, a) == SameIntent(k, i, w) /\ op[k].amount = a

\* Where a successful spend goes on: a settlement completes its reservation.
Finished(d) == IF d # None THEN "settle" ELSE "receipt"

\* Mutant: a confirmed row is left to somebody else.
SpendReplayPointConfirmedDone(k, d) ==
  IF op[k].status \in {"failed", "confirmed"} \/ op[k].hash = None THEN "idle"
  ELSE IF op[k].status = "projected" THEN Finished(d) ELSE "verify"

\* projectSpendOperation dispatches on the saved row.
SpendReplayPoint(k, d) ==
  IF op[k].status = "failed" \/ op[k].hash = None THEN "idle"
  ELSE IF op[k].status = "projected" THEN Finished(d)
  ELSE IF op[k].status \in {"submitted", "unknown"} THEN "verify"
  ELSE "record"

\* POST /spend: the claim takes the wallet's lock, replays a saved operation,
\* or reads the balance for a new one or one to take over.
Spend(p, k, i, a) ==
  LET w == ManagedWallet[k] IN
  /\ pc[p] = "idle" /\ k \in ManualKeys /\ a > 0 /\ Free(w)
  /\ \/ /\ op[k] # None => SameSpend(k, i, w, a) /\ Reclaimable(k)
        /\ lock' = [lock EXCEPT ![w] = p]
        /\ GotoWith(p, "capacity", Memory(k, i, w, a, None, None, balance[w]))
     \/ /\ op[k] # None /\ SameSpend(k, i, w, a) /\ ~Reclaimable(k)
        /\ UNCHANGED lock
        /\ GotoWith(p, SpendReplayPoint(k, None), Memory(k, i, w, op[k].amount, op[k].hash, None, 0))
  /\ UNCHANGED <<op, chainVars, lease, budget, balance, res, spends, receipts>>

\* Insert a first claim, or take a preflight failure over.
TakeClaim(p, done) ==
  LET k == loc[p].key IN
  \/ /\ op[k] = None
     /\ SaveOp(p, Inserted(k, loc[p].intent, loc[p].wallet, loc[p].amount), done, "idle")
  \/ /\ op[k] # None /\ Reclaimable(k)
     /\ SameSpend(k, loc[p].intent, loc[p].wallet, loc[p].amount)
     /\ SaveOp(p, Reclaimed(k), done, "idle")

\* The claim of a manual spend commits.
ClaimManual(p) ==
  /\ pc[p] = "claimManual" /\ TakeClaim(p, "check") /\ Unlock(p)
  /\ UNCHANGED <<chainVars, lease, balance, res, spends, receipts>>

\* preflightSpend: the balance must cover the transfer. An unavailable read
\* and a missing allowance end the same way.
Check(p) ==
  /\ pc[p] = "check"
  /\ \/ balance[loc[p].wallet] >= loc[p].amount /\ Goto(p, "prepare") /\ NoFault
     \/ balance[loc[p].wallet] < loc[p].amount /\ Goto(p, "preflight") /\ NoFault
     \/ Goto(p, "preflight") /\ Fault
  /\ UNCHANGED <<op, chainVars, lease, spendVars>>
-----------------------------------------------------------------------------
(* settleReservationFromCdr.                                               *)

\* The durable spend intent of a settled reservation must be its own.
ValidSettlement(k) ==
  /\ op[k] # None /\ op[k].amount = res[k].settled /\ op[k].hash = res[k].hash
  /\ op[k].status \notin {"failed", "unknown"}

\* Dispatch on the reservation that was read. A released reservation is
\* returned as it is, and a settled one has its receipt completed.
Dispatch(p, k, d) ==
  LET r == res[k]
      memory == Memory(k, SettlementIntent, r.wallet, Lower(r.amount, TokensOf[d]), None, d, 0) IN
  \/ r.status = "reserved" /\ GotoWith(p, "claimHold", memory)
  \/ r.status = "settling" /\ GotoWith(p, "lookup", memory)
  \/ /\ r.status = "settled" /\ ValidSettlement(k)
     /\ GotoWith(p, "receipt", [memory EXCEPT !.amount = r.settled, !.tx = r.hash])
  \/ /\ r.status = "released" \/ (r.status = "settled" /\ ~ValidSettlement(k))
     /\ Goto(p, "idle")

Settle(p, k, d) ==
  /\ pc[p] = "idle" /\ k \in ReservationKeys /\ res[k] # None
  /\ Dispatch(p, k, d)
  /\ UNCHANGED <<op, chainVars, lease, budget, spendVars>>

\* Mutant: the claim does not look at the status it leaves.
ClaimableHoldAny(k) == TRUE

ClaimableHold(k) == res[k].status = "reserved"

\* claimForSettlement: one delivery moves the reservation on; the others
\* read it again.
ClaimHold(p) ==
  LET k == loc[p].key
      new == [res EXCEPT ![k].status = "settling"] IN
  /\ pc[p] = "claimHold"
  /\ \/ /\ ClaimableHold(k)
        /\ \/ res' = new /\ Goto(p, "context") /\ NoFault
           \/ res' \in {res, new} /\ Goto(p, "idle") /\ Fault
     \/ /\ ~ClaimableHold(k)
        /\ Dispatch(p, k, loc[p].delivery) /\ UNCHANGED <<res, budget>>
  /\ UNCHANGED <<op, chainVars, lease, balance, lock, spends, receipts>>

\* A settling reservation without an operation is left to the operator.
LookupOperation(p) ==
  /\ pc[p] = "lookup"
  /\ \/ op[loc[p].key] # None /\ Goto(p, "context") /\ NoFault
     \/ op[loc[p].key] = None /\ Goto(p, "idle") /\ NoFault
     \/ Goto(p, "idle") /\ Fault
  /\ UNCHANGED <<op, chainVars, lease, spendVars>>

\* Mutant: the last delivered energy wins.
ContextMatchesAlways(k, d) == TRUE

ContextMatches(k, d) == res[k].context \in {None, d}

\* persistSettlementContext: the first delivered energy wins. A database
\* failure is answered with retryable: true.
PersistContext(p) ==
  LET k == loc[p].key
      d == loc[p].delivery
      new == [res EXCEPT ![k].context = d] IN
  /\ pc[p] = "context"
  /\ \/ /\ ContextMatches(k, d) /\ res' = new
        /\ Goto(p, IF loc[p].amount = 0 THEN "zeroClaim" ELSE "claim")
        /\ NoFault
     \/ ~ContextMatches(k, d) /\ Goto(p, "idle") /\ NoFault /\ UNCHANGED res
     \/ /\ ContextMatches(k, d) /\ res' \in {res, new}
        /\ Goto(p, "idle") /\ Fault
  /\ UNCHANGED <<op, chainVars, lease, balance, lock, spends, receipts>>

\* processSpend for a reservation: no capacity check, the hold covers it.
ClaimSettlement(p) ==
  LET k == loc[p].key
      same == SameSpend(k, loc[p].intent, loc[p].wallet, loc[p].amount) IN
  /\ pc[p] = "claim"
  /\ \/ TakeClaim(p, "check")
     \/ /\ op[k] # None /\ same /\ ~Reclaimable(k) /\ UNCHANGED <<op, budget>>
        /\ GotoWith(p, SpendReplayPoint(k, loc[p].delivery),
                    [loc[p] EXCEPT !.tx = op[k].hash, !.amount = op[k].amount])
     \/ op[k] # None /\ ~same /\ UNCHANGED <<op, budget>> /\ Goto(p, "idle")
  /\ UNCHANGED <<chainVars, lease, spendVars>>

\* ensureZeroSettlementOperation: a durable amount-0 operation, projected
\* before the hold is released. A failed claim is answered with retryable.
ZeroClaim(p) ==
  LET k == loc[p].key
      fits == /\ SameSpend(k, loc[p].intent, loc[p].wallet, 0)
              /\ op[k].status # "failed" IN
  /\ pc[p] = "zeroClaim"
  /\ \/ TakeClaim(p, "zeroProject")
     \/ /\ op[k] # None /\ ~Reclaimable(k) /\ fits
        /\ Goto(p, "zeroProject") /\ UNCHANGED <<op, budget>>
     \/ /\ op[k] # None /\ ~fits
        /\ Goto(p, "idle") /\ UNCHANGED <<op, budget>>
  /\ UNCHANGED <<chainVars, lease, balance, res, lock, spends, receipts>>

ZeroProject(p) ==
  /\ pc[p] = "zeroProject" /\ Free(loc[p].wallet)
  /\ SaveOp(p, MarkProjected(loc[p].key), "settle", "idle")
  /\ UNCHANGED <<chainVars, lease, spendVars>>

\* The row SpendReservations.complete writes.
CompletedReservation(r, d, a, t) ==
  [r EXCEPT !.status = IF Lower(a, r.amount) > 0 THEN "settled" ELSE "released",
            !.context = d, !.settled = Lower(a, r.amount), !.hash = t]

\* complete, under the wallet's lock: a terminal row is returned, unless its
\* hash is another; otherwise the context must be the saved one. Its failure
\* keeps the reservation settling.
CompleteHold(p) ==
  LET k == loc[p].key
      r == res[k]
      t == loc[p].tx
      over == r.status \in {"settled", "released"}
      refused == IF over THEN t # None /\ r.hash # None /\ r.hash # t
                         ELSE ~ContextMatches(k, loc[p].delivery)
      new == IF over THEN res
             ELSE [res EXCEPT ![k] = CompletedReservation(r, loc[p].delivery, loc[p].amount, t)] IN
  /\ pc[p] = "settle" /\ Free(r.wallet)
  /\ \/ ~refused /\ res' = new /\ NoFault /\ Goto(p, IF t = None THEN "idle" ELSE "receipt")
     \/ refused /\ UNCHANGED res /\ NoFault /\ Goto(p, "idle")
     \/ ~refused /\ res' \in {res, new} /\ Fault /\ Goto(p, "idle")
  /\ UNCHANGED <<op, chainVars, lease, balance, lock, spends, receipts>>
-----------------------------------------------------------------------------
(* projectSpendOperation: recording, completion and the receipt.           *)

Entry(p) ==
  [key |-> loc[p].key, wallet |-> loc[p].wallet, amount |-> loc[p].amount, tx |-> loc[p].tx]

\* The rows of a table with this run's hash must be this very spend.
Conflicts(table, p) == \E s \in table : s.tx = loc[p].tx /\ s # Entry(p)

\* recordSpend.
RecordSpend(p) ==
  /\ pc[p] = "record"
  /\ \/ /\ ~Conflicts(spends, p) /\ spends' = spends \cup {Entry(p)}
        /\ Goto(p, "complete") /\ NoFault
     \/ /\ Conflicts(spends, p) /\ UNCHANGED spends
        /\ Goto(p, "projectionError") /\ NoFault
     \/ /\ ~Conflicts(spends, p) /\ spends' \in {spends, spends \cup {Entry(p)}}
        /\ Goto(p, "projectionError") /\ Fault
  /\ UNCHANGED <<op, chainVars, lease, balance, res, lock, receipts>>

\* markProjected, under the wallet's lock, and the successful result.
CompleteSpend(p) ==
  /\ pc[p] = "complete" /\ Free(loc[p].wallet)
  /\ SaveOp(p, MarkProjected(loc[p].key), Finished(loc[p].delivery), "idle")
  /\ UNCHANGED <<chainVars, lease, spendVars>>

\* createAndStoreSpendReceipt: the stored receipt of the hash, or a new one.
Receipt(p) ==
  /\ pc[p] = "receipt"
  /\ \/ ~Conflicts(receipts, p) /\ receipts' = receipts \cup {Entry(p)} /\ NoFault
     \/ Conflicts(receipts, p) /\ UNCHANGED receipts /\ NoFault
     \/ receipts' \in {receipts, receipts \cup {Entry(p)}} /\ ~Conflicts(receipts, p) /\ Fault
  /\ Goto(p, "idle")
  /\ UNCHANGED <<op, chainVars, lease, balance, res, lock, spends>>
-----------------------------------------------------------------------------
(* executeAdminOperationRecovery and recoverSpendOperation.                *)

\* The reservation an operator may finish: it must carry the hash of the
\* operation, and be terminal with its amount or settling within its hold.
RecoverableReservation(k) ==
  /\ res[k].hash = op[k].hash
  /\ \/ res[k].status \in {"settled", "released"} /\ op[k].amount = res[k].settled
     \/ /\ res[k].status = "settling" /\ res[k].context # None
        /\ op[k].amount <= res[k].amount

\* Only a reservation that is still settling is completed again.
RecoveredDelivery(k) ==
  IF k \in ReservationKeys /\ res[k].status = "settling" THEN res[k].context ELSE None

Recover(p, k) ==
  /\ pc[p] = "idle"
  /\ op[k] # None /\ op[k].hash # None /\ op[k].status # "failed"
  /\ k \in ReservationKeys => RecoverableReservation(k)
  /\ GotoWith(p, IF op[k].status = "projected" THEN "freshProjected" ELSE "fresh",
              Memory(k, op[k].intent, op[k].wallet, op[k].amount, op[k].hash,
                     RecoveredDelivery(k), 0))
  /\ UNCHANGED <<op, chainVars, lease, budget, spendVars>>

\* A projected spend is verified again before its receipt is completed.
VerifyProjected(p) ==
  LET e == Evidence(loc[p].tx, loc[p].wallet, loc[p].amount) IN
  /\ pc[p] = "freshProjected"
  /\ \/ Goto(p, IF e = "valid" THEN Finished(loc[p].delivery) ELSE "idle") /\ NoFault
     \/ Goto(p, "idle") /\ Fault
  /\ UNCHANGED <<op, chainVars, lease, spendVars>>
-----------------------------------------------------------------------------
(* The environment.                                                        *)

\* A transfer is mined; it fails when the wallet cannot pay it.
MineSpend ==
  /\ \E t \in pool :
       LET funded == balance[t.wallet] >= t.amount IN
       \/ /\ Mine(t, TRUE) /\ funded /\ NoFault
          /\ balance' = [balance EXCEPT ![t.wallet] = @ - t.amount]
       \/ Mine(t, FALSE) /\ ~funded /\ UNCHANGED balance /\ NoFault
       \/ /\ Mine(t, FALSE) /\ funded /\ UNCHANGED balance
          /\ budget.reverts > 0 /\ budget' = [budget EXCEPT !.reverts = @ - 1]
  /\ UNCHANGED <<op, lease, pc, loc, res, lock, spends, receipts>>

\* The process dies; the database ends its transactions.
CrashSpend(p) ==
  /\ Crash(p) /\ Unlock(p)
  /\ UNCHANGED <<balance, res, spends, receipts>>

Init ==
  /\ OperationsInit /\ ChainInit /\ LeaseInit
  /\ pc = [p \in Procs |-> "idle"] /\ loc = [p \in Procs |-> None]
  /\ balance = Funds /\ lock = [w \in Wallets |-> None]
  /\ res = [k \in ReservationKeys |-> None]
  /\ spends = {} /\ receipts = {}
  /\ budget = [faults |-> MaxFaults, reverts |-> MaxReverts, evictions |-> MaxEvictions]

Claiming(p) == CheckCapacity(p) \/ Hold(p) \/ ClaimManual(p) \/ Check(p)
Settling(p) ==
  \/ ClaimHold(p) \/ LookupOperation(p) \/ PersistContext(p) \/ ClaimSettlement(p)
  \/ ZeroClaim(p) \/ ZeroProject(p) \/ CompleteHold(p)
Projection(p) == RecordSpend(p) \/ CompleteSpend(p) \/ Receipt(p) \/ VerifyProjected(p)
\* markFailed ends a hold, too, and waits for the wallet's lock.
Transferring(p) ==
  /\ SubmissionStep(p) \/ EvidenceStep(p)
  /\ pc[p] \in {"failNoMovement", "failReview"} => Free(loc[p].wallet)
  /\ UNCHANGED spendVars
Step(p) == Claiming(p) \/ Settling(p) \/ Transferring(p) \/ Projection(p)

Start(p) ==
  \E k \in Keys :
    \/ Recover(p, k)
    \/ \E d \in Deliveries : Settle(p, k, d)
    \/ \E a \in Amounts : \/ \E w \in Wallets : Reserve(p, k, w, a)
                          \/ \E i \in Intents : Spend(p, k, i, a)

Environment == MineSpend \/ (EvictOne /\ UNCHANGED spendVars)

Next == (\E p \in Procs : Step(p) \/ Start(p) \/ CrashSpend(p)) \/ Environment

Spec == Init /\ [][Next]_vars

\* Runs go on; an advisory lock is granted in the order of the requests, so
\* one that is free again and again is obtained. Senders redeliver a final
\* CDR until it is settled.
FairSpec ==
  /\ Spec
  /\ \A p \in Procs : SF_vars(Step(p))
  /\ \A k \in ReservationKeys, d \in Deliveries : SF_vars(\E p \in Procs : Settle(p, k, d))
-----------------------------------------------------------------------------
(* Properties.                                                             *)

WithTx == {"broadcast", "submitLease", "unknownLease", "submit", "verify",
           "fresh", "freshProjected", "confirm", "unknown", "failNoMovement",
           "failReview", "record", "projectionError", "complete", "receipt"}
Locking == {"capacity", "hold", "claimManual"}

\* Every variable has its type; a run that transfers or records has a signed
\* transfer; and the lock of a wallet is held exactly by the run whose open
\* transaction checks the capacity of that wallet.
TypeOK ==
  /\ OperationsTypeOK /\ ChainTypeOK /\ LeaseTypeOK
  /\ pc \in [Procs -> SpendPoints] /\ loc \in [Procs -> SpendLocals \cup {None}]
  /\ balance \in [Wallets -> Nat] /\ lock \in [Wallets -> Procs \cup {None}]
  /\ res \in [ReservationKeys -> Reservation \cup {None}]
  /\ spends \subseteq SpendRow /\ receipts \subseteq SpendRow
  /\ budget \in [faults: Nat, reverts: Nat, evictions: Nat]
  /\ \A p \in Procs : pc[p] = "idle" <=> loc[p] = None
  /\ \A p \in Procs : pc[p] \in WithTx => loc[p].tx # None
  /\ \A p \in Procs, w \in Wallets :
       lock[w] = p <=> pc[p] \in Locking /\ loc[p].wallet = w

\* A terminal reservation is the settlement of the first CDR: its operation
\* has the settled amount and hash, the amount is the
\* saved delivery bounded by the hold, and no other transfer was made for it.
SettlementFollowsCdr ==
  \A k \in ReservationKeys :
    res[k] # None /\ res[k].status \in {"settled", "released"} =>
      /\ op[k] # None /\ op[k].amount = res[k].settled /\ op[k].hash = res[k].hash
      /\ res[k].context # None
      /\ res[k].settled = Lower(res[k].amount, TokensOf[res[k].context])
      /\ res[k].status = "settled" <=> res[k].settled > 0
      /\ \A t \in Known : t.key = k =>
           t = res[k].hash /\ t.wallet = res[k].wallet /\ t.amount = res[k].settled

\* A receipt tells what its operation did: key, wallet and amount are those
\* of the saved operation and of the signed transfer, the spend is recorded,
\* and a reservation is settled with the same hash.
ReceiptsMatch ==
  \A r \in receipts :
    /\ op[r.key] # None /\ op[r.key].hash = r.tx
    /\ op[r.key].amount = r.amount /\ op[r.key].wallet = r.wallet
    /\ r.tx.key = r.key /\ r.tx.amount = r.amount /\ r.tx.wallet = r.wallet
    /\ r \in spends
    /\ r.key \in ReservationKeys => res[r.key].status = "settled" /\ res[r.key].hash = r.tx

\* A reservation only moves from reserved through settling to its end: no
\* step reopens one, changes its hold, replaces a saved delivery or touches
\* a terminal row.
ReservationsMoveForward ==
  [][\A k \in ReservationKeys : res[k] # None =>
       /\ res'[k] # None
       /\ res'[k].wallet = res[k].wallet /\ res'[k].amount = res[k].amount
       /\ res[k].context # None => res'[k].context = res[k].context
       /\ res[k].status # "reserved" => res'[k].status # "reserved"
       /\ res[k].status \in {"settled", "released"} => res'[k] = res[k]]_vars

\* Reservations and manual spends that are not over, of wallet w.
ActiveHolds(w) ==
  {k \in ReservationKeys :
     res[k] # None /\ res[k].wallet = w /\ res[k].status \notin {"settled", "released"}}
ActiveManual(w) ==
  {k \in ManualKeys :
     /\ op[k] # None /\ op[k].wallet = w
     /\ op[k].status # "projected" /\ op[k].outcome # "no_movement"}

Active(w) == ActiveHolds(w) \cup ActiveManual(w)

\* Concurrent admissions do not promise the same tokens twice: whatever runs
\* are racing or have crashed, the reservations and manual spends that are
\* not over never ask for more than the wallet was given.
AdmittedWithinFunds == \A w \in Wallets : Total(Active(w)) <= Funds[w]

Unpaid(k) == \A t \in paid : t.key # k

\* What the wallet still owes is there: the holds and open manual spends that
\* no transfer has paid yet are covered by its tokens, because the capacity is
\* checked and a hold released under one lock per wallet.
CapacityHonoured ==
  \A w \in Wallets : Total({k \in Active(w) : Unpaid(k)}) <= balance[w]

\* A paid settlement is completed: redelivery of the final CDR ends with the
\* reservation settled and its receipt stored, whatever failed before.
PaidSettlementCompletes ==
  \A k \in ReservationKeys :
    (\E t \in paid : t.key = k)
      ~> (res[k] # None /\ res[k].status = "settled" /\ \E r \in receipts : r.key = k)
=============================================================================
