--------------------------- MODULE AdminRecovery ---------------------------
(***************************************************************************)
(* POST /admin/operations/recover: an administrator finishes an award or a *)
(* spend whose process was lost, from the saved row and the chain, while   *)
(* the process may turn out not to be lost. The request and its outcome    *)
(* are written to the audit log, and nothing is done that was not          *)
(* announced there. What the executors do is AwardExecutor and             *)
(* SpendExecutor; here they take single steps on the row, and may stop     *)
(* after any of them.                                                      *)
(*                                                                         *)
(* A reservation gets the hash of its spend when it is completed, and      *)
(* recovery requires the two hashes to agree: the branch that completes a  *)
(* settling reservation is never entered, and is left out.                 *)
(***************************************************************************)
EXTENDS TreasuryChain, FiniteSets

CONSTANTS
  Awards,      \* keys of awards; the others are spends
  Reserved,    \* spends that settle a reservation
  Snapshots,   \* awards claimed with a recovery snapshot
  Admins,      \* registered administrators
  Requests,    \* concurrent recovery requests
  FirstAmounts, \* bound: the amounts of a first claim; edited rules give any of Amounts
  MaxOps,      \* bound on the operations of a behaviour
  MaxFaults    \* bound on failing calls and restarts

ASSUME KindsAssumption ==
  Awards \subseteq Keys /\ Reserved \subseteq Keys \ Awards /\ Snapshots \subseteq Awards
ASSUME RecoveryBoundsAssumption == {MaxOps, MaxFaults} \subseteq Nat /\ FirstAmounts \subseteq Amounts

VARIABLES
  owed,      \* owed[k]: the amount the run that holds the claim of k has yet to sign
  transient, \* keys whose failure has a retryable diagnostic; it is read of failed rows only
  booked,    \* keys in the awards or spends table
  settled,   \* reservations that were completed
  receipts,  \* spends with a stored receipt
  sessions,  \* administrators with a live session
  req,       \* req[r]: the recovery request r, or None
  trail,     \* the recoveries announced in the audit log: who, and of what
  faults     \* bound: faults so far

books == <<transient, booked, settled, receipts>>
vars == <<op, owed, chainVars, books, sessions, req, trail, faults>>

\* A recovery request: who asked for what, the call it makes next, the row it
\* has read, whether it has seen the transfer mined, and the result it will
\* answer.
Points == {"lookup", "announce", "reservation", "read", "verify", "unknown", "confirm",
           "record", "projectionError", "project", "receipt", "conclude"}
Results == {"completed", "pending", "blocked", "error"}
Recovery == [admin: Admins, key: Keys, at: Points, row: Row \cup {None},
             proven: BOOLEAN, result: Results \cup {None}]

ASSUME RowsAssumption == None \notin Row \cup Recovery \cup Results

Fault == faults < MaxFaults /\ faults' = faults + 1
NoFault == UNCHANGED faults
-----------------------------------------------------------------------------
(* The executors: any number of deliveries, each as slow as it likes. A    *)
(* run that found a row submitting with its hash goes on as if the         *)
(* transfer were confirmed, whatever has become of it since.               *)

\* Claim, or take over a preflight failure: an award with the amount that the
\* rules give by then, a spend with the saved one.
Claim(k) ==
  \/ /\ op[k] = None /\ Cardinality({l \in Keys : op[l] # None}) < MaxOps
     /\ \E i \in Intents, w \in Wallets, a \in (IF k \in Awards THEN FirstAmounts ELSE FirstAmounts \ {0}) :
          op' = Inserted(k, i, w, a) /\ owed' = [owed EXCEPT ![k] = a]
     /\ UNCHANGED transient
  \/ /\ op[k] # None /\ Reclaimable(k) /\ op' = Reclaimed(k)
     /\ \E a \in (IF k \in Awards THEN Amounts ELSE {op[k].amount}) : owed' = [owed EXCEPT ![k] = a]
     /\ transient' = transient \ {k}

\* A dependency that is down (retryable), or a balance that is too low.
Refuse(k) ==
  /\ op[k] # None /\ op[k].status = "submitting" /\ op[k].hash = None /\ owed[k] > 0
  /\ op' = MarkPreflightFailed(k)
  /\ transient' \in {transient \cup {k}, transient \ {k}}
  /\ owed' = [owed EXCEPT ![k] = 0]

\* The signed transfer is saved before it is sent. It is of the run's amount.
Prepare(k) ==
  LET n == Cardinality({l \in Keys : op[l] # None /\ op[l].hash # None}) IN
  /\ op[k] # None /\ op[k].status = "submitting" /\ op[k].hash = None /\ owed[k] > 0
  /\ op' = [op EXCEPT ![k].hash =
              [key |-> k, nonce |-> n, wallet |-> op[k].wallet, amount |-> owed[k]]]
  /\ owed' = [owed EXCEPT ![k] = 0]

\* The bytes may reach an endpoint late, and more than once.
Broadcast(k) ==
  /\ op[k] # None /\ op[k].hash # None /\ op[k].hash \notin Known
  /\ Accept(op[k].hash)

\* What a run says of the transfer: its holder compares the evidence with its
\* own amount, any other run with the saved one. A projection error is of a
\* failing recordAward or recordSpend.
Mark(k) ==
  /\ op[k] # None /\ op[k].hash # None
  /\ \/ op' = MarkSubmitted(k, op[k].hash) \/ op' = MarkUnknown(k) \/ op' = MarkProjectionError(k)
     \/ \E a \in {op[k].amount, op[k].hash.amount} :
          LET e == Evidence(op[k].hash, op[k].wallet, a) IN
          \/ e = "valid" /\ op' = MarkConfirmed(k)
          \/ e = "reverted" /\ op' = MarkFailed(k, "no_movement")
          \/ e = "mismatch" /\ op' = MarkFailed(k, "review")

\* recordAward or recordSpend.
Record(k) == op[k] # None /\ op[k].hash # None /\ booked' = booked \cup {k}

\* markProjected; a zero award is projected without a transfer.
Project(k) ==
  /\ op[k] # None /\ op[k].status # "failed" /\ (k \in booked \/ op[k].amount = 0)
  /\ op' = MarkProjected(k)

\* The reservation is completed, then the receipt is stored.
Settle(k) == op[k] # None /\ op[k].status = "projected" /\ k \in Reserved /\ settled' = settled \cup {k}
Sign(k) ==
  /\ op[k] # None /\ op[k].status = "projected" /\ k \notin Awards
  /\ k \in Reserved => k \in settled
  /\ receipts' = receipts \cup {k}

Executor ==
  /\ \E k \in Keys :
       \/ Claim(k) /\ UNCHANGED <<chainVars, booked, settled, receipts>>
       \/ Refuse(k) /\ UNCHANGED <<chainVars, booked, settled, receipts>>
       \/ Prepare(k) /\ UNCHANGED <<chainVars, books>>
       \/ Broadcast(k) /\ UNCHANGED <<op, owed, paid, reverted, books>>
       \/ Mark(k) /\ UNCHANGED <<owed, chainVars, books>>
       \/ Record(k) /\ UNCHANGED <<op, owed, chainVars, transient, settled, receipts>>
       \/ Project(k) /\ UNCHANGED <<owed, chainVars, books>>
       \/ Settle(k) /\ UNCHANGED <<op, owed, chainVars, transient, booked, receipts>>
       \/ Sign(k) /\ UNCHANGED <<op, owed, chainVars, transient, booked, settled>>
  /\ UNCHANGED <<sessions, req, trail, faults>>

Chain ==
  /\ \E t \in pool : Mine(t, TRUE) \/ Mine(t, FALSE) \/ Evict(t)
  /\ UNCHANGED <<op, owed, books, sessions, req, trail, faults>>
-----------------------------------------------------------------------------
(* What the operations view says of a row.                                 *)

\* getAdminOperationRecoveryStatus, for a row the code can write.
Eligible(k, row) ==
  IF row.status = "projected" THEN row.hash # None
  ELSE /\ row.status # "failed" /\ row.hash # None
       /\ k \in Awards => k \in Snapshots
       /\ row.outcome # "review"

\* Mutant: an unknown outcome is shown like a failure.
NextActionUnknownFailed(k) ==
  CASE op[k].status = "projected" -> "verify projection and receipt"
    [] op[k].status \in {"failed", "unknown"} -> IF k \in transient THEN "retry" ELSE "no movement"
    [] OTHER -> "await confirmation"

\* getAdminOperationNextAction
NextAction(k) ==
  CASE op[k].status = "projected" -> "verify projection and receipt"
    [] op[k].outcome = "review" -> "review"
    [] op[k].status = "unknown" -> IF op[k].hash # None THEN "reconcile" ELSE "review"
    [] op[k].status = "failed" /\ op[k].outcome = "no_movement" ->
         IF k \in transient THEN "retry" ELSE "no movement"
    [] op[k].status = "confirmed" -> "confirm projection"
    [] op[k].status \in {"submitting", "submitted"} -> "await confirmation"
    [] OTHER -> "review"

\* Mutant: only open operations are listed.
ListedOpen == {k \in Keys : op[k] # None /\ op[k].status \in OpenStatuses}

\* GET /admin/operations in its default scope.
Listed == {k \in Keys : op[k] # None /\ op[k].status # "projected"}
-----------------------------------------------------------------------------
(* executeAdminOperationRecovery. The point of a request is the call it    *)
(* makes next; row is what it read, result what it will answer.            *)

Step(r, from) == req[r] # None /\ req[r].at = from
Goto(r, to) == req' = [req EXCEPT ![r].at = to]
Proceed(r, to) == req' = [req EXCEPT ![r].at = to, ![r].row = None]
Proven(r, to) == req' = [req EXCEPT ![r].at = to, ![r].row = None, ![r].proven = TRUE]
Conclude(r, result) ==
  req' = [req EXCEPT ![r].at = "conclude", ![r].result = result, ![r].row = None]
Answered(r) == req' = [req EXCEPT ![r] = None]

\* adminRecoveryResult: pending is for a retry, review for the operator.
Result(pending, review) ==
  IF review THEN "blocked" ELSE IF pending THEN "pending" ELSE "error"

Entry(r) == [admin |-> req[r].admin, key |-> req[r].key]

\* One UPDATE, and where its success and its failure lead; a failing call may
\* have been carried out.
Save(table, then, else) ==
  \/ op' = table /\ then /\ NoFault
  \/ op' \in {op, table} /\ else /\ Fault

\* validateAdmin, and a body with a key and nothing else.
Ask(r, x, k) ==
  /\ x \in sessions /\ req[r] = None
  /\ req' = [req EXCEPT ![r] =
               [admin |-> x, key |-> k, at |-> "lookup", row |-> None,
                proven |-> FALSE, result |-> None]]
  /\ UNCHANGED <<op, owed, chainVars, books, sessions, trail, faults>>

Lookup(r) ==
  /\ Step(r, "lookup")
  /\ \/ /\ op[req[r].key] # None /\ NoFault
        /\ req' = [req EXCEPT ![r].at = "announce", ![r].row = op[req[r].key]]
     \/ op[req[r].key] = None /\ Answered(r) /\ NoFault
     \/ Answered(r) /\ Fault
  /\ UNCHANGED <<op, owed, chainVars, books, sessions, trail>>

\* Mutant: a failing audit store does not stop the recovery.
AnnounceBestEffort(r) ==
  /\ Step(r, "announce")
  /\ \/ trail' = trail \cup {Entry(r)} /\ NoFault
     \/ UNCHANGED trail /\ Fault
  /\ IF ~Eligible(req[r].key, req[r].row) THEN Conclude(r, "blocked")
     ELSE Proceed(r, IF req[r].key \in Reserved THEN "reservation" ELSE "read")
  /\ UNCHANGED <<op, owed, chainVars, books, sessions>>

\* The request is audited before anything else is done.
Announce(r) ==
  LET k == req[r].key
      new == trail \cup {Entry(r)} IN
  /\ Step(r, "announce")
  /\ \/ /\ trail' = new /\ NoFault
        /\ IF ~Eligible(k, req[r].row) THEN Conclude(r, "blocked")
           ELSE Proceed(r, IF k \in Reserved THEN "reservation" ELSE "read")
     \/ trail' \in {trail, new} /\ Answered(r) /\ Fault
  /\ UNCHANGED <<op, owed, chainVars, books, sessions>>

\* A reservation that is not completed, or cannot be read, blocks recovery.
ReadReservation(r) ==
  /\ Step(r, "reservation")
  /\ \/ req[r].key \in settled /\ Goto(r, "read") /\ NoFault
     \/ req[r].key \notin settled /\ Conclude(r, "blocked") /\ NoFault
     \/ Conclude(r, "blocked") /\ Fault
  /\ UNCHANGED <<op, owed, chainVars, books, sessions, trail>>

\* recoverAwardOperation, recoverSpendOperation: the row is read again, and
\* then the asset context.
Read(r) ==
  LET k == req[r].key
      row == op[k] IN
  /\ Step(r, "read")
  /\ \/ /\ NoFault
        /\ CASE k \in Awards /\ row.status = "projected" /\ row.hash # None -> Conclude(r, "completed")
             [] k \notin Awards /\ row.status = "failed" ->
                  Conclude(r, Result(FALSE, row.outcome # "no_movement"))
             [] row.hash = None -> Conclude(r, "blocked")
             [] OTHER -> req' = [req EXCEPT ![r].at = "verify", ![r].row = row]
     \/ Conclude(r, IF k \in Awards THEN "error" ELSE "blocked") /\ Fault    \* the lookup fails
     \/ Conclude(r, Result(TRUE, k \in Awards)) /\ Fault                     \* the asset context fails
  /\ UNCHANGED <<op, owed, chainVars, books, sessions, trail>>

\* Mutant: an operation whose transfer is not found is released.
VerifyReleasing(r) ==
  LET k == req[r].key
      row == req[r].row IN
  /\ Step(r, "verify")
  /\ IF Evidence(row.hash, row.wallet, row.amount) = "valid" THEN Proven(r, "confirm") /\ UNCHANGED op
     ELSE /\ Conclude(r, "blocked")
          /\ op' = [op EXCEPT ![k].hash = None, ![k].status = "failed", ![k].outcome = "no_movement"]
  /\ NoFault /\ UNCHANGED <<owed, chainVars, books, sessions, trail>>

\* Fresh evidence of the saved hash. A failed award is verified too, before
\* its failure is reported; a projected spend goes on to its receipt.
Verify(r) ==
  LET k == req[r].key
      row == req[r].row
      judged(e) ==
        CASE e = "valid" /\ row.status = "failed" -> Conclude(r, Result(TRUE, row.outcome # "no_movement"))
          [] e = "valid" /\ row.status = "projected" -> Proven(r, "receipt")
          [] e = "valid" -> Proven(r, "confirm")
          [] e \in {"pending", "provider_error"} -> Proceed(r, "unknown")
          [] OTHER -> Conclude(r, "blocked") IN
  /\ Step(r, "verify")
  /\ \/ judged(Evidence(row.hash, row.wallet, row.amount)) /\ NoFault
     \/ \E e \in DegradedEvidence : judged(e) /\ Fault
  /\ UNCHANGED <<op, owed, chainVars, books, sessions, trail>>

\* Anything recovery does not expect is thrown: the row is read once more, to
\* tell a missing receipt from a missing projection.
Throw(r) ==
  LET k == req[r].key
      ended(row) == Conclude(r, IF k \notin Awards /\ row.status = "projected" THEN "pending" ELSE "blocked") IN
  /\ Step(r, "verify") /\ Fault
  /\ ended(op[k]) \/ ended(req[r].row)
  /\ UNCHANGED <<op, owed, chainVars, books, sessions, trail>>

\* markUnknown, its failure swallowed.
StillUnknown(r) ==
  /\ Step(r, "unknown")
  /\ Save(MarkUnknown(req[r].key), Conclude(r, "pending"), Conclude(r, "pending"))
  /\ UNCHANGED <<owed, chainVars, books, sessions, trail>>

Confirm(r) ==
  LET k == req[r].key IN
  /\ Step(r, "confirm")
  /\ Save(MarkConfirmed(k), Goto(r, "record"), Conclude(r, Result(TRUE, k \notin Awards)))
  /\ UNCHANGED <<owed, chainVars, books, sessions, trail>>

Book(r) ==
  LET new == booked \cup {req[r].key} IN
  /\ Step(r, "record")
  /\ \/ booked' = new /\ Goto(r, "project") /\ NoFault
     \/ booked' \in {booked, new} /\ Goto(r, "projectionError") /\ Fault
  /\ UNCHANGED <<op, owed, chainVars, transient, settled, receipts, sessions, trail>>

ProjectionError(r) ==
  /\ Step(r, "projectionError")
  /\ Save(MarkProjectionError(req[r].key), Conclude(r, "pending"), Conclude(r, "pending"))
  /\ UNCHANGED <<owed, chainVars, books, sessions, trail>>

\* Mutant: a spend is complete without its receipt.
CompleteNoReceipt(r) ==
  /\ Step(r, "project")
  /\ Save(MarkProjected(req[r].key), Conclude(r, "completed"), Conclude(r, "pending"))
  /\ UNCHANGED <<owed, chainVars, books, sessions, trail>>

\* Mutant: an award gets a receipt too.
CompleteReceiptForAll(r) ==
  /\ Step(r, "project")
  /\ Save(MarkProjected(req[r].key), Goto(r, "receipt"), Conclude(r, "pending"))
  /\ UNCHANGED <<owed, chainVars, books, sessions, trail>>

\* markProjected, by which an award is finished; a spend still needs its receipt.
Complete(r) ==
  LET k == req[r].key IN
  /\ Step(r, "project")
  /\ Save(MarkProjected(k),
          IF k \in Awards THEN Conclude(r, "completed") ELSE Goto(r, "receipt"),
          Conclude(r, "pending"))
  /\ UNCHANGED <<owed, chainVars, books, sessions, trail>>

\* Mutant: the operator is sent away instead of told to retry, and the
\* receipt is not stored.
StoreReceiptNever(r) ==
  /\ Step(r, "receipt") /\ Conclude(r, "pending") /\ NoFault
  /\ UNCHANGED <<op, owed, chainVars, books, sessions, trail>>

\* createAndStoreSpendReceipt
StoreReceipt(r) ==
  LET new == receipts \cup {req[r].key} IN
  /\ Step(r, "receipt")
  /\ \/ receipts' = new /\ Conclude(r, "completed") /\ NoFault
     \/ receipts' \in {receipts, new} /\ Conclude(r, "pending") /\ Fault
  /\ UNCHANGED <<op, owed, chainVars, transient, booked, settled, sessions, trail>>

\* The outcome is audited before it is answered; when that fails the answer
\* says so. No other step reads these rows, and they are left out.
Report(r) ==
  /\ Step(r, "conclude") /\ Answered(r) /\ (NoFault \/ Fault)
  /\ UNCHANGED <<op, owed, chainVars, books, sessions, trail>>

Work(r) ==
  \/ Lookup(r) \/ Announce(r) \/ ReadReservation(r) \/ Read(r) \/ Verify(r) \/ Throw(r)
  \/ StillUnknown(r) \/ Confirm(r) \/ Book(r) \/ ProjectionError(r) \/ Complete(r)
  \/ StoreReceipt(r) \/ Report(r)
-----------------------------------------------------------------------------
Login(x) ==
  /\ sessions' = sessions \cup {x}
  /\ UNCHANGED <<op, owed, chainVars, books, req, trail, faults>>

\* Requests that were let in go on.
Logout(x) ==
  /\ sessions' = sessions \ {x}
  /\ UNCHANGED <<op, owed, chainVars, books, req, trail, faults>>

\* Sessions and requests are memory of the process.
Restart ==
  /\ Fault /\ sessions' = {} /\ req' = [r \in Requests |-> None]
  /\ UNCHANGED <<op, owed, chainVars, books, trail>>

Init ==
  /\ OperationsInit /\ owed = [k \in Keys |-> 0] /\ ChainInit
  /\ transient = {} /\ booked = {} /\ settled = {} /\ receipts = {}
  /\ sessions = {} /\ req = [r \in Requests |-> None] /\ trail = {} /\ faults = 0

Next ==
  \/ Executor \/ Chain \/ Restart
  \/ \E x \in Admins : Login(x) \/ Logout(x) \/ \E r \in Requests, k \in Keys : Ask(r, x, k)
  \/ \E r \in Requests : Work(r)

Spec == Init /\ [][Next]_vars

\* An operation that recovery can finish: the saved amount was paid.
Recoverable(k) ==
  /\ op[k] # None /\ op[k].hash \in paid /\ op[k].status # "failed"
  /\ op[k].hash.amount = op[k].amount
  /\ k \in Awards => k \in Snapshots
  /\ k \in Reserved => k \in settled
Finished(k) ==
  op[k] # None /\ op[k].status = "projected" /\ k \in booked /\ (k \in Awards \/ k \in receipts)

\* Some administrator signs in whenever none is, and asks for an operation
\* that can be finished.
SignIn == sessions = {} /\ \E x \in Admins : Login(x)
AskAgain == \E x \in Admins, r \in Requests, k \in Keys : Recoverable(k) /\ ~Finished(k) /\ Ask(r, x, k)

\* Every call a request awaits comes to an end, and the administrators do not
\* give up.
FairSpec ==
  Spec /\ WF_vars(SignIn) /\ SF_vars(AskAgain) /\ \A r \in Requests : WF_vars(Work(r))
-----------------------------------------------------------------------------
TypeOK ==
  /\ OperationsTypeOK /\ owed \in [Keys -> Amounts] /\ ChainTypeOK
  /\ transient \subseteq Keys /\ booked \subseteq Keys
  /\ settled \subseteq Reserved /\ receipts \subseteq Keys \ Awards /\ sessions \subseteq Admins
  /\ \A r \in Requests : req[r] # None =>
       req[r].admin \in Admins /\ req[r].key \in Keys /\ req[r].row \in Row \cup {None}
  /\ faults \in 0 .. MaxFaults

\* A recovery that is answered as completed is complete: the operation is
\* projected over its booked row, and a spend has its receipt, whatever the
\* executor or another administrator did meanwhile. The transfer was paid,
\* unless an award was found projected, which is answered without evidence.
CompletedIsTrue ==
  \A r \in Requests :
    req[r] # None /\ req[r].result = "completed" =>
      LET k == req[r].key IN
      /\ op[k].status = "projected" /\ k \in booked
      /\ k \notin Awards => k \in receipts
      /\ k \notin Awards \/ req[r].proven => op[k].hash \in paid

\* No request gets past its announcement without an audit row of it.
AuditPrecedesRecovery ==
  \A r \in Requests :
    req[r] # None /\ req[r].at \notin {"lookup", "announce"} => Entry(r) \in trail

\* Recovery never opens the way for a second transfer: the chain knows at
\* most one transfer of an operation, and the row keeps its hash.
NoReplacementTransfer ==
  /\ \A t, u \in Known : t.key = u.key => t = u
  /\ \A t \in Known : op[t.key].hash = t

\* Where the view tells the operator that nothing moved, or to retry, no
\* transfer of the operation was paid or can still be mined; and where it
\* sends him to the projection, the row is in the books.
HintsAreTrue ==
  \A k \in Keys : op[k] # None =>
    /\ NextAction(k) \in {"retry", "no movement"} => \A t \in pool \cup paid : t.key # k
    /\ NextAction(k) = "verify projection and receipt" => k \in booked \/ op[k].amount = 0

\* Tokens that moved are in the books, or in the list of what needs attention.
PaidIsVisible == \A t \in paid : t.key \in booked \cup Listed

\* An administrator who keeps asking gets an operation finished whose saved
\* amount was paid: faults, restarts and lost sessions on the way only cost
\* another request.
RetryFinishes == \A k \in Keys : Recoverable(k) ~> Finished(k)

\* What a recovery answers and what the operator is shown are true, every
\* recovery was announced, and none makes room for a second transfer.
RecoveryIsTrue ==
  /\ TypeOK /\ CompletedIsTrue /\ AuditPrecedesRecovery /\ NoReplacementTransfer
  /\ HintsAreTrue /\ PaidIsVisible
=============================================================================
