--------------------------- MODULE ManagedWallets ---------------------------
(***************************************************************************)
(* Treasury-sponsored work on managed wallets: gas funding and approval    *)
(* (approveUserForSpendingViaFunding), revocation of an allowance and the  *)
(* move of all tokens out of a managed wallet. The treasury's part of each *)
(* is a leased transaction as in TransferRuns, but its target is an        *)
(* approval preparation or nothing, never a token operation.               *)
(*                                                                         *)
(* A gas shortfall is what a run measures from the balance, the estimate   *)
(* and the current fee quote; fees move freely, so it is a free choice.    *)
(***************************************************************************)
EXTENDS TransferRuns, ApprovalPreparations, Sequences

CONSTANTS
  TopUpKeys,    \* random keys of top-up attempts
  RevokeKeys,   \* action keys of allowance revocations
  MoveKeys,     \* action keys of fund moves
  OwnerOf,      \* the managed wallet a revocation or move key belongs to
  Targets,      \* addresses tokens may be moved to
  HostOf,       \* the server process that serves a run
  Tokens,       \* tokens a managed wallet starts with
  Shortfalls,   \* gas shortfalls a run may measure
  MaxFaults, MaxReverts, MaxEvictions, MaxDeposits, MaxRequests, MaxWalletTxs

\* The lease key of a first funding contains its amount.
FundingKey(w, v) == <<w, v>>

ASSUME KeysAssumption ==
  Keys = (Managed \X Shortfalls) \cup TopUpKeys \cup RevokeKeys \cup MoveKeys
ASSUME ShortfallsAssumption == Shortfalls \subseteq Amounts \ {0}
ASSUME OwnersAssumption ==
  OwnerOf \in [RevokeKeys \cup MoveKeys -> Managed] /\ Managed \cup Targets \subseteq Wallets
ASSUME KindsAssumption ==   \* the keys of each kind have a form of their own
  /\ TopUpKeys \cap (RevokeKeys \cup MoveKeys) = {} /\ RevokeKeys \cap MoveKeys = {}
  /\ (Managed \X Shortfalls) \cap (TopUpKeys \cup RevokeKeys \cup MoveKeys) = {}
ASSUME TokensAssumption ==
  Tokens \in [Managed -> Amounts] /\ \A a, b \in Amounts : b <= a => a - b \in Amounts

VARIABLES
  wallet,   \* wallet[w]: the transactions wallet w signed itself, in nonce order
  tokens,   \* token balance of each managed wallet
  moved,    \* fund moves answered as done
  denied    \* keys of fund moves answered "no_movement"

answerVars == <<moved, denied>>
managedVars == <<prep, wallet, tokens, answerVars>>
vars == <<op, chainVars, lease, pc, loc, budget, managedVars>>

ManagedLease == [tx: Tx, status: LeaseStatuses \cup {"failed"}]
ASSUME ManagedNoneAssumption ==
  None \notin Keys /\ None \notin ManagedLease /\ None \notin Preparation

Memory(job, w, k, to, v) ==
  [job |-> job, owner |-> w, key |-> k, wallet |-> to, amount |-> v, tx |-> None, nonce |-> 0]

\* One more request is served, with or without a fault.
Serve(faults) ==
  /\ budget.requests > 0 /\ budget.faults >= faults
  /\ budget' = [budget EXCEPT !.requests = @ - 1, !.faults = @ - faults]

SavePrep(p, new, done, failed) ==
  \/ prep' = new /\ Goto(p, done) /\ NoFault
  \/ prep' \in {prep, new} /\ Goto(p, failed) /\ Fault

\* The treasury may spend from w: the last approval w's chain executed.
Executed(w) == SelectSeq(wallet[w], LAMBDA t : t.state = "ok")
Allowed(w) == Executed(w) # <<>> /\ Executed(w)[Len(Executed(w))].grant
-----------------------------------------------------------------------------
(* Claiming a preparation.                                                 *)

\* withApprovalPreparationLock: one run per wallet in a server process.
LockFree(p, w) ==
  \A q \in Procs \ {p} :
    ~(HostOf[q] = HostOf[p] /\ loc[q] # None /\ loc[q].job = "approve" /\ loc[q].owner = w)

\* The allowance does not cover the request; a lagging endpoint may say so
\* of one that does.
StartApproval(p, w) ==
  /\ pc[p] = "idle" /\ LockFree(p, w)
  /\ IF Allowed(w) THEN Serve(1) ELSE Serve(0)
  /\ GotoWith(p, "claim", Memory("approve", w, None, w, 0))
  /\ UNCHANGED <<op, chainVars, lease, managedVars>>

\* Where a run that found row r goes on, and with which attempt.
Resume(p, r) ==
  LET w == loc[p].owner IN
  CASE r.status = "funded" -> Goto(p, "measureTopUp")
    [] r.status = "funding" /\ r.attempt # None ->
         GotoWith(p, "prepare", Memory("approve", w, r.attempt, w, r.value))
    [] OTHER -> Goto(p, "idle")

\* A row without a hash, or with an approval, proves nothing.
ClaimPreparation(p) ==
  LET w == loc[p].owner IN
  /\ pc[p] = "claim"
  /\ \/ Claimable(w) /\ SavePrep(p, ClaimedPrep(w), "measure", "idle")
     \/ /\ ~Claimable(w) /\ NoFault /\ UNCHANGED prep
        /\ IF prep[w].status # "unknown" THEN Resume(p, prep[w])
           ELSE IF prep[w].fund = None \/ prep[w].approval # 0 THEN Goto(p, "idle")
           ELSE GotoWith(p, "prove", [loc[p] EXCEPT !.tx = prep[w].fund])
  /\ UNCHANGED <<op, chainVars, lease, wallet, tokens, answerVars>>

\* proveUnknownFundingOnlyPreparation: the saved funding is mined and the
\* wallet has signed nothing. A lagging endpoint may not know what it signed.
ProveFunding(p) ==
  LET w == loc[p].owner  proved == loc[p].tx \in paid /\ wallet[w] = <<>> IN
  /\ pc[p] = "prove"
  /\ \/ proved /\ Goto(p, "recover") /\ NoFault
     \/ ~proved /\ loc[p].tx \in paid /\ Goto(p, "recover") /\ Fault
     \/ ~proved /\ Goto(p, "idle") /\ NoFault
  /\ UNCHANGED <<op, chainVars, lease, managedVars>>

\* The row the recovery returns decides how to go on.
RecoverFunded(p) ==
  LET w == loc[p].owner  new == RecoveredFunded(w) IN
  /\ pc[p] = "recover"
  /\ \/ prep' = new /\ Resume(p, new[w]) /\ NoFault
     \/ prep' \in {prep, new} /\ Goto(p, "idle") /\ Fault
  /\ UNCHANGED <<op, chainVars, lease, wallet, tokens, answerVars>>
-----------------------------------------------------------------------------
(* Funding the approval's gas.                                             *)

\* A first funding: its lease key is made of the measured shortfall. A failed
\* read leaves the row claimed, without an attempt.
Measure(p) ==
  LET w == loc[p].owner IN
  /\ pc[p] = "measure"
  /\ \/ Goto(p, "markFunded") /\ NoFault
     \/ \E v \in Shortfalls :
          GotoWith(p, "prepare", Memory("approve", w, FundingKey(w, v), w, v)) /\ NoFault
     \/ Goto(p, "idle") /\ Fault
  /\ UNCHANGED <<op, chainVars, lease, managedVars>>

\* A funded wallet is measured again; a top-up gets a key of its own.
MeasureTopUp(p) ==
  LET w == loc[p].owner
      used == {prep[u].attempt : u \in {u \in Managed : prep[u] # None}}
                \cup {loc[q].key : q \in {q \in Procs : loc[q] # None}} \cup Leased
  IN
  /\ pc[p] = "measureTopUp"
  /\ \/ Goto(p, "claimApproval")
     \/ \E v \in Shortfalls, k \in TopUpKeys \ used :
          GotoWith(p, "claimTopUp", Memory("approve", w, k, w, v))
  /\ NoFault /\ UNCHANGED <<op, chainVars, lease, managedVars>>

ClaimTopUp(p) ==
  LET w == loc[p].owner IN
  /\ pc[p] = "claimTopUp"
  /\ \/ TopUpFree(prep[w]) /\ SavePrep(p, ToppedUp(w, loc[p].key, loc[p].amount), "prepare", "idle")
     \/ ~TopUpFree(prep[w]) /\ Goto(p, "idle") /\ NoFault /\ UNCHANGED prep
  /\ UNCHANGED <<op, chainVars, lease, wallet, tokens, answerVars>>
-----------------------------------------------------------------------------
(* prepareAndBroadcastTransaction for the three jobs.                      *)

\* The unique index over chain, signer and nonce, failed leases included.
NonceFree(n) == \A k \in Leased : lease[k].tx.nonce # n

TargetReady(p, t) ==
  loc[p].job = "approve" => FundingTargetOpen(loc[p].owner, loc[p].key, t)

\* How a run goes on when no hash was saved: a funding marks its row, a
\* revocation gives up, a move answers that nothing moved unless the refusal
\* needs review.
Unsent(p, review) ==
  /\ Goto(p, IF loc[p].job = "approve" THEN "fundPreflight" ELSE "idle")
  /\ denied' = IF loc[p].job = "move" /\ ~review THEN denied \cup {loc[p].key} ELSE denied

\* TreasuryTransactions.prepare for a key without a lease: the lease and its
\* parent are written together. The answer of the commit may be lost.
PrepareManaged(p) ==
  LET k == loc[p].key  w == loc[p].owner IN
  /\ pc[p] = "prepare" /\ lease[k] = None
  /\ \E pending \in ReportedNonces :
       /\ ~Unresolved(pending)
       /\ \E n \in NextNonces(pending) :
            LET t == Transfer(p, n) IN
            /\ NonceFree(n) /\ TargetReady(p, t)
            /\ lease' = PreparedLease(k, t)
            /\ prep' = IF loc[p].job = "approve" THEN PreparedFunding(w, k, t) ELSE prep
            /\ \/ /\ IF pending \in CurrentNonces THEN NoFault ELSE Fault
                  /\ GotoWith(p, "broadcast", [loc[p] EXCEPT !.tx = t])
                  /\ UNCHANGED denied
               \/ pending \in CurrentNonces /\ Unsent(p, FALSE) /\ Fault
  /\ UNCHANGED <<op, chainVars, wallet, tokens, moved>>

\* An unresolved lease (for review unless it was prepared a moment ago), a
\* parent that moved on, a nonce the index refuses or a failed read: nothing
\* was saved.
PrepareManagedRefused(p) ==
  /\ pc[p] = "prepare" /\ lease[loc[p].key] = None
  /\ \/ /\ NoFault
        /\ \E pending \in CurrentNonces :
             \/ Unresolved(pending) /\ \E review \in BOOLEAN : Unsent(p, review)
             \/ /\ ~Unresolved(pending) /\ Unsent(p, TRUE)
                /\ \A n \in NextNonces(pending) : ~TargetReady(p, Transfer(p, n))
             \/ /\ ~Unresolved(pending) /\ Unsent(p, FALSE)
                /\ \A n \in NextNonces(pending) : ~NonceFree(n)
     \/ Unsent(p, FALSE) /\ Fault
  /\ UNCHANGED <<op, chainVars, lease, prep, wallet, tokens, moved>>

\* markFundingPreflightFailed; its own failure is swallowed.
FundPreflightFailed(p) ==
  /\ pc[p] = "fundPreflight"
  /\ SavePrep(p, FundingPreflightFailed(loc[p].owner), "idle", "idle")
  /\ UNCHANGED <<op, chainVars, lease, wallet, tokens, answerVars>>

\* treasuryIntentMatches: recipient and amount of the saved transaction.
SameLeaseIntent(p) ==
  LET t == lease[loc[p].key].tx IN t.wallet = loc[p].wallet /\ t.amount = loc[p].amount

\* A lease with another intent is refused for review.
PrepareFindsOther(p) ==
  /\ pc[p] = "prepare" /\ lease[loc[p].key] # None /\ ~SameLeaseIntent(p)
  /\ Unsent(p, TRUE) /\ NoFault
  /\ UNCHANGED <<op, chainVars, lease, prep, wallet, tokens, moved>>

\* A retry finds its lease. One that is only prepared may never have been
\* sent, and its bytes are lost: it becomes unknown.
PrepareFindsPrepared(p) ==
  LET k == loc[p].key IN
  /\ pc[p] = "prepare" /\ lease[k] # None /\ SameLeaseIntent(p) /\ lease[k].status = "prepared"
  /\ \/ /\ lease' = LeaseMarked(k, "unknown") /\ NoFault
        /\ prep' = IF loc[p].job = "approve" THEN ParentMarked(k, "unknown") ELSE prep
     \/ UNCHANGED <<lease, prep>> /\ Fault
  /\ IF loc[p].job = "approve"
     THEN GotoWith(p, "fundUnknown", [loc[p] EXCEPT !.tx = lease[k].tx])
     ELSE Goto(p, "idle")
  /\ UNCHANGED <<op, chainVars, wallet, tokens, answerVars>>

\* Any other lease is reconciled: reconcileOriginalNativeTransfer reads its
\* transaction, and a move's evidence is read; nothing is sent again.
PrepareFindsSent(p) ==
  LET k == loc[p].key  t == lease[k].tx  known == [loc[p] EXCEPT !.tx = t] IN
  /\ pc[p] = "prepare" /\ lease[k] # None /\ SameLeaseIntent(p) /\ lease[k].status # "prepared"
  /\ CASE loc[p].job = "move" -> GotoWith(p, "moveEvidence", known) /\ NoFault
       [] loc[p].job = "revoke" ->
            \/ t \in paid /\ GotoWith(p, "sendRevoke", known) /\ NoFault
            \/ t \notin paid /\ Goto(p, "idle") /\ NoFault
       [] OTHER ->
            \/ t \in paid /\ GotoWith(p, "checkReconciled", known) /\ NoFault
            \/ t \notin paid /\ GotoWith(p, "fundUnknown", known) /\ NoFault
            \/ t \in paid /\ GotoWith(p, "fundUnknown", known) /\ Fault
  /\ UNCHANGED <<op, chainVars, lease, managedVars>>

\* broadcastTransaction, as for every treasury transaction.
BroadcastManaged(p) == Broadcast(p) /\ UNCHANGED managedVars

\* TreasuryTransactions.markSubmitted; these leases move no token operation.
SubmitManaged(p) ==
  LET k == loc[p].key
      next == [approve |-> "checkSubmitted", revoke |-> "awaitRevokeGas", move |-> "awaitMove"]
  IN
  /\ pc[p] = "submitLease"
  /\ \/ lease' = LeaseMarked(k, "submitted") /\ Goto(p, next[loc[p].job]) /\ NoFault
     \/ lease' \in {lease, LeaseMarked(k, "submitted")} /\ Goto(p, "unknownLease") /\ Fault
  /\ UNCHANGED <<op, chainVars, managedVars>>

\* TreasuryTransactions.markUnknown with its callback into the parent.
UnknownManaged(p) ==
  LET k == loc[p].key IN
  /\ pc[p] = "unknownLease"
  /\ \/ /\ lease' = LeaseMarked(k, "unknown") /\ NoFault
        /\ prep' = IF loc[p].job = "approve" THEN ParentMarked(k, "unknown") ELSE prep
     \/ UNCHANGED <<lease, prep>> /\ Fault
  /\ Goto(p, IF loc[p].job = "approve" THEN "fundUnknown" ELSE "idle")
  /\ UNCHANGED <<op, chainVars, wallet, tokens, answerVars>>
-----------------------------------------------------------------------------
(* The rest of a funding.                                                  *)

\* markFundingSubmitted: first its read ...
CheckSubmitted(p) ==
  LET fresh == pc[p] = "checkSubmitted" IN
  /\ pc[p] \in {"checkSubmitted", "checkReconciled"}
  /\ \/ /\ NoFault
        /\ Goto(p, IF ForeignFunding(loc[p].owner, loc[p].key, loc[p].tx) THEN "fundUnknown"
                   ELSE IF fresh THEN "saveSubmitted" ELSE "saveReconciled")
     \/ Goto(p, "fundUnknown") /\ Fault
  /\ UNCHANGED <<op, chainVars, lease, managedVars>>

\* ... then its update.
SaveSubmitted(p) ==
  /\ pc[p] \in {"saveSubmitted", "saveReconciled"}
  /\ SavePrep(p, FundingSubmitted(loc[p].owner, loc[p].key, loc[p].tx),
              IF pc[p] = "saveSubmitted" THEN "awaitFunding" ELSE "markFunded", "fundUnknown")
  /\ UNCHANGED <<op, chainVars, lease, wallet, tokens, answerVars>>

AwaitFunding(p) ==
  /\ pc[p] = "awaitFunding"
  /\ \/ loc[p].tx \in paid /\ Goto(p, "markFunded") /\ NoFault
     \/ loc[p].tx \in reverted /\ Goto(p, "fundUnknown") /\ NoFault
     \/ Goto(p, "fundUnknown") /\ Fault
  /\ UNCHANGED <<op, chainVars, lease, managedVars>>

FundUnknown(p) ==
  /\ pc[p] = "fundUnknown"
  /\ SavePrep(p, FundingUnknown(loc[p].owner, loc[p].key, loc[p].tx), "idle", "idle")
  /\ UNCHANGED <<op, chainVars, lease, wallet, tokens, answerVars>>

MarkFunded(p) ==
  /\ pc[p] = "markFunded"
  /\ SavePrep(p, Funded(loc[p].owner), "claimApproval", "idle")
  /\ UNCHANGED <<op, chainVars, lease, wallet, tokens, answerVars>>
-----------------------------------------------------------------------------
(* The approval itself, signed by the managed wallet.                      *)

ClaimApproval(p) ==
  LET w == loc[p].owner IN
  /\ pc[p] = "claimApproval"
  /\ \/ /\ ApprovalFree(prep[w])
        /\ SavePrep(p, [prep EXCEPT ![w].status = "approving"], "sendApproval", "idle")
     \/ ~ApprovalFree(prep[w]) /\ Goto(p, "idle") /\ NoFault /\ UNCHANGED prep
  /\ UNCHANGED <<op, chainVars, lease, wallet, tokens, answerVars>>

\* The managed wallet's next transaction.
WalletSends(w, grant) ==
  /\ Len(wallet[w]) < MaxWalletTxs
  /\ wallet' = [wallet EXCEPT ![w] = Append(@, [grant |-> grant, state |-> "pending"])]

SendApproval(p) ==
  LET w == loc[p].owner IN
  /\ pc[p] = "sendApproval"
  /\ \/ /\ WalletSends(w, TRUE) /\ NoFault
        /\ GotoWith(p, "saveApproval", [loc[p] EXCEPT !.nonce = Len(wallet[w]) + 1])
     \/ WalletSends(w, TRUE) /\ Goto(p, "approvalUnknown") /\ Fault
     \/ UNCHANGED wallet /\ Goto(p, "approvalUnknown") /\ Fault
  /\ UNCHANGED <<op, chainVars, lease, prep, tokens, answerVars>>

SaveApproval(p) ==
  /\ pc[p] = "saveApproval"
  /\ SavePrep(p, ApprovalSubmitted(loc[p].owner, loc[p].nonce), "awaitApproval", "approvalUnknown")
  /\ UNCHANGED <<op, chainVars, lease, wallet, tokens, answerVars>>

\* Mutant: any receipt confirms the approval.
ReceiptOkAny(t) == t.state # "pending"

\* A receipt with status 1.
ReceiptOk(t) == t.state = "ok"

AwaitApproval(p) ==
  LET t == wallet[loc[p].owner][loc[p].nonce] IN
  /\ pc[p] = "awaitApproval"
  /\ \/ ReceiptOk(t) /\ Goto(p, "markApproved") /\ NoFault
     \/ t.state # "pending" /\ ~ReceiptOk(t) /\ Goto(p, "approvalUnknown") /\ NoFault
     \/ Goto(p, "approvalUnknown") /\ Fault
  /\ UNCHANGED <<op, chainVars, lease, managedVars>>

ApprovalUnknown(p) ==
  /\ pc[p] = "approvalUnknown"
  /\ SavePrep(p, ApprovalOutcomeUnknown(loc[p].owner), "idle", "idle")
  /\ UNCHANGED <<op, chainVars, lease, wallet, tokens, answerVars>>

MarkApproved(p) ==
  /\ pc[p] = "markApproved"
  /\ SavePrep(p, Approved(loc[p].owner), "idle", "idle")
  /\ UNCHANGED <<op, chainVars, lease, wallet, tokens, answerVars>>
-----------------------------------------------------------------------------
(* revokeAllowanceOnManagedWallet keeps no record of the revocation itself. *)

StartRevoke(p, k) ==
  LET w == OwnerOf[k] IN
  /\ pc[p] = "idle" /\ Allowed(w) /\ Serve(0)
  /\ \E v \in Shortfalls : GotoWith(p, "prepare", Memory("revoke", w, k, w, v))
  /\ UNCHANGED <<op, chainVars, lease, managedVars>>

AwaitRevokeGas(p) ==
  /\ pc[p] = "awaitRevokeGas"
  /\ \/ loc[p].tx \in paid /\ Goto(p, "sendRevoke") /\ NoFault
     \/ loc[p].tx \in reverted /\ Goto(p, "idle") /\ NoFault
     \/ Goto(p, "idle") /\ Fault
  /\ UNCHANGED <<op, chainVars, lease, managedVars>>

SendRevoke(p) ==
  /\ pc[p] = "sendRevoke"
  /\ \/ WalletSends(loc[p].owner, FALSE) /\ NoFault
     \/ (UNCHANGED wallet \/ WalletSends(loc[p].owner, FALSE)) /\ Fault
  /\ Goto(p, "idle")
  /\ UNCHANGED <<op, chainVars, lease, prep, tokens, answerVars>>
-----------------------------------------------------------------------------
(* moveFundsFromManagedWallet                                              *)

\* A lease of the key fixes what is moved; a retry must name its target.
StartMove(p, k, to) ==
  LET w == OwnerOf[k]  saved == lease[k].tx IN
  /\ pc[p] = "idle" /\ Serve(0)
  /\ \/ lease[k] = None /\ GotoWith(p, "readBalance", Memory("move", w, k, to, 0))
     \/ /\ lease[k] # None /\ saved.wallet = to
        /\ GotoWith(p, "prepare", Memory("move", w, k, to, saved.amount))
  /\ UNCHANGED <<op, chainVars, lease, managedVars>>

\* throwManagedMovePreflightFailure: nothing moved under this key.
DenyMove(p) == denied' = denied \cup {loc[p].key} /\ Goto(p, "idle")

\* Mutant: an empty balance is moved as well.
MovableAny(w) == Allowed(w)

\* The allowance of an approval is unlimited, that of a revocation zero.
Movable(w) == tokens[w] > 0 /\ Allowed(w)

\* The whole balance is moved, if the allowance covers it.
ReadBalance(p) ==
  LET w == loc[p].owner IN
  /\ pc[p] = "readBalance"
  /\ \/ /\ Movable(w) /\ NoFault /\ UNCHANGED denied
        /\ GotoWith(p, "prepare", [loc[p] EXCEPT !.amount = tokens[w]])
     \/ ~Movable(w) /\ DenyMove(p) /\ NoFault
     \/ DenyMove(p) /\ Fault
  /\ UNCHANGED <<op, chainVars, lease, prep, wallet, tokens, moved>>

AnswerMoved(p) ==
  moved' = moved \cup {[key |-> loc[p].key, wallet |-> loc[p].wallet, amount |-> loc[p].amount]}

\* Mutant: a move is done once it is mined.
MoveConfirmedAny(t) == t \in Mined

\* The move is mined with a success receipt.
MoveConfirmed(t) == t \in paid

AwaitMove(p) ==
  LET t == loc[p].tx IN
  /\ pc[p] = "awaitMove"
  /\ \/ MoveConfirmed(t) /\ AnswerMoved(p) /\ Goto(p, "idle") /\ NoFault
     \/ t \in Mined /\ ~MoveConfirmed(t) /\ UNCHANGED moved /\ Goto(p, "moveFailed") /\ NoFault
     \/ UNCHANGED moved /\ Goto(p, "moveUnknown") /\ Fault
  /\ UNCHANGED <<op, chainVars, lease, prep, wallet, tokens, denied>>

\* Mutant: a transfer no endpoint finds counts as failed.
MovePointMissingFails(e) ==
  CASE e = "valid" -> "idle" [] e \in {"reverted", "not_found"} -> "moveFailed" [] OTHER -> "moveUnknown"

\* Only a failed receipt proves that a saved move moved nothing.
MovePoint(e) ==
  CASE e = "valid" -> "idle" [] e = "reverted" -> "moveFailed" [] OTHER -> "moveUnknown"

MoveEvidence(p) ==
  LET e == Evidence(loc[p].tx, loc[p].wallet, loc[p].amount) IN
  /\ pc[p] = "moveEvidence"
  /\ \/ /\ Goto(p, MovePoint(e)) /\ NoFault
        /\ IF e = "valid" THEN AnswerMoved(p) ELSE UNCHANGED moved
     \/ UNCHANGED moved /\ Fault /\ \E d \in DegradedEvidence : Goto(p, MovePoint(d))
  /\ UNCHANGED <<op, chainVars, lease, prep, wallet, tokens, denied>>

\* throwManagedMoveFailure: the lease becomes failed or unknown, and the
\* failure of that update is swallowed.
MoveFailed(p) ==
  LET k == loc[p].key  sure == pc[p] = "moveFailed" IN
  /\ pc[p] \in {"moveFailed", "moveUnknown"}
  /\ \/ lease' = LeaseMarked(k, IF sure THEN "failed" ELSE "unknown") /\ NoFault
     \/ UNCHANGED lease /\ Fault
  /\ denied' = IF sure THEN denied \cup {k} ELSE denied
  /\ Goto(p, "idle")
  /\ UNCHANGED <<op, chainVars, prep, wallet, tokens, moved>>
-----------------------------------------------------------------------------
(* The environment.                                                        *)

MoveWorks(t) == Allowed(OwnerOf[t.key]) /\ tokens[OwnerOf[t.key]] >= t.amount

MineManaged ==
  \E t \in pool, ok \in BOOLEAN :
    LET forced == t.key \in MoveKeys /\ ~MoveWorks(t) IN
    /\ Mine(t, ok) /\ (forced => ~ok)
    /\ IF ok \/ forced THEN UNCHANGED budget
       ELSE budget.reverts > 0 /\ budget' = [budget EXCEPT !.reverts = @ - 1]
    /\ tokens' = IF ok /\ t.key \in MoveKeys
                 THEN [tokens EXCEPT ![OwnerOf[t.key]] = @ - t.amount] ELSE tokens
    /\ UNCHANGED <<op, lease, pc, loc, prep, wallet, answerVars>>

MineWallet ==
  \E w \in Managed : \E i \in 1..Len(wallet[w]) :
    /\ wallet[w][i].state = "pending" /\ \A j \in 1..(i - 1) : wallet[w][j].state # "pending"
    /\ \/ wallet' = [wallet EXCEPT ![w][i].state = "ok"] /\ UNCHANGED budget
       \/ /\ budget.reverts > 0 /\ budget' = [budget EXCEPT !.reverts = @ - 1]
          /\ wallet' = [wallet EXCEPT ![w][i].state = "failed"]
    /\ UNCHANGED <<op, chainVars, lease, pc, loc, prep, tokens, answerVars>>

\* An award arrives at the wallet.
Deposit ==
  /\ budget.deposits > 0 /\ budget' = [budget EXCEPT !.deposits = @ - 1]
  /\ \E w \in Managed : tokens[w] + 1 \in Amounts /\ tokens' = [tokens EXCEPT ![w] = @ + 1]
  /\ UNCHANGED <<op, chainVars, lease, pc, loc, prep, wallet, answerVars>>

CrashManaged(p) == Crash(p) /\ UNCHANGED managedVars
EvictManaged == EvictOne /\ UNCHANGED managedVars
-----------------------------------------------------------------------------
\* A wallet is new, or was approved earlier without needing gas.
Init ==
  /\ OperationsInit /\ ChainInit /\ LeaseInit
  /\ pc = [p \in Procs |-> "idle"] /\ loc = [p \in Procs |-> None]
  /\ budget = [faults |-> MaxFaults, reverts |-> MaxReverts, evictions |-> MaxEvictions,
               deposits |-> MaxDeposits, requests |-> MaxRequests]
  /\ tokens = Tokens /\ moved = {} /\ denied = {}
  /\ \E approved \in SUBSET Managed :
       /\ wallet = [w \in Managed |->
            IF w \in approved THEN <<[grant |-> TRUE, state |-> "ok"]>> ELSE <<>>]
       /\ prep = [w \in Managed |->
            IF w \in approved THEN [NewPreparation EXCEPT !.status = "approved", !.approval = 1]
            ELSE None]

ApprovalStep(p) ==
  \/ \E w \in Managed : StartApproval(p, w)
  \/ ClaimPreparation(p) \/ ProveFunding(p) \/ RecoverFunded(p) \/ Measure(p)
  \/ MeasureTopUp(p) \/ ClaimTopUp(p) \/ FundPreflightFailed(p) \/ CheckSubmitted(p)
  \/ SaveSubmitted(p) \/ AwaitFunding(p) \/ FundUnknown(p) \/ MarkFunded(p)
  \/ ClaimApproval(p) \/ SendApproval(p) \/ SaveApproval(p) \/ AwaitApproval(p)
  \/ ApprovalUnknown(p) \/ MarkApproved(p)
LeaseStep(p) ==
  \/ PrepareManaged(p) \/ PrepareManagedRefused(p) \/ PrepareFindsOther(p)
  \/ PrepareFindsPrepared(p) \/ PrepareFindsSent(p) \/ BroadcastManaged(p)
  \/ SubmitManaged(p) \/ UnknownManaged(p)
MoveStep(p) ==
  \/ \E k \in MoveKeys, to \in Targets : StartMove(p, k, to)
  \/ ReadBalance(p) \/ AwaitMove(p) \/ MoveEvidence(p) \/ MoveFailed(p)
RevokeStep(p) ==
  \/ \E k \in RevokeKeys : StartRevoke(p, k)
  \/ AwaitRevokeGas(p) \/ SendRevoke(p)

Next ==
  \/ \E p \in Procs : ApprovalStep(p) \/ LeaseStep(p) \/ MoveStep(p) \/ RevokeStep(p) \/ CrashManaged(p)
  \/ MineManaged \/ MineWallet \/ Deposit \/ EvictManaged

Spec == Init /\ [][Next]_vars
-----------------------------------------------------------------------------
\* Well typed; a run prepares only what moves something, and a run that
\* awaits a transaction has one to await.
TypeOK ==
  /\ ChainTypeOK /\ PrepTypeOK /\ lease \in [Keys -> ManagedLease \cup {None}]
  /\ tokens \in [Managed -> Amounts]
  /\ \A p \in Procs :
       /\ pc[p] # "idle" => loc[p].owner \in Managed
       /\ pc[p] = "prepare" => loc[p].key \in Keys /\ loc[p].amount \in Amounts \ {0}
       /\ pc[p] \in {"broadcast", "awaitFunding", "awaitMove", "awaitRevokeGas", "moveEvidence"}
            => loc[p].tx \in Tx
       /\ pc[p] = "awaitApproval" => loc[p].nonce \in 1..Len(wallet[loc[p].owner])

\* A lease that gave its nonce up is a transfer the chain rejected: no move
\* marked failed can still execute.
FailedLeaseIsReverted ==
  \A k \in Leased : lease[k].status = "failed" => lease[k].tx \in reverted

\* A move answered as done moved that amount to that address.
MovedAnswersTrue ==
  \A m \in moved : \E t \in paid : t.key = m.key /\ t.wallet = m.wallet /\ t.amount = m.amount

\* A wallet is approved only by an approval it has seen executed, however
\* many runs and processes tried to send one.
ApprovedIsMined ==
  \A w \in Managed : prep[w] # None /\ prep[w].status = "approved"
    => prep[w].approval \in 1..Len(wallet[w]) /\ wallet[w][prep[w].approval] = [grant |-> TRUE, state |-> "ok"]

\* A preparation that a request may start over, as if nothing was sent, has
\* no funding under way and none executed.
FailedPreparationUnsent ==
  \A w \in Managed : prep[w] # None /\ prep[w].status = "failed"
    => \A t \in Known : t.key \notin TopUpKeys \cup (Managed \X Shortfalls) \/ t.wallet # w

\* Only the current attempt's own run makes a funding unknown: a delayed
\* callback never demotes a newer attempt.
NewerAttemptKept ==
  [][\A w \in Managed :
       prep[w] # None /\ prep[w].status = "funding" /\ prep[w].attempt # None
         /\ prep'[w].status = "unknown"
         => \E p \in Procs : pc'[p] # pc[p] /\ loc[p].key = prep[w].attempt]_vars

\* What the leases, the answers and the preparations of a managed wallet say
\* happened has happened on the chain, whichever server process said it.
ManagedIsTrue ==
  /\ TypeOK /\ FailedLeaseIsReverted /\ MovedAnswersTrue
  /\ ApprovedIsMined /\ FailedPreparationUnsent
=============================================================================
