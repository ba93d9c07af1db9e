------------------------ MODULE ApprovalPreparations ------------------------
(***************************************************************************)
(* The approval_preparations table: one row per managed wallet, moved      *)
(* through funding -> funded -> approving -> approved, or to unknown or    *)
(* failed. Every operation is one SQL statement or transaction, given here *)
(* as the table it leaves behind; ManagedWallets runs them.                *)
(***************************************************************************)
EXTENDS TreasuryTransactions

CONSTANT Managed   \* managed wallets

VARIABLE prep      \* prep[w]: the row of wallet w, or None

PrepStatuses == {"funding", "funded", "approving", "approved", "unknown", "failed"}

\* fund is the saved funding hash, attempt and value name the funding under
\* way, approval is the wallet nonce of the saved approval hash, 0 for none.
Preparation ==
  [status: PrepStatuses, fund: Tx \cup {None}, attempt: Keys \cup {None},
   value: Amounts, approval: Nat]

NewPreparation ==
  [status |-> "funding", fund |-> None, attempt |-> None, value |-> 0, approval |-> 0]

\* UPDATE approval_preparations ... WHERE operation_key = w AND guard
PrepWhere(w, guard, row) ==
  IF prep[w] # None /\ guard THEN [prep EXCEPT ![w] = row] ELSE prep

\* Only a failure before the broadcast leaves a failed row without a hash.
ReclaimablePrep(r) == r.status = "failed" /\ r.fund = None

\* claim gives the row to its caller when it is new or reclaimed.
Claimable(w) == prep[w] # None => ReclaimablePrep(prep[w])
ClaimedPrep(w) ==
  IF prep[w] = None THEN [prep EXCEPT ![w] = NewPreparation]
  ELSE [prep EXCEPT ![w].status = "funding", ![w].attempt = None, ![w].value = 0]

\* markFundingSubmitted reads the row, refuses another attempt's hash, and
\* then updates it by its status alone.
ForeignFunding(w, k, t) == prep[w].fund \notin {None, t} /\ prep[w].attempt # k
FundingSubmitted(w, k, t) ==
  PrepWhere(w, prep[w].status = "funding", [prep[w] EXCEPT !.fund = t, !.attempt = k])

\* Mutant: a saved hash does not stop the failure from being recorded.
FundingPreflightFailedAny(w) ==
  PrepWhere(w, prep[w].status \in {"funding", "failed"},
            [prep[w] EXCEPT !.status = "failed", !.attempt = None, !.value = 0])

FundingPreflightFailed(w) ==
  PrepWhere(w, prep[w].fund = None /\ prep[w].status \in {"funding", "failed"},
            [prep[w] EXCEPT !.status = "failed", !.attempt = None, !.value = 0])

\* markFunded looks at the status alone.
Funded(w) ==
  PrepWhere(w, prep[w].status \in {"funding", "funded"},
            [prep[w] EXCEPT !.status = "funded", !.attempt = None, !.value = 0])

\* claimFundingTopUp
TopUpFree(r) == r.status = "funded" /\ r.approval = 0
ToppedUp(w, k, v) ==
  [prep EXCEPT ![w].status = "funding", ![w].attempt = k, ![w].value = v]

\* recoverFundedAfterReadOnlyProof
RecoveredFunded(w) ==
  PrepWhere(w, prep[w].status = "unknown" /\ prep[w].fund # None /\ prep[w].approval = 0,
            [prep[w] EXCEPT !.status = "funded", !.attempt = None, !.value = 0])

\* Mutant: every run that got this far may send the approval.
ApprovalFreeAlways(r) == r.status \in {"funded", "approving"}

\* claimApprovalSubmission
ApprovalFree(r) == r.status = "funded"

ApprovalSubmitted(w, n) ==
  PrepWhere(w, prep[w].status = "approving", [prep[w] EXCEPT !.approval = n])

Approved(w) ==
  PrepWhere(w, prep[w].status \in {"approving", "approved"}, [prep[w] EXCEPT !.status = "approved"])

\* Mutant: a delayed callback of an older attempt is not told apart.
FundingUnknownAny(w, k, t) ==
  PrepWhere(w, prep[w].status \in {"funding", "funded", "approving", "unknown"},
            [prep[w] EXCEPT !.status = "unknown", !.fund = t])

\* markUnknown of a funding: an older attempt or another hash changes nothing.
FundingUnknown(w, k, t) ==
  PrepWhere(w, /\ prep[w].attempt = k /\ prep[w].fund \in {None, t}
               /\ prep[w].status \in {"funding", "funded", "approving", "unknown"},
            [prep[w] EXCEPT !.status = "unknown", !.fund = t])

\* markUnknown of an approval names no attempt.
ApprovalOutcomeUnknown(w) ==
  PrepWhere(w, prep[w].status \in {"funding", "funded", "approving", "unknown"},
            [prep[w] EXCEPT !.status = "unknown"])
-----------------------------------------------------------------------------
(* What the lease table does to its parent row.                            *)

\* prepare: the parent must still want this attempt.
FundingTargetOpen(w, k, t) ==
  /\ prep[w].status \in {"funding", "funded", "unknown"}
  /\ prep[w].attempt \in {None, k}
  /\ prep[w].fund \in {None, t} \/ prep[w].attempt = k
PreparedFunding(w, k, t) ==
  [prep EXCEPT ![w].fund = t, ![w].attempt = k, ![w].value = t.amount, ![w].status = "funding"]

\* Mutant: a lease's callback changes its parent whatever its attempt is.
CurrentAttemptAny(r, k, t) == r.status \in {"funding", "unknown"}

\* A lease speaks for its parent only while it is the current attempt.
CurrentAttempt(r, k, t) ==
  r.status \in {"funding", "unknown"} /\ r.attempt = k /\ r.fund = t

\* updateApprovalFundingParent
ParentMarked(k, status) ==
  LET w == lease[k].tx.wallet IN
  IF lease[k] # None
  THEN PrepWhere(w, CurrentAttempt(prep[w], k, lease[k].tx), [prep[w] EXCEPT !.status = status])
  ELSE prep

PrepTypeOK == prep \in [Managed -> Preparation \cup {None}]
=============================================================================
