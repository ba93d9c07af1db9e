---------------------------- MODULE SpendAnswers ----------------------------
(***************************************************************************)
(* What the callers of one spend key are told. A spend (POST /spend) or    *)
(* the settlement of a reservation (POST /ingest/cdr) may fail at any      *)
(* stage; the executor turns the failure into a result and a diagnostic,   *)
(* the route repairs a missing allowance once and runs the executor again, *)
(* and publicFailureFields turns the result into the answer: did tokens    *)
(* move, with which hash, may the caller retry. Operators read the saved   *)
(* row instead.                                                            *)
(*                                                                         *)
(* The steps are those of SpendExecutor, coarser (one per stage, with the  *)
(* marks that follow it): runs of one key interleave there in full detail. *)
(* Here requests for the key may overlap, the server may crash between two *)
(* stages, and the chain moves at any time. Error texts are the sets of    *)
(* words that the code looks for in them.                                  *)
(***************************************************************************)
EXTENDS Naturals

CONSTANTS
  Requests,     \* requests for the key, each of which may be sent again
  SpendKinds,   \* "manual", and the settlement of a "managed" or "linked" wallet
  NoValue,      \* undefined, null
  MaxFailures,  \* bound on failing calls and crashes
  MaxStarts     \* bound on requests sent

ASSUME AnswersAssumption ==
  /\ SpendKinds \subseteq {"manual", "managed", "linked"} /\ SpendKinds # {}
  /\ MaxFailures \in Nat /\ MaxStarts \in Nat

Stages == {"asset_context", "preflight", "prepare", "persist_hash", "broadcast", "receipt", "projection", "recovery"}
MoveOutcomes == {"confirmed", "no_movement", "unknown", "review"}
RowOpen == {"submitting", "submitted", "unknown"}
RowStatuses == RowOpen \cup {"confirmed", "projected", "failed"}
TxNames == {"transfer", "funding", "approval"}

\* A saved diagnostic, and a token operation.
Codes ==
  {"PROVIDER_REQUIRED", "RPC_READ_UNAVAILABLE", "TRANSACTION_ESTIMATE_REJECTED", "TREASURY_NONCE_BUSY_RETRYABLE",
   "TREASURY_NONCE_GAP_REQUIRES_REVIEW", "TREASURY_TRANSACTION_CONTEXT_MISMATCH", "TRANSACTION_PREPARATION_FAILED",
   "CHAIN_OUTCOME_UNKNOWN", "RECEIPT_PENDING", "TRANSACTION_NOT_FOUND", "RECEIPT_READ_UNAVAILABLE",
   "TRANSACTION_FAILED", "SETTLEMENT_CONTEXT_MISMATCH", "APPROVAL_SUBMISSION_OUTCOME_UNKNOWN"}
Categories == {"rpc_unavailable", "preflight", "database_unavailable", "review_required", "confirmation_pending"}
Diagnostics ==
  [stage: Stages, code: Codes, retryable: BOOLEAN, category: Categories, saved: TxNames \cup {NoValue}]
SpendRow ==
  [status: RowStatuses, outcome: MoveOutcomes, hash: {"transfer", NoValue}, diag: Diagnostics \cup {NoValue}]

ASSUME NoValueAssumption ==
  /\ NoValue \notin BOOLEAN /\ NoValue \notin Stages \cup MoveOutcomes \cup RowStatuses \cup TxNames
  /\ NoValue \notin Diagnostics /\ NoValue \notin SpendRow

VARIABLES
  kind,       \* whose key it is
  row,        \* its token operation: [status, outcome, hash, diag], or NoValue
  move,       \* its transfer on the chain
  allowance,  \* the treasury may move the wallet's tokens
  covered,    \* the wallet holds the amount
  request,    \* request[p]: where it is, and what it was answered
  left        \* how many of each bounded event are still allowed

requestVars == <<kind, row, move, allowance, covered, request, left>>
chain == <<kind, move, allowance, covered>>

-----------------------------------------------------------------------------
(* Diagnostics and results.                                                *)

Diagnostic(stage, code, retryable, category, saved) ==
  [stage |-> stage, code |-> code, retryable |-> retryable, category |-> category, saved |-> saved]

\* prepareAndBroadcastTransaction before the hash is saved: the provider, the
\* readings it needs, the signature, the nonce coordinator, the transaction.
PrepareDiagnostics ==
  { Diagnostic("asset_context", "PROVIDER_REQUIRED", TRUE, "rpc_unavailable", NoValue),
    Diagnostic("prepare", "RPC_READ_UNAVAILABLE", TRUE, "rpc_unavailable", NoValue),
    Diagnostic("prepare", "TRANSACTION_ESTIMATE_REJECTED", FALSE, "preflight", NoValue),
    Diagnostic("prepare", "TREASURY_NONCE_BUSY_RETRYABLE", TRUE, "database_unavailable", NoValue),
    Diagnostic("prepare", "TREASURY_NONCE_GAP_REQUIRES_REVIEW", FALSE, "review_required", NoValue),
    Diagnostic("persist_hash", "TREASURY_TRANSACTION_CONTEXT_MISMATCH", FALSE, "review_required", NoValue) }

\* An error of the database itself, whether or not the commit was applied.
PreparationFailed == Diagnostic("prepare", "TRANSACTION_PREPARATION_FAILED", TRUE, "database_unavailable", NoValue)

\* A send without an answer, for the transfer and for gas funding.
SendUnknown(tx) == Diagnostic("broadcast", "CHAIN_OUTCOME_UNKNOWN", FALSE, "review_required", tx)

\* isPreBroadcastTransactionDiagnostic
PreBroadcast(d) == d.saved = NoValue /\ d.stage \in {"asset_context", "preflight", "prepare", "persist_hash"}

\* evidenceDiagnostic: what verifySpendEvidence found instead of the transfer.
EvidencePending(code) == code \in {"RECEIPT_PENDING", "PROVIDER_ERROR", "TRANSACTION_NOT_FOUND"}
EvidenceDiagnostic(code, retryable) ==
  Diagnostic("receipt", IF code = "PROVIDER_ERROR" THEN "RECEIPT_READ_UNAVAILABLE" ELSE code, retryable,
             IF EvidencePending(code) THEN "confirmation_pending" ELSE "review_required", "transfer")

\* A ReliableSpendExecutionResult; every field but success may be missing, and
\* only errors have a stage and a code of their own.
NoResult ==
  [success |-> FALSE, tx |-> NoValue, status |-> NoValue, pending |-> NoValue, review |-> NoValue,
   preflight |-> FALSE, eligible |-> NoValue, outcome |-> NoValue, retryable |-> NoValue, diag |-> NoValue,
   funding |-> NoValue, words |-> {}, stage |-> NoValue, code |-> NoValue]

PendingResult(status, tx, review, outcome, diag, words) ==
  [NoResult EXCEPT !.tx = tx, !.status = status, !.pending = TRUE, !.review = review, !.outcome = outcome,
                   !.diag = diag, !.words = words]

\* preflightFailureResult
PreflightResult(eligible, outcome, diag, words) ==
  LET retryable == IF diag # NoValue THEN diag.retryable ELSE ~eligible IN
  [NoResult EXCEPT !.status = "failed", !.pending = retryable, !.preflight = TRUE, !.eligible = eligible,
                   !.outcome = outcome, !.retryable = retryable, !.diag = diag, !.words = words]

FailedResult(tx, diag) ==
  [NoResult EXCEPT !.tx = tx, !.status = "failed", !.review = FALSE, !.outcome = "no_movement", !.diag = diag]

Succeeded == [NoResult EXCEPT !.success = TRUE, !.tx = "transfer", !.status = "projected", !.outcome = "confirmed"]

\* The words of a diagnostic's code that the texts are searched for.
WordsOf(d) == IF d.code = "RPC_READ_UNAVAILABLE" THEN {"rpc_read_unavailable", "network"} ELSE {}
-----------------------------------------------------------------------------
(* The row and its marks, with the diagnostic each leaves.                 *)

Saved(guard, new) == IF row # NoValue /\ guard THEN new ELSE row

\* Mutant: the doubt is saved without its diagnostic.
RowUnknownUndiagnosed(diag) == Saved(row.status \in RowOpen, [row EXCEPT !.status = "unknown"])

RowUnknown(diag) == Saved(row.status \in RowOpen, [row EXCEPT !.status = "unknown", !.diag = diag])
RowFailed(outcome, diag) ==
  Saved(row.hash # NoValue /\ row.status \in RowOpen, [row EXCEPT !.status = "failed", !.outcome = outcome, !.diag = diag])
\* A failure without a diagnostic leaves the one that was saved before.
RowPreflightFailed(diag) ==
  Saved(row.hash = NoValue,
        [row EXCEPT !.status = "failed", !.outcome = "no_movement", !.diag = IF diag = NoValue THEN @ ELSE diag])
RowConfirmed == Saved(row.hash # NoValue /\ row.status \in RowOpen \cup {"confirmed"},
                      [row EXCEPT !.status = "confirmed", !.outcome = "confirmed"])
RowProjectionError == Saved(row.hash # NoValue /\ row.status \in RowOpen \cup {"confirmed"}, [row EXCEPT !.status = "confirmed"])
RowProjected == Saved(row.status # "failed" /\ row.hash # NoValue,
                      [row EXCEPT !.status = "projected", !.outcome = "confirmed"])

\* mapOperationDiagnostic: what GET /admin/operations shows of it.
OperatorView ==
  IF row.diag = NoValue THEN [stage |-> NoValue, code |-> NoValue, retryable |-> FALSE, saved |-> NoValue]
  ELSE [stage |-> row.diag.stage, code |-> row.diag.code, retryable |-> row.diag.retryable, saved |-> row.diag.saved]

RowReclaimable == row # NoValue /\ row.status = "failed" /\ row.hash = NoValue
RowClaimed ==
  IF row = NoValue
  THEN [status |-> "submitting", outcome |-> "unknown", hash |-> NoValue, diag |-> NoValue]
  ELSE [row EXCEPT !.status = "submitting", !.outcome = "unknown"]
-----------------------------------------------------------------------------
(* publicFailureFields: input is a result or an error (code is its own      *)
(* errorCode), fallback what the route knows.                              *)

Default(value, otherwise) == IF value = NoValue THEN otherwise ELSE value

\* normalisePublicFailureStage: the names that error records use.
PublicStage(stage) ==
  CASE stage \in {"preparation", "funding"} -> "unlisted"
    [] stage = "approval" -> "prepare"
    [] OTHER -> stage

\* inferPublicErrorCode: the diagnostic's code, the error's own, or what its
\* text or the outcome suggests.
InferredCode(input, stage, outcome, review) ==
  LET unreadable == input.words \cap {"preflight_unavailable", "http_5xx"} # {} IN
  CASE input.diag # NoValue -> input.diag.code
    [] input.diag = NoValue /\ input.code # NoValue -> input.code
    [] OTHER ->
       IF "intent_mismatch" \in input.words THEN "TOKEN_OPERATION_INTENT_MISMATCH"
       ELSE IF "allowance" \in input.words THEN "MANAGED_WALLET_ALLOWANCE_UNAVAILABLE"
       ELSE IF unreadable
            THEN IF stage \in {"broadcast", "persist_hash"} THEN "RPC_SUBMISSION_UNAVAILABLE" ELSE "RPC_READ_UNAVAILABLE"
       ELSE IF "outcome_unknown" \in input.words THEN "CHAIN_OUTCOME_UNKNOWN"
       ELSE IF "confirmation_pending" \in input.words THEN "TRANSACTION_CONFIRMATION_PENDING"
       ELSE IF "projection_pending" \in input.words THEN "PROJECTION_PENDING"
       ELSE IF review \/ outcome = "review" THEN "OPERATION_REVIEW_REQUIRED"
       ELSE IF outcome = "unknown" THEN "CHAIN_OUTCOME_UNKNOWN"
       ELSE CASE stage = "preflight" -> "RPC_READ_UNAVAILABLE"
              [] stage = "prepare" -> "APPROVAL_FAILED"
              [] stage \in {"broadcast", "persist_hash"} -> "RPC_SUBMISSION_UNAVAILABLE"
              [] stage = "receipt" -> "TRANSACTION_CONFIRMATION_PENDING"
              [] stage = "projection" -> "PROJECTION_PENDING"
              [] OTHER -> "OPERATION_FAILED"

\* The result's hash, or the one its diagnostic saved; a diagnostic that comes
\* with a funding hash saved that one.
MovementHash(input) ==
  IF input.tx # NoValue THEN input.tx
  ELSE IF input.diag # NoValue /\ input.funding = NoValue THEN input.diag.saved ELSE NoValue

\* The outcome a result states, or the one its stage suggests.
MovementOutcome(input, fallback, stage, review) ==
  LET suggested == IF review THEN "review"
                   ELSE IF stage \in {"asset_context", "preflight", "prepare", "persist_hash"} \/ input.preflight
                   THEN "no_movement" ELSE "unknown" IN
  Default(input.outcome, Default(fallback.outcome, suggested))

\* Mutant: a review does not take the retry back.
RetryOfferedAlways(input, fallback, review) == Default(input.retryable, fallback.retryable)

\* What the result, its diagnostic or the route allow, unless it is reviewed.
RetryOffered(input, fallback, review) ==
  /\ ~review
  /\ Default(input.retryable, IF input.diag # NoValue THEN input.diag.retryable ELSE fallback.retryable)

FailureFields(input, fallback) ==
  LET named == IF input.diag # NoValue THEN input.diag.stage ELSE input.stage
      stage == IF named = NoValue \/ PublicStage(named) = "unlisted" THEN fallback.stage ELSE PublicStage(named)
      reviewed == \/ input.review = TRUE \/ fallback.review = TRUE \/ input.outcome = "review"
                  \/ input.diag # NoValue /\ input.diag.category = "review_required"
      outcome == MovementOutcome(input, fallback, stage, reviewed)
      tx == MovementHash(input)
      doubtful == \/ input.diag # NoValue /\ input.diag.category = "review_required"
                  \/ InferredCode(input, stage, outcome, reviewed) \in {"CHAIN_OUTCOME_UNKNOWN", "OPERATION_REVIEW_REQUIRED"}
      hashlessUnknown == tx = NoValue /\ outcome = "unknown" /\ (input.outcome = "unknown" \/ input.status = "unknown")
      review == input.review = TRUE \/ fallback.review = TRUE \/ doubtful \/ hashlessUnknown IN
  [stage |-> stage, outcome |-> outcome, tx |-> tx, funding |-> input.funding, review |-> review,
   code |-> InferredCode(input, stage, outcome, review), retryable |-> RetryOffered(input, fallback, review),
   saved |-> IF input.diag = NoValue \/ input.funding # NoValue THEN NoValue ELSE input.diag.saved]

\* toUserFacingSpendError, by what the text promises.
SpendText(words) ==
  IF words \cap {"intent_mismatch", "context_mismatch"} # {} THEN "no_replacement"
  ELSE IF words \cap {"rpc_read_unavailable", "preflight_unavailable"} # {} THEN "nothing_spent"
  ELSE IF "approval" \in words THEN "nothing_recorded"
  ELSE IF "outcome_unknown" \in words THEN "may_have_moved"
  ELSE IF "balance" \in words THEN "insufficient"
  ELSE IF "allowance" \in words THEN "not_ready"
  ELSE IF "network" \in words THEN "network_unavailable" ELSE "retry_or_support"
-----------------------------------------------------------------------------
(* The routes.                                                             *)

\* An answer; stated says whether the executor itself stated the outcome.
AnswerOf(http, fields, pending, stated, text) ==
  [http |-> http, stage |-> fields.stage, outcome |-> fields.outcome, tx |-> fields.tx, funding |-> fields.funding,
   saved |-> fields.saved, retryable |-> fields.retryable, review |-> fields.review, code |-> fields.code,
   pending |-> pending, stated |-> stated, text |-> text]

RetriedUnmoved(fields) == fields.retryable /\ fields.outcome = "no_movement" /\ fields.tx = NoValue

\* POST /spend: the stage of a result without a diagnostic.
FallbackStage(r) ==
  IF r.preflight THEN "preflight"
  ELSE IF r.status = "projected" THEN "projection"
  ELSE IF r.status \in {"submitted", "confirmed"} THEN "receipt"
  ELSE IF "asset_context" \in r.words THEN "asset_context"
  ELSE IF r.review = TRUE /\ r.tx = NoValue THEN "prepare" ELSE "broadcast"

SpendAnswer(r) ==
  LET pending == r.pending = TRUE
      fields == FailureFields(r, [stage |-> FallbackStage(r), outcome |-> r.outcome,
                                  retryable |-> pending /\ r.review # TRUE, review |-> r.review])
      http == IF fields.code = "TOKEN_OPERATION_INTENT_MISMATCH" THEN 409
              ELSE IF RetriedUnmoved(fields) THEN 503 ELSE IF pending THEN 202 ELSE 400 IN
  AnswerOf(http, fields, pending, r.outcome # NoValue, SpendText(r.words))

\* settleReservationFromCdr rethrows the result as an error; a result that
\* says nothing at all is reviewed.
SettlementError(r) ==
  LET review == r.review = TRUE \/ (r.review = NoValue /\ r.pending # TRUE /\ ~r.preflight /\ r.tx = NoValue)
      stage == IF r.diag # NoValue THEN r.diag.stage ELSE IF r.preflight THEN "preflight"
               ELSE IF "asset_context" \in r.words THEN "asset_context"
               ELSE IF r.tx # NoValue THEN "receipt" ELSE "broadcast" IN
  [r EXCEPT !.review = review, !.status = NoValue, !.funding = NoValue, !.pending = (@ = TRUE) \/ r.preflight,
            !.retryable = ~review /\ Default(@, IF r.diag # NoValue THEN r.diag.retryable ELSE r.preflight \/ r.pending = TRUE),
            !.stage = stage, !.code = IF r.diag # NoValue THEN r.diag.code ELSE NoValue]

\* POST /ingest/cdr answers the error of a settlement.
IngestAnswer(error, text) ==
  LET fields == FailureFields(error, [stage |-> "recovery", outcome |-> error.outcome,
                                      retryable |-> error.retryable, review |-> error.review]) IN
  AnswerOf(IF RetriedUnmoved(fields) THEN 503 ELSE 202, fields, TRUE, error.outcome # NoValue, text)

SettlementAnswer(r) == IngestAnswer(SettlementError(r), "settlement_pending")

\* An error nobody turned into a result: the outer catch of POST /spend.
ErrorAnswer(words) ==
  LET network == "network" \in words
      fields == FailureFields([NoResult EXCEPT !.words = words],
                  [stage |-> "recovery", outcome |-> NoValue, retryable |-> network, review |-> FALSE]) IN
  AnswerOf(IF fields.review THEN 409 ELSE IF fields.retryable THEN 503 ELSE 500, fields, fields.retryable, FALSE, SpendText(words))

ConfirmedAnswer(r) ==
  AnswerOf(200, [stage |-> "projection", outcome |-> r.outcome, tx |-> r.tx, funding |-> NoValue, saved |-> NoValue,
               retryable |-> FALSE, review |-> FALSE, code |-> NoValue], FALSE, TRUE, "success")

Answered(r) == IF r.success THEN ConfirmedAnswer(r) ELSE IF kind = "manual" THEN SpendAnswer(r) ELSE SettlementAnswer(r)
-----------------------------------------------------------------------------
(* Requests.                                                               *)

Failing(n) == left.failures >= n /\ left' = [left EXCEPT !.failures = @ - n]
Working == UNCHANGED left

\* status and outcome are those of the row the run read; lost says that a mark
\* of this run may not have been saved.
Idle == [at |-> "idle"]
At(p, point) == request[p].at = point
Proceed(p, point) == request' = [request EXCEPT ![p].at = point]

\* processSpendWithAutoApproval: a known preflight failure, and nothing else,
\* leads to an approval, once. A linked wallet's owner approves alone.
Repairs(p, r) ==
  /\ kind # "linked" /\ ~request[p].again /\ ~r.success
  /\ r.pending # TRUE /\ r.review # TRUE /\ r.tx = NoValue /\ r.preflight /\ r.eligible # FALSE

Told(p, answer) ==
  request' = [request EXCEPT ![p] = [at |-> "answered", alone |-> @.alone, lost |-> @.lost, again |-> @.again, answer |-> answer]]

\* The executor is done.
Finish(p, r, lost) ==
  IF Repairs(p, r)
  THEN request' = [request EXCEPT ![p] = [@ EXCEPT !.at = "approve", !.lost = request[p].lost \/ lost, !.first = r]]
  ELSE request' = [request EXCEPT ![p] = [at |-> "answered", alone |-> @.alone, lost |-> @.lost \/ lost, again |-> @.again,
                                          answer |-> Answered(r)]]

\* Another request for the key may do anything from now on.
StartRequest(p) ==
  /\ request[p].at \in {"idle", "answered"} /\ left.starts > 0
  /\ left' = [left EXCEPT !.starts = @ - 1]
  /\ LET quiet == \A q \in Requests \ {p} : request[q].at \in {"idle", "answered"} IN
     request' = [q \in Requests |->
       IF q = p
       THEN [at |-> "claim", alone |-> quiet, again |-> FALSE, lost |-> FALSE, first |-> NoValue,
             status |-> NoValue, outcome |-> "unknown"]
       ELSE IF At(q, "idle") THEN request[q] ELSE [request[q] EXCEPT !.alone = FALSE]]
  /\ UNCHANGED <<chain, row>>

\* POST /spend reads the operation, the wallet and its balance first.
RouteFails(p) ==
  /\ At(p, "claim") /\ ~request[p].again /\ kind = "manual" /\ Failing(1)
  /\ \E words \in {{}, {"network"}, {"network", "http_5xx"}} : Told(p, ErrorAnswer(words))
  /\ UNCHANGED <<chain, row>>

\* What processSpend says when it cannot read the chain's asset context.
ContextUnavailable(seen) ==
  IF seen = NoValue THEN [NoResult EXCEPT !.words = {"asset_context"}]
  ELSE IF seen.status = "failed" /\ seen.outcome = "no_movement" THEN FailedResult(seen.hash, NoValue)
  ELSE PendingResult(seen.status, seen.hash, TRUE, seen.outcome, NoValue, {"asset_context"})

\* The lookup of the saved operation may fail as well, and is then skipped.
ContextFails(p) ==
  /\ At(p, "claim")
  /\ \/ Failing(1) /\ Finish(p, ContextUnavailable(row), FALSE)
     \/ Failing(2) /\ Finish(p, ContextUnavailable(NoValue), FALSE)
  /\ UNCHANGED <<chain, row>>

\* The settlement context of a reservation is saved and compared first; the
\* lookup after that may fail as well.
SettlementContextFails(p) ==
  LET diag == Diagnostic("preflight", "SETTLEMENT_CONTEXT_MISMATCH", FALSE, "review_required", NoValue)
      Unsaved(seen) ==
        IF seen # NoValue
        THEN [PendingResult(seen.status, seen.hash, TRUE, seen.outcome, diag, {"context_mismatch"}) EXCEPT !.retryable = FALSE]
        ELSE [PreflightResult(FALSE, "no_movement", diag, {"context_mismatch"}) EXCEPT !.pending = FALSE, !.review = TRUE] IN
  /\ At(p, "claim") /\ kind # "manual"
  /\ \/ Failing(1) /\ Finish(p, Unsaved(row), FALSE)
     \/ Failing(2) /\ Finish(p, Unsaved(NoValue), FALSE)
  /\ UNCHANGED <<chain, row>>

\* The key was used for another intent: found by spendRecoveryIntentMismatch
\* when the asset context cannot be read, by the claim otherwise.
IntentDiffers(p) ==
  /\ At(p, "claim") /\ row # NoValue /\ ~request[p].again
  /\ \/ Failing(1) /\ Finish(p, [NoResult EXCEPT !.tx = row.hash, !.status = row.status, !.review = TRUE,
                                                !.outcome = row.outcome, !.words = {"intent_mismatch"}], FALSE)
     \/ Working /\ Finish(p, [NoResult EXCEPT !.words = {"intent_mismatch"}], FALSE)
  /\ UNCHANGED <<chain, row>>

\* The configured asset is no longer the row's; a failed row is claimed first.
AssetChanged(p) ==
  /\ At(p, "claim") /\ row # NoValue /\ Failing(1)
  /\ row' = IF RowReclaimable THEN RowClaimed ELSE row
  /\ Finish(p, PendingResult(row'.status, row'.hash, TRUE, row'.outcome, NoValue, {"asset_context"}), FALSE)
  /\ UNCHANGED chain

\* claim: a first request, or one after a preflight failure.
Acquire(p) ==
  /\ At(p, "claim") /\ (row = NoValue \/ RowReclaimable)
  /\ \/ row' = RowClaimed /\ Proceed(p, "check") /\ Working
     \/ row' \in {row, RowClaimed} /\ Finish(p, NoResult, FALSE) /\ Failing(1)
  /\ UNCHANGED chain

\* projectSpendOperation dispatches on the row of an earlier run.
Replay(p) ==
  /\ At(p, "claim") /\ row # NoValue /\ ~RowReclaimable
  /\ \/ /\ row.status = "failed"
        /\ Finish(p, IF row.outcome = "no_movement" THEN FailedResult(row.hash, row.diag)
                     ELSE PendingResult("failed", row.hash, TRUE, row.outcome, row.diag, {}), FALSE)
     \/ row.status = "projected" /\ Proceed(p, "receipt")
     \/ /\ row.status \in RowOpen /\ row.hash = NoValue
        /\ Finish(p, PendingResult(row.status, NoValue, TRUE, row.outcome, row.diag, {}), FALSE)
     \/ /\ row.status \in {"submitted", "unknown"} /\ row.hash # NoValue
        /\ request' = [request EXCEPT ![p] = [@ EXCEPT !.at = "verify", !.status = row.status, !.outcome = row.outcome]]
     \/ /\ row.status \in {"submitting", "confirmed"} /\ row.hash # NoValue
        /\ request' = [request EXCEPT ![p] = [@ EXCEPT !.at = "record", !.outcome = row.outcome]]
  /\ Working /\ UNCHANGED <<chain, row>>

\* preflightSpend, and markPreflightFailed when it fails: the outcome is that
\* of the saved row, unknown when it could not be saved.
FailPreflight(p, eligible, diag, words, broken) ==
  LET new == RowPreflightFailed(diag) IN
  \/ row' = new /\ Failing(broken) /\ Finish(p, PreflightResult(eligible, new.outcome, diag, words), FALSE)
  \/ row' \in {row, new} /\ Failing(broken + 1) /\ Finish(p, PreflightResult(eligible, "unknown", diag, words), TRUE)

Unreadable == Diagnostic("preflight", "RPC_READ_UNAVAILABLE", TRUE, "rpc_unavailable", NoValue)

CheckSpend(p) ==
  /\ At(p, "check")
  /\ \/ allowance /\ covered /\ Proceed(p, "prepare") /\ Working /\ UNCHANGED row
     \/ ~allowance /\ FailPreflight(p, TRUE, NoValue, {"allowance"}, 0)
     \/ allowance /\ ~covered /\ FailPreflight(p, TRUE, NoValue, {"balance"}, 0)
     \/ FailPreflight(p, FALSE, Unreadable, {"preflight_unavailable"}, 1)
  /\ UNCHANGED chain

\* Nothing was saved, or the commit was applied and its answer lost: the row
\* then has its hash, and markPreflightFailed does not touch it.
PrepareSpend(p) ==
  LET prepared == [row EXCEPT !.hash = "transfer", !.status = "submitting"] IN
  /\ At(p, "prepare")
  /\ \/ row' = prepared /\ Proceed(p, "send") /\ Working
     \/ \E d \in PrepareDiagnostics \cup {PreparationFailed} :
          \/ /\ row' = RowPreflightFailed(d) /\ Failing(1)
             /\ Finish(p, PreflightResult(FALSE, "no_movement", d, WordsOf(d)), FALSE)
          \/ /\ UNCHANGED row /\ Failing(2)
             /\ Finish(p, PreflightResult(FALSE, "no_movement", d, WordsOf(d)), TRUE)
     \/ /\ row' = prepared /\ Failing(1)
        /\ Finish(p, PreflightResult(FALSE, "no_movement", PreparationFailed, {}), TRUE)
  /\ UNCHANGED chain

\* What submitSpend's failure becomes. A saved hash is reconciled once.
SendFailed(p, d) ==
  IF PreBroadcast(d)
  THEN row' = row /\ Finish(p, PreflightResult(FALSE, "no_movement", d, {}), FALSE)
  ELSE /\ row' \in {row, RowUnknown(d)}
       /\ request' = [request EXCEPT ![p] = [@ EXCEPT !.at = "verify", !.status = "unknown", !.lost = row' = row]]

\* broadcastTransaction and the marks of the lease and of the operation.
Send(p) ==
  /\ At(p, "send")
  /\ \/ /\ move' = "pool" /\ row' = Saved(row.status \in RowOpen, [row EXCEPT !.status = "submitted", !.diag = NoValue])
        /\ request' = [request EXCEPT ![p] = [@ EXCEPT !.at = "verify", !.status = "submitted"]] /\ Working
     \/ /\ move' \in {move, "pool"} /\ SendFailed(p, SendUnknown("transfer")) /\ Failing(1)
     \/ /\ move' = "pool" /\ row' \in {[row EXCEPT !.status = "submitted"], RowUnknown(row.diag)} /\ Failing(1)
        /\ Finish(p, PendingResult("unknown", "transfer", TRUE, "unknown", NoValue, {"outcome_unknown"}), TRUE)
  /\ UNCHANGED <<kind, allowance, covered>>
-----------------------------------------------------------------------------
(* projectSpendOperation: evidence, records, receipt.                      *)

\* Mutant: a transfer without a receipt counts as failed.
EvidenceCodePendingFails ==
  CASE move = "none" -> "TRANSACTION_NOT_FOUND" [] move = "paid" -> "VALID" [] OTHER -> "TRANSACTION_FAILED"

EvidenceCode == CASE move = "none" -> "TRANSACTION_NOT_FOUND" [] move = "pool" -> "RECEIPT_PENDING"
                  [] move = "reverted" -> "TRANSACTION_FAILED" [] OTHER -> "VALID"

StillPending(p, code, retryable, broken) ==
  LET d == EvidenceDiagnostic(code, retryable)
      r == PendingResult(request[p].status, "transfer", code = "TRANSACTION_NOT_FOUND", request[p].outcome, d, {"confirmation_pending"}) IN
  \/ row' = RowUnknown(d) /\ Failing(broken) /\ Finish(p, r, FALSE)
  \/ row' = row /\ Failing(broken + 1) /\ Finish(p, r, TRUE)

VerifySpend(p) ==
  LET d == EvidenceDiagnostic("TRANSACTION_FAILED", FALSE) IN
  /\ At(p, "verify")
  /\ \/ EvidencePending(EvidenceCode) /\ StillPending(p, EvidenceCode, TRUE, 0)
     \/ \E retryable \in BOOLEAN : StillPending(p, "PROVIDER_ERROR", retryable, 1)
     \/ /\ EvidenceCode = "TRANSACTION_FAILED"
        /\ \/ /\ row' = RowFailed("no_movement", d) /\ Working
              /\ Finish(p, FailedResult("transfer", d), FALSE)
           \/ /\ row' \in {row, RowFailed("no_movement", d)} /\ Failing(1)
              /\ Finish(p, PendingResult(request[p].status, "transfer", TRUE, "no_movement", d, {}), TRUE)
     \/ /\ EvidenceCode = "VALID"
        /\ \/ /\ row' = RowConfirmed /\ Working
              /\ request' = [request EXCEPT ![p] = [@ EXCEPT !.at = "record", !.outcome = "confirmed"]]
           \/ /\ row' \in {row, RowConfirmed} /\ Failing(1)
              /\ Finish(p, PendingResult("submitted", "transfer", FALSE, request[p].outcome, NoValue, {}), TRUE)
  /\ UNCHANGED chain

\* recordSpend and markProjected; markProjectionError when the record fails.
RecordSpendRow(p) ==
  /\ At(p, "record")
  /\ \/ row' = RowProjected /\ Proceed(p, "receipt") /\ Working
     \/ /\ row' \in {row, RowProjectionError, RowProjected} /\ Failing(1)
        /\ Finish(p, PendingResult("confirmed", "transfer", FALSE, request[p].outcome, NoValue, {"projection_pending"}), TRUE)
  /\ UNCHANGED chain

\* The transfer is proven, but what follows it failed. POST /spend says that it
\* is confirmed; settleReservationFromCdr throws an error without an outcome.
AfterTransfer(review, words) ==
  LET error == [NoResult EXCEPT !.tx = "transfer", !.words = words]
      fields == FailureFields(error, [stage |-> "projection", outcome |-> "confirmed", retryable |-> ~review, review |-> review])
      text == IF review THEN "conflict" ELSE "receipt_pending" IN
  IF kind = "manual" THEN AnswerOf(IF review THEN 409 ELSE 202, fields, ~review, TRUE, text)
  ELSE IngestAnswer([error EXCEPT !.review = review, !.retryable = ~review, !.pending = TRUE], text)

\* SpendReservations.complete, for a settlement, then
\* createAndStoreSpendReceipt: stored, pending, or in conflict with a stored one.
StoreReceipt(p) ==
  /\ At(p, "receipt")
  /\ \/ Told(p, ConfirmedAnswer(Succeeded)) /\ Working
     \/ \E review \in BOOLEAN, words \in {{}} \cup (IF kind = "manual" THEN {} ELSE {{"projection_pending"}}) :
          Failing(1) /\ Told(p, AfterTransfer(review, words))
  /\ UNCHANGED <<chain, row>>
-----------------------------------------------------------------------------
(* approveUserForSpendingViaFunding and its failures.                      *)

ApprovalError(stage, review, retryable, pending, outcome, diag, tx, funding, lands) ==
  [stage |-> stage, review |-> review, retryable |-> retryable, pending |-> pending, preflight |-> outcome = "no_movement",
   outcome |-> outcome, diag |-> diag, tx |-> tx, funding |-> funding, status |-> NoValue, words |-> {"approval"},
   code |-> IF stage = NoValue THEN NoValue ELSE "APPROVAL_PREPARATION_REVIEW_REQUIRED", lands |-> lands]

ApprovalUnconfirmed(code, stage, category, tx) == Diagnostic(stage, code, FALSE, category, tx)

\* A read that fails; a preparation that waits for an operator; gas funding
\* that was not sent, or was sent without an answer or a receipt; an approval
\* likewise; a mark that could not be saved after either.
ApprovalErrors ==
  { ApprovalError(NoValue, NoValue, NoValue, NoValue, NoValue, NoValue, NoValue, NoValue, FALSE),
    ApprovalError("preparation", TRUE, FALSE, TRUE, NoValue, NoValue, NoValue, "funding", FALSE),
    ApprovalError("preparation", TRUE, FALSE, TRUE, NoValue, NoValue, "approval", NoValue, FALSE),
    ApprovalError("funding", TRUE, FALSE, TRUE, NoValue, SendUnknown("funding"), NoValue, "funding", FALSE),
    ApprovalError("funding", TRUE, FALSE, TRUE, NoValue,
      ApprovalUnconfirmed("RECEIPT_READ_UNAVAILABLE", "receipt", "confirmation_pending", "funding"), NoValue, "funding", FALSE),
    ApprovalError("approval", TRUE, FALSE, TRUE, NoValue,
      ApprovalUnconfirmed("APPROVAL_SUBMISSION_OUTCOME_UNKNOWN", "broadcast", "review_required", NoValue), NoValue, NoValue, TRUE),
    ApprovalError("approval", TRUE, FALSE, TRUE, NoValue,
      ApprovalUnconfirmed("RECEIPT_READ_UNAVAILABLE", "receipt", "confirmation_pending", "approval"), "approval", NoValue, TRUE) }
  \cup { ApprovalError("funding", FALSE, d.retryable, d.retryable, "no_movement", d, NoValue, NoValue, FALSE) :
           d \in PrepareDiagnostics }

\* The result of the first run, with what the approval's failure says.
AfterApproval(first, e) ==
  LET fields == FailureFields(e, [stage |-> "prepare", outcome |-> NoValue, retryable |-> Default(e.retryable, FALSE),
                                  review |-> Default(e.review, TRUE)])
      review == Default(e.review, TRUE) IN
  [first EXCEPT !.pending = Default(e.pending, review \/ fields.retryable), !.review = review,
                !.preflight = IF e.stage = NoValue THEN FALSE ELSE e.preflight,
                !.status = IF review THEN "unknown" ELSE "failed", !.outcome = Default(e.outcome, fields.outcome),
                !.retryable = ~review /\ fields.retryable, !.diag = Default(e.diag, @),
                !.funding = Default(fields.funding, @), !.words = e.words]

Approve(p) ==
  /\ At(p, "approve")
  /\ \/ /\ allowance' = TRUE /\ Working
        /\ request' = [request EXCEPT ![p] = [@ EXCEPT !.at = "claim", !.again = TRUE, !.first = NoValue]]
     \/ \E e \in ApprovalErrors :
          /\ Failing(1) /\ allowance' \in (IF e.lands THEN {allowance, TRUE} ELSE {allowance})
          /\ LET r == AfterApproval(request[p].first, e) IN
             request' = [request EXCEPT ![p] = [at |-> "answered", alone |-> @.alone, lost |-> @.lost, again |-> TRUE,
                                                answer |-> Answered(r)]]
  /\ UNCHANGED <<kind, row, move, covered>>
-----------------------------------------------------------------------------
(* The chain, and crashes.                                                 *)

MineSpend == /\ move = "pool" /\ move' \in {"paid", "reverted"} /\ (move' = "paid" => allowance /\ covered)
        /\ covered' = (covered /\ move' = "reverted")
        /\ UNCHANGED <<kind, row, allowance, request, left>>
Credit == /\ ~covered /\ move = "none" /\ covered' = TRUE
          /\ UNCHANGED <<kind, row, move, allowance, request, left>>

CrashRequest(p) == /\ request[p].at \notin {"idle", "answered"} /\ Failing(1)
            /\ request' = [request EXCEPT ![p] = Idle]
            /\ UNCHANGED <<chain, row>>

AnswersInit ==
  /\ kind \in SpendKinds /\ row = NoValue /\ move = "none" /\ allowance \in BOOLEAN /\ covered \in BOOLEAN
  /\ request = [p \in Requests |-> Idle] /\ left = [failures |-> MaxFailures, starts |-> MaxStarts]

RequestStep(p) ==
  \/ StartRequest(p) \/ RouteFails(p) \/ ContextFails(p) \/ SettlementContextFails(p)
  \/ IntentDiffers(p) \/ AssetChanged(p) \/ Acquire(p) \/ Replay(p)
  \/ CheckSpend(p) \/ PrepareSpend(p) \/ Send(p) \/ VerifySpend(p) \/ RecordSpendRow(p) \/ StoreReceipt(p)
  \/ Approve(p) \/ CrashRequest(p)

AnswersNext == MineSpend \/ Credit \/ \E p \in Requests : RequestStep(p)
AnswersSpec == AnswersInit /\ [][AnswersNext]_requestVars
-----------------------------------------------------------------------------
(* Properties. A request is alone while no other request for its key has   *)
(* run since it began: what another one does later is not its answer's.    *)

AnswersTypeOK ==
  /\ kind \in SpendKinds /\ move \in {"none", "pool", "paid", "reverted"} /\ allowance \in BOOLEAN /\ covered \in BOOLEAN
  /\ row \in SpendRow \cup {NoValue}
  /\ left.failures \in 0 .. MaxFailures /\ left.starts \in 0 .. MaxStarts
  /\ \A p \in Requests : At(p, "answered") =>
       LET a == request[p].answer IN
       /\ a.http \in {200, 202, 400, 409, 500, 503} /\ a.outcome \in MoveOutcomes /\ a.stage \in Stages
       /\ a.tx \in TxNames \cup {NoValue} /\ a.funding \in {"funding", NoValue}
       /\ a.retryable \in BOOLEAN /\ a.review \in BOOLEAN /\ a.pending \in BOOLEAN

AnswerTo(p) == request[p].answer
AloneAnswered(p) == At(p, "answered") /\ request[p].alone
Sent == move \in {"pool", "paid"}

\* What is said of the movement is true: when the executor itself states that
\* no tokens moved, without asking for a review, or a text says that nothing was
\* spent or recorded, none have been sent, whatever failed and whatever earlier
\* requests for the key did; and the row that operators read never says so of a
\* transfer that was sent.
StatedNoMovementIsTrue ==
  /\ AnswersTypeOK
  /\ row # NoValue /\ row.outcome = "no_movement" => ~Sent
  /\ \A p \in Requests : AloneAnswered(p) =>
       /\ AnswerTo(p).stated /\ AnswerTo(p).outcome = "no_movement" /\ ~AnswerTo(p).review => ~Sent
       /\ AnswerTo(p).text \in {"nothing_spent", "nothing_recorded"} => ~Sent

\* Once the transfer may be on the chain, no caller is offered a retry without
\* its hash by an answer about this very request, a reviewed one never is, and
\* neither is gas funded nor an allowance approved for it.
RetryKeepsTheHash ==
  \A p \in Requests :
    /\ At(p, "answered") /\ AnswerTo(p).retryable =>
         /\ ~AnswerTo(p).review
         /\ request[p].alone /\ AnswerTo(p).stated /\ Sent => AnswerTo(p).tx = "transfer"
    /\ At(p, "approve") /\ request[p].alone => ~Sent /\ row.hash = NoValue

\* Caller and operator are told the same: an answer with a diagnostic whose
\* mark was saved is what GET /admin/operations shows of the row: the stage, the
\* code and the hash to look for.
OperatorSeesTheSame ==
  \A p \in Requests :
    AloneAnswered(p) /\ ~request[p].lost /\ ~request[p].again /\ row # NoValue /\ AnswerTo(p).saved = "transfer"
    => /\ OperatorView.stage = AnswerTo(p).stage /\ OperatorView.code = AnswerTo(p).code
       /\ OperatorView.saved = AnswerTo(p).saved
=============================================================================
