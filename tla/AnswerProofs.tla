---------------------------- MODULE AnswerProofs ----------------------------
(***************************************************************************)
(* What callers and operators are told: of a spend, for any number of      *)
(* requests for one key, of crashes and of failing calls; by the evidence  *)
(* report, for any tables and any number of annotation requests; and of    *)
(* the treasury's work for managed wallets, for any number of runs.        *)
(*                                                                         *)
(* The invariant SInv says what a request may rely on where it is: one     *)
(* request at a time holds the claim of the key, a request is alone while  *)
(* all others rest, and before the hash is saved the row it claimed stays  *)
(* as it was written. The row denies a movement only while it has no hash  *)
(* or when the chain rejected the transfer. From this, each result of a    *)
(* run is sound (ResultSound), and publicFailureFields passes on what the  *)
(* result says (Reports), on both routes, so that each answer is sound     *)
(* (AnswerSound) and stays so while its request is alone.                  *)
(*                                                                         *)
(* The invariant RInv of the report: each row that was read, or that was   *)
(* in the window when the report began, is still there with the same       *)
(* movement; a row that was there is among those read of its table, unless *)
(* the report says that the table was not read whole. The rows of one hash *)
(* that are not in doubt agree with the one chosen for them. NInv adds the *)
(* annotators: a request that is about to write holds its lock alone, has  *)
(* found nothing stored, and its row keeps the owner and the asset it was  *)
(* read with; rows that are added to a hash name no other owner or asset   *)
(* than the rows there.                                                    *)
(*                                                                         *)
(* WInv of the managed wallets: a lease keeps the transfer it was prepared *)
(* for, and is failed only if the chain rejected it; the row of a funding  *)
(* that has a lease has a hash, and a row with a hash is never started     *)
(* over; one run at a time approves for a wallet, and its row and nonce    *)
(* stay what it saved. What other runs rely on (WorkSound) survives every  *)
(* step that keeps these (RunMoves).                                       *)
(***************************************************************************)
EXTENDS SpendAnswers, ManagedWallets, AdminEvidence, FiniteSetTheorems, TLAPS

-----------------------------------------------------------------------------
(* Results and what becomes of them.                                       *)

Said == BOOLEAN \cup {NoValue}
Names == TxNames \cup {NoValue}

\* The words that error texts are searched for.
Words ==
  {"network", "http_5xx", "asset_context", "context_mismatch", "intent_mismatch", "allowance", "balance",
   "preflight_unavailable", "rpc_read_unavailable", "outcome_unknown", "confirmation_pending", "projection_pending",
   "approval"}

\* The result of a run that did not succeed, or the error it is made into.
Results ==
  [success: {FALSE}, tx: Names, status: RowStatuses \cup {NoValue}, pending: Said, review: Said,
   preflight: BOOLEAN, eligible: Said, outcome: MoveOutcomes \cup {NoValue}, retryable: Said,
   diag: Diagnostics \cup {NoValue}, funding: {"funding", NoValue}, words: SUBSET Words,
   stage: Stages \cup {NoValue}, code: Codes \cup {NoValue}]

LEMMA NoResultTyped == NoResult \in Results
BY DEF NoResult, Results, Said, Names

\* What the answer depends on.
Shape(r, tx, review, outcome, diag, words, preflight) ==
  /\ r \in Results /\ r.tx = tx /\ r.review = review /\ r.outcome = outcome
  /\ r.diag = diag /\ r.words = words /\ r.preflight = preflight

LEMMA PendingTyped ==
  \A status \in RowStatuses \cup {NoValue}, tx \in Names, review \in Said,
     outcome \in MoveOutcomes \cup {NoValue}, diag \in Diagnostics \cup {NoValue}, words \in SUBSET Words :
         Shape(PendingResult(status, tx, review, outcome, diag, words), tx, review, outcome, diag, words, FALSE)
<1> TAKE status \in RowStatuses \cup {NoValue}, tx \in Names, review \in Said,
         outcome \in MoveOutcomes \cup {NoValue}, diag \in Diagnostics \cup {NoValue}, words \in SUBSET Words
<1> DEFINE r(n) == [n EXCEPT !.tx = tx, !.status = status, !.pending = TRUE, !.review = review, !.outcome = outcome,
                             !.diag = diag, !.words = words]
<1>1. \A n \in Results : r(n) \in Results
  BY ZenonT(40) DEF Results, Said
<1>2. \A n \in Results : /\ r(n).outcome = outcome /\ r(n).tx = tx /\ r(n).review = review /\ r(n).words = words
                          /\ r(n).diag = diag /\ r(n).preflight = n.preflight
  BY DEF Results
<1>3. NoResult.preflight = FALSE
  BY DEF NoResult
<1> QED
  BY <1>1, <1>2, <1>3, NoResultTyped DEF PendingResult, Shape

LEMMA PreflightTyped ==
  \A eligible \in BOOLEAN, outcome \in MoveOutcomes, diag \in Diagnostics \cup {NoValue}, words \in SUBSET Words :
         LET r == PreflightResult(eligible, outcome, diag, words) IN
         /\ Shape(r, NoValue, NoValue, outcome, diag, words, TRUE)
         /\ r.eligible = eligible
<1> TAKE eligible \in BOOLEAN, outcome \in MoveOutcomes, diag \in Diagnostics \cup {NoValue},
         words \in SUBSET Words
<1> DEFINE again == IF diag # NoValue THEN diag.retryable ELSE ~eligible
<1>1. again \in BOOLEAN
  BY DEF Diagnostics
<1>2. ASSUME NEW n \in Results, NEW x \in {TRUE, FALSE}
      PROVE
        LET r == [n EXCEPT !.status = "failed", !.pending = x, !.preflight = TRUE, !.eligible = eligible,
                           !.outcome = outcome, !.retryable = x, !.diag = diag, !.words = words]
        IN  Shape(r, n.tx, n.review, outcome, diag, words, TRUE) /\ r.eligible = eligible
  <2> DEFINE r(y) ==
        [n EXCEPT !.status = "failed", !.pending = y, !.preflight = TRUE, !.eligible = eligible,
                  !.outcome = outcome, !.retryable = y, !.diag = diag, !.words = words]
  <2>1. CASE x = TRUE
    <3>1. r(TRUE) \in Results
      BY DEF Results, Said, RowStatuses
    <3>2. Shape(r(TRUE), n.tx, n.review, outcome, diag, words, TRUE) /\ r(TRUE).eligible = eligible
      BY <3>1 DEF Results, Said, RowStatuses, Shape
    <3> QED
      BY <2>1, <3>1, <3>2
  <2>2. CASE x = FALSE
    <3>1. r(FALSE) \in Results
      BY DEF Results, Said, RowStatuses
    <3>2. Shape(r(FALSE), n.tx, n.review, outcome, diag, words, TRUE) /\ r(FALSE).eligible = eligible
      BY <3>1 DEF Results, Said, RowStatuses, Shape
    <3> QED
      BY <2>2, <3>1, <3>2
  <2> QED
    BY <2>1, <2>2
<1>3. NoResult.tx = NoValue /\ NoResult.review = NoValue
  BY DEF NoResult
<1> QED
  BY <1>1, <1>2, <1>3, NoResultTyped DEF PreflightResult

LEMMA FailedTyped ==
  \A tx \in Names, d \in Diagnostics \cup {NoValue} :
         Shape(FailedResult(tx, d), tx, FALSE, "no_movement", d, {}, FALSE)
BY NoResultTyped, ZenonT(40) DEF Shape, FailedResult, NoResult, Results, Said, Names, MoveOutcomes, RowStatuses

\* What publicFailureFields makes of a result or an error.
LEMMA FieldsFacts ==
  ASSUME NEW input, NEW fallback,
         input.tx \in Names, input.diag \in Diagnostics \cup {NoValue}, input.funding \in {"funding", NoValue},
         input.outcome \in MoveOutcomes \cup {NoValue}, input.retryable \in Said,
         input.stage \in Stages \cup {"preparation", "funding", "approval", NoValue},
         fallback.stage \in Stages, fallback.outcome \in MoveOutcomes \cup {NoValue}, fallback.retryable \in BOOLEAN
  PROVE  LET f == FailureFields(input, fallback) IN
         /\ f.stage \in Stages /\ f.outcome \in MoveOutcomes /\ f.tx \in Names
         /\ f.funding \in {"funding", NoValue} /\ f.review \in BOOLEAN /\ f.retryable \in BOOLEAN
         /\ input.outcome # NoValue => f.outcome = input.outcome
         /\ input.outcome = NoValue /\ fallback.outcome # NoValue => f.outcome = fallback.outcome
         /\ input.tx # NoValue => f.tx = input.tx
         /\ f.retryable => ~f.review
         /\ input.review = TRUE => f.review
         /\ f.saved # NoValue =>
              /\ input.diag # NoValue /\ f.saved = input.diag.saved
              /\ f.stage = input.diag.stage /\ f.code = input.diag.code
<1> DEFINE f == FailureFields(input, fallback)
<1>1. f.stage \in Stages
  BY NoValueAssumption DEF FailureFields, PublicStage, Stages, Diagnostics
<1>2. f.outcome \in MoveOutcomes
  BY DEF FailureFields, MovementOutcome, Default, MoveOutcomes
<1>3. f.tx \in Names
  BY DEF FailureFields, MovementHash, Names, Diagnostics
<1>4. f.review \in BOOLEAN
  BY DEF FailureFields
<1>5. f.retryable \in BOOLEAN
  BY DEF FailureFields, RetryOffered, Default, Said, Diagnostics
<1>6. f.retryable => ~f.review
  BY DEF FailureFields, RetryOffered
<1>7. input.review = TRUE => f.review
  BY DEF FailureFields
<1>8. /\ input.outcome # NoValue => f.outcome = input.outcome
      /\ input.outcome = NoValue /\ fallback.outcome # NoValue => f.outcome = fallback.outcome
  BY DEF FailureFields, MovementOutcome, Default
<1>9. input.tx # NoValue => f.tx = input.tx
  BY DEF FailureFields, MovementHash
<1>10. f.saved # NoValue =>
              /\ input.diag # NoValue /\ f.saved = input.diag.saved
              /\ f.stage = input.diag.stage /\ f.code = input.diag.code
  <2> SUFFICES ASSUME f.saved # NoValue
               PROVE  /\ input.diag # NoValue /\ f.saved = input.diag.saved
                      /\ f.stage = input.diag.stage /\ f.code = input.diag.code
    OBVIOUS
  <2>1. input.diag # NoValue /\ f.saved = input.diag.saved
    BY DEF FailureFields
  <2>2. input.diag.stage \in Stages
    BY <2>1 DEF Diagnostics
  <2>3. f.stage = input.diag.stage
    <3>1. \A x \in Stages : x # NoValue
      BY NoValueAssumption
    <3>2. \A x \in Stages : PublicStage(x) = x /\ x # "unlisted"
      BY DEF PublicStage, Stages
    <3> QED
      BY <2>1, <2>2, <3>1, <3>2 DEF FailureFields
  <2>4. \A stage, outcome, review : InferredCode(input, stage, outcome, review) = input.diag.code
    BY <2>1 DEF InferredCode
  <2>5. f.code = input.diag.code
    BY <2>4, ZenonT(40) DEF FailureFields
  <2> QED
    BY <2>1, <2>3, <2>5
<1>11. f.funding \in {"funding", NoValue}
  BY DEF FailureFields
<1> QED
  BY <1>1, <1>2, <1>3, <1>4, <1>5, <1>6, <1>7, <1>8, <1>9, <1>10, <1>11

AnswerTyped(a) ==
  /\ a.http \in {200, 202, 400, 409, 500, 503} /\ a.outcome \in MoveOutcomes /\ a.stage \in Stages
  /\ a.tx \in Names /\ a.funding \in {"funding", NoValue}
  /\ a.retryable \in BOOLEAN /\ a.review \in BOOLEAN /\ a.pending \in BOOLEAN

\* Texts that promise that nothing was spent.
Promises == {"nothing_spent", "nothing_recorded"}
PromiseWords == {"rpc_read_unavailable", "preflight_unavailable", "approval"}

\* What an answer owes to the result it is about.
Reports(a, r) ==
  /\ AnswerTyped(a)
  /\ a.stated => r.outcome # NoValue /\ a.outcome = r.outcome
  /\ a.retryable => ~a.review
  /\ r.review = TRUE => a.review
  /\ r.tx # NoValue => a.tx = r.tx
  /\ a.text \in Promises => r.words \cap PromiseWords # {}
  /\ a.saved # NoValue =>
       /\ r.diag # NoValue /\ a.saved = r.diag.saved
       /\ a.stage = r.diag.stage /\ a.code = r.diag.code

LEMMA SpendTextFacts ==
  ASSUME NEW words
  PROVE  SpendText(words) \in Promises => words \cap PromiseWords # {}
BY DEF SpendText, Promises, PromiseWords

LEMMA SpendAnswerFacts ==
  ASSUME NEW r \in Results
  PROVE  Reports(SpendAnswer(r), r)
<1> DEFINE pending == r.pending = TRUE
           fallback == [stage |-> FallbackStage(r), outcome |-> r.outcome,
                        retryable |-> pending /\ r.review # TRUE, review |-> r.review]
           f == FailureFields(r, fallback)
           a == SpendAnswer(r)
<1>1. /\ fallback.stage \in Stages /\ fallback.outcome \in MoveOutcomes \cup {NoValue}
      /\ fallback.retryable \in BOOLEAN
  BY DEF FallbackStage, Stages, Results
<1>2. /\ r.tx \in Names /\ r.diag \in Diagnostics \cup {NoValue} /\ r.funding \in {"funding", NoValue}
      /\ r.outcome \in MoveOutcomes \cup {NoValue} /\ r.retryable \in Said
      /\ r.stage \in Stages \cup {"preparation", "funding", "approval", NoValue}
  BY DEF Results
<1> HIDE DEF fallback
<1>3. /\ f.stage \in Stages /\ f.outcome \in MoveOutcomes /\ f.tx \in Names
      /\ f.funding \in {"funding", NoValue} /\ f.review \in BOOLEAN /\ f.retryable \in BOOLEAN
      /\ r.outcome # NoValue => f.outcome = r.outcome
      /\ r.tx # NoValue => f.tx = r.tx
      /\ f.retryable => ~f.review
      /\ r.review = TRUE => f.review
      /\ f.saved # NoValue =>
              /\ r.diag # NoValue /\ f.saved = r.diag.saved
              /\ f.stage = r.diag.stage /\ f.code = r.diag.code
  BY <1>1, <1>2, FieldsFacts
<1> HIDE DEF f
<1>4. /\ a.stage = f.stage /\ a.outcome = f.outcome /\ a.tx = f.tx /\ a.funding = f.funding /\ a.saved = f.saved
      /\ a.retryable = f.retryable /\ a.review = f.review /\ a.code = f.code
      /\ a.pending = pending /\ a.stated = (r.outcome # NoValue) /\ a.text = SpendText(r.words)
      /\ a.http \in {200, 202, 400, 409, 500, 503}
  BY DEF SpendAnswer, AnswerOf, f, fallback
<1> HIDE DEF a
<1>5. AnswerTyped(a)
  BY <1>3, <1>4 DEF AnswerTyped
<1>6. a.stated => r.outcome # NoValue /\ a.outcome = r.outcome
  BY <1>3, <1>4
<1>7. (a.retryable => ~a.review) /\ (r.review = TRUE => a.review)
  BY <1>3, <1>4
<1>8. r.tx # NoValue => a.tx = r.tx
  BY <1>3, <1>4
<1>9. a.text \in Promises => r.words \cap PromiseWords # {}
  BY <1>4, SpendTextFacts
<1>10. a.saved # NoValue =>
         /\ r.diag # NoValue /\ a.saved = r.diag.saved
         /\ a.stage = r.diag.stage /\ a.code = r.diag.code
  BY <1>3, <1>4
<1> QED
  BY <1>5, <1>6, <1>7, <1>8, <1>9, <1>10 DEF Reports, a

\* What the error of a settlement keeps of the result.
LEMMA SettlementErrorFacts ==
  ASSUME NEW r \in Results
  PROVE  LET e == SettlementError(r) IN
         /\ e.tx = r.tx /\ e.diag = r.diag /\ e.outcome = r.outcome /\ e.words = r.words
         /\ e.funding = NoValue /\ e.retryable \in BOOLEAN /\ e.stage \in Stages
         /\ r.review = TRUE => e.review = TRUE
<1> DEFINE review == r.review = TRUE \/ (r.review = NoValue /\ r.pending # TRUE /\ r.preflight = FALSE /\ r.tx = NoValue)
           stage == IF r.diag # NoValue THEN r.diag.stage ELSE IF r.preflight THEN "preflight"
                    ELSE IF "asset_context" \in r.words THEN "asset_context"
                    ELSE IF r.tx # NoValue THEN "receipt" ELSE "broadcast"
           pending == (r.pending = TRUE) \/ r.preflight
           retryable == ~review /\ Default(r.retryable, IF r.diag # NoValue THEN r.diag.retryable
                                                        ELSE r.preflight \/ r.pending = TRUE)
           code == IF r.diag # NoValue THEN r.diag.code ELSE NoValue
<1>1. stage \in Stages
  BY DEF Results, Diagnostics, Stages
<1>2. retryable \in BOOLEAN
  BY DEF Results, Diagnostics, Said, Default
<1>3. r.review = TRUE => review = TRUE
  OBVIOUS
<1>4. SettlementError(r) =
        [r EXCEPT !.review = review, !.status = NoValue, !.funding = NoValue, !.pending = pending,
                  !.retryable = retryable, !.stage = stage, !.code = code]
  BY DEF SettlementError, Results
<1> HIDE DEF review, stage, pending, retryable, code
<1> QED
  BY <1>1, <1>2, <1>3, <1>4 DEF Results

\* The answer of POST /ingest/cdr, for any error.
LEMMA IngestAnswerFacts ==
  ASSUME NEW e, NEW text, text \notin Promises,
         e.tx \in Names, e.diag \in Diagnostics \cup {NoValue}, e.funding \in {"funding", NoValue},
         e.outcome \in MoveOutcomes \cup {NoValue}, e.retryable \in BOOLEAN,
         e.stage \in Stages \cup {NoValue}
  PROVE  Reports(IngestAnswer(e, text), e)
<1> DEFINE fallback == [stage |-> "recovery", outcome |-> e.outcome,
                        retryable |-> e.retryable, review |-> e.review]
           f == FailureFields(e, fallback)
           a == IngestAnswer(e, text)
<1>1. /\ fallback.stage \in Stages /\ fallback.outcome \in MoveOutcomes \cup {NoValue}
      /\ fallback.retryable \in BOOLEAN
  BY DEF Stages
<1> HIDE DEF fallback
<1>3. /\ f.stage \in Stages /\ f.outcome \in MoveOutcomes /\ f.tx \in Names
      /\ f.funding \in {"funding", NoValue} /\ f.review \in BOOLEAN /\ f.retryable \in BOOLEAN
      /\ e.outcome # NoValue => f.outcome = e.outcome
      /\ e.tx # NoValue => f.tx = e.tx
      /\ f.retryable => ~f.review
      /\ e.review = TRUE => f.review
      /\ f.saved # NoValue =>
              /\ e.diag # NoValue /\ f.saved = e.diag.saved
              /\ f.stage = e.diag.stage /\ f.code = e.diag.code
  <2>1. e.retryable \in Said
    BY DEF Said
  <2> QED
    BY <1>1, <2>1, FieldsFacts
<1> HIDE DEF f
<1>4. /\ a.stage = f.stage /\ a.outcome = f.outcome /\ a.tx = f.tx /\ a.funding = f.funding /\ a.saved = f.saved
      /\ a.retryable = f.retryable /\ a.review = f.review /\ a.code = f.code
      /\ a.pending = TRUE /\ a.stated = (e.outcome # NoValue) /\ a.text = text
      /\ a.http \in {200, 202, 400, 409, 500, 503}
  BY DEF IngestAnswer, AnswerOf, f, fallback
<1> HIDE DEF a
<1>5. AnswerTyped(a)
  BY <1>3, <1>4, ZenonT(40) DEF AnswerTyped
<1>6. a.stated => e.outcome # NoValue /\ a.outcome = e.outcome
  BY <1>3, <1>4
<1>7. (a.retryable => ~a.review) /\ (e.review = TRUE => a.review)
  BY <1>3, <1>4
<1>8. e.tx # NoValue => a.tx = e.tx
  BY <1>3, <1>4
<1>9. a.text \in Promises => e.words \cap PromiseWords # {}
  BY <1>4
<1>10. a.saved # NoValue =>
         /\ e.diag # NoValue /\ a.saved = e.diag.saved
         /\ a.stage = e.diag.stage /\ a.code = e.diag.code
  BY <1>3, <1>4
<1> QED
  BY <1>5, <1>6, <1>7, <1>8, <1>9, <1>10 DEF Reports, a

\* Whatever the route, the answer reports the result.
LEMMA AnsweredFacts ==
  ASSUME NEW r \in Results
  PROVE  Reports(Answered(r), r)
<1>1. ~r.success
  BY DEF Results
<1>2. Reports(SettlementAnswer(r), r)
  <2> DEFINE e == SettlementError(r)
  <2>1. /\ e.tx = r.tx /\ e.diag = r.diag /\ e.outcome = r.outcome /\ e.words = r.words
        /\ e.funding = NoValue /\ e.retryable \in BOOLEAN /\ e.stage \in Stages
        /\ r.review = TRUE => e.review = TRUE
    BY SettlementErrorFacts
  <2> HIDE DEF e
  <2>2. /\ e.tx \in Names /\ e.diag \in Diagnostics \cup {NoValue} /\ e.outcome \in MoveOutcomes \cup {NoValue}
    BY <2>1 DEF Results
  <2>3. Reports(IngestAnswer(e, "settlement_pending"), e)
    <3>1. "settlement_pending" \notin Promises
      BY DEF Promises
    <3> QED
      BY <2>1, <2>2, <3>1, IngestAnswerFacts
  <2> QED
    BY <2>1, <2>3 DEF Reports, SettlementAnswer, e
<1> QED
  BY <1>1, <1>2, SpendAnswerFacts DEF Answered
-----------------------------------------------------------------------------
(* The row, and the requests that rely on it.                              *)

\* A transfer exists only under a saved hash, and the row denies a movement
\* only before that or when the chain rejected it.
RowSound(y, mv) ==
  /\ y = NoValue \/ y.hash = NoValue => mv = "none"
  /\ y # NoValue /\ y.hash # NoValue /\ y.outcome = "no_movement" => mv = "reverted"

RowTyped ==
  /\ kind \in SpendKinds /\ move \in {"none", "pool", "paid", "reverted"}
  /\ allowance \in BOOLEAN /\ covered \in BOOLEAN
  /\ row \in SpendRow \cup {NoValue}
  /\ left \in [failures: 0 .. MaxFailures, starts: 0 .. MaxStarts]

Claiming == {"check", "prepare", "send"}
Points == Claiming \cup {"claim", "verify", "record", "receipt", "approve"}

\* A request under way.
Running ==
  [at: Points, alone: BOOLEAN, again: BOOLEAN, lost: BOOLEAN, first: Results \cup {NoValue},
   status: RowStatuses \cup {NoValue}, outcome: MoveOutcomes]

HasHash == row # NoValue /\ row.hash = "transfer"

\* What a request under way may rely on.
RunSound(m) ==
  /\ m.at \in {"check", "prepare"} =>
       row # NoValue /\ row.hash = NoValue /\ row.status = "submitting" /\ row.outcome = "unknown"
  /\ m.at = "send" => HasHash /\ move = "none"
  /\ m.at \in {"verify", "record"} => HasHash
  /\ m.at = "verify" => m.status # NoValue
  /\ m.outcome = "no_movement" => move = "reverted"
  /\ m.at \in {"send", "verify"} /\ m.alone => row.status \in RowOpen
  /\ m.at = "approve" => m.first \in Results
  /\ m.at = "approve" /\ m.alone => row # NoValue /\ row.hash = NoValue

SentAs(mv) == mv \in {"pool", "paid"}

\* What an answer says of the transfer mv and of the row y.
AnswerSound(a, told, y, mv) ==
  /\ a.stated /\ a.outcome = "no_movement" /\ ~a.review => ~SentAs(mv)
  /\ a.text \in Promises => ~SentAs(mv)
  /\ a.retryable /\ a.stated /\ SentAs(mv) => a.tx = "transfer"
  /\ told /\ y # NoValue /\ a.saved = "transfer" =>
       /\ y.diag # NoValue /\ y.diag.stage = a.stage /\ y.diag.code = a.code
       /\ y.diag.saved = a.saved

ToldSound(m) ==
  /\ m \in [at: {"answered"}, alone: BOOLEAN, lost: BOOLEAN, again: BOOLEAN, answer: {m.answer}]
  /\ AnswerTyped(m.answer)
  /\ m.answer.retryable => ~m.answer.review
  /\ m.alone => AnswerSound(m.answer, ~m.lost /\ ~m.again, row, move)

MemoryOk(m) ==
  \/ m = Idle
  \/ m \in Running /\ RunSound(m)
  \/ ToldSound(m)

Resting(m) == m.at \in {"idle", "answered"}

\* One request at a time holds the claim; a request is alone while the others
\* rest.
Exclusive ==
  \A p, q \in Requests : p # q /\ request[p].at \in Claiming => request[q].at \notin Claiming
LeftAlone ==
  \A p, q \in Requests : p # q /\ request[p] # Idle /\ request[p].alone => Resting(request[q])

SInv ==
  /\ RowTyped /\ RowSound(row, move)
  /\ request = [p \in Requests |-> request[p]]
  /\ \A p \in Requests : MemoryOk(request[p])
  /\ Exclusive /\ LeftAlone

LEMMA IdleFacts == Idle.at = "idle" /\ Resting(Idle)
BY DEF Idle, Resting

\* The three kinds of memory, told apart by where the request is.
LEMMA MemoryKinds ==
  ASSUME NEW m, MemoryOk(m)
  PROVE  /\ m.at = "idle" => m = Idle
         /\ m.at \in Points => m \in Running /\ RunSound(m) /\ m # Idle
         /\ m.at = "answered" => ToldSound(m) /\ m # Idle
         /\ Resting(m) <=> m.at \notin Points
         /\ m.at \in Points \cup {"idle", "answered"}
BY IdleFacts DEF MemoryOk, Running, ToldSound, Points, Claiming, Resting

\* Nobody holds the claim of a row that can be claimed, and nobody prepares a
\* row that has its hash.
LEMMA NobodyClaims ==
  ASSUME SInv, row = NoValue \/ RowReclaimable, NEW p \in Requests
  PROVE  request[p].at \notin Claiming
<1>1. MemoryOk(request[p])
  BY DEF SInv
<1>2. request[p].at \in Claiming => RunSound(request[p])
  BY <1>1, MemoryKinds DEF Points
<1> QED
  BY <1>2, NoValueAssumption DEF RunSound, Claiming, HasHash, RowReclaimable, TxNames

\* The transfer and its hash stay, whoever moves.
Grow ==
  /\ HasHash => HasHash'
  /\ move = "reverted" => move' = "reverted"

\* A request that is not alone keeps what it relies on.
LEMMA MemoryStays ==
  ASSUME NEW m, MemoryOk(m), Grow, m # Idle => m.alone = FALSE,
         m.at \in {"check", "prepare"} => UNCHANGED row,
         m.at = "send" => UNCHANGED move
  PROVE  MemoryOk(m)'
<1>1. CASE m = Idle
  BY <1>1 DEF MemoryOk
<1>2. CASE m.at \in Points
  <2>1. m \in Running /\ RunSound(m) /\ m.alone = FALSE
    BY <1>2, MemoryKinds
  <2>2. RunSound(m)'
    BY <2>1 DEF RunSound, Grow
  <2> QED
    BY <2>1, <2>2 DEF MemoryOk
<1>3. CASE m.at = "answered"
  <2>1. ToldSound(m) /\ m.alone = FALSE
    BY <1>3, MemoryKinds
  <2>2. ToldSound(m)'
    BY <2>1 DEF ToldSound
  <2> QED
    BY <2>2 DEF MemoryOk
<1> QED
  BY <1>1, <1>2, <1>3, MemoryKinds

\* The next memory of a request, named.
LEMMA MemoryNext ==
  ASSUME NEW q \in Requests, NEW m, request'[q] = m, MemoryOk(m)'
  PROVE  MemoryOk(request[q])'
<1>1. CASE m = Idle
  BY <1>1 DEF MemoryOk
<1>2. CASE m \in Running /\ RunSound(m)'
  <2>1. RunSound(request[q])'
    BY <1>2 DEF RunSound, HasHash
  <2> QED
    BY <1>2, <2>1 DEF MemoryOk
<1>3. CASE ToldSound(m)'
  <2>2. ToldSound(request[q])'
    BY <1>3 DEF ToldSound
  <2> QED
    BY <2>2 DEF MemoryOk
<1> QED
  BY <1>1, <1>2, <1>3 DEF MemoryOk

\* One request moves; who holds the claim goes on holding it or lets it go.
LEMMA RequestMoves ==
  ASSUME SInv, NEW p \in Requests, request[p].at \in Points,
         NEW m, request' = [request EXCEPT ![p] = m], MemoryOk(m)',
         m # Idle => m.alone = request[p].alone,
         m.at \in Claiming => request[p].at \in Claiming \/ row = NoValue \/ RowReclaimable,
         RowTyped', RowSound(row', move'), Grow,
         UNCHANGED row \/ request[p].at \in Claiming \/ row = NoValue \/ RowReclaimable \/ HasHash,
         UNCHANGED move \/ request[p].at \in Claiming
  PROVE  SInv'
<1>1. request' = [q \in Requests |-> IF q = p THEN m ELSE request[q]]
  BY DEF SInv
<1>2. ~Resting(request[p])
  BY MemoryKinds DEF SInv
<1>3. ASSUME NEW q \in Requests
      PROVE  MemoryOk(request[q])'
  <2>1. CASE q = p
    <3>1. request'[q] = m
      BY <1>1, <2>1
    <3> QED
      BY <3>1, MemoryNext
  <2>2. CASE q # p
    <3>1. request'[q] = request[q] /\ MemoryOk(request[q])
      BY <1>1, <2>2 DEF SInv
    <3>2. PICK n : n = request[q]
      OBVIOUS
    <3>3. n # Idle => n.alone = FALSE
      <4>1. n # Idle => ~n.alone
        BY <1>2, <2>2, <3>2 DEF SInv, LeftAlone
      <4>2. n # Idle => n.alone \in BOOLEAN
        BY <3>1, <3>2 DEF MemoryOk, Running, ToldSound
      <4> QED
        BY <4>1, <4>2
    <3>4. n.at \in {"check", "prepare"} => UNCHANGED row
      <4>1. n.at \in Claiming => request[p].at \notin Claiming /\ row # NoValue /\ ~RowReclaimable
        BY <2>2, <3>2, NobodyClaims DEF SInv, Exclusive
      <4>2. n.at \in {"check", "prepare"} => ~HasHash
        <5>1. n.at \in Points => RunSound(n)
          BY <3>1, <3>2, MemoryKinds
        <5> QED
          BY <5>1, NoValueAssumption DEF RunSound, HasHash, Points, Claiming, TxNames
      <4> QED
        BY <4>1, <4>2 DEF Claiming
    <3>5. n.at = "send" => UNCHANGED move
      BY <2>2, <3>2 DEF SInv, Exclusive, Claiming
    <3>6. MemoryOk(n)'
      BY <3>1, <3>2, <3>3, <3>4, <3>5, MemoryStays
    <3> QED
      BY <3>1, <3>2, <3>6, MemoryNext
  <2> QED
    BY <2>1, <2>2
<1>4. Exclusive'
  <2>1. m.at \in Claiming => \A q \in Requests : q # p => request[q].at \notin Claiming
    BY NobodyClaims DEF SInv, Exclusive
  <2> QED
    BY <1>1, <2>1 DEF SInv, Exclusive
<1>5. LeftAlone'
  <2>1. \A q \in Requests : q # p /\ request[q] # Idle => ~request[q].alone
    BY <1>2 DEF SInv, LeftAlone
  <2>2. m # Idle /\ m.alone => \A q \in Requests : q # p => Resting(request[q])
    <3>1. request[p] # Idle
      BY <1>2, IdleFacts
    <3> QED
      BY <3>1 DEF SInv, LeftAlone
  <2> QED
    BY <1>1, <2>1, <2>2 DEF LeftAlone
<1>6. request' = [q \in Requests |-> request'[q]]
  BY <1>1
<1> QED
  BY <1>3, <1>4, <1>5, <1>6 DEF SInv
-----------------------------------------------------------------------------
(* A run that ends.                                                        *)

\* What a result must be true of, once the row is y and the transfer mv; quiet
\* tells that its diagnostic was saved.
ResultSound(r, quiet, y, mv) ==
  /\ r \in Results
  /\ r.outcome = "no_movement" /\ r.review # TRUE => ~SentAs(mv)
  /\ r.words \cap PromiseWords # {} => ~SentAs(mv)
  /\ r.outcome # NoValue /\ r.review # TRUE /\ SentAs(mv) => r.tx = "transfer"
  /\ quiet /\ y # NoValue /\ r.diag # NoValue /\ r.diag.saved = "transfer" => y.diag = r.diag
  /\ r.preflight /\ r.eligible # FALSE => y # NoValue /\ y.hash = NoValue

\* The answer to a sound result is sound.
LEMMA AnswerOfSound ==
  ASSUME NEW a, NEW r, NEW told, NEW y, NEW mv, ResultSound(r, told, y, mv), Reports(a, r)
  PROVE  AnswerSound(a, told, y, mv) /\ AnswerTyped(a) /\ (a.retryable => ~a.review)
<1>1. a.stated /\ a.outcome = "no_movement" /\ ~a.review => ~SentAs(mv)
  BY DEF ResultSound, Reports, SentAs
<1>2. a.text \in Promises => ~SentAs(mv)
  BY DEF ResultSound, Reports, SentAs
<1>3. a.retryable /\ a.stated /\ SentAs(mv) => a.tx = "transfer"
  <2> SUFFICES ASSUME a.retryable, a.stated, SentAs(mv)
               PROVE  a.tx = "transfer"
    OBVIOUS
  <2>1. r.outcome # NoValue /\ r.review # TRUE
    BY DEF Reports
  <2>2. r.tx = "transfer"
    BY <2>1 DEF ResultSound, SentAs
  <2> QED
    BY <2>2, NoValueAssumption DEF Reports, TxNames
<1>4. told /\ y # NoValue /\ a.saved = "transfer" =>
        /\ y.diag # NoValue /\ y.diag.stage = a.stage /\ y.diag.code = a.code
        /\ y.diag.saved = a.saved
  <2> SUFFICES ASSUME told, y # NoValue, a.saved = "transfer"
               PROVE  /\ y.diag # NoValue /\ y.diag.stage = a.stage /\ y.diag.code = a.code
                      /\ y.diag.saved = a.saved
    OBVIOUS
  <2>1. a.saved # NoValue
    BY NoValueAssumption DEF TxNames
  <2>2. /\ r.diag # NoValue /\ r.diag.saved = "transfer" /\ a.saved = r.diag.saved
        /\ a.stage = r.diag.stage /\ a.code = r.diag.code
    BY <2>1 DEF Reports
  <2>3. y.diag = r.diag
    BY <2>2 DEF ResultSound
  <2> QED
    BY <2>2, <2>3
<1> QED
  BY <1>1, <1>2, <1>3, <1>4 DEF AnswerSound, Reports

\* A request is told an answer that is sound.
LEMMA RequestTold ==
  ASSUME SInv, NEW p \in Requests, request[p].at \in Points,
         NEW lost \in BOOLEAN, NEW again \in BOOLEAN, NEW a,
         request' = [request EXCEPT ![p] = [at |-> "answered", alone |-> request[p].alone, lost |-> lost,
                                            again |-> again, answer |-> a]],
         AnswerTyped(a), a.retryable => ~a.review,
         request[p].alone => AnswerSound(a, ~lost /\ ~again, row', move'),
         RowTyped', RowSound(row', move'), Grow,
         UNCHANGED row \/ request[p].at \in Claiming \/ row = NoValue \/ RowReclaimable \/ HasHash,
         UNCHANGED move \/ request[p].at \in Claiming
  PROVE  SInv'
<1> DEFINE m == [at |-> "answered", alone |-> request[p].alone, lost |-> lost, again |-> again, answer |-> a]
<1>1. request[p] \in Running
  BY MemoryKinds DEF SInv
<1>2. PICK alone \in BOOLEAN : alone = request[p].alone
  BY <1>1 DEF Running
<1>3. ToldSound([at |-> "answered", alone |-> alone, lost |-> lost, again |-> again, answer |-> a])'
  BY <1>2 DEF ToldSound
<1>4. MemoryOk(m)'
  BY <1>2, <1>3 DEF MemoryOk
<1>5. m.alone = request[p].alone /\ m.at \notin Claiming
  BY DEF Claiming
<1>6. PICK n : n = m
  OBVIOUS
<1>7. MemoryOk(n)'
  BY <1>2, <1>3, <1>6 DEF MemoryOk
<1> HIDE DEF m
<1>8. request' = [request EXCEPT ![p] = n]
  BY <1>6 DEF m
<1>9. n.alone = request[p].alone /\ n.at \notin Claiming
  BY <1>5, <1>6
<1> QED
  BY <1>7, <1>8, <1>9, RequestMoves

\* The executor is done: the approval follows, or the answer.
LEMMA Finished ==
  ASSUME SInv, NEW p \in Requests, request[p].at \in Points,
         NEW r, NEW lost \in BOOLEAN, Finish(p, r, lost),
         ResultSound(r, request[p].alone /\ ~(request[p].lost \/ lost) /\ ~request[p].again, row', move'),
         RowTyped', RowSound(row', move'), Grow,
         UNCHANGED row \/ request[p].at \in Claiming \/ row = NoValue \/ RowReclaimable \/ HasHash,
         UNCHANGED move \/ request[p].at \in Claiming
  PROVE  SInv'
<1>1. request[p] \in Running /\ RunSound(request[p])
  BY MemoryKinds DEF SInv
<1>2. r \in Results
  BY DEF ResultSound
<1>3. CASE Repairs(p, r)
  <2> DEFINE m == [request[p] EXCEPT !.at = "approve", !.lost = @ \/ lost, !.first = r]
  <2>1. m \in Running /\ m.at = "approve" /\ m.first = r /\ m.alone = request[p].alone
        /\ m.outcome = request[p].outcome
    BY <1>1, <1>2 DEF Running, Points
  <2>2. row' # NoValue /\ row'.hash = NoValue
    BY <1>3 DEF ResultSound, Repairs
  <2>3. request' = [request EXCEPT ![p] = m]
    BY <1>3 DEF Finish
  <2> HIDE DEF m
  <2>4. PICK n : n = m
    OBVIOUS
  <2>5. RunSound(n)'
    BY <1>1, <1>2, <2>1, <2>2, <2>4 DEF RunSound, Grow
  <2>6. MemoryOk(n)' /\ n.at \notin Claiming /\ n.alone = request[p].alone
    BY <2>1, <2>4, <2>5 DEF MemoryOk, Claiming
  <2>7. request' = [request EXCEPT ![p] = n]
    BY <2>3, <2>4
  <2> QED
    BY <2>6, <2>7, RequestMoves
<1>4. CASE ~Repairs(p, r)
  <2> DEFINE gone == request[p].lost \/ lost
             again == request[p].again
  <2>1. gone \in BOOLEAN /\ again \in BOOLEAN
    BY <1>1 DEF Running
  <2>2. PICK a : a = Answered(r)
    OBVIOUS
  <2>3. Reports(a, r)
    BY <1>2, <2>2, AnsweredFacts
  <2>4. request' = [request EXCEPT ![p] = [at |-> "answered", alone |-> request[p].alone, lost |-> gone,
                                           again |-> again, answer |-> a]]
    BY <1>4, <2>2 DEF Finish
  <2>5. ResultSound(r, request[p].alone /\ ~gone /\ ~again, row', move')
    OBVIOUS
  <2>6. PICK g \in BOOLEAN, w \in BOOLEAN : g = gone /\ w = again
    BY <2>1
  <2>7. request[p].alone => ResultSound(r, ~g /\ ~w, row', move')
    BY <2>5, <2>6 DEF ResultSound
  <2>8. AnswerTyped(a) /\ (a.retryable => ~a.review)
    BY <2>3 DEF Reports
  <2>9. request[p].alone => AnswerSound(a, ~g /\ ~w, row', move')
    BY <2>3, <2>7, AnswerOfSound
  <2>10. request' = [request EXCEPT ![p] = [at |-> "answered", alone |-> request[p].alone, lost |-> g,
                                            again |-> w, answer |-> a]]
    BY <2>4, <2>6
  <2> QED
    BY <2>8, <2>9, <2>10, RequestTold
<1> QED
  BY <1>3, <1>4
-----------------------------------------------------------------------------
(* What the marks write.                                                   *)

LEMMA RowUnknownFacts ==
  ASSUME row \in SpendRow, NEW d \in Diagnostics \cup {NoValue}
  PROVE  LET y == RowUnknown(d) IN
         /\ y \in SpendRow /\ y.hash = row.hash /\ y.outcome = row.outcome
         /\ row.status \in RowOpen => y.diag = d
         /\ row.status \in RowOpen => y.status \in RowOpen
BY NoValueAssumption DEF RowUnknown, Saved, SpendRow, RowStatuses, RowOpen

LEMMA RowFailedFacts ==
  ASSUME row \in SpendRow, NEW d \in Diagnostics \cup {NoValue}
  PROVE  LET y == RowFailed("no_movement", d) IN
         /\ y \in SpendRow /\ y.hash = row.hash /\ y.outcome \in {row.outcome, "no_movement"}
         /\ row.status \in RowOpen /\ row.hash # NoValue => y.diag = d
BY NoValueAssumption DEF RowFailed, Saved, SpendRow, RowStatuses, RowOpen, MoveOutcomes

LEMMA RowPreflightFailedFacts ==
  ASSUME row \in SpendRow, NEW d \in Diagnostics \cup {NoValue}
  PROVE  LET y == RowPreflightFailed(d) IN
         /\ y \in SpendRow /\ y.hash = row.hash
         /\ row.hash = NoValue => y.outcome = "no_movement"
         /\ row.hash # NoValue => y = row
BY NoValueAssumption DEF RowPreflightFailed, Saved, SpendRow, RowStatuses, RowOpen, MoveOutcomes

LEMMA RowRecordFacts ==
  ASSUME row \in SpendRow, NEW y \in {RowConfirmed, RowProjectionError, RowProjected}
  PROVE  y \in SpendRow /\ y.hash = row.hash /\ y.outcome \in {row.outcome, "confirmed"}
BY NoValueAssumption, ZenonT(40)
   DEF RowConfirmed, RowProjectionError, RowProjected, Saved, SpendRow, RowStatuses, RowOpen, MoveOutcomes

LEMMA RowClaimedFacts ==
  ASSUME row \in SpendRow \cup {NoValue}, row = NoValue \/ RowReclaimable
  PROVE  LET y == RowClaimed IN
         y \in SpendRow /\ y # NoValue /\ y.hash = NoValue /\ y.status = "submitting" /\ y.outcome = "unknown"
<1>1. RowClaimed \in SpendRow
  BY DEF RowClaimed, RowReclaimable, SpendRow, RowStatuses, RowOpen, MoveOutcomes
<1>2. RowClaimed.hash = NoValue /\ RowClaimed.status = "submitting" /\ RowClaimed.outcome = "unknown"
  BY DEF RowClaimed, RowReclaimable, SpendRow
<1> QED
  BY <1>1, <1>2, NoValueAssumption

LEMMA LeftTyped ==
  ASSUME RowTyped, Failing(0) \/ Failing(1) \/ Failing(2) \/ Working
  PROVE  left' \in [failures: 0 .. MaxFailures, starts: 0 .. MaxStarts]
BY AnswersAssumption DEF RowTyped, Failing, Working

\* The row and the chain are as they were, or were written soundly.
LEMMA StillTyped ==
  ASSUME RowTyped, UNCHANGED chain, row' \in SpendRow \cup {NoValue},
         Failing(0) \/ Failing(1) \/ Failing(2) \/ Working
  PROVE  RowTyped'
BY LeftTyped DEF RowTyped, chain

\* The request's own memory.
LEMMA OwnRun ==
  ASSUME SInv, NEW p \in Requests, request[p].at \in Points
  PROVE  /\ request[p] \in Running /\ RunSound(request[p])
         /\ row \in SpendRow \cup {NoValue}
         /\ row \in SpendRow => row # NoValue
         /\ row # NoValue => row \in SpendRow
         /\ "transfer" # NoValue
BY MemoryKinds, NoValueAssumption DEF SInv, RowTyped, TxNames

\* Where the chain rests and the row is not written.
LEMMA FinishedQuietly ==
  ASSUME SInv, NEW p \in Requests, request[p].at \in Points,
         NEW r, NEW lost \in BOOLEAN, Finish(p, r, lost), UNCHANGED <<chain, row>>,
         ResultSound(r, request[p].alone /\ ~(request[p].lost \/ lost) /\ ~request[p].again, row, move),
         Failing(0) \/ Failing(1) \/ Failing(2) \/ Working
  PROVE  SInv'
<1>1. row' = row /\ move' = move
  BY DEF chain
<1>2. RowTyped'
  BY <1>1, StillTyped DEF SInv, RowTyped
<1>3. RowSound(row', move') /\ Grow
  BY <1>1 DEF SInv, Grow, HasHash
<1>4. ResultSound(r, request[p].alone /\ ~(request[p].lost \/ lost) /\ ~request[p].again, row', move')
  BY <1>1
<1> QED
  BY <1>1, <1>2, <1>3, <1>4, Finished

\* Results that tell what the saved row says.
LEMMA RowsWord ==
  ASSUME row \in SpendRow, RowSound(row, move)
  PROVE  \A r \in Results : \A quiet :
           /\ r.outcome \in {row.outcome, "no_movement"} /\ r.tx = row.hash
           /\ r.outcome = "no_movement" => row.outcome = "no_movement"
           /\ r.diag \in {row.diag, NoValue} /\ r.words \cap PromiseWords = {} /\ r.preflight = FALSE
           => ResultSound(r, quiet, row, move)
<1>1. SentAs(move) => row.hash = "transfer" /\ row.outcome # "no_movement"
  BY NoValueAssumption DEF SentAs, RowSound, SpendRow
<1> QED
  BY <1>1 DEF ResultSound
-----------------------------------------------------------------------------
(* The requests' steps.                                                    *)

LEMMA ErrorAnswerFacts ==
  ASSUME NEW words \in {{}, {"network"}, {"network", "http_5xx"}}
  PROVE  LET r == [NoResult EXCEPT !.words = words] IN
         /\ r \in Results /\ Reports(ErrorAnswer(words), r) /\ words \cap PromiseWords = {}
         /\ r.outcome = NoValue /\ r.diag = NoValue /\ r.words = words /\ r.preflight = FALSE
<1> DEFINE r == [NoResult EXCEPT !.words = words]
           fallback == [stage |-> "recovery", outcome |-> NoValue, retryable |-> "network" \in words, review |-> FALSE]
           f == FailureFields(r, fallback)
           a == ErrorAnswer(words)
<1>1. words \in SUBSET Words /\ words \cap PromiseWords = {}
  BY DEF PromiseWords, Words
<1>2. r \in Results /\ r.outcome = NoValue /\ r.diag = NoValue /\ r.words = words /\ r.preflight = FALSE
      /\ r.review = NoValue /\ r.tx = NoValue
  BY <1>1, NoResultTyped DEF NoResult, Results
<1>3. /\ fallback.stage \in Stages /\ fallback.outcome \in MoveOutcomes \cup {NoValue}
      /\ fallback.retryable \in BOOLEAN
  BY DEF Stages
<1>4. /\ r.tx \in Names /\ r.diag \in Diagnostics \cup {NoValue} /\ r.funding \in {"funding", NoValue}
      /\ r.outcome \in MoveOutcomes \cup {NoValue} /\ r.retryable \in Said
      /\ r.stage \in Stages \cup {"preparation", "funding", "approval", NoValue}
  BY <1>2 DEF Results
<1> HIDE DEF fallback, r
<1>5. /\ f.stage \in Stages /\ f.outcome \in MoveOutcomes /\ f.tx \in Names
      /\ f.funding \in {"funding", NoValue} /\ f.review \in BOOLEAN /\ f.retryable \in BOOLEAN
      /\ f.retryable => ~f.review
      /\ f.saved # NoValue => r.diag # NoValue
  BY <1>3, <1>4, FieldsFacts
<1> HIDE DEF f
<1>6. /\ a.stage = f.stage /\ a.outcome = f.outcome /\ a.tx = f.tx /\ a.funding = f.funding /\ a.saved = f.saved
      /\ a.retryable = f.retryable /\ a.review = f.review /\ a.code = f.code
      /\ a.pending = f.retryable /\ a.stated = FALSE /\ a.text = SpendText(words)
      /\ a.http \in {200, 202, 400, 409, 500, 503}
  BY DEF ErrorAnswer, AnswerOf, f, fallback, r
<1> HIDE DEF a
<1>7. AnswerTyped(a)
  BY <1>5, <1>6 DEF AnswerTyped
<1>8. a.text \notin Promises
  BY <1>1, <1>6, SpendTextFacts
<1>9. a.saved = NoValue /\ (a.retryable => ~a.review) /\ ~a.stated
  BY <1>2, <1>5, <1>6
<1>10. r.review # TRUE
  BY <1>2, NoValueAssumption
<1>11. Reports(a, r)
  BY <1>2, <1>7, <1>8, <1>9, <1>10 DEF Reports
<1> QED
  BY <1>1, <1>2, <1>11 DEF a, r

LEMMA RouteFailsSound ==
  ASSUME SInv, NEW p \in Requests, RouteFails(p)
  PROVE  SInv'
<1>1. request[p].at \in Points /\ UNCHANGED <<chain, row>> /\ Failing(1)
  BY DEF RouteFails, At, Points
<1>2. row' = row /\ move' = move /\ RowTyped'
  BY <1>1, StillTyped DEF SInv, RowTyped, chain
<1>3. PICK words \in {{}, {"network"}, {"network", "http_5xx"}} : Told(p, ErrorAnswer(words))
  BY DEF RouteFails
<1> DEFINE r == [NoResult EXCEPT !.words = words]
<1>4. /\ r \in Results /\ Reports(ErrorAnswer(words), r) /\ words \cap PromiseWords = {}
      /\ r.outcome = NoValue /\ r.diag = NoValue /\ r.words = words /\ r.preflight = FALSE
  BY ErrorAnswerFacts
<1> HIDE DEF r
<1>5. ResultSound(r, ~request[p].lost /\ ~request[p].again, row', move')
  BY <1>4, NoValueAssumption DEF ResultSound, MoveOutcomes
<1>6. PICK a : a = ErrorAnswer(words)
  OBVIOUS
<1>7. AnswerSound(a, ~request[p].lost /\ ~request[p].again, row', move') /\ AnswerTyped(a) /\ (a.retryable => ~a.review)
  BY <1>4, <1>5, <1>6, AnswerOfSound
<1>8. request' = [request EXCEPT ![p] = [at |-> "answered", alone |-> request[p].alone, lost |-> request[p].lost,
                                         again |-> request[p].again, answer |-> a]]
  BY <1>3, <1>6 DEF Told
<1>9. request[p].lost \in BOOLEAN /\ request[p].again \in BOOLEAN
  BY <1>1, OwnRun DEF Running
<1>10. RowSound(row', move') /\ Grow
  BY <1>2 DEF SInv, Grow, HasHash
<1> QED
  BY <1>1, <1>2, <1>7, <1>8, <1>9, <1>10, RequestTold
\* A result that names no outcome is sound.
LEMMA WordsSound ==
  ASSUME NEW words \in SUBSET Words, words \cap PromiseWords = {}
  PROVE  \A quiet, y, mv : ResultSound([NoResult EXCEPT !.words = words], quiet, y, mv)
<1>1. NoResult.outcome = NoValue /\ NoResult.diag = NoValue /\ NoResult.preflight = FALSE
  BY DEF NoResult
<1>2. \A n \in Results : LET r == [n EXCEPT !.words = words] IN
        /\ r \in Results /\ r.outcome = n.outcome /\ r.diag = n.diag /\ r.preflight = n.preflight
        /\ r.words = words
  BY DEF Results
<1> DEFINE r == [NoResult EXCEPT !.words = words]
<1>3. r \in Results /\ r.outcome = NoValue /\ r.diag = NoValue /\ r.preflight = FALSE /\ r.words = words
  BY <1>1, <1>2, NoResultTyped
<1> HIDE DEF r
<1>4. \A quiet, y, mv : ResultSound(r, quiet, y, mv)
  BY <1>3, NoValueAssumption DEF ResultSound, MoveOutcomes
<1> QED
  BY <1>4 DEF r

LEMMA NoResultSound == \A quiet, y, mv : ResultSound(NoResult, quiet, y, mv)
<1>1. NoResult.outcome = NoValue /\ NoResult.diag = NoValue /\ NoResult.preflight = FALSE /\ NoResult.words = {}
  BY DEF NoResult
<1> QED
  BY <1>1, NoResultTyped, NoValueAssumption DEF ResultSound, MoveOutcomes

\* So is one that asks for a review.
LEMMA ReviewedSound ==
  ASSUME NEW r \in Results, r.review = TRUE, r.words \cap PromiseWords = {},
         r.diag = NoValue \/ r.diag.saved = NoValue, r.preflight = FALSE \/ r.eligible = FALSE,
         NEW quiet, NEW y, NEW mv
  PROVE  ResultSound(r, quiet, y, mv)
BY NoValueAssumption DEF ResultSound, TxNames

\* So is any that is given before anything is sent.
LEMMA UnsentSound ==
  ASSUME NEW r \in Results, NEW mv, ~SentAs(mv), NEW y,
         r.diag = NoValue \/ r.diag.saved = NoValue,
         r.eligible = FALSE \/ (y # NoValue /\ y.hash = NoValue),
         NEW quiet
  PROVE  ResultSound(r, quiet, y, mv)
BY NoValueAssumption DEF ResultSound, TxNames

LEMMA RowPendingSound ==
  ASSUME SInv, row # NoValue, NEW d \in {row.diag, NoValue}, NEW words \in SUBSET Words, words \cap PromiseWords = {},
         NEW quiet
  PROVE  ResultSound(PendingResult(row.status, row.hash, TRUE, row.outcome, d, words), quiet, row, move)
<1>1. row \in SpendRow /\ RowSound(row, move)
  BY DEF SInv, RowTyped
<1>2. /\ row.status \in RowStatuses \cup {NoValue} /\ row.hash \in Names
      /\ row.outcome \in MoveOutcomes \cup {NoValue} /\ d \in Diagnostics \cup {NoValue} /\ TRUE \in Said
  BY <1>1 DEF SpendRow, Names, TxNames, Said
<1>3. PICK status \in RowStatuses \cup {NoValue}, hash \in Names, outcome \in MoveOutcomes \cup {NoValue},
           diag \in Diagnostics \cup {NoValue}, yes \in Said :
        status = row.status /\ hash = row.hash /\ outcome = row.outcome /\ diag = d /\ yes = TRUE
  BY <1>2
<1> DEFINE r == PendingResult(status, hash, yes, outcome, diag, words)
<1>4. Shape(r, hash, yes, outcome, diag, words, FALSE)
  BY PendingTyped
<1> HIDE DEF r
<1>5. ResultSound(r, quiet, row, move)
  BY <1>1, <1>3, <1>4, RowsWord DEF Shape
<1> QED
  BY <1>3, <1>5 DEF r

LEMMA RowFailedSound ==
  ASSUME SInv, row # NoValue, row.outcome = "no_movement", NEW d \in {row.diag, NoValue}, NEW quiet
  PROVE  ResultSound(FailedResult(row.hash, d), quiet, row, move)
<1>1. row \in SpendRow /\ RowSound(row, move)
  BY DEF SInv, RowTyped
<1>2. row.hash \in Names /\ d \in Diagnostics \cup {NoValue}
  BY <1>1 DEF SpendRow, Names, TxNames
<1>3. PICK hash \in Names, diag \in Diagnostics \cup {NoValue} : hash = row.hash /\ diag = d
  BY <1>2
<1> DEFINE r == FailedResult(hash, diag)
<1>4. Shape(r, hash, FALSE, "no_movement", diag, {}, FALSE)
  BY FailedTyped
<1> HIDE DEF r
<1>5. ResultSound(r, quiet, row, move)
  BY <1>1, <1>3, <1>4, RowsWord DEF Shape
<1> QED
  BY <1>3, <1>5 DEF r

LEMMA ContextUnavailableSound ==
  ASSUME SInv, NEW seen \in {row, NoValue}, NEW quiet
  PROVE  ResultSound(ContextUnavailable(seen), quiet, row, move)
<1>1. {"asset_context"} \in SUBSET Words /\ {"asset_context"} \cap PromiseWords = {}
  BY DEF Words, PromiseWords
<1>2. CASE seen = NoValue
  BY <1>1, <1>2, WordsSound DEF ContextUnavailable
<1>3. CASE seen # NoValue
  <2>1. seen = row /\ row # NoValue
    BY <1>3
  <2>2. PICK none \in {row.diag, NoValue}, words \in SUBSET Words : none = NoValue /\ words = {"asset_context"}
    BY <1>1
  <2>3. ResultSound(PendingResult(row.status, row.hash, TRUE, row.outcome, none, words), quiet, row, move)
    BY <1>1, <2>1, <2>2, RowPendingSound
  <2>4. row.outcome = "no_movement" => ResultSound(FailedResult(row.hash, none), quiet, row, move)
    BY <2>1, RowFailedSound
  <2> QED
    BY <1>3, <2>1, <2>2, <2>3, <2>4 DEF ContextUnavailable
<1> QED
  BY <1>2, <1>3

LEMMA ContextFailsSound ==
  ASSUME SInv, NEW p \in Requests, ContextFails(p)
  PROVE  SInv'
<1>1. request[p].at \in Points /\ UNCHANGED <<chain, row>>
  BY DEF ContextFails, At, Points
<1>2. PICK seen \in {row, NoValue} : Finish(p, ContextUnavailable(seen), FALSE) /\ (Failing(1) \/ Failing(2))
  BY DEF ContextFails
<1>3. PICK r : r = ContextUnavailable(seen)
  OBVIOUS
<1>4. ResultSound(r, request[p].alone /\ ~(request[p].lost \/ FALSE) /\ ~request[p].again, row, move)
  BY <1>3, ContextUnavailableSound
<1>5. Finish(p, r, FALSE)
  BY <1>2, <1>3
<1> QED
  BY <1>1, <1>2, <1>4, <1>5, FinishedQuietly
\* A request that ends with a sound result where nothing is written.
LEMMA QuietlySound ==
  ASSUME SInv, NEW p \in Requests, request[p].at \in Points, NEW r, Finish(p, r, FALSE), UNCHANGED <<chain, row>>,
         \A quiet : ResultSound(r, quiet, row, move),
         Failing(0) \/ Failing(1) \/ Failing(2) \/ Working
  PROVE  SInv'
<1>1. ResultSound(r, request[p].alone /\ ~(request[p].lost \/ FALSE) /\ ~request[p].again, row, move)
  OBVIOUS
<1> QED
  BY <1>1, FinishedQuietly

LEMMA SettlementContextFailsSound ==
  ASSUME SInv, NEW p \in Requests, SettlementContextFails(p)
  PROVE  SInv'
<1> DEFINE diag == Diagnostic("preflight", "SETTLEMENT_CONTEXT_MISMATCH", FALSE, "review_required", NoValue)
           Told1(seen) == [PendingResult(seen.status, seen.hash, TRUE, seen.outcome, diag, {"context_mismatch"})
                             EXCEPT !.retryable = FALSE]
           Told0 == [PreflightResult(FALSE, "no_movement", diag, {"context_mismatch"})
                       EXCEPT !.pending = FALSE, !.review = TRUE]
           Unsaved(seen) == IF seen # NoValue THEN Told1(seen) ELSE Told0
<1>1. request[p].at \in Points /\ UNCHANGED <<chain, row>>
  BY DEF SettlementContextFails, At, Points
<1>2. PICK seen \in {row, NoValue} : Finish(p, Unsaved(seen), FALSE) /\ (Failing(1) \/ Failing(2))
  BY DEF SettlementContextFails
<1>3. PICK d \in Diagnostics \cup {NoValue} : d = diag /\ d.saved = NoValue
  <2>1. diag \in Diagnostics
    BY DEF Diagnostic, Diagnostics, Stages, Codes, Categories
  <2>2. diag.saved = NoValue
    BY DEF Diagnostic
  <2> QED
    BY <2>1, <2>2
<1>4. PICK words \in SUBSET Words : words = {"context_mismatch"} /\ words \cap PromiseWords = {}
  <2>1. {"context_mismatch"} \in SUBSET Words /\ {"context_mismatch"} \cap PromiseWords = {}
    BY DEF Words, PromiseWords
  <2> QED
    BY <2>1
<1>5. CASE seen # NoValue
  <2>1. seen = row /\ row \in SpendRow
    BY <1>5 DEF SInv, RowTyped
  <2>2. PICK status \in RowStatuses \cup {NoValue}, hash \in Names, outcome \in MoveOutcomes \cup {NoValue}, yes \in Said :
          status = row.status /\ hash = row.hash /\ outcome = row.outcome /\ yes = TRUE
    BY <2>1 DEF SpendRow, Names, TxNames, Said
  <2>3. PICK g : g = PendingResult(status, hash, yes, outcome, d, words)
    OBVIOUS
  <2>4. Shape(g, hash, yes, outcome, d, words, FALSE)
    BY <2>3, PendingTyped
  <2>5. PICK r : r = [g EXCEPT !.retryable = FALSE]
    OBVIOUS
  <2>6. r \in Results /\ r.review = TRUE /\ r.words = words /\ r.diag = d /\ r.preflight = FALSE
    BY <2>2, <2>4, <2>5 DEF Shape, Results, Said
  <2>7. \A quiet : ResultSound(r, quiet, row, move)
    BY <1>3, <1>4, <2>6, ReviewedSound
  <2>8. Finish(p, r, FALSE)
    BY <1>2, <1>3, <1>4, <1>5, <2>1, <2>2, <2>3, <2>5
  <2> QED
    BY <1>1, <1>2, <2>7, <2>8, QuietlySound
<1>6. CASE seen = NoValue
  <2>1. PICK no \in BOOLEAN, none \in MoveOutcomes : no = FALSE /\ none = "no_movement"
    BY DEF MoveOutcomes
  <2>2. PICK g : g = PreflightResult(no, none, d, words)
    OBVIOUS
  <2>3. Shape(g, NoValue, NoValue, none, d, words, TRUE) /\ g.eligible = no
    BY <2>2, PreflightTyped
  <2>4. PICK r : r = [g EXCEPT !.pending = FALSE, !.review = TRUE]
    OBVIOUS
  <2>5. r \in Results /\ r.review = TRUE /\ r.words = words /\ r.diag = d /\ r.eligible = FALSE
    BY <2>1, <2>3, <2>4 DEF Shape, Results, Said
  <2>6. \A quiet : ResultSound(r, quiet, row, move)
    BY <1>3, <1>4, <2>5, ReviewedSound
  <2>7. Finish(p, r, FALSE)
    BY <1>2, <1>3, <1>4, <1>6, <2>1, <2>2, <2>4
  <2> QED
    BY <1>1, <1>2, <2>6, <2>7, QuietlySound
<1> QED
  BY <1>5, <1>6

LEMMA IntentDiffersSound ==
  ASSUME SInv, NEW p \in Requests, IntentDiffers(p)
  PROVE  SInv'
<1>1. request[p].at \in Points /\ UNCHANGED <<chain, row>> /\ row \in SpendRow
  BY DEF IntentDiffers, At, Points, SInv, RowTyped
<1>2. PICK words \in SUBSET Words : words = {"intent_mismatch"} /\ words \cap PromiseWords = {}
  <2>1. {"intent_mismatch"} \in SUBSET Words /\ {"intent_mismatch"} \cap PromiseWords = {}
    BY DEF Words, PromiseWords
  <2> QED
    BY <2>1
<1> DEFINE r(n) == [n EXCEPT !.tx = row.hash, !.status = row.status, !.review = TRUE, !.outcome = row.outcome,
                             !.words = words]
<1>3. CASE Failing(1) /\ Finish(p, r(NoResult), FALSE)
  <2>1. NoResult.diag = NoValue /\ NoResult.preflight = FALSE
    BY DEF NoResult
  <2>2. row.hash \in Names /\ row.status \in RowStatuses /\ row.outcome \in MoveOutcomes
    BY <1>1 DEF SpendRow, Names, TxNames
  <2>3. \A n \in Results : r(n) \in Results
    BY <2>2, ZenonT(40) DEF Results, Said
  <2>4. \A n \in Results : r(n).review = TRUE /\ r(n).words = words /\ r(n).diag = n.diag /\ r(n).preflight = n.preflight
    BY DEF Results
  <2>5. PICK g : g = r(NoResult)
    OBVIOUS
  <2>6. g \in Results /\ g.review = TRUE /\ g.words = words /\ g.diag = NoValue /\ g.preflight = FALSE
    BY <2>1, <2>3, <2>4, <2>5, NoResultTyped
  <2>7. \A quiet : ResultSound(g, quiet, row, move)
    BY <1>2, <2>6, ReviewedSound
  <2>8. Finish(p, g, FALSE)
    BY <1>3, <2>5
  <2> QED
    BY <1>1, <1>3, <2>7, <2>8, QuietlySound
<1>4. CASE Working /\ Finish(p, [NoResult EXCEPT !.words = words], FALSE)
  <2>1. PICK g : g = [NoResult EXCEPT !.words = words]
    OBVIOUS
  <2>2. \A quiet : ResultSound(g, quiet, row, move)
    BY <1>2, <2>1, WordsSound
  <2>3. Finish(p, g, FALSE)
    BY <1>4, <2>1
  <2> QED
    BY <1>1, <1>4, <2>2, <2>3, QuietlySound
<1> HIDE DEF r
<1> QED
  BY <1>2, <1>3, <1>4 DEF IntentDiffers, r

LEMMA ClaimWritten ==
  ASSUME SInv, row = NoValue \/ RowReclaimable, row' \in {row, RowClaimed}, UNCHANGED chain, Failing(1) \/ Working
  PROVE  RowTyped' /\ RowSound(row', move') /\ Grow
<1>1. RowClaimed \in SpendRow /\ RowClaimed # NoValue /\ RowClaimed.hash = NoValue
  BY RowClaimedFacts DEF SInv, RowTyped
<1>2. move = "none" /\ ~HasHash /\ move' = move
  BY NoValueAssumption DEF SInv, RowSound, RowReclaimable, HasHash, TxNames, chain
<1>3. row' \in SpendRow \cup {NoValue} /\ (row' = NoValue \/ row'.hash = NoValue)
  BY <1>1 DEF SInv, RowTyped, RowReclaimable
<1>4. RowTyped'
  BY <1>3, StillTyped DEF SInv
<1> QED
  BY <1>2, <1>3, <1>4 DEF RowSound, Grow

LEMMA AssetChangedSound ==
  ASSUME SInv, NEW p \in Requests, AssetChanged(p)
  PROVE  SInv'
<1>1. request[p].at \in Points /\ UNCHANGED chain /\ row \in SpendRow /\ row # NoValue /\ Failing(1)
  BY DEF AssetChanged, At, Points, SInv, RowTyped
<1>2. PICK words \in SUBSET Words : words = {"asset_context"} /\ words \cap PromiseWords = {}
  <2>1. {"asset_context"} \in SUBSET Words /\ {"asset_context"} \cap PromiseWords = {}
    BY DEF Words, PromiseWords
  <2> QED
    BY <2>1
<1>3. row' \in SpendRow /\ row' # NoValue /\ row' = IF RowReclaimable THEN RowClaimed ELSE row
  BY <1>1, RowClaimedFacts DEF AssetChanged
<1>4. PICK status \in RowStatuses \cup {NoValue}, hash \in Names, outcome \in MoveOutcomes \cup {NoValue}, yes \in Said,
           none \in Diagnostics \cup {NoValue} :
        status = row'.status /\ hash = row'.hash /\ outcome = row'.outcome /\ yes = TRUE /\ none = NoValue
  BY <1>3 DEF SpendRow, Names, TxNames, Said
<1>5. PICK r : r = PendingResult(status, hash, yes, outcome, none, words)
  OBVIOUS
<1>6. Shape(r, hash, yes, outcome, none, words, FALSE)
  BY <1>5, PendingTyped
<1>7. Finish(p, r, FALSE)
  BY <1>2, <1>4, <1>5 DEF AssetChanged
<1>8. ResultSound(r, request[p].alone /\ ~(request[p].lost \/ FALSE) /\ ~request[p].again, row', move')
  <2>1. \A quiet, y, mv : ResultSound(r, quiet, y, mv)
    BY <1>2, <1>4, <1>6, ReviewedSound DEF Shape
  <2> QED
    BY <2>1
<1>9. RowTyped' /\ RowSound(row', move') /\ Grow
  <2>1. CASE RowReclaimable
    BY <1>1, <1>3, <2>1, ClaimWritten
  <2>2. CASE ~RowReclaimable
    <3>1. row' = row /\ move' = move
      BY <1>1, <1>3, <2>2 DEF chain
    <3> QED
      BY <1>1, <3>1, StillTyped DEF SInv, Grow, HasHash, RowTyped
  <2> QED
    BY <2>1, <2>2
<1>10. (UNCHANGED row \/ RowReclaimable) /\ UNCHANGED move
  BY <1>1, <1>3 DEF chain
<1> QED
  BY <1>1, <1>7, <1>8, <1>9, <1>10, Finished

\* A request goes on, with the point, the status and the outcome it read.
LEMMA RequestGoesOn ==
  ASSUME SInv, NEW p \in Requests, request[p].at \in Points, NEW n \in Running,
         request' = [request EXCEPT ![p] = n], RunSound(n)', n.alone = request[p].alone,
         n.at \in Claiming => request[p].at \in Claiming \/ row = NoValue \/ RowReclaimable,
         RowTyped', RowSound(row', move'), Grow,
         UNCHANGED row \/ request[p].at \in Claiming \/ row = NoValue \/ RowReclaimable \/ HasHash,
         UNCHANGED move \/ request[p].at \in Claiming
  PROVE  SInv'
<1>1. MemoryOk(n)'
  BY DEF MemoryOk
<1> QED
  BY <1>1, RequestMoves

LEMMA AcquireSound ==
  ASSUME SInv, NEW p \in Requests, Acquire(p)
  PROVE  SInv'
<1>1. /\ request[p].at \in Points /\ request[p].at = "claim" /\ UNCHANGED chain /\ (row = NoValue \/ RowReclaimable)
      /\ row' \in {row, RowClaimed} /\ (Failing(1) \/ Working)
  BY DEF Acquire, At, Points
<1>2. RowTyped' /\ RowSound(row', move') /\ Grow
  BY <1>1, ClaimWritten
<1>3. UNCHANGED move
  BY <1>1 DEF chain
<1>4. CASE row' = RowClaimed /\ Proceed(p, "check")
  <2>1. request[p] \in Running /\ RunSound(request[p])
    BY <1>1, OwnRun
  <2>2. PICK n : n = [request[p] EXCEPT !.at = "check"]
    OBVIOUS
  <2>3. n \in Running /\ n.at = "check" /\ n.alone = request[p].alone /\ n.outcome = request[p].outcome
    BY <2>1, <2>2 DEF Running, Points, Claiming
  <2>4. request' = [request EXCEPT ![p] = n]
    BY <1>4, <2>2 DEF Proceed
  <2>5. row' # NoValue /\ row'.hash = NoValue /\ row'.status = "submitting" /\ row'.outcome = "unknown"
    BY <1>1, <1>4, RowClaimedFacts DEF SInv, RowTyped
  <2>6. RunSound(n)'
    BY <1>3, <2>1, <2>3, <2>5 DEF RunSound
  <2> QED
    BY <1>1, <1>2, <1>3, <2>3, <2>4, <2>6, RequestGoesOn
<1>5. CASE Finish(p, NoResult, FALSE)
  <2>1. PICK r : r = NoResult
    OBVIOUS
  <2>2. ResultSound(r, request[p].alone /\ ~(request[p].lost \/ FALSE) /\ ~request[p].again, row', move')
    BY <2>1, NoResultSound
  <2>3. Finish(p, r, FALSE)
    BY <1>5, <2>1
  <2> QED
    BY <1>1, <1>2, <1>3, <2>2, <2>3, Finished
<1> QED
  BY <1>4, <1>5 DEF Acquire

LEMMA ReplaySound ==
  ASSUME SInv, NEW p \in Requests, Replay(p)
  PROVE  SInv'
<1>1. /\ request[p].at \in Points /\ request[p].at = "claim" /\ UNCHANGED <<chain, row>> /\ Working
      /\ row \in SpendRow /\ row # NoValue
  BY DEF Replay, At, Points, SInv, RowTyped
<1>2. request[p] \in Running /\ RunSound(request[p])
  BY <1>1, OwnRun
<1>3. row' = row /\ move' = move /\ RowTyped'
  BY <1>1, StillTyped DEF SInv, RowTyped, chain
<1>4. RowSound(row', move') /\ Grow
  BY <1>3 DEF SInv, Grow, HasHash
<1>5. {} \in SUBSET Words /\ {} \cap PromiseWords = {}
  OBVIOUS
<1>6. ASSUME row.status = "failed",
             Finish(p, IF row.outcome = "no_movement" THEN FailedResult(row.hash, row.diag)
                       ELSE PendingResult("failed", row.hash, TRUE, row.outcome, row.diag, {}), FALSE)
      PROVE  SInv'
  <2>1. PICK r : r = IF row.outcome = "no_movement" THEN FailedResult(row.hash, row.diag)
                     ELSE PendingResult(row.status, row.hash, TRUE, row.outcome, row.diag, {})
    OBVIOUS
  <2>2. PICK d \in {row.diag, NoValue} : d = row.diag
    OBVIOUS
  <2>3. \A quiet : ResultSound(r, quiet, row, move)
    BY <1>1, <1>5, <2>1, <2>2, RowFailedSound, RowPendingSound
  <2>4. Finish(p, r, FALSE)
    BY <1>6, <2>1
  <2> QED
    BY <1>1, <2>3, <2>4, QuietlySound
<1>7. ASSUME Proceed(p, "receipt")
      PROVE  SInv'
  <2>1. PICK n : n = [request[p] EXCEPT !.at = "receipt"]
    OBVIOUS
  <2>2. n \in Running /\ n.at = "receipt" /\ n.alone = request[p].alone /\ n.outcome = request[p].outcome
    BY <1>2, <2>1 DEF Running, Points, Claiming
  <2>3. RunSound(n)'
    BY <1>2, <1>3, <2>2 DEF RunSound
  <2>4. request' = [request EXCEPT ![p] = n] /\ n.at \notin Claiming
    BY <1>7, <2>1, <2>2 DEF Proceed, Claiming
  <2> QED
    BY <1>1, <1>3, <1>4, <2>2, <2>3, <2>4, RequestGoesOn
<1>8. ASSUME row.hash = NoValue, Finish(p, PendingResult(row.status, NoValue, TRUE, row.outcome, row.diag, {}), FALSE)
      PROVE  SInv'
  <2>1. PICK r : r = PendingResult(row.status, row.hash, TRUE, row.outcome, row.diag, {})
    OBVIOUS
  <2>2. PICK d \in {row.diag, NoValue} : d = row.diag
    OBVIOUS
  <2>3. \A quiet : ResultSound(r, quiet, row, move)
    BY <1>1, <1>5, <2>1, <2>2, RowPendingSound
  <2>4. Finish(p, r, FALSE)
    BY <1>8, <2>1
  <2> QED
    BY <1>1, <2>3, <2>4, QuietlySound
<1>9. HasHash \/ row.hash = NoValue
  BY <1>1 DEF HasHash, SpendRow
<1>10. row.outcome = "no_movement" /\ row.hash # NoValue => move = "reverted"
  BY <1>1 DEF SInv, RowSound
<1>11. ASSUME row.status \in {"submitted", "unknown"}, row.hash # NoValue,
              request' = [request EXCEPT ![p] = [@ EXCEPT !.at = "verify", !.status = row.status, !.outcome = row.outcome]]
       PROVE  SInv'
  <2>1. PICK status \in RowStatuses \cup {NoValue}, outcome \in MoveOutcomes : status = row.status /\ outcome = row.outcome
    BY <1>1 DEF SpendRow
  <2>2. PICK n : n = [request[p] EXCEPT !.at = "verify", !.status = status, !.outcome = outcome]
    OBVIOUS
  <2>3. n \in Running /\ n.at = "verify" /\ n.alone = request[p].alone /\ n.outcome = outcome /\ n.status = status
    BY <1>2, <2>2 DEF Running, Points, Claiming
  <2>4. status # NoValue /\ row.status \in RowOpen /\ HasHash'
    BY <1>3, <1>9, <1>11, <2>1, NoValueAssumption DEF RowOpen, RowStatuses, HasHash
  <2>5. outcome = "no_movement" => move' = "reverted"
    BY <1>3, <1>10, <1>11, <2>1
  <2>6. RunSound(n)'
    BY <1>3, <2>3, <2>4, <2>5 DEF RunSound
  <2>7. request' = [request EXCEPT ![p] = n] /\ n.at \notin Claiming
    BY <1>11, <2>1, <2>2, <2>3 DEF Claiming
  <2> QED
    BY <1>1, <1>3, <1>4, <2>3, <2>6, <2>7, RequestGoesOn
<1>12. ASSUME row.hash # NoValue,
              request' = [request EXCEPT ![p] = [@ EXCEPT !.at = "record", !.outcome = row.outcome]]
       PROVE  SInv'
  <2>1. PICK outcome \in MoveOutcomes : outcome = row.outcome
    BY <1>1 DEF SpendRow
  <2>2. PICK n : n = [request[p] EXCEPT !.at = "record", !.outcome = outcome]
    OBVIOUS
  <2>3. n \in Running /\ n.at = "record" /\ n.alone = request[p].alone /\ n.outcome = outcome
    BY <1>2, <2>2 DEF Running, Points, Claiming
  <2>4. HasHash'
    BY <1>3, <1>9, <1>12 DEF HasHash
  <2>5. outcome = "no_movement" => move' = "reverted"
    BY <1>3, <1>10, <1>12, <2>1
  <2>6. RunSound(n)'
    BY <1>3, <2>3, <2>4, <2>5 DEF RunSound
  <2>7. request' = [request EXCEPT ![p] = n] /\ n.at \notin Claiming
    BY <1>12, <2>1, <2>2, <2>3 DEF Claiming
  <2> QED
    BY <1>1, <1>3, <1>4, <2>3, <2>6, <2>7, RequestGoesOn
<1> QED
  BY <1>6, <1>7, <1>8, <1>11, <1>12 DEF Replay

\* Before the hash is saved every answer is sound.
LEMMA PreflightSound ==
  ASSUME SInv, NEW p \in Requests, request[p].at \in {"check", "prepare"}, UNCHANGED chain,
         NEW eligible \in BOOLEAN, NEW outcome \in MoveOutcomes, NEW d \in Diagnostics \cup {NoValue},
         NEW words \in SUBSET Words, NEW lost \in BOOLEAN,
         d = NoValue \/ d.saved = NoValue,
         row' \in SpendRow, RowSound(row', move'), eligible = FALSE \/ row'.hash = NoValue,
         Finish(p, PreflightResult(eligible, outcome, d, words), lost),
         Failing(0) \/ Failing(1) \/ Failing(2) \/ Working
  PROVE  SInv'
<1>1. request[p].at \in Points /\ request[p].at \in Claiming /\ request[p].at # "send"
  BY DEF Points, Claiming
<1>2. request[p] \in Running /\ RunSound(request[p])
  BY <1>1, OwnRun
<1>3. row.hash = NoValue /\ row # NoValue /\ move = "none" /\ move' = "none"
  BY <1>1, <1>2 DEF RunSound, Claiming, SInv, RowSound, chain
<1>4. Grow /\ RowTyped'
  BY <1>3, StillTyped, NoValueAssumption DEF Grow, HasHash, TxNames, SInv, RowTyped
<1>5. PICK r : r = PreflightResult(eligible, outcome, d, words)
  OBVIOUS
<1>6. Shape(r, NoValue, NoValue, outcome, d, words, TRUE) /\ r.eligible = eligible
  BY <1>5, PreflightTyped
<1>7. row' # NoValue
  BY NoValueAssumption
<1>8. ~SentAs(move')
  BY <1>3 DEF SentAs
<1>9. \A quiet : ResultSound(r, quiet, row', move')
  BY <1>6, <1>7, <1>8, UnsentSound DEF Shape
<1>10. Finish(p, r, lost)
  BY <1>5
<1>11. ResultSound(r, request[p].alone /\ ~(request[p].lost \/ lost) /\ ~request[p].again, row', move')
  BY <1>9
<1> QED
  BY <1>1, <1>4, <1>10, <1>11, Finished

LEMMA UnsentRowSound ==
  ASSUME SInv, NEW p \in Requests, request[p].at \in {"check", "prepare"},
         NEW d \in Diagnostics \cup {NoValue}, UNCHANGED chain, row' \in {row, RowPreflightFailed(d)}
  PROVE  /\ row' \in SpendRow /\ row'.hash = NoValue /\ RowSound(row', move')
         /\ row' = RowPreflightFailed(d) => row'.outcome = "no_movement"
<1>1. request[p].at \in Points
  BY DEF Points, Claiming
<1>2. row.hash = NoValue /\ row \in SpendRow /\ move' = "none"
  BY <1>1, OwnRun DEF RunSound, SInv, RowSound, RowTyped, chain
<1> QED
  BY <1>2, RowPreflightFailedFacts DEF RowSound

LEMMA OneMore == \A x \in {0, 1} : x + 1 \in {1, 2}
OBVIOUS

LEMMA FailPreflightSound ==
  ASSUME SInv, NEW p \in Requests, request[p].at = "check", UNCHANGED chain,
         NEW eligible \in BOOLEAN, NEW d \in Diagnostics \cup {NoValue}, d = NoValue \/ d.saved = NoValue,
         NEW words \in SUBSET Words, NEW broken \in {0, 1}, FailPreflight(p, eligible, d, words, broken)
  PROVE  SInv'
<1>1. row' \in {row, RowPreflightFailed(d)} /\ (Failing(0) \/ Failing(1) \/ Failing(2))
  <2>1. row' \in {row, RowPreflightFailed(d)} /\ (Failing(broken) \/ Failing(broken + 1))
    BY DEF FailPreflight
  <2>2. broken + 1 \in {1, 2}
    BY OneMore
  <2>3. PICK next \in {1, 2} : next = broken + 1
    BY <2>2
  <2> QED
    BY <2>1, <2>3
<1>2. /\ row' \in SpendRow /\ row'.hash = NoValue /\ RowSound(row', move')
      /\ row' = RowPreflightFailed(d) => row'.outcome = "no_movement"
  BY <1>1, UnsentRowSound
<1>3. PICK no \in MoveOutcomes, unknown \in MoveOutcomes : no = "no_movement" /\ unknown = "unknown"
  BY DEF MoveOutcomes
<1>4. CASE row' = RowPreflightFailed(d) /\ Finish(p, PreflightResult(eligible, RowPreflightFailed(d).outcome, d, words), FALSE)
  <2>1. Finish(p, PreflightResult(eligible, no, d, words), FALSE)
    BY <1>2, <1>3, <1>4
  <2> QED
    BY <1>1, <1>2, <2>1, PreflightSound
<1>5. CASE Finish(p, PreflightResult(eligible, "unknown", d, words), TRUE)
  <2>1. Finish(p, PreflightResult(eligible, unknown, d, words), TRUE)
    BY <1>3, <1>5
  <2> QED
    BY <1>1, <1>2, <2>1, PreflightSound
<1> QED
  BY <1>4, <1>5 DEF FailPreflight

LEMMA CheckSpendSound ==
  ASSUME SInv, NEW p \in Requests, CheckSpend(p)
  PROVE  SInv'
<1>1. request[p].at \in Points /\ request[p].at \in Claiming /\ request[p].at = "check" /\ UNCHANGED chain
  BY DEF CheckSpend, At, Points, Claiming
<1>2. request[p] \in Running /\ RunSound(request[p])
  BY <1>1, OwnRun
<1>3. CASE Proceed(p, "prepare") /\ Working /\ UNCHANGED row
  <2>1. PICK n : n = [request[p] EXCEPT !.at = "prepare"]
    OBVIOUS
  <2>2. n \in Running /\ n.at = "prepare" /\ n.alone = request[p].alone /\ n.outcome = request[p].outcome
    BY <1>2, <2>1 DEF Running, Points, Claiming
  <2>3. row' = row /\ move' = move
    BY <1>1, <1>3 DEF chain
  <2>4. RunSound(n)'
    BY <1>1, <1>2, <2>2, <2>3 DEF RunSound
  <2>5. request' = [request EXCEPT ![p] = n]
    BY <1>3, <2>1 DEF Proceed
  <2>6. RowTyped' /\ RowSound(row', move') /\ Grow
    BY <1>1, <1>3, <2>3, StillTyped DEF SInv, RowTyped, Grow, HasHash
  <2> QED
    BY <1>1, <2>2, <2>3, <2>4, <2>5, <2>6, RequestGoesOn
<1>4. PICK w1 \in SUBSET Words, w2 \in SUBSET Words, w3 \in SUBSET Words :
        w1 = {"allowance"} /\ w2 = {"balance"} /\ w3 = {"preflight_unavailable"}
  <2>1. {"allowance"} \in SUBSET Words /\ {"balance"} \in SUBSET Words /\ {"preflight_unavailable"} \in SUBSET Words
    BY DEF Words
  <2> QED
    BY <2>1
<1>5. PICK none \in Diagnostics \cup {NoValue}, d \in Diagnostics \cup {NoValue} :
        none = NoValue /\ d = Unreadable /\ d.saved = NoValue
  <2>1. Unreadable \in Diagnostics /\ Unreadable.saved = NoValue
    BY DEF Unreadable, Diagnostic, Diagnostics, Stages, Codes, Categories
  <2> QED
    BY <2>1
<1>6. PICK yes \in BOOLEAN, no \in BOOLEAN, zero \in {0, 1}, one \in {0, 1} : yes = TRUE /\ no = FALSE /\ zero = 0 /\ one = 1
  OBVIOUS
<1>7. CASE FailPreflight(p, yes, none, w1, zero)
  BY <1>1, <1>5, <1>7, FailPreflightSound
<1>8. CASE FailPreflight(p, yes, none, w2, zero)
  BY <1>1, <1>5, <1>8, FailPreflightSound
<1>9. CASE FailPreflight(p, no, d, w3, one)
  BY <1>1, <1>5, <1>9, FailPreflightSound
<1> QED
  BY <1>3, <1>4, <1>5, <1>6, <1>7, <1>8, <1>9 DEF CheckSpend

LEMMA PrepareDiagnosticFacts ==
  \A d \in PrepareDiagnostics \cup {PreparationFailed} : d \in Diagnostics /\ d.saved = NoValue
<1>1. /\ Diagnostic("asset_context", "PROVIDER_REQUIRED", TRUE, "rpc_unavailable", NoValue) \in Diagnostics
      /\ Diagnostic("prepare", "RPC_READ_UNAVAILABLE", TRUE, "rpc_unavailable", NoValue) \in Diagnostics
      /\ Diagnostic("prepare", "TRANSACTION_ESTIMATE_REJECTED", FALSE, "preflight", NoValue) \in Diagnostics
      /\ Diagnostic("prepare", "TREASURY_NONCE_BUSY_RETRYABLE", TRUE, "database_unavailable", NoValue) \in Diagnostics
      /\ Diagnostic("prepare", "TREASURY_NONCE_GAP_REQUIRES_REVIEW", FALSE, "review_required", NoValue) \in Diagnostics
      /\ Diagnostic("persist_hash", "TREASURY_TRANSACTION_CONTEXT_MISMATCH", FALSE, "review_required", NoValue)
           \in Diagnostics
      /\ PreparationFailed \in Diagnostics
  BY DEF PreparationFailed, Diagnostic, Diagnostics, Stages, Codes, Categories
<1>2. \A stage, code, retryable, category : Diagnostic(stage, code, retryable, category, NoValue).saved = NoValue
  BY DEF Diagnostic
<1>3. PreparationFailed.saved = NoValue
  BY DEF PreparationFailed, Diagnostic
<1> QED
  BY <1>1, <1>2, <1>3, ZenonT(40) DEF PrepareDiagnostics

LEMMA PrepareSpendSound ==
  ASSUME SInv, NEW p \in Requests, PrepareSpend(p)
  PROVE  SInv'
<1> DEFINE prepared == [row EXCEPT !.hash = "transfer", !.status = "submitting"]
<1>1. request[p].at \in Points /\ request[p].at \in Claiming /\ request[p].at = "prepare" /\ UNCHANGED chain
  BY DEF PrepareSpend, At, Points, Claiming
<1>2. request[p] \in Running /\ RunSound(request[p])
  BY <1>1, OwnRun
<1>3. /\ row \in SpendRow /\ row.hash = NoValue /\ row.status = "submitting" /\ row.outcome = "unknown"
      /\ move = "none" /\ move' = "none"
  BY <1>1, <1>2, OwnRun DEF RunSound, SInv, RowSound, chain
<1>4. /\ prepared \in SpendRow /\ prepared.hash = "transfer" /\ prepared.status \in RowOpen
      /\ prepared.outcome = "unknown"
  BY <1>3 DEF SpendRow, RowStatuses, RowOpen, MoveOutcomes
<1>5. row' = prepared => RowSound(row', move') /\ row' # NoValue
  BY <1>3, <1>4, NoValueAssumption DEF RowSound, TxNames
<1> HIDE DEF prepared
<1>6. CASE row' = prepared /\ Proceed(p, "send") /\ Working
  <2>1. PICK n : n = [request[p] EXCEPT !.at = "send"]
    OBVIOUS
  <2>2. n \in Running /\ n.at = "send" /\ n.alone = request[p].alone /\ n.outcome = request[p].outcome
    BY <1>2, <2>1 DEF Running, Points, Claiming
  <2>3. HasHash' /\ row'.status \in RowOpen
    BY <1>4, <1>5, <1>6 DEF HasHash
  <2>4. RunSound(n)'
    BY <1>2, <1>3, <2>2, <2>3 DEF RunSound
  <2>5. request' = [request EXCEPT ![p] = n]
    BY <1>6, <2>1 DEF Proceed
  <2>6. RowTyped' /\ RowSound(row', move') /\ Grow
    BY <1>1, <1>3, <1>4, <1>5, <1>6, <2>3, StillTyped DEF SInv, Grow
  <2> QED
    BY <1>1, <2>2, <2>4, <2>5, <2>6, RequestGoesOn
<1>7. PICK no \in BOOLEAN, none \in MoveOutcomes : no = FALSE /\ none = "no_movement"
  BY DEF MoveOutcomes
<1>8. ASSUME NEW d \in PrepareDiagnostics \cup {PreparationFailed}
      PROVE  d \in Diagnostics \cup {NoValue} /\ d.saved = NoValue /\ WordsOf(d) \in SUBSET Words
  <2>1. WordsOf(d) \in SUBSET Words
    BY DEF WordsOf, Words
  <2> QED
    BY <2>1, PrepareDiagnosticFacts
<1>9. ASSUME NEW d \in PrepareDiagnostics \cup {PreparationFailed}, NEW lost \in BOOLEAN,
             row' \in {row, RowPreflightFailed(d)}, Failing(1) \/ Failing(2),
             Finish(p, PreflightResult(FALSE, "no_movement", d, WordsOf(d)), lost)
      PROVE  SInv'
  <2>1. d \in Diagnostics \cup {NoValue} /\ d.saved = NoValue /\ WordsOf(d) \in SUBSET Words
    BY <1>8
  <2>2. PICK words \in SUBSET Words : words = WordsOf(d)
    BY <2>1
  <2>3. row' \in SpendRow /\ RowSound(row', move')
    BY <1>1, <1>9, <2>1, UnsentRowSound
  <2>4. Finish(p, PreflightResult(no, none, d, words), lost)
    BY <1>7, <1>9, <2>2
  <2> QED
    BY <1>1, <1>7, <1>9, <2>1, <2>3, <2>4, PreflightSound
<1>10. ASSUME row' = prepared, Failing(1), Finish(p, PreflightResult(FALSE, "no_movement", PreparationFailed, {}), TRUE)
       PROVE  SInv'
  <2>1. PreparationFailed \in Diagnostics \cup {NoValue} /\ PreparationFailed.saved = NoValue
    BY PrepareDiagnosticFacts
  <2>2. PICK d \in Diagnostics \cup {NoValue} : d = PreparationFailed
    BY <2>1
  <2>3. PICK words \in SUBSET Words : words = {}
    OBVIOUS
  <2>4. Finish(p, PreflightResult(no, none, d, words), TRUE)
    BY <1>7, <1>10, <2>2, <2>3
  <2> QED
    BY <1>1, <1>4, <1>5, <1>7, <1>10, <2>1, <2>2, <2>4, PreflightSound
<1> QED
  BY <1>6, <1>9, <1>10 DEF PrepareSpend, prepared

\* The row keeps its hash, and denies a movement only of a reverted transfer.
LEMMA HashedWritten ==
  ASSUME SInv, HasHash, row' \in SpendRow, row'.hash = row.hash, row'.outcome = "no_movement" => move' = "reverted",
         move' \in {"none", "pool", "paid", "reverted"}, move = "reverted" => move' = "reverted",
         UNCHANGED <<kind, allowance, covered>>, Failing(0) \/ Failing(1) \/ Failing(2) \/ Working
  PROVE  RowTyped' /\ RowSound(row', move') /\ Grow /\ HasHash'
<1>1. RowTyped'
  BY LeftTyped DEF SInv, RowTyped
<1>2. row' # NoValue /\ row'.hash = "transfer" /\ row'.hash # NoValue
  BY NoValueAssumption DEF HasHash, TxNames
<1>3. HasHash'
  BY <1>2 DEF HasHash
<1> QED
  BY <1>1, <1>2, <1>3 DEF RowSound, Grow

LEMMA SendSound ==
  ASSUME SInv, NEW p \in Requests, Send(p)
  PROVE  SInv'
<1>1. /\ request[p].at \in Points /\ request[p].at \in Claiming /\ request[p].at = "send"
      /\ UNCHANGED <<kind, allowance, covered>>
  BY DEF Send, At, Points, Claiming
<1>2. request[p] \in Running /\ RunSound(request[p])
  BY <1>1, OwnRun
<1>3. /\ row \in SpendRow /\ HasHash /\ row.hash = "transfer" /\ move = "none" /\ row.outcome # "no_movement"
      /\ request[p].outcome # "no_movement"
      /\ request[p].alone => row.status \in RowOpen
  BY <1>1, <1>2, OwnRun, NoValueAssumption DEF RunSound, SInv, RowSound, HasHash, TxNames
<1>4. ASSUME row' \in SpendRow, row'.hash = row.hash, row'.outcome = row.outcome, move' \in {"none", "pool"},
             Failing(1) \/ Working
      PROVE  RowTyped' /\ RowSound(row', move') /\ Grow /\ HasHash'
  BY <1>1, <1>3, <1>4, HashedWritten
<1>5. ASSUME NEW status \in {"submitted", "unknown"}, NEW lost \in BOOLEAN,
             row' \in SpendRow, row'.hash = row.hash, row'.outcome = row.outcome, move' \in {"none", "pool"},
             Failing(1) \/ Working, row.status \in RowOpen => row'.status \in RowOpen,
             request' = [request EXCEPT ![p] = [request[p] EXCEPT !.at = "verify", !.status = status, !.lost = lost]]
      PROVE  SInv'
  <2>1. PICK n : n = [request[p] EXCEPT !.at = "verify", !.status = status, !.lost = lost]
    OBVIOUS
  <2>2. /\ n \in Running /\ n.at = "verify" /\ n.alone = request[p].alone /\ n.outcome = request[p].outcome
        /\ n.status = status
    BY <1>2, <2>1 DEF Running, Points, Claiming, RowStatuses, RowOpen
  <2>3. RowTyped' /\ RowSound(row', move') /\ Grow /\ HasHash'
    BY <1>4, <1>5
  <2>4. status # NoValue
    BY NoValueAssumption DEF RowStatuses, RowOpen
  <2>5. RunSound(n)'
    <3>1. n.alone => row'.status \in RowOpen
      BY <1>3, <1>5, <2>2
    <3>2. n.outcome # "no_movement" /\ n.status # NoValue
      BY <1>3, <2>2, <2>4
    <3> QED
      BY <2>2, <2>3, <3>1, <3>2 DEF RunSound
  <2>6. request' = [request EXCEPT ![p] = n]
    BY <1>5, <2>1
  <2>7. n.at \notin Claiming
    BY <2>2 DEF Claiming
  <2> QED
    BY <1>1, <2>2, <2>3, <2>5, <2>6, <2>7, RequestGoesOn
<1>6. CASE /\ move' = "pool" /\ row' = Saved(row.status \in RowOpen, [row EXCEPT !.status = "submitted", !.diag = NoValue])
           /\ request' = [request EXCEPT ![p] = [@ EXCEPT !.at = "verify", !.status = "submitted"]] /\ Working
  <2>1. /\ row' \in SpendRow /\ row'.hash = row.hash /\ row'.outcome = row.outcome
        /\ row.status \in RowOpen => row'.status \in RowOpen
    BY <1>3, <1>6, NoValueAssumption DEF Saved, SpendRow, RowStatuses, RowOpen
  <2>2. PICK lost \in BOOLEAN : lost = request[p].lost
    BY <1>2 DEF Running
  <2>3. [request[p] EXCEPT !.at = "verify", !.status = "submitted", !.lost = lost]
          = [request[p] EXCEPT !.at = "verify", !.status = "submitted"]
    BY <1>2, <2>2 DEF Running
  <2> QED
    BY <1>5, <1>6, <2>1, <2>3
<1>7. CASE move' \in {move, "pool"} /\ SendFailed(p, SendUnknown("transfer")) /\ Failing(1)
  <2>1. /\ SendUnknown("transfer") \in Diagnostics /\ SendUnknown("transfer").saved = "transfer"
        /\ ~PreBroadcast(SendUnknown("transfer"))
    BY NoValueAssumption DEF SendUnknown, Diagnostic, Diagnostics, Stages, Codes, Categories, TxNames, PreBroadcast
  <2>2. PICK d \in Diagnostics \cup {NoValue} : d = SendUnknown("transfer")
    BY <2>1
  <2>3. /\ row' \in {row, RowUnknown(d)}
        /\ request' = [request EXCEPT ![p] = [@ EXCEPT !.at = "verify", !.status = "unknown", !.lost = row' = row]]
    BY <1>7, <2>1, <2>2 DEF SendFailed
  <2>4. PICK lost \in BOOLEAN : lost = (row' = row)
    OBVIOUS
  <2>5. request' = [request EXCEPT ![p] = [request[p] EXCEPT !.at = "verify", !.status = "unknown", !.lost = lost]]
    BY <2>3, <2>4
  <2>6. /\ row' \in SpendRow /\ row'.hash = row.hash /\ row'.outcome = row.outcome
        /\ row.status \in RowOpen => row'.status \in RowOpen
    BY <1>3, <2>3, RowUnknownFacts
  <2> QED
    BY <1>3, <1>5, <1>7, <2>5, <2>6
<1>8. CASE /\ move' = "pool" /\ row' \in {[row EXCEPT !.status = "submitted"], RowUnknown(row.diag)} /\ Failing(1)
           /\ Finish(p, PendingResult("unknown", "transfer", TRUE, "unknown", NoValue, {"outcome_unknown"}), TRUE)
  <2>1. row.diag \in Diagnostics \cup {NoValue}
    BY <1>3 DEF SpendRow
  <2>2. row' \in SpendRow /\ row'.hash = row.hash /\ row'.outcome = row.outcome
    <3>1. CASE row' = [row EXCEPT !.status = "submitted"]
      BY <1>3, <3>1 DEF SpendRow, RowStatuses, RowOpen
    <3>2. CASE row' = RowUnknown(row.diag)
      BY <1>3, <2>1, <3>2, RowUnknownFacts
    <3> QED
      BY <1>8, <3>1, <3>2
  <2>3. PICK words \in SUBSET Words : words = {"outcome_unknown"} /\ words \cap PromiseWords = {}
    <3>1. {"outcome_unknown"} \in SUBSET Words /\ {"outcome_unknown"} \cap PromiseWords = {}
      BY DEF Words, PromiseWords
    <3> QED
      BY <3>1
  <2>4. PICK status \in RowStatuses \cup {NoValue}, hash \in Names, outcome \in MoveOutcomes \cup {NoValue},
             yes \in Said, none \in Diagnostics \cup {NoValue} :
          status = "unknown" /\ hash = "transfer" /\ outcome = "unknown" /\ yes = TRUE /\ none = NoValue
    BY DEF RowStatuses, RowOpen, Names, TxNames, MoveOutcomes, Said
  <2>5. PICK r : r = PendingResult(status, hash, yes, outcome, none, words)
    OBVIOUS
  <2>6. Shape(r, hash, yes, outcome, none, words, FALSE)
    BY <2>5, PendingTyped
  <2>7. Finish(p, r, TRUE)
    BY <1>8, <2>3, <2>4, <2>5
  <2>8. ResultSound(r, request[p].alone /\ ~(request[p].lost \/ TRUE) /\ ~request[p].again, row', move')
    BY <2>3, <2>4, <2>6, ReviewedSound DEF Shape
  <2>9. RowTyped' /\ RowSound(row', move') /\ Grow
    BY <1>4, <1>8, <2>2
  <2> QED
    BY <1>1, <2>7, <2>8, <2>9, Finished
<1> QED
  BY <1>6, <1>7, <1>8 DEF Send

\* Once the hash is saved, what a request is told of the transfer it read.
LEMMA HashedSound ==
  ASSUME SInv, NEW p \in Requests, request[p].at \in {"verify", "record"}, UNCHANGED chain,
         row' \in SpendRow, row'.hash = row.hash, row'.outcome = "no_movement" => move = "reverted",
         Failing(0) \/ Failing(1) \/ Failing(2) \/ Working,
         NEW r \in Results, NEW lost \in BOOLEAN, Finish(p, r, lost),
         r.tx = "transfer", r.outcome = "no_movement" => move = "reverted",
         r.words \cap PromiseWords = {}, r.preflight = FALSE,
         lost \/ r.diag = NoValue \/ (request[p].alone => row'.diag = r.diag)
  PROVE  SInv'
<1>1. request[p].at \in Points /\ UNCHANGED <<kind, allowance, covered>> /\ move' = move
  BY DEF Points, chain
<1>2. RunSound(request[p]) /\ HasHash /\ move \in {"none", "pool", "paid", "reverted"}
  BY <1>1, OwnRun DEF RunSound, SInv, RowTyped
<1>3. RowTyped' /\ RowSound(row', move') /\ Grow
  BY <1>1, <1>2, HashedWritten
<1>4. r.outcome = "no_movement" => ~SentAs(move')
  BY <1>1 DEF SentAs
<1>5. PICK quiet : quiet = (request[p].alone /\ ~(request[p].lost \/ lost) /\ ~request[p].again)
  OBVIOUS
<1>6. quiet => ~lost /\ request[p].alone
  BY <1>5
<1>7. quiet /\ r.diag # NoValue => row'.diag = r.diag
  BY <1>6
<1>8. ResultSound(r, quiet, row', move')
  BY <1>4, <1>7 DEF ResultSound
<1>9. ResultSound(r, request[p].alone /\ ~(request[p].lost \/ lost) /\ ~request[p].again, row', move')
  BY <1>5, <1>8
<1> QED
  BY <1>1, <1>2, <1>3, <1>9, Finished

LEMMA EvidenceFacts ==
  \A code \in {"RECEIPT_PENDING", "PROVIDER_ERROR", "TRANSACTION_NOT_FOUND", "TRANSACTION_FAILED"}, retryable \in BOOLEAN :
     EvidenceDiagnostic(code, retryable) \in Diagnostics
BY DEF EvidenceDiagnostic, EvidencePending, Diagnostic, Diagnostics, Stages, Codes, Categories, TxNames

\* A request at the row's hash, and what it holds.
LEMMA HashedFacts ==
  ASSUME SInv, NEW p \in Requests, request[p].at \in {"verify", "record"}
  PROVE  /\ request[p].at \in Points /\ request[p].at \notin Claiming
         /\ request[p] \in Running /\ RunSound(request[p])
         /\ row \in SpendRow /\ HasHash /\ row.hash # NoValue
         /\ row.outcome = "no_movement" => move = "reverted"
         /\ request[p].outcome = "no_movement" => move = "reverted"
         /\ request[p].outcome \in MoveOutcomes
         /\ request[p].status \in RowStatuses \cup {NoValue}
<1>1. request[p].at \in Points /\ request[p].at \notin Claiming
  BY DEF Points, Claiming
<1>2. request[p] \in Running /\ RunSound(request[p])
  BY <1>1, OwnRun
<1>3. HasHash /\ row \in SpendRow /\ row.hash # NoValue
  BY <1>1, <1>2, OwnRun, NoValueAssumption DEF RunSound, HasHash, TxNames
<1>4. row.outcome = "no_movement" => move = "reverted"
  BY <1>3, NoValueAssumption DEF SInv, RowSound
<1>5. request[p].outcome = "no_movement" => move = "reverted"
  BY <1>2 DEF RunSound
<1>6. request[p].outcome \in MoveOutcomes /\ request[p].status \in RowStatuses \cup {NoValue}
  BY <1>2 DEF Running
<1> QED
  BY <1>1, <1>2, <1>3, <1>4, <1>5, <1>6

\* The result of a request that stops at the row's hash without saying that
\* nothing moved.
LEMMA PendingSound ==
  ASSUME SInv, NEW p \in Requests, request[p].at \in {"verify", "record"}, UNCHANGED chain,
         row' \in SpendRow, row'.hash = row.hash, row'.outcome = "no_movement" => move = "reverted",
         Failing(0) \/ Failing(1) \/ Failing(2) \/ Working,
         NEW status \in RowStatuses \cup {NoValue}, NEW review \in BOOLEAN, NEW outcome \in MoveOutcomes,
         outcome = "no_movement" => move = "reverted",
         NEW d \in Diagnostics \cup {NoValue}, NEW words \in SUBSET Words, words \cap PromiseWords = {},
         NEW lost \in BOOLEAN, lost \/ d = NoValue \/ (request[p].alone => row'.diag = d),
         Finish(p, PendingResult(status, "transfer", review, outcome, d, words), lost)
  PROVE  SInv'
<1>1. PICK tx \in Names, said \in Said, o \in MoveOutcomes \cup {NoValue} : tx = "transfer" /\ said = review /\ o = outcome
  BY DEF Names, TxNames, Said
<1>2. PICK r : r = PendingResult(status, tx, said, o, d, words)
  OBVIOUS
<1>3. Shape(r, tx, said, o, d, words, FALSE)
  BY <1>2, PendingTyped
<1>4. Finish(p, r, lost)
  BY <1>1, <1>2
<1>5. /\ r \in Results /\ r.tx = "transfer" /\ r.words = words /\ r.preflight = FALSE /\ r.diag = d
      /\ r.outcome = outcome
  BY <1>1, <1>3 DEF Shape
<1>6. r.outcome = "no_movement" => move = "reverted"
  BY <1>5
<1>7. lost \/ r.diag = NoValue \/ (request[p].alone => row'.diag = r.diag)
  BY <1>5
<1>8. r.words \cap PromiseWords = {}
  BY <1>5
<1> QED
  BY <1>4, <1>5, <1>6, <1>7, <1>8, HashedSound

LEMMA StillPendingSound ==
  ASSUME SInv, NEW p \in Requests, request[p].at = "verify", UNCHANGED chain,
         NEW code \in {"RECEIPT_PENDING", "PROVIDER_ERROR", "TRANSACTION_NOT_FOUND"}, NEW retryable \in BOOLEAN,
         NEW broken \in {0, 1}, StillPending(p, code, retryable, broken)
  PROVE  SInv'
<1>1. /\ row \in SpendRow /\ HasHash /\ RunSound(request[p])
      /\ row.outcome = "no_movement" => move = "reverted"
      /\ request[p].outcome = "no_movement" => move = "reverted"
      /\ request[p].outcome \in MoveOutcomes
      /\ request[p].status \in RowStatuses \cup {NoValue}
  BY HashedFacts
<1>2. EvidenceDiagnostic(code, retryable) \in Diagnostics
  BY EvidenceFacts
<1>3. PICK d \in Diagnostics \cup {NoValue} : d = EvidenceDiagnostic(code, retryable)
  BY <1>2
<1>4. PICK words \in SUBSET Words : words = {"confirmation_pending"} /\ words \cap PromiseWords = {}
  <2>1. {"confirmation_pending"} \in SUBSET Words /\ {"confirmation_pending"} \cap PromiseWords = {}
    BY DEF Words, PromiseWords
  <2> QED
    BY <2>1
<1>5. PICK review \in BOOLEAN, status \in RowStatuses \cup {NoValue}, outcome \in MoveOutcomes :
        review = (code = "TRANSACTION_NOT_FOUND") /\ status = request[p].status /\ outcome = request[p].outcome
  BY <1>1
<1> DEFINE r == PendingResult(status, "transfer", review, outcome, d, words)
<1>6. \/ row' = RowUnknown(d) /\ Failing(broken) /\ Finish(p, r, FALSE)
      \/ row' = row /\ Failing(broken + 1) /\ Finish(p, r, TRUE)
  BY <1>3, <1>4, <1>5 DEF StillPending
<1> HIDE DEF r
<1>7. Failing(0) \/ Failing(1) \/ Failing(2)
  <2>1. broken + 1 \in {1, 2}
    BY OneMore
  <2>2. PICK next \in {1, 2} : next = broken + 1
    BY <2>1
  <2> QED
    BY <1>6, <2>2
<1>8. row' \in SpendRow /\ row'.hash = row.hash /\ (row'.outcome = "no_movement" => move = "reverted")
  BY <1>1, <1>6, RowUnknownFacts
<1>9. outcome = "no_movement" => move = "reverted"
  BY <1>1, <1>5
<1>10. CASE row' = RowUnknown(d) /\ Finish(p, r, FALSE)
  <2>1. request[p].alone => row'.diag = d
    BY <1>1, <1>10, RowUnknownFacts DEF RunSound
  <2>2. PICK lost \in BOOLEAN : lost = FALSE
    OBVIOUS
  <2>3. Finish(p, PendingResult(status, "transfer", review, outcome, d, words), lost)
    BY <1>10, <2>2 DEF r
  <2> QED
    BY <1>4, <1>7, <1>8, <1>9, <2>1, <2>3, PendingSound
<1>11. CASE row' = row /\ Finish(p, r, TRUE)
  <2>1. PICK lost \in BOOLEAN : lost = TRUE
    OBVIOUS
  <2>2. Finish(p, PendingResult(status, "transfer", review, outcome, d, words), lost)
    BY <1>11, <2>1 DEF r
  <2> QED
    BY <1>4, <1>7, <1>8, <1>9, <2>1, <2>2, PendingSound
<1> QED
  BY <1>6, <1>10, <1>11

LEMMA VerifySpendSound ==
  ASSUME SInv, NEW p \in Requests, VerifySpend(p)
  PROVE  SInv'
<1>1. request[p].at = "verify" /\ UNCHANGED chain
  BY DEF VerifySpend, At
<1>2. /\ request[p].at \in Points /\ request[p].at \notin Claiming
      /\ row \in SpendRow /\ HasHash /\ row.hash # NoValue /\ RunSound(request[p]) /\ request[p] \in Running
      /\ row.outcome = "no_movement" => move = "reverted"
      /\ request[p].outcome = "no_movement" => move = "reverted"
      /\ request[p].outcome \in MoveOutcomes
      /\ request[p].status \in RowStatuses \cup {NoValue}
  BY <1>1, HashedFacts
<1>3. PICK d \in Diagnostics \cup {NoValue} : d = EvidenceDiagnostic("TRANSACTION_FAILED", FALSE)
  <2>1. EvidenceDiagnostic("TRANSACTION_FAILED", FALSE) \in Diagnostics
    BY EvidenceFacts
  <2> QED
    BY <2>1
<1>4. PICK none \in SUBSET Words : none = {} /\ none \cap PromiseWords = {}
  <2>1. {} \in SUBSET Words /\ {} \cap PromiseWords = {}
    OBVIOUS
  <2> QED
    BY <2>1
<1>5. PICK no \in BOOLEAN, yes \in BOOLEAN, zero \in {0, 1}, one \in {0, 1} : no = FALSE /\ yes = TRUE /\ zero = 0 /\ one = 1
  OBVIOUS
<1>6. ASSUME EvidencePending(EvidenceCode), StillPending(p, EvidenceCode, TRUE, 0)
      PROVE  SInv'
  <2>1. PICK code \in {"RECEIPT_PENDING", "PROVIDER_ERROR", "TRANSACTION_NOT_FOUND"} : code = EvidenceCode
    BY <1>6 DEF EvidencePending
  <2>2. StillPending(p, code, yes, zero)
    BY <1>5, <1>6, <2>1
  <2> QED
    BY <1>1, <2>2, StillPendingSound
<1>7. ASSUME NEW retryable \in BOOLEAN, StillPending(p, "PROVIDER_ERROR", retryable, 1)
      PROVE  SInv'
  <2>1. PICK code \in {"RECEIPT_PENDING", "PROVIDER_ERROR", "TRANSACTION_NOT_FOUND"} : code = "PROVIDER_ERROR"
    OBVIOUS
  <2>2. StillPending(p, code, retryable, one)
    BY <1>5, <1>7, <2>1
  <2> QED
    BY <1>1, <2>2, StillPendingSound
<1>8. ASSUME EvidenceCode = "TRANSACTION_FAILED", row' \in {row, RowFailed("no_movement", d)}, Working \/ Failing(1)
      PROVE  /\ row' \in SpendRow /\ row'.hash = row.hash /\ move = "reverted"
             /\ row' = RowFailed("no_movement", d) /\ request[p].alone => row'.diag = d
  <2>1. move = "reverted"
    BY <1>8 DEF EvidenceCode
  <2>2. request[p].alone => row.status \in RowOpen
    BY <1>1, <1>2 DEF RunSound
  <2> QED
    BY <1>2, <1>8, <2>1, <2>2, RowFailedFacts
<1>9. ASSUME EvidenceCode = "TRANSACTION_FAILED", row' = RowFailed("no_movement", d), Working,
             Finish(p, FailedResult("transfer", d), FALSE)
      PROVE  SInv'
  <2>1. PICK tx \in Names : tx = "transfer"
    BY DEF Names, TxNames
  <2>2. PICK r : r = FailedResult(tx, d)
    OBVIOUS
  <2>3. Shape(r, tx, FALSE, "no_movement", d, {}, FALSE)
    BY <2>2, FailedTyped
  <2>4. /\ r \in Results /\ r.tx = "transfer" /\ r.words \cap PromiseWords = {} /\ r.preflight = FALSE
        /\ r.diag = d /\ r.outcome = "no_movement"
    BY <2>1, <2>3 DEF Shape
  <2>5. row' \in SpendRow /\ row'.hash = row.hash /\ move = "reverted"
    BY <1>8, <1>9
  <2>6. request[p].alone => row'.diag = r.diag
    BY <1>8, <1>9, <2>4
  <2>7. Finish(p, r, no)
    BY <1>5, <1>9, <2>1, <2>2
  <2> QED
    BY <1>1, <1>9, <2>4, <2>5, <2>6, <2>7, HashedSound
<1>10. ASSUME EvidenceCode = "TRANSACTION_FAILED", row' \in {row, RowFailed("no_movement", d)}, Failing(1),
              Finish(p, PendingResult(request[p].status, "transfer", TRUE, "no_movement", d, {}), TRUE)
       PROVE  SInv'
  <2>1. PICK outcome \in MoveOutcomes : outcome = "no_movement"
    BY DEF MoveOutcomes
  <2>2. PICK status \in RowStatuses \cup {NoValue} : status = request[p].status
    BY <1>2
  <2>3. Finish(p, PendingResult(status, "transfer", yes, outcome, d, none), yes)
    BY <1>4, <1>5, <1>10, <2>1, <2>2
  <2>4. row' \in SpendRow /\ row'.hash = row.hash /\ move = "reverted"
    BY <1>8, <1>10
  <2> QED
    BY <1>1, <1>4, <1>5, <1>10, <2>3, <2>4, PendingSound
<1>11. ASSUME row' = row \/ row' = RowConfirmed
       PROVE  row' \in SpendRow /\ row'.hash = row.hash /\ (row'.outcome = "no_movement" => move = "reverted")
  BY <1>2, <1>11, RowRecordFacts
<1>12. ASSUME row' = RowConfirmed, Working,
              request' = [request EXCEPT ![p] = [@ EXCEPT !.at = "record", !.outcome = "confirmed"]]
       PROVE  SInv'
  <2>1. PICK n : n = [request[p] EXCEPT !.at = "record", !.outcome = "confirmed"]
    OBVIOUS
  <2>2. n \in Running /\ n.at = "record" /\ n.alone = request[p].alone /\ n.outcome = "confirmed"
    BY <1>2, <2>1 DEF Running, Points, Claiming, MoveOutcomes
  <2>3. UNCHANGED <<kind, allowance, covered>> /\ move' = move /\ move \in {"none", "pool", "paid", "reverted"}
    BY <1>1 DEF chain, SInv, RowTyped
  <2>4. RowTyped' /\ RowSound(row', move') /\ Grow /\ HasHash'
    BY <1>2, <1>11, <1>12, <2>3, HashedWritten
  <2>5. RunSound(n)'
    BY <2>2, <2>4 DEF RunSound
  <2>6. request' = [request EXCEPT ![p] = n] /\ n.at \notin Claiming
    BY <1>12, <2>1, <2>2 DEF Claiming
  <2> QED
    BY <1>2, <2>2, <2>3, <2>4, <2>5, <2>6, RequestGoesOn
<1>13. ASSUME row' \in {row, RowConfirmed}, Failing(1),
              Finish(p, PendingResult("submitted", "transfer", FALSE, request[p].outcome, NoValue, {}), TRUE)
       PROVE  SInv'
  <2>1. PICK outcome \in MoveOutcomes : outcome = request[p].outcome
    BY <1>2
  <2>2. PICK status \in RowStatuses \cup {NoValue}, nothing \in Diagnostics \cup {NoValue} :
          status = "submitted" /\ nothing = NoValue
    BY DEF RowStatuses, RowOpen
  <2>3. Finish(p, PendingResult(status, "transfer", no, outcome, nothing, none), yes)
    BY <1>4, <1>5, <1>13, <2>1, <2>2
  <2>4. row' \in SpendRow /\ row'.hash = row.hash /\ (row'.outcome = "no_movement" => move = "reverted")
    BY <1>11, <1>13
  <2>5. outcome = "no_movement" => move = "reverted"
    BY <1>2, <2>1
  <2> QED
    BY <1>1, <1>4, <1>5, <1>13, <2>3, <2>4, <2>5, PendingSound
<1> QED
  BY <1>3, <1>6, <1>7, <1>9, <1>10, <1>12, <1>13 DEF VerifySpend

LEMMA RecordSpendRowSound ==
  ASSUME SInv, NEW p \in Requests, RecordSpendRow(p)
  PROVE  SInv'
<1>1. request[p].at = "record" /\ UNCHANGED chain
  BY DEF RecordSpendRow, At
<1>2. /\ request[p].at \in Points /\ request[p].at \notin Claiming
      /\ row \in SpendRow /\ HasHash /\ row.hash # NoValue /\ RunSound(request[p]) /\ request[p] \in Running
      /\ row.outcome = "no_movement" => move = "reverted"
      /\ request[p].outcome = "no_movement" => move = "reverted"
      /\ request[p].outcome \in MoveOutcomes
      /\ request[p].status \in RowStatuses \cup {NoValue}
  BY <1>1, HashedFacts
<1>3. row' \in {row, RowProjectionError, RowProjected}
  BY DEF RecordSpendRow
<1>4. row' \in SpendRow /\ row'.hash = row.hash /\ (row'.outcome = "no_movement" => move = "reverted")
  BY <1>2, <1>3, RowRecordFacts
<1>5. ASSUME Working, Proceed(p, "receipt")
      PROVE  SInv'
  <2>1. PICK n : n = [request[p] EXCEPT !.at = "receipt"]
    OBVIOUS
  <2>2. n \in Running /\ n.at = "receipt" /\ n.alone = request[p].alone /\ n.outcome = request[p].outcome
    BY <1>2, <2>1 DEF Running, Points, Claiming
  <2>3. UNCHANGED <<kind, allowance, covered>> /\ move' = move /\ move \in {"none", "pool", "paid", "reverted"}
    BY <1>1 DEF chain, SInv, RowTyped
  <2>4. RowTyped' /\ RowSound(row', move') /\ Grow /\ HasHash'
    BY <1>2, <1>4, <1>5, <2>3, HashedWritten
  <2>5. n.outcome = "no_movement" => move' = "reverted"
    BY <1>2, <2>2, <2>3
  <2>6. RunSound(n)'
    BY <2>2, <2>4, <2>5 DEF RunSound
  <2>7. request' = [request EXCEPT ![p] = n] /\ n.at \notin Claiming
    BY <1>5, <2>1, <2>2 DEF Claiming, Proceed
  <2> QED
    BY <1>2, <2>2, <2>3, <2>4, <2>6, <2>7, RequestGoesOn
<1>6. ASSUME Failing(1),
             Finish(p, PendingResult("confirmed", "transfer", FALSE, request[p].outcome, NoValue, {"projection_pending"}), TRUE)
      PROVE  SInv'
  <2>1. PICK outcome \in MoveOutcomes : outcome = request[p].outcome
    BY <1>2
  <2>2. PICK status \in RowStatuses \cup {NoValue}, nothing \in Diagnostics \cup {NoValue}, no \in BOOLEAN, yes \in BOOLEAN :
          status = "confirmed" /\ nothing = NoValue /\ no = FALSE /\ yes = TRUE
    BY DEF RowStatuses, RowOpen
  <2>3. PICK words \in SUBSET Words : words = {"projection_pending"} /\ words \cap PromiseWords = {}
    <3>1. {"projection_pending"} \in SUBSET Words /\ {"projection_pending"} \cap PromiseWords = {}
      BY DEF Words, PromiseWords
    <3> QED
      BY <3>1
  <2>4. Finish(p, PendingResult(status, "transfer", no, outcome, nothing, words), yes)
    BY <1>6, <2>1, <2>2, <2>3
  <2>5. outcome = "no_movement" => move = "reverted"
    BY <1>2, <2>1
  <2> QED
    BY <1>1, <1>4, <1>6, <2>2, <2>3, <2>4, <2>5, PendingSound
<1> QED
  BY <1>5, <1>6 DEF RecordSpendRow

\* A request is told an answer where nothing is written.
LEMMA ToldQuietly ==
  ASSUME SInv, NEW p \in Requests, request[p].at \in Points, UNCHANGED <<chain, row>>, Failing(1) \/ Working,
         NEW a, Told(p, a), AnswerTyped(a), a.retryable => ~a.review,
         \A told : AnswerSound(a, told, row, move)
  PROVE  SInv'
<1>1. row' = row /\ move' = move /\ RowTyped'
  BY StillTyped DEF SInv, RowTyped, chain
<1>2. PICK lost \in BOOLEAN, again \in BOOLEAN : lost = request[p].lost /\ again = request[p].again
  BY OwnRun DEF Running
<1>3. request' = [request EXCEPT ![p] = [at |-> "answered", alone |-> request[p].alone, lost |-> lost,
                                         again |-> again, answer |-> a]]
  BY <1>2 DEF Told
<1>4. AnswerSound(a, ~lost /\ ~again, row', move')
  BY <1>1
<1>5. RowSound(row', move') /\ Grow
  BY <1>1 DEF SInv, Grow, HasHash
<1> QED
  BY <1>1, <1>3, <1>4, <1>5, RequestTold

\* What is said after a proven transfer.
LEMMA ProvenSound ==
  ASSUME NEW a, a.stated => a.outcome = "confirmed", a.text \notin Promises, a.tx = "transfer", a.saved = NoValue
  PROVE  \A told : AnswerSound(a, told, row, move)
<1>1. a.saved # "transfer"
  BY NoValueAssumption DEF TxNames
<1> QED
  BY <1>1 DEF AnswerSound

LEMMA AfterTransferSound ==
  ASSUME NEW review \in BOOLEAN, NEW words \in {{}, {"projection_pending"}}
  PROVE  LET a == AfterTransfer(review, words) IN
         /\ AnswerTyped(a) /\ (a.retryable => ~a.review) /\ (a.stated => a.outcome = "confirmed")
         /\ a.text \notin Promises /\ a.tx = "transfer" /\ a.saved = NoValue
<1> DEFINE text == IF review THEN "conflict" ELSE "receipt_pending"
<1>1. PICK w \in SUBSET Words : w = words
  BY DEF Words
<1>2. PICK e : e = [NoResult EXCEPT !.tx = "transfer", !.words = w]
  OBVIOUS
<1>3. e \in Results /\ e.outcome = NoValue /\ e.diag = NoValue /\ e.tx = "transfer"
  <2>1. \A n \in Results : [n EXCEPT !.tx = "transfer", !.words = w] \in Results
    BY DEF Results, Names, TxNames
  <2>2. e.outcome = NoValue /\ e.diag = NoValue /\ e.tx = "transfer"
    BY <1>2 DEF NoResult
  <2> QED
    BY <1>2, <2>1, <2>2, NoResultTyped
<1>4. text \notin Promises
  BY DEF Promises
<1>5. CASE kind = "manual"
  <2> DEFINE fallback == [stage |-> "projection", outcome |-> "confirmed", retryable |-> ~review, review |-> review]
             f == FailureFields(e, fallback)
             a == AnswerOf(IF review THEN 409 ELSE 202, f, ~review, TRUE, text)
  <2>1. fallback.stage \in Stages /\ fallback.outcome = "confirmed" /\ fallback.retryable \in BOOLEAN
    BY DEF Stages
  <2>2. fallback.outcome \in MoveOutcomes \cup {NoValue} /\ fallback.outcome # NoValue
    BY <2>1, NoValueAssumption DEF MoveOutcomes
  <2>3. /\ e.tx \in Names /\ e.diag \in Diagnostics \cup {NoValue} /\ e.funding \in {"funding", NoValue}
        /\ e.outcome \in MoveOutcomes \cup {NoValue} /\ e.retryable \in Said
        /\ e.stage \in Stages \cup {"preparation", "funding", "approval", NoValue}
    BY <1>3 DEF Results
  <2> HIDE DEF fallback
  <2>4. /\ f.stage \in Stages /\ f.outcome \in MoveOutcomes /\ f.tx \in Names
        /\ f.funding \in {"funding", NoValue} /\ f.review \in BOOLEAN /\ f.retryable \in BOOLEAN
        /\ e.outcome = NoValue /\ fallback.outcome # NoValue => f.outcome = fallback.outcome
        /\ e.tx # NoValue => f.tx = e.tx
        /\ f.retryable => ~f.review
        /\ f.saved # NoValue => e.diag # NoValue
    BY <2>1, <2>2, <2>3, FieldsFacts, ZenonT(40)
  <2>5. f.outcome = "confirmed" /\ f.tx = "transfer" /\ f.saved = NoValue
    <3>1. "transfer" # NoValue
      BY NoValueAssumption DEF TxNames
    <3> QED
      BY <1>3, <2>1, <2>2, <2>4, <3>1
  <2> HIDE DEF f, text
  <2>6. /\ a.stage = f.stage /\ a.outcome = f.outcome /\ a.tx = f.tx /\ a.funding = f.funding /\ a.saved = f.saved
        /\ a.retryable = f.retryable /\ a.review = f.review
        /\ a.pending = ~review /\ a.stated = TRUE /\ a.text = text
        /\ a.http \in {200, 202, 400, 409, 500, 503}
    BY DEF AnswerOf
  <2> HIDE DEF a
  <2>7. AnswerTyped(a) /\ (a.retryable => ~a.review)
    BY <2>4, <2>6 DEF AnswerTyped
  <2>8. a = AfterTransfer(review, words)
    BY <1>1, <1>2, <1>5 DEF AfterTransfer, a, f, fallback, text
  <2> QED
    BY <1>4, <2>5, <2>6, <2>7, <2>8
<1>6. CASE kind # "manual"
  <2>1. PICK g : g = [e EXCEPT !.review = review, !.retryable = ~review, !.pending = TRUE]
    OBVIOUS
  <2>2. /\ g.tx = "transfer" /\ g.diag = NoValue /\ g.outcome = NoValue /\ g.funding = e.funding
        /\ g.retryable \in BOOLEAN /\ g.stage = e.stage
    BY <1>3, <2>1 DEF Results
  <2>3. e.funding \in {"funding", NoValue} /\ e.stage \in Stages \cup {NoValue} /\ "transfer" \in Names
    BY <1>3 DEF Results, Names, TxNames
  <2>4. PICK t : t = text /\ t \notin Promises
    BY <1>4
  <2>5. g.tx \in Names /\ g.diag \in Diagnostics \cup {NoValue} /\ g.outcome \in MoveOutcomes \cup {NoValue}
    BY <2>2, <2>3
  <2>6. Reports(IngestAnswer(g, t), g)
    BY <2>2, <2>3, <2>4, <2>5, IngestAnswerFacts
  <2>7. IngestAnswer(g, t) = AfterTransfer(review, words)
    BY <1>1, <1>2, <1>6, <2>1, <2>4 DEF AfterTransfer
  <2>8. PICK a : a = IngestAnswer(g, t) /\ a.text = t
    <3>1. IngestAnswer(g, t).text = t
      BY DEF IngestAnswer, AnswerOf
    <3> QED
      BY <3>1
  <2>9. "transfer" # NoValue
    BY NoValueAssumption DEF TxNames
  <2>10. /\ AnswerTyped(a) /\ (a.retryable => ~a.review) /\ ~a.stated /\ a.tx = "transfer" /\ a.saved = NoValue
    BY <2>2, <2>6, <2>8, <2>9 DEF Reports
  <2> QED
    BY <2>4, <2>7, <2>8, <2>10
<1> QED
  BY <1>5, <1>6

LEMMA StoreReceiptSound ==
  ASSUME SInv, NEW p \in Requests, StoreReceipt(p)
  PROVE  SInv'
<1>1. request[p].at \in Points /\ UNCHANGED <<chain, row>> /\ (Failing(1) \/ Working)
  BY DEF StoreReceipt, At, Points
<1>2. ASSUME Told(p, ConfirmedAnswer(Succeeded))
      PROVE  SInv'
  <2> DEFINE a == ConfirmedAnswer(Succeeded)
  <2>1. Succeeded.tx = "transfer" /\ Succeeded.outcome = "confirmed"
    BY DEF Succeeded, NoResult
  <2>2. /\ a.http = 200 /\ a.stage = "projection" /\ a.outcome = "confirmed" /\ a.tx = "transfer"
        /\ a.funding = NoValue /\ a.saved = NoValue /\ a.retryable = FALSE /\ a.review = FALSE /\ a.pending = FALSE
        /\ a.text = "success"
    BY <2>1 DEF ConfirmedAnswer, AnswerOf
  <2> HIDE DEF a
  <2>3. AnswerTyped(a) /\ a.text \notin Promises
    BY <2>2 DEF AnswerTyped, MoveOutcomes, Stages, Names, TxNames, Promises
  <2>4. PICK b : b = a
    OBVIOUS
  <2>5. \A told : AnswerSound(b, told, row, move)
    BY <2>2, <2>3, <2>4, ProvenSound
  <2>6. Told(p, b) /\ AnswerTyped(b) /\ (b.retryable => ~b.review)
    BY <1>2, <2>2, <2>3, <2>4 DEF a
  <2> QED
    BY <1>1, <2>5, <2>6, ToldQuietly
<1>3. ASSUME NEW review \in BOOLEAN, NEW words \in {{}, {"projection_pending"}}, Told(p, AfterTransfer(review, words))
      PROVE  SInv'
  <2>1. PICK a : a = AfterTransfer(review, words)
    OBVIOUS
  <2>2. /\ AnswerTyped(a) /\ (a.retryable => ~a.review) /\ (a.stated => a.outcome = "confirmed")
        /\ a.text \notin Promises /\ a.tx = "transfer" /\ a.saved = NoValue
    BY <2>1, AfterTransferSound
  <2>3. \A told : AnswerSound(a, told, row, move)
    BY <2>2, ProvenSound
  <2>4. Told(p, a)
    BY <1>3, <2>1
  <2> QED
    BY <1>1, <2>2, <2>3, <2>4, ToldQuietly
<1> QED
  BY <1>2, <1>3 DEF StoreReceipt
-----------------------------------------------------------------------------
(* Approvals.                                                              *)

\* What an approval's failure is made of.
ErrorTyped(e) ==
  /\ e.tx \in Names /\ e.diag \in Diagnostics \cup {NoValue} /\ e.funding \in {"funding", NoValue}
  /\ e.outcome \in MoveOutcomes \cup {NoValue} /\ e.retryable \in Said
  /\ e.stage \in Stages \cup {"preparation", "funding", "approval", NoValue}
  /\ e.pending \in Said /\ e.review \in Said /\ e.preflight \in BOOLEAN /\ e.words = {"approval"}

LEMMA ApprovalErrorTyped ==
  \A stage \in {"preparation", "funding", "approval", NoValue}, review \in Said, retryable \in Said, pending \in Said,
     outcome \in {"no_movement", NoValue}, d \in Diagnostics \cup {NoValue}, tx \in Names,
     gas \in {"funding", NoValue}, lands \in BOOLEAN :
       ErrorTyped(ApprovalError(stage, review, retryable, pending, outcome, d, tx, gas, lands))
<1> TAKE stage \in {"preparation", "funding", "approval", NoValue}, review \in Said, retryable \in Said, pending \in Said,
         outcome \in {"no_movement", NoValue}, d \in Diagnostics \cup {NoValue}, tx \in Names,
         gas \in {"funding", NoValue}, lands \in BOOLEAN
<1> DEFINE e == ApprovalError(stage, review, retryable, pending, outcome, d, tx, gas, lands)
<1>1. /\ e.tx = tx /\ e.diag = d /\ e.funding = gas /\ e.outcome = outcome /\ e.retryable = retryable
      /\ e.stage = stage /\ e.pending = pending /\ e.review = review /\ e.words = {"approval"}
  BY DEF ApprovalError
<1>2. e.preflight \in BOOLEAN
  BY DEF ApprovalError
<1> HIDE DEF e
<1>3. outcome \in MoveOutcomes \cup {NoValue} /\ stage \in Stages \cup {"preparation", "funding", "approval", NoValue}
  BY DEF MoveOutcomes
<1> QED
  BY <1>1, <1>2, <1>3 DEF ErrorTyped, e

LEMMA ApprovalFacts == \A e \in ApprovalErrors : ErrorTyped(e)
<1>1. /\ TRUE \in Said /\ FALSE \in Said /\ NoValue \in Said /\ NoValue \in Names /\ "approval" \in Names
      /\ BOOLEAN \subseteq Said
  BY DEF Said, Names, TxNames
<1>2. /\ SendUnknown("funding") \in Diagnostics
      /\ ApprovalUnconfirmed("RECEIPT_READ_UNAVAILABLE", "receipt", "confirmation_pending", "funding") \in Diagnostics
      /\ ApprovalUnconfirmed("APPROVAL_SUBMISSION_OUTCOME_UNKNOWN", "broadcast", "review_required", NoValue) \in Diagnostics
      /\ ApprovalUnconfirmed("RECEIPT_READ_UNAVAILABLE", "receipt", "confirmation_pending", "approval") \in Diagnostics
  BY DEF SendUnknown, ApprovalUnconfirmed, Diagnostic, Diagnostics, Stages, Codes, Categories, TxNames
<1>3. PICK yes \in Said, no \in Said, none \in Said : yes = TRUE /\ no = FALSE /\ none = NoValue
  BY <1>1
<1>4. PICK t \in BOOLEAN, f \in BOOLEAN : t = TRUE /\ f = FALSE
  OBVIOUS
<1>5. PICK d1 \in Diagnostics \cup {NoValue}, d2 \in Diagnostics \cup {NoValue}, d3 \in Diagnostics \cup {NoValue},
           d4 \in Diagnostics \cup {NoValue}, d0 \in Diagnostics \cup {NoValue} :
        /\ d0 = NoValue /\ d1 = SendUnknown("funding")
        /\ d2 = ApprovalUnconfirmed("RECEIPT_READ_UNAVAILABLE", "receipt", "confirmation_pending", "funding")
        /\ d3 = ApprovalUnconfirmed("APPROVAL_SUBMISSION_OUTCOME_UNKNOWN", "broadcast", "review_required", NoValue)
        /\ d4 = ApprovalUnconfirmed("RECEIPT_READ_UNAVAILABLE", "receipt", "confirmation_pending", "approval")
  BY <1>2
<1>6. PICK tx0 \in Names, tx1 \in Names : tx0 = NoValue /\ tx1 = "approval"
  BY <1>1
<1>7. /\ ErrorTyped(ApprovalError(NoValue, none, none, none, NoValue, d0, tx0, NoValue, f))
      /\ ErrorTyped(ApprovalError("preparation", yes, no, yes, NoValue, d0, tx0, "funding", f))
      /\ ErrorTyped(ApprovalError("preparation", yes, no, yes, NoValue, d0, tx1, NoValue, f))
      /\ ErrorTyped(ApprovalError("funding", yes, no, yes, NoValue, d1, tx0, "funding", f))
      /\ ErrorTyped(ApprovalError("funding", yes, no, yes, NoValue, d2, tx0, "funding", f))
      /\ ErrorTyped(ApprovalError("approval", yes, no, yes, NoValue, d3, tx0, NoValue, t))
      /\ ErrorTyped(ApprovalError("approval", yes, no, yes, NoValue, d4, tx1, NoValue, t))
  BY ApprovalErrorTyped
<1>8. ASSUME NEW d \in PrepareDiagnostics
      PROVE  ErrorTyped(ApprovalError("funding", FALSE, d.retryable, d.retryable, "no_movement", d, NoValue, NoValue, FALSE))
  <2>1. d \in Diagnostics \cup {NoValue} /\ d.retryable \in BOOLEAN
    BY PrepareDiagnosticFacts DEF Diagnostics
  <2>2. PICK again \in Said : again = d.retryable
    BY <1>1, <2>1
  <2>3. ErrorTyped(ApprovalError("funding", no, again, again, "no_movement", d, tx0, NoValue, f))
    BY <2>1, ApprovalErrorTyped
  <2> QED
    BY <1>3, <1>4, <1>6, <2>2, <2>3
<1> QED
  BY <1>3, <1>4, <1>5, <1>6, <1>7, <1>8 DEF ApprovalErrors

LEMMA AfterApprovalTyped ==
  ASSUME NEW first \in Results, NEW e, ErrorTyped(e)
  PROVE  AfterApproval(first, e) \in Results
<1> DEFINE fallback == [stage |-> "prepare", outcome |-> NoValue, retryable |-> Default(e.retryable, FALSE),
                        review |-> Default(e.review, TRUE)]
           f == FailureFields(e, fallback)
           review == Default(e.review, TRUE)
           pending == Default(e.pending, review \/ f.retryable)
           preflight == IF e.stage = NoValue THEN FALSE ELSE e.preflight
           status == IF review THEN "unknown" ELSE "failed"
           outcome == Default(e.outcome, f.outcome)
           retryable == ~review /\ f.retryable
           d == Default(e.diag, first.diag)
           gas == Default(f.funding, first.funding)
<1>1. fallback.stage \in Stages /\ fallback.outcome \in MoveOutcomes \cup {NoValue} /\ fallback.retryable \in BOOLEAN
  BY DEF Stages, Default, ErrorTyped, Said
<1> HIDE DEF fallback
<1>2. f.outcome \in MoveOutcomes /\ f.funding \in {"funding", NoValue} /\ f.retryable \in BOOLEAN
  BY <1>1, FieldsFacts DEF ErrorTyped
<1>3. review \in BOOLEAN
  BY DEF ErrorTyped, Said, Default
<1>4. pending \in Said
  BY <1>2, <1>3 DEF ErrorTyped, Said, Default
<1>5. preflight \in BOOLEAN
  BY DEF ErrorTyped
<1>6. status \in RowStatuses \cup {NoValue}
  BY DEF RowStatuses, RowOpen
<1>7. outcome \in MoveOutcomes \cup {NoValue}
  BY <1>2 DEF ErrorTyped, Default
<1>8. retryable \in Said
  BY <1>2 DEF Said
<1>9. d \in Diagnostics \cup {NoValue}
  BY DEF ErrorTyped, Default, Results
<1>10. gas \in {"funding", NoValue}
  BY <1>2 DEF Default, Results
<1>11. PICK words \in SUBSET Words : words = e.words
  BY DEF Words, ErrorTyped
<1>12. review \in Said
  BY <1>3 DEF Said
<1>13. AfterApproval(first, e) =
         [first EXCEPT !.pending = pending, !.review = review, !.preflight = preflight, !.status = status,
                       !.outcome = outcome, !.retryable = retryable, !.diag = d, !.funding = gas, !.words = e.words]
  BY DEF AfterApproval, fallback, Results
<1> HIDE DEF f, review, pending, preflight, status, outcome, retryable, d, gas
<1>14. [first EXCEPT !.pending = pending, !.review = review, !.preflight = preflight, !.status = status,
                     !.outcome = outcome, !.retryable = retryable, !.diag = d, !.funding = gas, !.words = words] \in Results
  BY <1>4, <1>5, <1>6, <1>7, <1>8, <1>9, <1>10, <1>12 DEF Results
<1> QED
  BY <1>11, <1>13, <1>14

LEMMA ApproveSound ==
  ASSUME SInv, NEW p \in Requests, Approve(p)
  PROVE  SInv'
<1>1. /\ request[p].at \in Points /\ request[p].at = "approve" /\ UNCHANGED <<kind, row, move, covered>>
      /\ allowance' \in {allowance, TRUE} /\ (Failing(1) \/ Working)
  BY DEF Approve, At, Points
<1>2. request[p] \in Running /\ RunSound(request[p])
  BY <1>1, OwnRun
<1>3. RowTyped' /\ RowSound(row', move') /\ Grow
  BY <1>1, LeftTyped DEF SInv, RowTyped, RowSound, Grow, HasHash
<1>4. CASE request' = [request EXCEPT ![p] = [@ EXCEPT !.at = "claim", !.again = TRUE, !.first = NoValue]]
  <2>1. PICK n : n = [request[p] EXCEPT !.at = "claim", !.again = TRUE, !.first = NoValue]
    OBVIOUS
  <2>2. n \in Running /\ n.at = "claim" /\ n.alone = request[p].alone /\ n.outcome = request[p].outcome
    BY <1>2, <2>1 DEF Running, Points, Claiming
  <2>3. n.outcome = "no_movement" => move' = "reverted"
    BY <1>1, <1>2, <2>2 DEF RunSound
  <2>4. RunSound(n)'
    BY <2>2, <2>3 DEF RunSound
  <2>5. request' = [request EXCEPT ![p] = n] /\ n.at \notin Claiming
    BY <1>4, <2>1, <2>2 DEF Claiming
  <2> QED
    BY <1>1, <1>3, <2>2, <2>4, <2>5, RequestGoesOn
<1>5. ASSUME NEW e \in ApprovalErrors,
             request' = [request EXCEPT ![p] = [at |-> "answered", alone |-> @.alone, lost |-> @.lost, again |-> TRUE,
                                                answer |-> Answered(AfterApproval(request[p].first, e))]]
      PROVE  SInv'
  <2>1. PICK first \in Results : first = request[p].first
    BY <1>1, <1>2 DEF RunSound
  <2>2. PICK r \in Results : r = AfterApproval(first, e)
    BY ApprovalFacts, AfterApprovalTyped
  <2>3. PICK a : a = Answered(r)
    OBVIOUS
  <2>4. AnswerTyped(a) /\ (a.retryable => ~a.review)
    BY <2>3, AnsweredFacts DEF Reports
  <2>5. PICK lost \in BOOLEAN, again \in BOOLEAN : lost = request[p].lost /\ again = TRUE
    BY <1>2 DEF Running
  <2>6. request' = [request EXCEPT ![p] = [at |-> "answered", alone |-> request[p].alone, lost |-> lost,
                                           again |-> again, answer |-> a]]
    BY <1>5, <2>1, <2>2, <2>3, <2>5
  <2>7. request[p].alone => AnswerSound(a, ~lost /\ ~again, row', move')
    <3>1. request[p].alone => move' = "none"
      BY <1>1, <1>2 DEF RunSound, SInv, RowSound
    <3> QED
      BY <2>5, <3>1 DEF AnswerSound, SentAs
  <2> QED
    BY <1>1, <1>3, <2>4, <2>6, <2>7, RequestTold
<1> QED
  BY <1>4, <1>5 DEF Approve
-----------------------------------------------------------------------------
(* Requests that begin and crash, and the chain.                           *)

LEMMA CrashRequestSound ==
  ASSUME SInv, NEW p \in Requests, CrashRequest(p)
  PROVE  SInv'
<1>1. UNCHANGED <<chain, row>> /\ Failing(1) /\ request' = [request EXCEPT ![p] = Idle]
  BY DEF CrashRequest
<1>2. request[p].at \in Points
  BY MemoryKinds DEF CrashRequest, SInv
<1>3. row' = row /\ move' = move /\ RowTyped'
  BY <1>1, StillTyped DEF SInv, RowTyped, chain
<1>4. RowSound(row', move') /\ Grow
  BY <1>3 DEF SInv, Grow, HasHash
<1>5. MemoryOk(Idle)' /\ Idle.at \notin Claiming
  BY IdleFacts DEF MemoryOk, Claiming, Idle
<1>6. PICK n : n = Idle
  OBVIOUS
<1>7. MemoryOk(n)' /\ n.at \notin Claiming
  BY <1>5, <1>6, IdleFacts DEF MemoryOk, Claiming, Idle
<1>8. request' = [request EXCEPT ![p] = n]
  BY <1>1, <1>6
<1> QED
  BY <1>2, <1>3, <1>4, <1>6, <1>7, <1>8, RequestMoves

\* A memory that is no longer alone.
LEMMA NoLongerAlone ==
  ASSUME NEW m, MemoryOk(m), m # Idle
  PROVE  LET n == [m EXCEPT !.alone = FALSE] IN MemoryOk(n) /\ n.alone = FALSE /\ n.at = m.at
<1> DEFINE n == [m EXCEPT !.alone = FALSE]
<1>1. CASE m \in Running /\ RunSound(m)
  <2>1. /\ n \in Running /\ n.alone = FALSE /\ n.at = m.at /\ n.outcome = m.outcome /\ n.status = m.status
        /\ n.first = m.first
    BY <1>1 DEF Running
  <2> HIDE DEF n
  <2>2. RunSound(n)
    BY <1>1, <2>1 DEF RunSound
  <2> QED
    BY <2>1, <2>2 DEF MemoryOk, n
<1>2. CASE ToldSound(m)
  <2>1. PICK a : a = m.answer
    OBVIOUS
  <2>2. m \in [at: {"answered"}, alone: BOOLEAN, lost: BOOLEAN, again: BOOLEAN, answer: {a}]
    BY <1>2, <2>1 DEF ToldSound
  <2>3. /\ n \in [at: {"answered"}, alone: BOOLEAN, lost: BOOLEAN, again: BOOLEAN, answer: {a}]
        /\ n.alone = FALSE /\ n.at = m.at /\ n.answer = a
    BY <2>2
  <2> HIDE DEF n
  <2>4. ToldSound(n)
    BY <1>2, <2>1, <2>3 DEF ToldSound
  <2> QED
    BY <2>3, <2>4 DEF MemoryOk, n
<1> QED
  BY <1>1, <1>2 DEF MemoryOk

\* Where the row and the chain rest, so does what is known of them.
LEMMA MemoryQuiet ==
  ASSUME NEW m, MemoryOk(m), row' = row, move' = move
  PROVE  MemoryOk(m)'
BY DEF MemoryOk, RunSound, ToldSound, HasHash

LEMMA StartRequestSound ==
  ASSUME SInv, NEW p \in Requests, StartRequest(p)
  PROVE  SInv'
<1> DEFINE quiet == \A q \in Requests \ {p} : request[q].at \in {"idle", "answered"}
           m == [at |-> "claim", alone |-> quiet, again |-> FALSE, lost |-> FALSE, first |-> NoValue,
                 status |-> NoValue, outcome |-> "unknown"]
           next(q) == IF q = p THEN m ELSE IF At(q, "idle") THEN request[q] ELSE [request[q] EXCEPT !.alone = FALSE]
<1>1. /\ UNCHANGED <<chain, row>> /\ request' = [q \in Requests |-> next(q)]
      /\ left.starts > 0 /\ left' = [left EXCEPT !.starts = @ - 1]
  BY DEF StartRequest
<1>2. row' = row /\ move' = move
  BY <1>1 DEF chain
<1>3. RowTyped'
  <2>1. left' \in [failures: 0 .. MaxFailures, starts: 0 .. MaxStarts]
    BY <1>1, AnswersAssumption DEF SInv, RowTyped
  <2> QED
    BY <1>1, <2>1 DEF SInv, RowTyped, chain
<1>4. m \in Running /\ m.at = "claim" /\ m.outcome = "unknown" /\ m.alone = quiet
  BY DEF Running, Points, Claiming, MoveOutcomes
<1>5. m # Idle
  BY <1>4, IdleFacts
<1> HIDE DEF m
<1>6. MemoryOk(m)
  BY <1>4 DEF MemoryOk, RunSound
<1>7. \A q \in Requests : request[q].at = "idle" => request[q] = Idle
  BY MemoryKinds DEF SInv
<1>8. ASSUME NEW q \in Requests, q # p
      PROVE  /\ MemoryOk(next(q)) /\ next(q).at = request[q].at
             /\ next(q) # Idle => next(q).alone = FALSE
  <2>1. CASE At(q, "idle")
    BY <1>7, <1>8, <2>1 DEF SInv, At
  <2>2. CASE ~At(q, "idle")
    <3>1. request[q] # Idle /\ MemoryOk(request[q])
      BY <2>2, IdleFacts DEF SInv, At
    <3>2. PICK n : n = request[q]
      OBVIOUS
    <3>3. LET o == [n EXCEPT !.alone = FALSE] IN MemoryOk(o) /\ o.alone = FALSE /\ o.at = n.at
      BY <3>1, <3>2, NoLongerAlone
    <3> QED
      BY <1>8, <2>2, <3>2, <3>3
  <2> QED
    BY <2>1, <2>2
<1>9. ASSUME NEW q \in Requests
      PROVE  MemoryOk(request[q])'
  <2>1. PICK n : n = next(q)
    OBVIOUS
  <2>2. MemoryOk(n)
    BY <1>6, <1>8, <2>1
  <2>3. MemoryOk(n)'
    BY <1>2, <2>2, MemoryQuiet
  <2>4. request'[q] = n
    BY <1>1, <2>1
  <2> QED
    BY <2>3, <2>4, MemoryNext
<1>10. next(p) = m
  OBVIOUS
<1> HIDE DEF next
<1>11. request' = [q \in Requests |-> request'[q]]
  BY <1>1
<1>12. Exclusive'
  <2>1. m.at \notin Claiming
    BY <1>4 DEF Claiming
  <2>2. \A q \in Requests : request'[q].at \in Claiming => q # p /\ request[q].at \in Claiming
    BY <1>1, <1>8, <1>10, <2>1
  <2> QED
    BY <2>2 DEF SInv, Exclusive
<1>13. LeftAlone'
  <2>1. \A q \in Requests : q # p => request'[q] = Idle \/ request'[q].alone = FALSE
    BY <1>1, <1>8
  <2>2. m.alone => \A q \in Requests : q # p => Resting(request'[q])
    <3> SUFFICES ASSUME m.alone, NEW q \in Requests, q # p PROVE Resting(request'[q])
      OBVIOUS
    <3>1. quiet
      BY <1>4
    <3>2. request[q].at \in {"idle", "answered"}
      BY <3>1
    <3>3. request'[q].at = request[q].at
      BY <1>1, <1>8
    <3> QED
      BY <3>2, <3>3 DEF Resting
  <2>3. request'[p] = m
    BY <1>1, <1>10
  <2>4. \A a, b \in Requests : a # b /\ request'[a] # Idle /\ request'[a].alone => Resting(request'[b])
    <3> SUFFICES ASSUME NEW a \in Requests, NEW b \in Requests, a # b, request'[a] # Idle, request'[a].alone
                 PROVE  Resting(request'[b])
      OBVIOUS
    <3>1. a = p
      BY <2>1
    <3> QED
      BY <2>2, <2>3, <3>1
  <2> QED
    BY <2>4 DEF LeftAlone, Resting, Idle
<1>14. RowSound(row', move')
  BY <1>2 DEF SInv
<1> QED
  BY <1>3, <1>9, <1>11, <1>12, <1>13, <1>14 DEF SInv

LEMMA MemoryMined ==
  ASSUME NEW m, MemoryOk(m), move = "pool", move' \in {"paid", "reverted"}, row' = row
  PROVE  MemoryOk(m)'
<1>1. CASE m = Idle
  BY <1>1 DEF MemoryOk
<1>2. CASE m \in Running /\ RunSound(m)
  <2>1. RunSound(m)'
    BY <1>2 DEF RunSound, HasHash
  <2> QED
    BY <1>2, <2>1 DEF MemoryOk
<1>3. CASE ToldSound(m)
  <2>1. m.alone => AnswerSound(m.answer, ~m.lost /\ ~m.again, row', move')
    BY <1>3 DEF ToldSound, AnswerSound, SentAs
  <2>2. ToldSound(m)'
    BY <1>3, <2>1 DEF ToldSound
  <2> QED
    BY <2>2 DEF MemoryOk
<1> QED
  BY <1>1, <1>2, <1>3 DEF MemoryOk

LEMMA MineSpendSound ==
  ASSUME SInv, MineSpend
  PROVE  SInv'
<1>1. move = "pool" /\ move' \in {"paid", "reverted"} /\ covered' \in BOOLEAN
      /\ UNCHANGED <<kind, row, allowance, request, left>>
  BY DEF MineSpend, SInv, RowTyped
<1>2. row # NoValue /\ row.hash # NoValue /\ row.outcome # "no_movement"
  BY <1>1 DEF SInv, RowSound
<1>3. RowTyped' /\ RowSound(row', move')
  BY <1>1, <1>2 DEF SInv, RowTyped, RowSound
<1>4. ASSUME NEW q \in Requests
      PROVE  MemoryOk(request[q])'
  <2>1. PICK n : n = request[q]
    OBVIOUS
  <2>2. MemoryOk(n)
    BY <2>1 DEF SInv
  <2>3. MemoryOk(n)'
    BY <1>1, <2>2, MemoryMined
  <2>4. request'[q] = n
    BY <1>1, <2>1
  <2> QED
    BY <2>3, <2>4, MemoryNext
<1>5. Exclusive' /\ LeftAlone' /\ request' = [p \in Requests |-> request'[p]]
  BY <1>1 DEF SInv, Exclusive, LeftAlone, Resting, Idle
<1> QED
  BY <1>3, <1>4, <1>5 DEF SInv

\* Neither the row, nor the transfer, nor a request.
LEMMA AnswersRest ==
  ASSUME SInv, UNCHANGED <<kind, row, move, allowance, request, left>>, covered' \in BOOLEAN
  PROVE  SInv'
<1>1. RowTyped' /\ RowSound(row', move')
  BY DEF SInv, RowTyped
<1>2. ASSUME NEW q \in Requests
      PROVE  MemoryOk(request[q])'
  <2>1. PICK n : n = request[q] /\ MemoryOk(n)
    BY DEF SInv
  <2>2. MemoryOk(n)'
    BY <2>1, MemoryQuiet
  <2>3. request'[q] = n
    BY <2>1
  <2> QED
    BY <2>2, <2>3, MemoryNext
<1>3. Exclusive' /\ LeftAlone' /\ request' = [p \in Requests |-> request'[p]]
  BY DEF SInv, Exclusive, LeftAlone, Resting, Idle
<1> QED
  BY <1>1, <1>2, <1>3 DEF SInv

LEMMA InitSound == AnswersInit => SInv
<1> SUFFICES ASSUME AnswersInit PROVE SInv
  OBVIOUS
<1>1. row = NoValue /\ move = "none" /\ request = [p \in Requests |-> Idle]
  BY DEF AnswersInit
<1>2. RowTyped /\ RowSound(row, move)
  BY <1>1, AnswersAssumption DEF AnswersInit, RowTyped, RowSound
<1>3. \A p \in Requests : request[p] = Idle /\ MemoryOk(request[p])
  BY <1>1 DEF MemoryOk
<1>4. Exclusive /\ LeftAlone
  BY <1>3, IdleFacts DEF Exclusive, LeftAlone, Claiming
<1> QED
  BY <1>1, <1>2, <1>3, <1>4 DEF SInv

LEMMA AnswersStep == SInv /\ [AnswersNext]_requestVars => SInv'
<1> SUFFICES ASSUME SInv, [AnswersNext]_requestVars PROVE SInv'
  OBVIOUS
<1>1. CASE MineSpend
  BY <1>1, MineSpendSound
<1>2. CASE Credit
  BY <1>2, AnswersRest DEF Credit
<1>3. ASSUME NEW p \in Requests, RequestStep(p)
      PROVE  SInv'
  BY <1>3, StartRequestSound, RouteFailsSound, ContextFailsSound, SettlementContextFailsSound, IntentDiffersSound,
     AssetChangedSound, AcquireSound, ReplaySound, CheckSpendSound, PrepareSpendSound, SendSound, VerifySpendSound,
     RecordSpendRowSound, StoreReceiptSound, ApproveSound, CrashRequestSound
  DEF RequestStep
<1>4. CASE UNCHANGED requestVars
  BY <1>4, AnswersRest DEF requestVars, SInv, RowTyped
<1> QED
  BY <1>1, <1>2, <1>3, <1>4 DEF AnswersNext
-----------------------------------------------------------------------------
(* What callers and operators are told.                                    *)

LEMMA AnswersInvariant == AnswersSpec => []SInv
<1> QED
  BY InitSound, AnswersStep, PTL DEF AnswersSpec

\* An answered request, and what it was told.
LEMMA AnsweredTold ==
  ASSUME SInv, NEW p \in Requests, At(p, "answered")
  PROVE  /\ AnswerTyped(AnswerTo(p)) /\ (AnswerTo(p).retryable => ~AnswerTo(p).review)
         /\ request[p].alone => AnswerSound(AnswerTo(p), ~request[p].lost /\ ~request[p].again, row, move)
<1>1. ToldSound(request[p])
  BY MemoryKinds DEF SInv, At
<1> QED
  BY <1>1 DEF ToldSound, AnswerTo

LEMMA SInvMeansTrueDenials == SInv => StatedNoMovementIsTrue
<1> SUFFICES ASSUME SInv PROVE StatedNoMovementIsTrue
  OBVIOUS
<1>1. AnswersTypeOK
  <2>1. \A p \in Requests : At(p, "answered") => AnswerTyped(request[p].answer)
    BY AnsweredTold DEF AnswerTo
  <2>2. left.failures \in 0 .. MaxFailures /\ left.starts \in 0 .. MaxStarts
    BY DEF SInv, RowTyped
  <2> QED
    BY <2>1, <2>2 DEF AnswersTypeOK, SInv, RowTyped, AnswerTyped, Names
<1>2. row # NoValue /\ row.outcome = "no_movement" => ~Sent
  BY DEF SInv, RowSound, Sent
<1>3. ASSUME NEW p \in Requests, AloneAnswered(p)
      PROVE  /\ AnswerTo(p).stated /\ AnswerTo(p).outcome = "no_movement" /\ ~AnswerTo(p).review => ~Sent
             /\ AnswerTo(p).text \in {"nothing_spent", "nothing_recorded"} => ~Sent
  <2>1. AnswerSound(AnswerTo(p), ~request[p].lost /\ ~request[p].again, row, move)
    BY <1>3, AnsweredTold DEF AloneAnswered
  <2> QED
    BY <2>1 DEF AnswerSound, Sent, SentAs, Promises
<1> QED
  BY <1>1, <1>2, <1>3 DEF StatedNoMovementIsTrue

LEMMA SInvMeansKeptHashes == SInv => RetryKeepsTheHash
<1> SUFFICES ASSUME SInv, NEW p \in Requests
             PROVE  /\ At(p, "answered") /\ AnswerTo(p).retryable =>
                         /\ ~AnswerTo(p).review
                         /\ request[p].alone /\ AnswerTo(p).stated /\ Sent => AnswerTo(p).tx = "transfer"
                    /\ At(p, "approve") /\ request[p].alone => ~Sent /\ row.hash = NoValue
  BY DEF RetryKeepsTheHash
<1>1. ASSUME At(p, "answered"), AnswerTo(p).retryable
      PROVE  /\ ~AnswerTo(p).review
             /\ request[p].alone /\ AnswerTo(p).stated /\ Sent => AnswerTo(p).tx = "transfer"
  BY <1>1, AnsweredTold DEF AnswerSound, Sent, SentAs
<1>2. ASSUME At(p, "approve"), request[p].alone
      PROVE  ~Sent /\ row.hash = NoValue
  <2>1. RunSound(request[p])
    BY <1>2, OwnRun DEF At, Points
  <2>2. row # NoValue /\ row.hash = NoValue
    BY <1>2, <2>1 DEF RunSound, At
  <2> QED
    BY <2>2 DEF SInv, RowSound, Sent
<1> QED
  BY <1>1, <1>2

LEMMA SInvMeansOneStory == SInv => OperatorSeesTheSame
<1> SUFFICES ASSUME SInv, NEW p \in Requests, AloneAnswered(p), ~request[p].lost, ~request[p].again, row # NoValue,
                    AnswerTo(p).saved = "transfer"
             PROVE  /\ OperatorView.stage = AnswerTo(p).stage /\ OperatorView.code = AnswerTo(p).code
                    /\ OperatorView.saved = AnswerTo(p).saved
  BY DEF OperatorSeesTheSame
<1>1. AnswerSound(AnswerTo(p), ~request[p].lost /\ ~request[p].again, row, move)
  BY AnsweredTold DEF AloneAnswered
<1>2. /\ row.diag # NoValue /\ row.diag.stage = AnswerTo(p).stage /\ row.diag.code = AnswerTo(p).code
      /\ row.diag.saved = AnswerTo(p).saved
  BY <1>1 DEF AnswerSound
<1> QED
  BY <1>2 DEF OperatorView

\* However requests for one key overlap, crash and are sent again: an answer to
\* a request that ran alone, that states no movement and is not for review, is
\* true, and stays so until the key is sent again (publicFailureFields,
\* markPreflightFailed, markFailed).
THEOREM DenialsAreTrue == AnswersSpec => []StatedNoMovementIsTrue
BY AnswersInvariant, SInvMeansTrueDenials, PTL

\* No caller who is told the state of his request, and ran alone, is offered a
\* retry without the hash once the transfer may be on the chain, and nothing is
\* approved then (processSpendWithAutoApproval). Funding and approval hashes are
\* not what this is about.
THEOREM RetriesKeepTheHash == AnswersSpec => []RetryKeepsTheHash
BY AnswersInvariant, SInvMeansKeptHashes, PTL

\* Where an answer carries the saved diagnostic of its transfer, stage, code and
\* hash are those that GET /admin/operations shows.
THEOREM OperatorsAreToldTheSame == AnswersSpec => []OperatorSeesTheSame
BY AnswersInvariant, SInvMeansOneStory, PTL
-----------------------------------------------------------------------------
(* The evidence report: rows and the joining of rows.                      *)

EvidenceRow ==
  [src: Sources, id: Ops \cup Hashes, dir: Directions, owner: Parties, amount: Nat,
   status: OpStatuses, outcome: ReportedOutcomes, hash: Hashes \cup {Absent},
   asset: Assets \cup {Absent}, activity: Dates]

\* What the tables hold is well typed.
TablesOK ==
  /\ ops \in [Ops -> OpRecord \cup {Absent}]
  /\ awards \in [Hashes -> LedgerRecord \cup {Absent}]
  /\ spends \in [Hashes -> LedgerRecord \cup {Absent}]

\* A row that was read is still there: who, what and how much never change, a
\* hash stays once it is there, and so does a confirmed outcome.
OpBacks(r) ==
  /\ r.src = "op" /\ r.id \in Ops /\ ops[r.id] # Absent
  /\ ops[r.id].dir = r.dir /\ ops[r.id].owner = r.owner
  /\ ops[r.id].amount = r.amount /\ ops[r.id].asset = r.asset
  /\ r.hash # Absent => ops[r.id].hash = r.hash
  /\ r.hash # Absent /\ r.outcome = "confirmed" => OpOutcome(ops[r.id]) = "confirmed"
LedgerBacks(r) ==
  /\ r.src \in {"award", "spend"} /\ r.dir = r.src /\ r.asset = Absent /\ r.outcome = "confirmed"
  /\ r.hash \in Hashes /\ r.id = r.hash
  /\ Ledger(r.src)[r.hash] # Absent
  /\ Ledger(r.src)[r.hash].owner = r.owner /\ Ledger(r.src)[r.hash].amount = r.amount
Backed(r) == OpBacks(r) \/ LedgerBacks(r)

LEMMA OutcomesReported == \A o \in OpRecord : OpOutcome(o) \in ReportedOutcomes
  BY DEF OpRecord, OpOutcome, OpOutcomes, ReportedOutcomes

LEMMA RowIsBacked ==
  ASSUME TablesOK, NEW src \in Sources, NEW id \in Kept(src)
  PROVE  /\ RowOf(src, id) \in EvidenceRow /\ RowOf(src, id).src = src /\ RowOf(src, id).id = id
         /\ Backed(RowOf(src, id))
<1>1. CASE src = "op"
  <2>1. id \in Ops /\ ops[id] # Absent /\ ops[id] \in OpRecord /\ RowOf(src, id) = OpRow(id)
    BY <1>1 DEF Kept, RowOf, TablesOK
  <2>2. PICK x \in ReportedOutcomes : x = OpOutcome(ops[id])
    BY <2>1, OutcomesReported
  <2>3. PICK d \in Dates : d = IF ops[id].confirmed # Absent THEN ops[id].confirmed ELSE ops[id].updated
    BY <2>1 DEF OpRecord
  <2>4. OpRow(id) = [src |-> "op", id |-> id, dir |-> ops[id].dir, owner |-> ops[id].owner, amount |-> ops[id].amount,
             status |-> ops[id].status, outcome |-> x, hash |-> ops[id].hash, asset |-> ops[id].asset, activity |-> d]
    BY <2>2, <2>3 DEF OpRow
  <2>5. OpRow(id) \in EvidenceRow /\ OpRow(id).src = "op" /\ OpRow(id).id = id
    BY <2>1, <2>4 DEF EvidenceRow, OpRecord, Sources
  <2>6. OpBacks(OpRow(id))
    BY <2>1, <2>2, <2>4 DEF OpBacks
  <2> QED
    BY <1>1, <2>1, <2>5, <2>6 DEF Backed
<1>2. CASE src # "op"
  <2>1. /\ id \in Hashes /\ Ledger(src)[id] # Absent /\ Ledger(src)[id] \in LedgerRecord
        /\ RowOf(src, id) = LedgerRow(src, id, Ledger(src)[id]) /\ src \in {"award", "spend"}
    BY <1>2 DEF Kept, RowOf, TablesOK, Ledger, Sources
  <2>2. PICK r : r = LedgerRow(src, id, Ledger(src)[id])
    OBVIOUS
  <2>3. r \in EvidenceRow /\ r.src = src /\ r.id = id
    BY <2>1, <2>2 DEF EvidenceRow, LedgerRow, LedgerRecord, Sources, ReportedOutcomes, OpStatuses, Directions
  <2>4. LedgerBacks(r)
    BY <2>1, <2>2 DEF LedgerBacks, LedgerRow
  <2> QED
    BY <2>1, <2>2, <2>3, <2>4 DEF Backed
<1> QED
  BY <1>1, <1>2

LEMMA TableIs ==
  ASSUME TablesOK, NEW src \in Sources, NEW q
  PROVE  /\ Table(src, q) \subseteq EvidenceRow
         /\ \A r \in Table(src, q) : r.src = src /\ r.id \in Kept(src) /\ r = RowOf(src, r.id) /\ Backed(r)
         /\ \A id \in Kept(src) : DatesOf(src, id) \cap Window(q) # {} => RowOf(src, id) \in Table(src, q)
<1>1. ASSUME NEW r \in Table(src, q)
      PROVE  r \in EvidenceRow /\ r.src = src /\ r.id \in Kept(src) /\ r = RowOf(src, r.id) /\ Backed(r)
  <2>1. PICK id \in Kept(src) : r = RowOf(src, id)
    BY DEF Table
  <2> QED
    BY <2>1, RowIsBacked
<1>2. \A id \in Kept(src) : DatesOf(src, id) \cap Window(q) # {} => RowOf(src, id) \in Table(src, q)
  BY DEF Table
<1> QED
  BY <1>1, <1>2

\* The rows of one hash.
OfHash(rows, h) == {r \in rows : r.hash = h}

LEMMA ChosenIsOne == \A g \in SUBSET EvidenceRow : g # {} => Chosen(g) \in g
<1> TAKE g \in SUBSET EvidenceRow
<1> HAVE g # {}
<1> DEFINE known == {r \in g : r.asset # Absent}
           best == IF known # {} THEN known ELSE g
<1>1. best # {} /\ best \subseteq g
  OBVIOUS
<1> HIDE DEF best, known
<1>2. CASE \E r \in best : r.src = "op"
  <2>1. (CHOOSE r \in best : r.src = "op") \in best
    BY <1>2
  <2> QED
    BY <1>1, <1>2, <2>1 DEF Chosen, best, known
<1>3. CASE ~ \E r \in best : r.src = "op"
  <2>1. (CHOOSE r \in best : TRUE) \in best
    BY <1>1
  <2> QED
    BY <1>1, <1>3, <2>1 DEF Chosen, best, known
<1> QED
  BY <1>2, <1>3

\* A row of the joined rows x is one without a hash, or all of its hash are for
\* review, or it was chosen for them.
JoinedRow(x, rows) ==
  \/ x \in rows /\ x.hash = Absent
  \/ /\ x.hash # Absent /\ OfHash(rows, x.hash) # {}
     /\ IF Conflict(OfHash(rows, x.hash))
          THEN \E r \in OfHash(rows, x.hash) : x = [r EXCEPT !.outcome = "review"]
          ELSE x = Chosen(OfHash(rows, x.hash))

LEMMA JoinedRows == \A rows \in SUBSET EvidenceRow : \A x \in Dedupe(rows) : JoinedRow(x, rows)
<1> TAKE rows \in SUBSET EvidenceRow
<1> TAKE x \in Dedupe(rows)
<1> DEFINE joined(h) == IF Conflict(OfHash(rows, h)) THEN {[r EXCEPT !.outcome = "review"] : r \in OfHash(rows, h)}
                        ELSE {Chosen(OfHash(rows, h))}
<1>1. Dedupe(rows) = OfHash(rows, Absent) \cup UNION {joined(h) : h \in {r.hash : r \in rows} \ {Absent}}
  BY DEF Dedupe, OfHash
<1>2. CASE x \in OfHash(rows, Absent)
  BY <1>2 DEF OfHash, JoinedRow
<1>3. CASE x \notin OfHash(rows, Absent)
  <2>1. PICK h \in {r.hash : r \in rows} \ {Absent} : x \in joined(h)
    BY <1>1, <1>3
  <2>2. OfHash(rows, h) # {} /\ OfHash(rows, h) \subseteq EvidenceRow /\ h # Absent
    BY DEF OfHash
  <2>3. x.hash = h
    <3>1. CASE Conflict(OfHash(rows, h))
      <4>1. PICK r \in OfHash(rows, h) : x = [r EXCEPT !.outcome = "review"]
        BY <2>1, <3>1
      <4>2. r \in EvidenceRow /\ r.hash = h
        BY <2>2 DEF OfHash
      <4> QED
        BY <4>1, <4>2 DEF EvidenceRow
    <3>2. CASE ~Conflict(OfHash(rows, h))
      <4>1. x = Chosen(OfHash(rows, h))
        BY <2>1, <3>2
      <4>2. x \in OfHash(rows, h)
        BY <2>2, <4>1, ChosenIsOne
      <4> QED
        BY <4>2 DEF OfHash
    <3> QED
      BY <3>1, <3>2
  <2>4. CASE Conflict(OfHash(rows, h))
    <3>1. \E r \in OfHash(rows, h) : x = [r EXCEPT !.outcome = "review"]
      BY <2>1, <2>4
    <3> QED
      BY <2>2, <2>3, <2>4, <3>1 DEF JoinedRow
  <2>5. CASE ~Conflict(OfHash(rows, h))
    <3>1. x = Chosen(OfHash(rows, h))
      BY <2>1, <2>5
    <3> QED
      BY <2>2, <2>3, <2>5, <3>1 DEF JoinedRow
  <2> QED
    BY <2>4, <2>5
<1> QED
  BY <1>2, <1>3

\* Every hash of the rows has its row among the joined ones.
LEMMA HashesAreJoined ==
  \A rows \in SUBSET EvidenceRow : \A h \in Hashes : OfHash(rows, h) # {} =>
    IF Conflict(OfHash(rows, h))
      THEN \A r \in OfHash(rows, h) : [r EXCEPT !.outcome = "review"] \in Dedupe(rows)
      ELSE Chosen(OfHash(rows, h)) \in Dedupe(rows)
<1> TAKE rows \in SUBSET EvidenceRow
<1> TAKE h \in Hashes
<1> HAVE OfHash(rows, h) # {}
<1> DEFINE joined(g) == IF Conflict(OfHash(rows, g)) THEN {[r EXCEPT !.outcome = "review"] : r \in OfHash(rows, g)}
                        ELSE {Chosen(OfHash(rows, g))}
<1>1. Dedupe(rows) = OfHash(rows, Absent) \cup UNION {joined(g) : g \in {r.hash : r \in rows} \ {Absent}}
  BY DEF Dedupe, OfHash
<1>2. h \in {r.hash : r \in rows} \ {Absent}
  BY AbsentAssumption DEF OfHash
<1>3. joined(h) \subseteq Dedupe(rows)
  BY <1>1, <1>2
<1>4. CASE Conflict(OfHash(rows, h))
  BY <1>3, <1>4
<1>5. CASE ~Conflict(OfHash(rows, h))
  BY <1>3, <1>5
<1> QED
  BY <1>4, <1>5

\* Joined rows are rows.
LEMMA JoinedAreRows == \A rows \in SUBSET EvidenceRow : Dedupe(rows) \subseteq EvidenceRow
<1> TAKE rows \in SUBSET EvidenceRow
<1> SUFFICES ASSUME NEW x \in Dedupe(rows) PROVE x \in EvidenceRow
  OBVIOUS
<1>1. JoinedRow(x, rows)
  BY JoinedRows
<1>2. OfHash(rows, x.hash) \subseteq EvidenceRow
  BY DEF OfHash
<1>3. ASSUME NEW r \in EvidenceRow PROVE [r EXCEPT !.outcome = "review"] \in EvidenceRow
  BY DEF EvidenceRow, ReportedOutcomes
<1> QED
  BY <1>1, <1>2, <1>3, ChosenIsOne DEF JoinedRow

\* Joined rows that count are one for each hash.
LEMMA JoinedCountOnce ==
  \A rows \in SUBSET EvidenceRow : \A x, y \in Dedupe(rows) :
    /\ x.outcome = "confirmed" /\ x.hash # Absent /\ y.outcome = "confirmed" /\ y.hash = x.hash
    => x = y
<1> TAKE rows \in SUBSET EvidenceRow
<1> TAKE x, y \in Dedupe(rows)
<1> HAVE x.outcome = "confirmed" /\ x.hash # Absent /\ y.outcome = "confirmed" /\ y.hash = x.hash
<1>1. JoinedRow(x, rows) /\ JoinedRow(y, rows)
  BY JoinedRows
<1>2. \A r \in OfHash(rows, x.hash) : [r EXCEPT !.outcome = "review"].outcome = "review"
  BY DEF OfHash, EvidenceRow
<1> QED
  BY <1>1, <1>2 DEF JoinedRow

\* Only operations know an asset.
LedgersPlain(g) == \A r \in g : r.src # "op" => r.asset = Absent

LEMMA ChosenIsOp ==
  \A g \in SUBSET EvidenceRow :
    LedgersPlain(g) /\ (\E r \in g : r.src = "op") => Chosen(g) \in g /\ Chosen(g).src = "op"
<1> TAKE g \in SUBSET EvidenceRow
<1> HAVE LedgersPlain(g) /\ (\E r \in g : r.src = "op")
<1> DEFINE known == {r \in g : r.asset # Absent}
           best == IF known # {} THEN known ELSE g
<1>1. \E r \in best : r.src = "op"
  <2>1. CASE known # {}
    <3>1. PICK r \in known : TRUE
      BY <2>1
    <3>2. r.src = "op"
      BY DEF LedgersPlain
    <3> QED
      BY <2>1, <3>2
  <2>2. CASE known = {}
    BY <2>2
  <2> QED
    BY <2>1, <2>2
<1>2. best \subseteq g
  OBVIOUS
<1> HIDE DEF best, known
<1>3. (CHOOSE r \in best : r.src = "op") \in best /\ (CHOOSE r \in best : r.src = "op").src = "op"
  BY <1>1
<1>4. Chosen(g) = CHOOSE r \in best : r.src = "op"
  BY <1>1 DEF Chosen, best, known
<1> QED
  BY <1>2, <1>3, <1>4

\* The rows of a hash that are not in doubt agree with the one chosen for them.
LEMMA NoConflictAgrees ==
  ASSUME NEW g \in SUBSET EvidenceRow, LedgersPlain(g), ~Conflict(g), NEW m \in g,
         \A r, s \in g : r.src = "op" /\ s.src = "op" => r = s
  PROVE  /\ SameMovement(m, Chosen(g))
         /\ m.asset # Absent /\ Chosen(g).asset # Absent => m.asset = Chosen(g).asset
<1> DEFINE known == {r \in g : r.asset # Absent}
           of(a) == {r \in g : r.asset = a}
           leads(rs) == IF \E r \in rs : r.src = "op" THEN {r \in rs : r.src = "op"} ELSE rs
<1>1. /\ \A a \in {r.asset : r \in g} : \A r \in of(a), lead \in leads(of(a)) : SameMovement(r, lead)
      /\ known # {} => \A r \in g \ known : \E k \in known : SameMovement(r, k)
  BY DEF Conflict
<1>2. \A r \in known : r.src = "op"
  BY DEF LedgersPlain
<1>3. Chosen(g) \in g
  BY ChosenIsOne
<1>4. CASE known = {}
  <2>1. of(Absent) = g /\ Absent \in {r.asset : r \in g}
    BY <1>4
  <2>2. Chosen(g) \in leads(g)
    BY <1>3, ChosenIsOp
  <2> HIDE DEF of, leads, known
  <2>3. SameMovement(m, Chosen(g))
    BY <1>1, <2>1, <2>2
  <2> QED
    BY <1>3, <1>4, <2>3 DEF known
<1>5. CASE known # {}
  <2>1. Chosen(g).src = "op"
    BY <1>2, <1>5, ChosenIsOp
  <2>2. \A r \in known : r = Chosen(g)
    BY <1>2, <1>3, <2>1
  <2>3. CASE m \in known
    BY <2>2, <2>3 DEF SameMovement
  <2>4. CASE m \notin known
    BY <1>1, <1>5, <2>2, <2>4
  <2> QED
    BY <2>3, <2>4
<1> QED
  BY <1>4, <1>5
-----------------------------------------------------------------------------
(* The evidence report: the invariant.                                     *)

ReportRecord ==
  [at: {"idle", "reading", "done"}, query: Queries \cup {Absent},
   got: [Sources -> (SUBSET EvidenceRow) \cup {Absent}], flagged: BOOLEAN,
   rows: SUBSET EvidenceRow, held: SUBSET EvidenceRow, due: SUBSET Hashes]
AskAnswers == {"stored", "conflict", "not_found", "refused", "error", "lost"}
AskTarget == [owner: Parties, asset: Assets \cup {Absent}]
AskRecord ==
  [at: {"idle", "lock", "write", "answered"}, body: Bodies \cup {Absent},
   answer: AskAnswers \cup {Absent}, target: AskTarget \cup {Absent}]

\* Types.
EvidenceOK ==
  /\ TablesOK /\ report \in ReportRecord /\ period \in Dates
  /\ asks \in [Annotators -> AskRecord]
  /\ \A n \in Annotators : asks[n].at # "idle" => asks[n].body \in Bodies
  /\ \A a \in annotations : a.body \in Bodies
  /\ faults \in 0 .. MaxEvidenceFaults

\* What was read of a table: rows of it, one for each key.
GotOK ==
  \A s \in Sources : report.got[s] # Absent =>
    /\ \A r \in report.got[s] : r.src = s /\ Backed(r)
    /\ \A r, t \in report.got[s] : r.id = t.id => r = t

\* A row that was in the window: it is there still, and was read, perhaps with
\* a hash that it had not before.
Mirrors(r, b) ==
  /\ r.dir = b.dir /\ r.owner = b.owner /\ r.amount = b.amount /\ r.asset = b.asset
  /\ b.hash # Absent => r.hash = b.hash
HeldOK ==
  \A b \in report.held :
    /\ b.src \in Sources /\ b.id \in Kept(b.src) /\ Backed(b) /\ CreatedAt(b.src, b.id) \in Window(report.query)
    /\ report.got[b.src] # Absent /\ ~report.flagged => \E r \in report.got[b.src] : Mirrors(r, b)

\* A movement of the window that was projected.
IsDue(k, h) ==
  /\ ops[k] # Absent /\ ops[k].hash = h /\ ops[k].status = "projected"
  /\ OpOutcome(ops[k]) = "confirmed" /\ ops[k].confirmed \in Dates \cap Window(report.query)
DueOK ==
  \A h \in report.due :
    /\ \E k \in Ops : IsDue(k, h)
    /\ report.got["op"] # Absent /\ ~report.flagged =>
         \E r \in report.got["op"] : r.hash = h /\ r.outcome = "confirmed" /\ r.activity \in Window(report.query)

ReadOK ==
  /\ report.at # "reading" => report.got = NoReport.got
  /\ report.at # "done" => report.rows = {}
  /\ \A r \in report.rows : r.outcome = "confirmed" => Backed(r)

ReportBuilt == CountedOnce /\ CountedAgrees /\ NothingIsMissing

\* The inductive invariant of the report.
RInv == EvidenceOK /\ RetainedOps(ops) /\ GotOK /\ HeldOK /\ DueOK /\ ReadOK /\ ReportBuilt

\* What was read, once all of it was.
AllRead == report.got["op"] \cup report.got["award"] \cup report.got["spend"]

LEMMA AllReadIs ==
  ASSUME RInv, \A s \in Sources : report.got[s] # Absent
  PROVE  /\ UNION {report.got[s] : s \in Sources} = AllRead
         /\ AllRead \in SUBSET EvidenceRow /\ LedgersPlain(AllRead)
         /\ \A r \in AllRead : Backed(r) /\ r.src \in Sources /\ r \in report.got[r.src]
         /\ \A s \in Sources : report.got[s] \subseteq AllRead
         /\ \A h \in Hashes : LedgersPlain(OfHash(AllRead, h))
         /\ \A h \in Hashes : \A r, s \in OfHash(AllRead, h) : r.src = "op" /\ s.src = "op" => r = s
<1>1. \A s \in Sources : report.got[s] \in SUBSET EvidenceRow
  BY DEF RInv, EvidenceOK, ReportRecord
<1>2. UNION {report.got[s] : s \in Sources} = AllRead /\ \A s \in Sources : report.got[s] \subseteq AllRead
  BY DEF Sources, AllRead
<1>3. \A r \in AllRead : Backed(r) /\ r.src \in Sources /\ r \in report.got[r.src]
  BY DEF RInv, GotOK, AllRead, Sources
<1>4. LedgersPlain(AllRead)
  BY <1>3 DEF LedgersPlain, Backed, OpBacks, LedgerBacks
<1>5. AllRead \in SUBSET EvidenceRow
  BY <1>1 DEF AllRead, Sources
<1>6. ASSUME NEW h \in Hashes, NEW r \in OfHash(AllRead, h), NEW s \in OfHash(AllRead, h), r.src = "op", s.src = "op"
      PROVE  r = s
  <2>1. r \in AllRead /\ s \in AllRead /\ r.hash = h /\ s.hash = h /\ h # Absent
    BY AbsentAssumption DEF OfHash
  <2>2. OpBacks(r) /\ OpBacks(s)
    BY <1>3, <1>6, <2>1 DEF Backed, LedgerBacks
  <2>3. r.id = s.id
    BY <2>1, <2>2 DEF OpBacks, RInv, RetainedOps
  <2> QED
    BY <1>3, <1>6, <2>1, <2>3 DEF RInv, GotOK
<1> QED
  BY <1>2, <1>3, <1>4, <1>5, <1>6 DEF LedgersPlain, OfHash

\* A joined row that is confirmed was chosen.
LEMMA ConfirmedWasChosen ==
  ASSUME NEW rows \in SUBSET EvidenceRow, NEW x \in Dedupe(rows), x.outcome = "confirmed"
  PROVE  x \in rows /\ (x.hash # Absent => ~Conflict(OfHash(rows, x.hash)) /\ x = Chosen(OfHash(rows, x.hash)))
<1>1. JoinedRow(x, rows)
  BY JoinedRows
<1>2. \A r \in OfHash(rows, x.hash) : [r EXCEPT !.outcome = "review"].outcome = "review"
  BY DEF OfHash, EvidenceRow
<1>3. OfHash(rows, x.hash) # {} => Chosen(OfHash(rows, x.hash)) \in rows
  BY ChosenIsOne DEF OfHash
<1> QED
  BY <1>1, <1>2, <1>3 DEF JoinedRow

\* What a report that was read whole counts agrees with the rows of the window.
LEMMA CountsAgree ==
  ASSUME RInv, \A s \in Sources : report.got[s] # Absent, ~report.flagged,
         NEW x \in Dedupe(AllRead), x.outcome = "confirmed", x.hash # Absent,
         NEW b \in report.held, b.hash = x.hash
  PROVE  SameMovement(b, x) /\ (b.asset # Absent /\ x.asset # Absent => b.asset = x.asset)
<1>1. AllRead \in SUBSET EvidenceRow
  BY AllReadIs
<1> DEFINE g == OfHash(AllRead, x.hash)
<1>2. x \in AllRead /\ ~Conflict(g) /\ x = Chosen(g)
  BY <1>1, ConfirmedWasChosen
<1>3. x.hash \in Hashes
  BY <1>1, <1>2 DEF EvidenceRow
<1>4. g \in SUBSET EvidenceRow /\ LedgersPlain(g) /\ \A r, s \in g : r.src = "op" /\ s.src = "op" => r = s
  BY <1>1, <1>3, AllReadIs DEF OfHash
<1>5. b.src \in Sources /\ \E r \in report.got[b.src] : Mirrors(r, b)
  BY DEF RInv, HeldOK
<1>6. PICK r \in report.got[b.src] : Mirrors(r, b)
  BY <1>5
<1>7. r \in g
  BY <1>5, <1>6, AllReadIs DEF Mirrors, OfHash
<1> HIDE DEF g
<1>8. SameMovement(r, x) /\ (r.asset # Absent /\ x.asset # Absent => r.asset = x.asset)
  BY <1>2, <1>4, <1>7, NoConflictAgrees
<1> QED
  BY <1>6, <1>8 DEF Mirrors, SameMovement

\* Every movement that is due is counted or for review.
LEMMA DueIsJoined ==
  ASSUME RInv, \A s \in Sources : report.got[s] # Absent, ~report.flagged, NEW h \in report.due
  PROVE  \E x \in Dedupe(AllRead) :
           x.hash = h /\ x.outcome \in {"confirmed", "review"} /\ x.activity \in Window(report.query)
<1>1. h \in Hashes
  BY DEF RInv, EvidenceOK, ReportRecord
<1>2. PICK r \in report.got["op"] : r.hash = h /\ r.outcome = "confirmed" /\ r.activity \in Window(report.query)
  BY DEF RInv, DueOK, Sources
<1> DEFINE g == OfHash(AllRead, h)
<1>3. r \in g /\ r.src = "op" /\ r \in EvidenceRow
  BY <1>2, AllReadIs DEF OfHash, Sources, RInv, GotOK
<1>4. AllRead \in SUBSET EvidenceRow /\ g \in SUBSET EvidenceRow /\ LedgersPlain(g)
  BY <1>1, AllReadIs DEF OfHash
<1>5. CASE Conflict(g)
  <2>1. [r EXCEPT !.outcome = "review"] \in Dedupe(AllRead)
    BY <1>1, <1>3, <1>4, <1>5, HashesAreJoined
  <2> QED
    BY <1>2, <1>3, <2>1 DEF EvidenceRow
<1>6. CASE ~Conflict(g)
  <2>1. Chosen(g) \in Dedupe(AllRead)
    BY <1>1, <1>3, <1>4, <1>6, HashesAreJoined
  <2>2. Chosen(g) = r
    BY <1>1, <1>3, <1>4, ChosenIsOp, AllReadIs
  <2> QED
    BY <1>2, <2>1, <2>2
<1> QED
  BY <1>5, <1>6

-----------------------------------------------------------------------------
(* The evidence report: its steps.                                         *)

\* Whom and what the rows of a hash name.
Naming(h, o, c) ==
  \/ \E k \in Ops : ops[k] # Absent /\ ops[k].hash = h /\ ops[k].owner = o /\ ops[k].asset = c
  \/ \E src \in {"award", "spend"} : Ledger(src)[h] # Absent /\ Ledger(src)[h].owner = o /\ c = Absent

\* A write keeps what an operation moves, its hash and a confirmed outcome.
Continues(old, new) ==
  /\ new.dir = old.dir /\ new.owner = old.owner /\ new.amount = old.amount /\ new.asset = old.asset
  /\ new.created = old.created
  /\ old.hash # Absent =>
       /\ new.hash = old.hash
       /\ OpOutcome(old) = "confirmed" => OpOutcome(new) = "confirmed"
       /\ old.status = "projected" => new.status = "projected" /\ new.confirmed = old.confirmed

\* The operations and the ledgers only go on; rows that are added to a hash
\* name whom and what the rows there name.
Onward ==
  /\ \A k \in Ops : ops[k] # Absent => ops'[k] # Absent /\ Continues(ops[k], ops'[k])
  /\ \A h \in Hashes : awards[h] # Absent => awards'[h] = awards[h]
  /\ \A h \in Hashes : spends[h] # Absent => spends'[h] = spends[h]
  /\ \A h \in Hashes, o \in Parties, c \in Assets \cup {Absent} :
       ~Free(h) /\ Naming(h, o, c)' =>
         Naming(h, o, c) \/ (c = Absent /\ \E b \in Assets \cup {Absent} : Naming(h, o, b))

LEMMA BackedStays == ASSUME Onward, NEW r, Backed(r) PROVE Backed(r)'
<1>1. CASE OpBacks(r)
  <2>1. ops'[r.id] # Absent /\ Continues(ops[r.id], ops'[r.id])
    BY <1>1 DEF OpBacks, Onward
  <2>2. PICK x : x = OpOutcome(ops'[r.id])
    OBVIOUS
  <2>3. OpOutcome(ops[r.id])' = x
    BY <2>2 DEF OpOutcome
  <2>4. r.hash # Absent => ops[r.id].hash # Absent
    BY <1>1 DEF OpBacks
  <2>5. r.hash # Absent /\ r.outcome = "confirmed" => x = "confirmed"
    BY <1>1, <2>1, <2>2, <2>4 DEF OpBacks, Continues
  <2> QED
    BY <1>1, <2>1, <2>3, <2>5 DEF Backed, OpBacks, Continues
<1>2. CASE LedgerBacks(r)
  BY <1>2 DEF Backed, LedgerBacks, Ledger, Onward
<1> QED
  BY <1>1, <1>2 DEF Backed

LEMMA OnwardSound ==
  ASSUME RInv, Onward, UNCHANGED report, EvidenceOK', RetainedOps(ops')
  PROVE  RInv'
<1>1. GotOK'
  BY BackedStays DEF RInv, GotOK
<1>2. HeldOK'
  <2> SUFFICES ASSUME NEW b \in report.held
               PROVE  /\ b.src \in Sources /\ (b.id \in Kept(b.src))' /\ Backed(b)'
                      /\ CreatedAt(b.src, b.id)' \in Window(report.query)
                      /\ report.got[b.src] # Absent /\ ~report.flagged =>
                           \E r \in report.got[b.src] : Mirrors(r, b)
    BY DEF HeldOK, Mirrors, Window
  <2>1. /\ b.src \in Sources /\ b.id \in Kept(b.src) /\ Backed(b) /\ CreatedAt(b.src, b.id) \in Window(report.query)
        /\ report.got[b.src] # Absent /\ ~report.flagged => \E r \in report.got[b.src] : Mirrors(r, b)
    BY DEF RInv, HeldOK
  <2>2. CASE b.src = "op"
    <3>1. b.id \in Ops /\ ops[b.id] # Absent
      BY <2>1, <2>2 DEF Kept
    <3>2. ops'[b.id] # Absent /\ ops'[b.id].created = ops[b.id].created
      BY <3>1 DEF Onward, Continues
    <3> QED
      BY <2>1, <2>2, <3>1, <3>2, BackedStays DEF Kept, CreatedAt
  <2>3. CASE b.src # "op"
    <3>1. b.id \in Hashes /\ Ledger(b.src)[b.id] # Absent
      BY <2>1, <2>3 DEF Kept
    <3>2. Ledger(b.src)'[b.id] = Ledger(b.src)[b.id]
      BY <3>1 DEF Onward, Ledger
    <3> QED
      BY <2>1, <2>3, <3>1, <3>2, BackedStays DEF Kept, CreatedAt
  <2> QED
    BY <2>2, <2>3
<1>3. DueOK'
  <2>1. ASSUME NEW h \in report.due, NEW k \in Ops, IsDue(k, h) PROVE IsDue(k, h)'
    <3>1. h # Absent
      BY AbsentAssumption DEF RInv, EvidenceOK, ReportRecord
    <3>2. ops'[k] # Absent /\ Continues(ops[k], ops'[k])
      BY <2>1 DEF Onward, IsDue
    <3>3. PICK x : x = OpOutcome(ops'[k])
      OBVIOUS
    <3>4. OpOutcome(ops[k])' = x
      BY <3>3 DEF OpOutcome
    <3>5. x = "confirmed"
      BY <2>1, <3>1, <3>2, <3>3 DEF IsDue, Continues
    <3> QED
      BY <2>1, <3>1, <3>2, <3>4, <3>5 DEF IsDue, Continues, Window
  <2> QED
    BY <2>1 DEF RInv, DueOK, Window
<1>4. ReadOK'
  <2>1. NoReport.got' = NoReport.got
    BY DEF NoReport
  <2> QED
    BY <2>1, BackedStays DEF RInv, ReadOK
<1>5. ReportBuilt'
  BY DEF RInv, ReportBuilt, CountedOnce, CountedAgrees, NothingIsMissing, Counted, SameMovement, Window
<1> QED
  BY <1>1, <1>2, <1>3, <1>4, <1>5 DEF RInv

\* A step that leaves the tables alone; and the report.
LEMMA AsideIsOnward == ASSUME UNCHANGED tables PROVE Onward
<1>1. UNCHANGED <<ops, awards, spends>>
  BY DEF tables
<1>2. \A h, o, c : Naming(h, o, c)' = Naming(h, o, c)
  BY <1>1 DEF Naming, Ledger
<1> QED
  BY <1>1, <1>2 DEF Onward, Continues

LEMMA AsideSound == ASSUME RInv, UNCHANGED <<tables, report>>, EvidenceOK' PROVE RInv' /\ Onward
<1>1. Onward
  BY AsideIsOnward
<1>2. RetainedOps(ops')
  BY DEF RInv, tables
<1> QED
  BY <1>1, <1>2, OnwardSound

LEMMA BeginSound == ASSUME RInv, NEW q \in Queries, Begin(q) PROVE RInv' /\ Onward
<1>1. UNCHANGED <<ops, awards, spends, period, annotations, asks, lock, faults>> /\ TablesOK
  BY DEF Begin, tables, RInv, EvidenceOK
<1>2. report' = [at |-> "reading", query |-> q, got |-> [s \in Sources |-> Absent], flagged |-> FALSE,
                 rows |-> {}, held |-> Held(q), due |-> Due(q)]
  BY DEF Begin, NoReport
<1>3. /\ report'.at = "reading" /\ report'.query = q /\ report'.flagged = FALSE /\ report'.rows = {}
      /\ report'.held = Held(q) /\ report'.due = Due(q) /\ \A s \in Sources : report'.got[s] = Absent
  BY <1>2
<1>4. \A b \in Held(q) : /\ b \in EvidenceRow /\ b.src \in Sources /\ b.id \in Kept(b.src) /\ Backed(b)
                         /\ CreatedAt(b.src, b.id) \in Window(q)
  <2> SUFFICES ASSUME NEW s \in Sources, NEW i \in Kept(s), CreatedAt(s, i) \in Window(q), NEW b, b = RowOf(s, i)
               PROVE  /\ b \in EvidenceRow /\ b.src \in Sources /\ b.id \in Kept(b.src) /\ Backed(b)
                      /\ CreatedAt(b.src, b.id) \in Window(q)
    BY DEF Held
  <2>1. b \in EvidenceRow /\ b.src = s /\ b.id = i /\ Backed(b)
    BY <1>1, RowIsBacked
  <2> QED
    BY <2>1
<1>5. EvidenceOK'
  <2>1. Due(q) \in SUBSET Hashes /\ Held(q) \in SUBSET EvidenceRow
    BY <1>4 DEF Due
  <2>2. report' \in ReportRecord
    BY <1>2, <2>1 DEF ReportRecord
  <2> QED
    BY <1>1, <2>2 DEF RInv, EvidenceOK, TablesOK
<1>6. RetainedOps(ops') /\ GotOK'
  BY <1>1, <1>3 DEF RInv, GotOK
<1>7. HeldOK'
  BY <1>1, <1>3, <1>4 DEF HeldOK, Kept, Backed, OpBacks, LedgerBacks, Ledger, OpOutcome, CreatedAt, Window
<1>8. DueOK'
  <2>1. "op" \in Sources
    BY DEF Sources
  <2>2. ASSUME NEW h \in Due(q) PROVE \E k \in Ops : IsDue(k, h)'
    <3>1. PICK k \in Ops : /\ ops[k] # Absent /\ ops[k].hash = h /\ ops[k].status = "projected"
                           /\ OpOutcome(ops[k]) = "confirmed" /\ ops[k].confirmed \in Window(q)
      BY DEF Due
    <3>2. ops[k].confirmed \in Dates
      <4>1. ops[k].confirmed \in Dates \cup {Absent}
        BY <1>1, <3>1 DEF TablesOK, OpRecord
      <4>2. Window(q) \subseteq Int /\ \A d \in Window(q) : d \in Nat
        BY QueriesAssumption DEF Window, Asked
      <4> QED
        BY <3>1, <4>1, <4>2, AbsentAssumption
    <3> QED
      BY <1>1, <1>3, <3>1, <3>2 DEF IsDue, OpOutcome, Window
  <2> QED
    BY <1>3, <2>1, <2>2 DEF DueOK
<1>9. ReadOK' /\ ReportBuilt'
  BY <1>3 DEF ReadOK, ReportBuilt, CountedOnce, CountedAgrees, NothingIsMissing, Counted
<1>10. Onward
  BY <1>1, AsideIsOnward DEF tables
<1> QED
  BY <1>5, <1>6, <1>7, <1>8, <1>9, <1>10 DEF RInv

\* What a read leaves: some of the table, and a flag if not all of it.
LEMMA ReadIs ==
  ASSUME RInv, NEW src \in Sources, Read(src)
  PROVE  \E R \in SUBSET Table(src, report.query), f \in BOOLEAN :
           /\ report.at = "reading" /\ report.got[src] = Absent
           /\ report' = [[report EXCEPT !.got[src] = R] EXCEPT !.flagged = f]
           /\ (R = Table(src, report.query) /\ f = report.flagged) \/ f = TRUE
<1> DEFINE found == Table(src, report.query)
<1>1. report.at = "reading" /\ report.got[src] = Absent /\ report \in ReportRecord
  BY DEF Read, RInv, EvidenceOK
<1>2. report.flagged \in BOOLEAN
  BY <1>1 DEF ReportRecord
<1>3. CASE report' = [report EXCEPT !.got[src] = found]
  <2>1. report' = [[report EXCEPT !.got[src] = found] EXCEPT !.flagged = report.flagged]
    BY <1>1, <1>3 DEF ReportRecord
  <2> QED
    BY <1>1, <1>2, <2>1
<1>4. CASE \E rows \in kSubset(SourceCap, found) : report' = [report EXCEPT !.got[src] = rows, !.flagged = TRUE]
  <2>1. PICK rows \in kSubset(SourceCap, found) : report' = [report EXCEPT !.got[src] = rows, !.flagged = TRUE]
    BY <1>4
  <2>2. rows \in SUBSET found
    BY DEF kSubset
  <2> QED
    BY <1>1, <2>1, <2>2
<1>5. CASE report' = [report EXCEPT !.got[src] = {}, !.flagged = TRUE]
  BY <1>1, <1>5
<1> QED
  BY <1>3, <1>4, <1>5 DEF Read

LEMMA ReadSound == ASSUME RInv, NEW src \in Sources, Read(src) PROVE RInv' /\ Onward
<1> DEFINE q == report.query
<1>1. PICK R \in SUBSET Table(src, q), f \in BOOLEAN :
        /\ report.at = "reading" /\ report.got[src] = Absent
        /\ report' = [[report EXCEPT !.got[src] = R] EXCEPT !.flagged = f]
        /\ (R = Table(src, q) /\ f = report.flagged) \/ f = TRUE
  BY ReadIs
<1>2. UNCHANGED <<ops, awards, spends, period, annotations, asks, lock>> /\ faults' \in 0 .. MaxEvidenceFaults
  <2>1. UNCHANGED <<ops, awards, spends, period, annotations, asks, lock>>
    BY DEF Read, tables
  <2>2. faults' = faults \/ (faults < MaxEvidenceFaults /\ faults' = faults + 1)
    BY DEF Read
  <2>3. faults \in 0 .. MaxEvidenceFaults
    BY DEF RInv, EvidenceOK
  <2>4. faults' \in 0 .. MaxEvidenceFaults
    BY <2>2, <2>3, BoundsAssumption
  <2> QED
    BY <2>1, <2>4
<1>3. TablesOK /\ report \in ReportRecord
  BY DEF RInv, EvidenceOK
<1>4. /\ Table(src, q) \subseteq EvidenceRow
      /\ \A r \in Table(src, q) : r.src = src /\ r.id \in Kept(src) /\ r = RowOf(src, r.id) /\ Backed(r)
      /\ \A id \in Kept(src) : DatesOf(src, id) \cap Window(q) # {} => RowOf(src, id) \in Table(src, q)
  BY <1>3, TableIs
<1>5. /\ report'.got[src] = R /\ \A s \in Sources \ {src} : report'.got[s] = report.got[s]
      /\ report'.flagged = f /\ report'.at = "reading" /\ report'.held = report.held /\ report'.due = report.due
      /\ report'.rows = report.rows /\ report'.query = q
  BY <1>1, <1>3 DEF ReportRecord
<1>6. ~f => ~report.flagged /\ R = Table(src, q)
  BY <1>1
<1>7. EvidenceOK'
  <2>1. report' \in ReportRecord
    BY <1>1, <1>3, <1>4 DEF ReportRecord
  <2> QED
    BY <1>2, <2>1 DEF RInv, EvidenceOK, TablesOK
<1>8. \A r : Backed(r)' = Backed(r)
  BY <1>2 DEF Backed, OpBacks, LedgerBacks, Ledger, OpOutcome
<1>9. \A r \in R : r.src = src /\ Backed(r) /\ r = RowOf(src, r.id)
  BY <1>4
<1> HIDE DEF q
<1>10. GotOK'
  <2> SUFFICES ASSUME NEW s \in Sources, report'.got[s] # Absent
               PROVE  /\ \A r \in report'.got[s] : r.src = s /\ Backed(r)
                      /\ \A r, t \in report'.got[s] : r.id = t.id => r = t
    BY <1>8 DEF GotOK
  <2>1. CASE s = src
    BY <1>5, <1>9, <2>1
  <2>2. CASE s # src
    BY <1>5, <2>2 DEF RInv, GotOK
  <2> QED
    BY <2>1, <2>2
<1>11. HeldOK'
  <2> SUFFICES ASSUME NEW b \in report.held
               PROVE  /\ b.src \in Sources /\ b.id \in Kept(b.src) /\ Backed(b) /\ CreatedAt(b.src, b.id) \in Window(q)
                      /\ report'.got[b.src] # Absent /\ ~f => \E r \in report'.got[b.src] : Mirrors(r, b)
    BY <1>2, <1>5, <1>8 DEF HeldOK, Mirrors, Window, Kept, Ledger, CreatedAt
  <2>1. /\ b.src \in Sources /\ b.id \in Kept(b.src) /\ Backed(b) /\ CreatedAt(b.src, b.id) \in Window(q)
        /\ report.got[b.src] # Absent /\ ~report.flagged => \E r \in report.got[b.src] : Mirrors(r, b)
    BY DEF RInv, HeldOK, q
  <2>2. ASSUME b.src = src, ~f PROVE \E r \in report'.got[b.src] : Mirrors(r, b)
    <3>1. PICK r : r = RowOf(src, b.id)
      OBVIOUS
    <3>2. CreatedAt(src, b.id) \in DatesOf(src, b.id)
      BY DEF CreatedAt, DatesOf
    <3>3. r \in R
      BY <1>4, <1>6, <2>1, <2>2, <3>1, <3>2
    <3>4. Mirrors(r, b)
      <4>1. CASE src = "op"
        BY <2>1, <2>2, <3>1, <4>1 DEF Mirrors, RowOf, OpRow, Backed, OpBacks, LedgerBacks
      <4>2. CASE src # "op"
        BY <2>1, <2>2, <3>1, <4>2 DEF Mirrors, RowOf, LedgerRow, Backed, OpBacks, LedgerBacks
      <4> QED
        BY <4>1, <4>2
    <3> QED
      BY <1>5, <2>2, <3>3, <3>4
  <2>3. ASSUME b.src # src, report'.got[b.src] # Absent, ~f PROVE \E r \in report'.got[b.src] : Mirrors(r, b)
    BY <1>5, <1>6, <2>1, <2>3
  <2> QED
    BY <2>1, <2>2, <2>3
<1>12. DueOK'
  <2> SUFFICES ASSUME NEW h \in report.due
               PROVE  /\ \E k \in Ops : IsDue(k, h)'
                      /\ report'.got["op"] # Absent /\ ~f =>
                           \E r \in report'.got["op"] : r.hash = h /\ r.outcome = "confirmed" /\ r.activity \in Window(q)
    BY <1>5 DEF DueOK, Window
  <2>1. PICK k \in Ops : IsDue(k, h)
    BY DEF RInv, DueOK
  <2>2. IsDue(k, h)'
    BY <1>2, <1>5, <2>1 DEF IsDue, OpOutcome, Window, q
  <2>3. ASSUME src = "op", ~f
        PROVE  \E r \in report'.got["op"] : r.hash = h /\ r.outcome = "confirmed" /\ r.activity \in Window(q)
    <3>1. PICK r : r = OpRow(k)
      OBVIOUS
    <3>2. ops[k].confirmed \in Window(q) /\ ops[k].confirmed # Absent
      BY <2>1, AbsentAssumption DEF IsDue, Dates, q
    <3>3. k \in Kept("op") /\ DatesOf("op", k) \cap Window(q) # {}
      BY <2>1, <3>2 DEF IsDue, Kept, DatesOf
    <3>4. r \in R
      BY <1>4, <1>6, <2>3, <3>1, <3>3 DEF RowOf
    <3>5. r.hash = h /\ r.outcome = "confirmed" /\ r.activity \in Window(q)
      BY <2>1, <3>1, <3>2 DEF IsDue, OpRow
    <3> QED
      BY <1>5, <2>3, <3>4, <3>5
  <2>4. ASSUME src # "op", report'.got["op"] # Absent, ~f
        PROVE  \E r \in report'.got["op"] : r.hash = h /\ r.outcome = "confirmed" /\ r.activity \in Window(q)
    <3>1. report'.got["op"] = report.got["op"]
      BY <1>5, <2>4 DEF Sources
    <3> QED
      BY <1>6, <2>4, <3>1 DEF RInv, DueOK, q
  <2> QED
    BY <2>2, <2>3, <2>4
<1>13. ReadOK' /\ ReportBuilt'
  <2>1. report'.rows = {} /\ report'.at = "reading"
    BY <1>1, <1>5 DEF RInv, ReadOK
  <2> QED
    BY <2>1 DEF ReadOK, ReportBuilt, CountedOnce, CountedAgrees, NothingIsMissing, Counted
<1>14. Onward /\ RetainedOps(ops')
  BY <1>2, AsideIsOnward DEF tables, RInv
<1> QED
  BY <1>7, <1>10, <1>11, <1>12, <1>13, <1>14 DEF RInv

LEMMA BuildSound == ASSUME RInv, Build PROVE RInv' /\ Onward
<1>1. UNCHANGED <<ops, awards, spends, period, annotations, asks, lock, faults>>
  BY DEF Build, tables
<1>2. report.at = "reading" /\ \A s \in Sources : report.got[s] # Absent
  BY DEF Build
<1>3. UNION {report.got[s] : s \in Sources} = AllRead /\ AllRead \in SUBSET EvidenceRow
  BY <1>2, AllReadIs
<1> DEFINE q == report.query
           rows == Select(AllRead, q)
<1>4. report' = [report EXCEPT !.at = "done", !.got = NoReport.got, !.rows = rows]
  BY <1>3 DEF Build
<1>5. rows \subseteq Dedupe(AllRead) /\ rows \subseteq EvidenceRow
  BY <1>3, JoinedAreRows DEF Select
<1>6. report \in ReportRecord
  BY DEF RInv, EvidenceOK
<1>7. NoReport.got = [s \in Sources |-> Absent]
  BY DEF NoReport
<1>8. /\ report'.at = "done" /\ report'.got = NoReport.got /\ report'.rows = rows /\ report'.query = q
      /\ report'.held = report.held /\ report'.due = report.due /\ report'.flagged = report.flagged
  BY <1>4, <1>6 DEF ReportRecord
<1>9. rows = {r \in Dedupe(AllRead) : Matches(r, q)}
  BY DEF Select
<1> HIDE DEF rows
<1>10. EvidenceOK'
  <2>1. report' \in ReportRecord
    BY <1>4, <1>5, <1>6, <1>7 DEF ReportRecord
  <2> QED
    BY <1>1, <2>1 DEF RInv, EvidenceOK, TablesOK
<1>11. \A s \in Sources : report'.got[s] = Absent
  BY <1>7, <1>8
<1>12. \A r : Backed(r)' = Backed(r)
  BY <1>1 DEF Backed, OpBacks, LedgerBacks, Ledger, OpOutcome
<1>13. GotOK' /\ HeldOK'
  BY <1>1, <1>8, <1>11, <1>12 DEF RInv, GotOK, HeldOK, Kept, Ledger, CreatedAt, Window, q
<1>14. DueOK'
  <2>1. \A h, k : IsDue(k, h)' = IsDue(k, h)
    BY <1>1, <1>8 DEF IsDue, OpOutcome, Window, q
  <2>2. report'.got["op"] = Absent
    BY <1>11 DEF Sources
  <2> QED
    BY <1>8, <2>1, <2>2 DEF RInv, DueOK
<1>15. ReadOK'
  <2>1. \A r \in rows : r.outcome = "confirmed" => Backed(r)
    BY <1>2, <1>3, <1>5, ConfirmedWasChosen, AllReadIs
  <2>2. NoReport.got' = NoReport.got
    BY DEF NoReport
  <2> QED
    BY <1>8, <1>12, <2>1, <2>2 DEF ReadOK
<1>16. CountedOnce'
  <2> SUFFICES ASSUME NEW r \in Counted(rows), NEW s \in Counted(rows), r.hash = s.hash PROVE r = s
    BY <1>8 DEF CountedOnce, Counted
  <2>1. r \in Dedupe(AllRead) /\ s \in Dedupe(AllRead) /\ r.outcome = "confirmed" /\ s.outcome = "confirmed"
        /\ r.hash # Absent
    BY <1>5 DEF Counted
  <2> QED
    BY <1>3, <2>1, JoinedCountOnce
<1>17. CountedAgrees'
  <2> SUFFICES ASSUME ~report.flagged, NEW r \in Counted(rows), NEW s \in report.held, r.hash = s.hash
               PROVE  SameMovement(s, r) /\ (s.asset # Absent /\ r.asset # Absent => s.asset = r.asset)
    BY <1>8 DEF CountedAgrees, Counted, SameMovement
  <2>1. r \in Dedupe(AllRead) /\ r.outcome = "confirmed" /\ r.hash # Absent
    BY <1>5 DEF Counted
  <2> QED
    BY <1>2, <2>1, CountsAgree
<1>18. NothingIsMissing'
  <2> SUFFICES ASSUME ~report.flagged, q.owner = Absent, q.dir = Absent, q.status = Absent, ~q.unresolved,
                      NEW h \in report.due
               PROVE  \E r \in rows : r.hash = h /\ r.outcome \in {"confirmed", "review"}
    BY <1>8 DEF NothingIsMissing
  <2>1. PICK x \in Dedupe(AllRead) : x.hash = h /\ x.outcome \in {"confirmed", "review"} /\ x.activity \in Window(q)
    BY <1>2, DueIsJoined
  <2>2. Matches(x, q)
    BY <2>1 DEF Matches
  <2> QED
    BY <1>9, <2>1, <2>2
<1>19. Onward /\ RetainedOps(ops')
  BY <1>1, AsideIsOnward DEF tables, RInv
<1> QED
  BY <1>10, <1>13, <1>14, <1>15, <1>16, <1>17, <1>18, <1>19 DEF RInv, ReportBuilt

\* A row of the operations is written: its movement stays, and its hash is its
\* own.
LEMMA WriteSound ==
  ASSUME RInv, NEW k \in Ops, NEW new \in OpRecord, OpsWritten(k, new),
         ops[k] # Absent => Continues(ops[k], new),
         new.hash = Absent \/ (ops[k] # Absent /\ Has(k, new.hash)),
         new.hash # Absent => new.amount # 0,
         new.status \in Pending => new.outcome # "confirmed"
  PROVE  RInv' /\ Onward
<1>1. /\ ops' = [ops EXCEPT ![k] = new] /\ UNCHANGED <<awards, spends, period, report, annotations, asks, lock, faults>>
      /\ TablesOK /\ RetainedOps(ops) /\ new # Absent
  BY AbsentAssumption DEF OpsWritten, RInv, EvidenceOK
<1>2. ops'[k] = new /\ \A j \in Ops \ {k} : ops'[j] = ops[j]
  BY <1>1 DEF TablesOK
<1>3. EvidenceOK'
  BY <1>1 DEF RInv, EvidenceOK, TablesOK
<1>4. new.hash # Absent =>
        /\ new.hash \in Hashes
        /\ ops[k].hash = new.hash \/ (ops[k].hash = Absent /\ Free(new.hash))
        /\ ops[k] # Absent /\ new.owner = ops[k].owner /\ new.asset = ops[k].asset
  BY DEF OpRecord, Has, Continues
<1>5. ASSUME NEW j \in Ops \ {k}, ops[j] # Absent, new.hash # Absent PROVE ops[j].hash # new.hash
  <2>1. CASE Free(new.hash)
    BY <1>5, <2>1 DEF Free
  <2>2. CASE ops[k].hash = new.hash
    BY <1>1, <1>4, <1>5, <2>2 DEF RetainedOps
  <2> QED
    BY <1>4, <1>5, <2>1, <2>2
<1>6. RetainedOps(ops')
  <2>1. ops' \in [Ops -> OpRecord \cup {Absent}]
    BY <1>1 DEF TablesOK
  <2>2. \A j \in Ops : ops'[j] # Absent =>
          /\ ops'[j].hash # Absent => ops'[j].amount # 0
          /\ ops'[j].status \in Pending => ops'[j].outcome # "confirmed"
    BY <1>1, <1>2 DEF RetainedOps
  <2>3. \A j, l \in Ops : ops'[j] # Absent /\ ops'[l] # Absent /\ ops'[j].hash # Absent /\ ops'[j].hash = ops'[l].hash => j = l
    BY <1>1, <1>2, <1>5 DEF RetainedOps
  <2> QED
    BY <2>1, <2>2, <2>3 DEF RetainedOps
<1>7. Onward
  <2>1. \A j \in Ops : ops[j] # Absent => ops'[j] # Absent /\ Continues(ops[j], ops'[j])
    <3> SUFFICES ASSUME NEW j \in Ops, ops[j] # Absent PROVE ops'[j] # Absent /\ Continues(ops[j], ops'[j])
      OBVIOUS
    <3>1. CASE j = k
      BY <1>1, <1>2, <3>1
    <3>2. CASE j # k
      BY <1>2, <3>2 DEF Continues
    <3> QED
      BY <3>1, <3>2
  <2>2. ASSUME NEW h \in Hashes, NEW o, NEW c, ~Free(h), Naming(h, o, c)' PROVE Naming(h, o, c)
    <3>1. CASE \E src \in {"award", "spend"} : (Ledger(src)[h] # Absent /\ Ledger(src)[h].owner = o /\ c = Absent)'
      BY <1>1, <3>1 DEF Naming, Ledger
    <3>2. CASE \E j \in Ops : ops'[j] # Absent /\ ops'[j].hash = h /\ ops'[j].owner = o /\ ops'[j].asset = c
      <4>1. PICK j \in Ops : ops'[j] # Absent /\ ops'[j].hash = h /\ ops'[j].owner = o /\ ops'[j].asset = c
        BY <3>2
      <4>2. CASE j = k
        <5>1. new.hash = h /\ h # Absent
          BY <1>2, <4>1, <4>2, AbsentAssumption
        <5>2. ops[k].hash = h /\ ops[k] # Absent /\ ops[k].owner = o /\ ops[k].asset = c
          BY <1>2, <1>4, <2>2, <4>1, <4>2, <5>1
        <5> QED
          BY <5>2 DEF Naming
      <4>3. CASE j # k
        BY <1>2, <4>1, <4>3 DEF Naming
      <4> QED
        BY <4>2, <4>3
    <3> QED
      BY <2>2, <3>1, <3>2 DEF Naming
  <2> QED
    BY <1>1, <2>1, <2>2 DEF Onward
<1> QED
  BY <1>1, <1>3, <1>6, <1>7, OnwardSound

\* A ledger's row names whom its operation names.
LEMMA RecordedSound == ASSUME RInv, NEW k \in Ops, Recorded(k) PROVE RInv' /\ Onward
<1>1. /\ UNCHANGED <<ops, period, report, annotations, asks, lock, faults>>
      /\ ops[k] # Absent /\ ops[k].hash # Absent /\ Ledger(ops[k].dir)[ops[k].hash] = Absent
  BY DEF Recorded
<1>2. TablesOK /\ ops[k] \in OpRecord /\ period \in Dates
  BY <1>1 DEF RInv, EvidenceOK, TablesOK
<1> DEFINE h == ops[k].hash
<1>3. h \in Hashes
  BY <1>1, <1>2 DEF OpRecord
<1>4. PICK a \in Nat :
        \/ /\ ops[k].dir = "award" /\ UNCHANGED spends
           /\ awards' = [awards EXCEPT ![h] = [owner |-> ops[k].owner, amount |-> a, date |-> period]]
        \/ /\ ops[k].dir # "award" /\ UNCHANGED awards
           /\ spends' = [spends EXCEPT ![h] = [owner |-> ops[k].owner, amount |-> a, date |-> period]]
  <2>1. ops[k].amount \in Nat /\ Computed \subseteq Nat
    BY <1>2, BoundsAssumption DEF OpRecord
  <2> QED
    BY <2>1 DEF Recorded
<1>5. PICK rec \in LedgerRecord : rec = [owner |-> ops[k].owner, amount |-> a, date |-> period]
  BY <1>2 DEF LedgerRecord, OpRecord
<1>6. awards' \in [Hashes -> LedgerRecord \cup {Absent}] /\ spends' \in [Hashes -> LedgerRecord \cup {Absent}]
  BY <1>2, <1>4, <1>5 DEF TablesOK
<1>7. EvidenceOK'
  BY <1>1, <1>6 DEF RInv, EvidenceOK, TablesOK
<1>8. /\ \A g \in Hashes : awards'[g] = awards[g] \/ (g = h /\ awards[g] = Absent /\ awards'[g] = rec)
      /\ \A g \in Hashes : spends'[g] = spends[g] \/ (g = h /\ spends[g] = Absent /\ spends'[g] = rec)
  BY <1>1, <1>2, <1>3, <1>4, <1>5 DEF TablesOK, Ledger
<1>9. /\ \A g \in Hashes : awards[g] # Absent => awards'[g] = awards[g]
      /\ \A g \in Hashes : spends[g] # Absent => spends'[g] = spends[g]
  BY <1>8
<1>10. ASSUME NEW g \in Hashes, NEW o, NEW c, Naming(g, o, c)'
       PROVE  Naming(g, o, c) \/ (c = Absent /\ \E b \in Assets \cup {Absent} : Naming(g, o, b))
  <2>1. CASE \E j \in Ops : ops'[j] # Absent /\ ops'[j].hash = g /\ ops'[j].owner = o /\ ops'[j].asset = c
    BY <1>1, <2>1 DEF Naming
  <2>2. CASE \E src \in {"award", "spend"} : Ledger(src)'[g] # Absent /\ Ledger(src)'[g].owner = o /\ c = Absent
    <3>1. PICK src \in {"award", "spend"} : Ledger(src)'[g] # Absent /\ Ledger(src)'[g].owner = o /\ c = Absent
      BY <2>2
    <3>2. Ledger(src)'[g] = Ledger(src)[g] \/ (g = h /\ Ledger(src)'[g] = rec)
      BY <1>8 DEF Ledger
    <3>3. CASE Ledger(src)'[g] = Ledger(src)[g]
      BY <3>1, <3>3 DEF Naming
    <3>4. CASE g = h /\ Ledger(src)'[g] = rec
      <4>1. ops[k].owner = o /\ ops[k].asset \in Assets \cup {Absent}
        BY <1>2, <1>5, <3>1, <3>4 DEF OpRecord
      <4>2. Naming(g, o, ops[k].asset)
        BY <1>1, <3>4, <4>1 DEF Naming
      <4> QED
        BY <3>1, <4>1, <4>2
    <3> QED
      BY <3>2, <3>3, <3>4
  <2> QED
    BY <1>10, <2>1, <2>2 DEF Naming
<1>11. Onward
  <2>1. \A j \in Ops : ops[j] # Absent => ops'[j] # Absent /\ Continues(ops[j], ops'[j])
    BY <1>1 DEF Continues
  <2> QED
    BY <1>9, <1>10, <2>1 DEF Onward
<1>12. RetainedOps(ops')
  BY <1>1 DEF RInv
<1> QED
  BY <1>1, <1>7, <1>11, <1>12, OnwardSound

\* The writes of TokenOperations and of the signer.
LEMMA OperationsSound == ASSUME RInv, NEW k \in Ops, OperationsNext(k) PROVE RInv' /\ Onward
<1> DEFINE o == ops[k]
<1>1. period \in Dates /\ (o # Absent => o \in OpRecord) /\ RetainedOps(ops)
  BY DEF RInv, EvidenceOK, TablesOK
<1>2. o # Absent => /\ o.hash # Absent => o.amount # 0
                    /\ o.status \in Pending => o.outcome # "confirmed"
                    /\ o.status \in Pending => OpOutcome(o) # "confirmed"
  BY <1>1 DEF RetainedOps, OpOutcome, Pending
<1>3. CASE ops[k] = Absent /\ Claim(k)
  <2>1. PICK new : /\ new = [dir |-> Plan[k].dir, owner |-> Plan[k].owner, amount |-> Plan[k].amount, asset |-> Plan[k].asset,
                             status |-> "submitting", outcome |-> "unknown", hash |-> Absent,
                             created |-> period, updated |-> period, confirmed |-> Absent]
                   /\ OpsWritten(k, new)
    BY <1>3 DEF Claim
  <2>2. Plan[k] \in Planned
    BY <1>3, PlanAssumption DEF Claim
  <2>3. new \in OpRecord /\ new.hash = Absent /\ new.outcome # "confirmed"
    BY <1>1, <2>1, <2>2 DEF OpRecord, Planned, OpStatuses, OpOutcomes, Pending
  <2> QED
    BY <1>3, <2>1, <2>3, WriteSound
<1>4. CASE ops[k] # Absent /\ Claim(k)
  <2>1. PICK new : new = [o EXCEPT !.status = "submitting", !.outcome = "unknown", !.updated = period] /\ OpsWritten(k, new)
    BY <1>4 DEF Claim
  <2>2. o.hash = Absent
    BY <1>4 DEF Claim
  <2>3. new \in OpRecord /\ new.hash = Absent /\ new.outcome # "confirmed" /\ Continues(o, new)
    BY <1>1, <1>4, <2>1, <2>2 DEF OpRecord, OpStatuses, OpOutcomes, Pending, Continues
  <2> QED
    BY <1>4, <2>1, <2>3, WriteSound
<1>5. ASSUME NEW h \in Hashes, Prepared(k, h) PROVE RInv' /\ Onward
  <2>1. PICK out : out = IF o.outcome = Absent THEN "unknown" ELSE o.outcome
    OBVIOUS
  <2>2. ops[k] # Absent /\ o.status \in Pending /\ o.amount # 0 /\ Has(k, h)
    BY <1>5 DEF Prepared
  <2>3. PICK new : new = [o EXCEPT !.status = "submitting", !.hash = h, !.updated = period, !.outcome = out] /\ OpsWritten(k, new)
    BY <1>1, <1>5, <2>1, <2>2 DEF Prepared, OpRecord
  <2>4. new \in OpRecord /\ new.hash = h /\ new.amount # 0 /\ new.outcome # "confirmed"
    BY <1>1, <1>2, <2>1, <2>2, <2>3 DEF OpRecord, OpStatuses, OpOutcomes, Pending
  <2>5. Continues(o, new)
    BY <1>1, <1>2, <2>2, <2>3 DEF OpRecord, Continues, Has, Pending
  <2> QED
    BY <2>2, <2>3, <2>4, <2>5, WriteSound
<1>6. ASSUME NEW h \in Hashes, Submitted(k, h) PROVE RInv' /\ Onward
  <2>1. ops[k] # Absent /\ o.status \in Pending /\ o.amount # 0 /\ Has(k, h)
    BY <1>6 DEF Submitted
  <2>2. PICK new : new = [o EXCEPT !.status = "submitted", !.hash = h, !.updated = period] /\ OpsWritten(k, new)
    BY <1>6 DEF Submitted
  <2>3. new \in OpRecord /\ new.hash = h /\ new.amount # 0 /\ new.outcome # "confirmed"
    BY <1>1, <1>2, <2>1, <2>2 DEF OpRecord, OpStatuses, Pending
  <2>4. Continues(o, new)
    BY <1>1, <1>2, <2>1, <2>2 DEF OpRecord, Continues, Has, Pending
  <2> QED
    BY <2>1, <2>2, <2>3, <2>4, WriteSound
<1>7. CASE BecomesUnknown(k)
  <2>1. ops[k] # Absent /\ o.status \in Pending
    BY <1>7 DEF BecomesUnknown
  <2>2. PICK new : new = [o EXCEPT !.status = "unknown", !.updated = period] /\ OpsWritten(k, new)
    BY <1>7 DEF BecomesUnknown
  <2>3. new \in OpRecord /\ new.hash = o.hash /\ new.amount = o.amount /\ new.outcome # "confirmed" /\ Continues(o, new)
    BY <1>1, <1>2, <2>1, <2>2 DEF OpRecord, OpStatuses, Pending, Continues
  <2> QED
    BY <1>2, <2>1, <2>2, <2>3, WriteSound DEF Has
<1>8. CASE Confirmed(k)
  <2>1. ops[k] # Absent /\ o.hash # Absent /\ o.status \in Pending \cup {"confirmed"}
    BY <1>8 DEF Confirmed
  <2>2. PICK new : new = [o EXCEPT !.status = "confirmed", !.outcome = "confirmed", !.updated = period, !.confirmed = period]
                   /\ OpsWritten(k, new)
    BY <1>8 DEF Confirmed
  <2>3. new \in OpRecord /\ new.hash = o.hash /\ new.amount = o.amount /\ new.status \notin Pending
    BY <1>1, <2>1, <2>2 DEF OpRecord, OpStatuses, OpOutcomes, Pending
  <2>4. Continues(o, new)
    BY <1>1, <2>1, <2>2 DEF OpRecord, OpOutcome, Pending, Continues
  <2> QED
    BY <1>2, <2>1, <2>2, <2>3, <2>4, WriteSound DEF Has
<1>9. CASE ProjectionFails(k)
  <2>1. ops[k] # Absent /\ o.hash # Absent /\ o.status \in Pending \cup {"confirmed"}
    BY <1>9 DEF ProjectionFails
  <2>2. PICK new : new = [o EXCEPT !.status = "confirmed", !.updated = period] /\ OpsWritten(k, new)
    BY <1>9 DEF ProjectionFails
  <2>3. new \in OpRecord /\ new.hash = o.hash /\ new.amount = o.amount /\ new.status \notin Pending
    BY <1>1, <2>1, <2>2 DEF OpRecord, OpStatuses, Pending
  <2>4. Continues(o, new)
    BY <1>1, <2>1, <2>2 DEF OpRecord, OpOutcome, Pending, Continues
  <2> QED
    BY <1>2, <2>1, <2>2, <2>3, <2>4, WriteSound DEF Has
<1>10. CASE Projected(k)
  <2>1. ops[k] # Absent /\ (o.hash # Absent \/ o.amount = 0)
    BY <1>10 DEF Projected
  <2>2. PICK out \in {"no_movement", "confirmed"} : out = IF o.amount = 0 THEN "no_movement" ELSE "confirmed"
    OBVIOUS
  <2>3. PICK new : new = [o EXCEPT !.status = "projected", !.updated = period, !.outcome = out] /\ OpsWritten(k, new)
    BY <1>10, <2>2 DEF Projected
  <2>4. new \in OpRecord /\ new.hash = o.hash /\ new.amount = o.amount /\ new.status \notin Pending
    BY <1>1, <2>1, <2>2, <2>3 DEF OpRecord, OpStatuses, OpOutcomes, Pending
  <2>5. Continues(o, new)
    BY <1>1, <1>2, <2>1, <2>2, <2>3, AbsentAssumption DEF OpRecord, OpOutcome, Continues
  <2> QED
    BY <1>2, <2>1, <2>3, <2>4, <2>5, WriteSound DEF Has
<1>11. CASE Failed(k)
  <2>1. ops[k] # Absent /\ o.status \in Pending
    BY <1>11 DEF Failed
  <2>2. PICK out \in {"no_movement", "review"} : OpsWritten(k, [o EXCEPT !.status = "failed", !.outcome = out, !.updated = period])
    BY <1>11 DEF Failed
  <2>3. PICK new : new = [o EXCEPT !.status = "failed", !.outcome = out, !.updated = period] /\ OpsWritten(k, new)
    BY <2>2
  <2>4. new \in OpRecord /\ new.hash = o.hash /\ new.amount = o.amount /\ new.status \notin Pending /\ Continues(o, new)
    BY <1>1, <1>2, <2>1, <2>3 DEF OpRecord, OpStatuses, OpOutcomes, Pending, Continues
  <2> QED
    BY <1>2, <2>1, <2>3, <2>4, WriteSound DEF Has
<1>12. CASE FailedPreflight(k)
  <2>1. ops[k] # Absent /\ o.hash = Absent
    BY <1>12 DEF FailedPreflight
  <2>2. PICK new : new = [o EXCEPT !.status = "failed", !.outcome = "no_movement", !.updated = period] /\ OpsWritten(k, new)
    BY <1>12 DEF FailedPreflight
  <2>3. new \in OpRecord /\ new.hash = Absent /\ new.status \notin Pending /\ Continues(o, new)
    BY <1>1, <2>1, <2>2 DEF OpRecord, OpStatuses, OpOutcomes, Pending, Continues
  <2> QED
    BY <2>1, <2>2, <2>3, WriteSound
<1>13. CASE Recorded(k)
  BY <1>13, RecordedSound
<1> QED
  BY <1>3, <1>4, <1>5, <1>6, <1>7, <1>8, <1>9, <1>10, <1>11, <1>12, <1>13 DEF OperationsNext
-----------------------------------------------------------------------------
(* The annotation requests.                                                *)

\* The owner and the asset of the row that is annotated.
KnownTarget(subject, o, c) ==
  \/ /\ subject.src = "op" /\ subject.id \in Ops /\ ops[subject.id] # Absent
     /\ ops[subject.id].owner = o /\ ops[subject.id].asset = c
  \/ /\ subject.src \in {"award", "spend"} /\ subject.id \in Hashes /\ Ledger(subject.src)[subject.id] # Absent
     /\ Ledger(subject.src)[subject.id].owner = o /\ c = Absent

\* Two things that are the same where both are known.
Fits(x, y) == x = Absent \/ y = Absent \/ x = y

RowId(body) == <<body.actor, body.key>>

\* A request that is about to write holds its lock alone, has found no stored
\* annotation and knows the owner and the asset of its row.
WritersAlone ==
  /\ \A n \in Annotators : asks[n].at = "write" =>
       /\ RowId(asks[n].body) \in lock /\ Prior(asks[n].body) = {}
       /\ KnownTarget(asks[n].body.subject, asks[n].target.owner, asks[n].target.asset)
  /\ \A m, n \in Annotators :
       asks[m].at = "write" /\ asks[n].at = "write" /\ RowId(asks[m].body) = RowId(asks[n].body) => m = n

\* The row of a stored annotation, and the rows of the hash it refers to.
FitsHash(h, o, c) ==
  /\ h \in Hashes /\ ~Free(h)
  /\ \A p \in Parties, b \in Assets \cup {Absent} : Naming(h, p, b) => Fits(o, p) /\ Fits(c, b)
Referred(a) ==
  \E o \in Parties, c \in Assets \cup {Absent} :
    KnownTarget(a.body.subject, o, c) /\ (a.body.ref # Absent => FitsHash(a.body.ref, o, c))

\* The inductive invariant of the annotations.
NInv == RInv /\ WritersAlone /\ \A a \in annotations : Referred(a)

LEMMA SubjectRowIs ==
  ASSUME RInv, NEW subject, subject.src \in Sources, NEW r \in SubjectRow(subject)
  PROVE  r \in EvidenceRow /\ KnownTarget(subject, r.owner, r.asset)
<1>1. TablesOK
  BY DEF RInv, EvidenceOK
<1>2. subject.id \in Kept(subject.src) /\ r = RowOf(subject.src, subject.id)
  BY DEF SubjectRow
<1>3. r \in EvidenceRow
  BY <1>1, <1>2, RowIsBacked
<1>a. PICK src, id : src = subject.src /\ id = subject.id
  OBVIOUS
<1>4. CASE src = "op"
  <2>1. id \in Ops /\ ops[id] # Absent /\ r = OpRow(id)
    BY <1>2, <1>a, <1>4 DEF Kept, RowOf
  <2>2. r.owner = ops[id].owner /\ r.asset = ops[id].asset
    BY <2>1 DEF OpRow
  <2> QED
    BY <1>3, <1>a, <1>4, <2>1, <2>2 DEF KnownTarget
<1>5. CASE src # "op"
  <2>1. id \in Hashes /\ Ledger(src)[id] # Absent /\ r = LedgerRow(src, id, Ledger(src)[id]) /\ src \in {"award", "spend"}
    BY <1>2, <1>a, <1>5 DEF Kept, RowOf, Sources
  <2>2. r.owner = Ledger(src)[id].owner /\ r.asset = Absent
    BY <2>1 DEF LedgerRow
  <2> QED
    BY <1>3, <1>a, <1>5, <2>1, <2>2 DEF KnownTarget
<1> QED
  BY <1>3, <1>4, <1>5

\* A row has one owner and one asset, and keeps them.
LEMMA TargetIsKept ==
  ASSUME Onward, NEW subject, NEW o, NEW c, KnownTarget(subject, o, c)
  PROVE  KnownTarget(subject, o, c)'
<1>1. CASE subject.src = "op"
  BY <1>1 DEF KnownTarget, Onward, Continues
<1>2. CASE subject.src # "op"
  BY <1>2 DEF KnownTarget, Onward, Ledger
<1> QED
  BY <1>1, <1>2

LEMMA TargetIsTyped ==
  ASSUME TablesOK, NEW subject, NEW o, NEW c, KnownTarget(subject, o, c)
  PROVE  o \in Parties /\ c \in Assets \cup {Absent}
<1>1. CASE subject.src = "op"
  BY <1>1 DEF KnownTarget, TablesOK, OpRecord
<1>2. CASE subject.src # "op"
  BY <1>2 DEF KnownTarget, TablesOK, Ledger, LedgerRecord
<1> QED
  BY <1>1, <1>2

\* The candidates of a hash are the rows that name someone.
LEMMA CandidateNames ==
  ASSUME TablesOK, NEW h, h # Absent
  PROVE  /\ Candidates(h) # {} => h \in Hashes /\ ~Free(h)
         /\ \A s \in Candidates(h) : Naming(h, s.owner, s.asset) /\ s \in EvidenceRow
         /\ \A o, c : h \in Hashes /\ Naming(h, o, c) => \E s \in Candidates(h) : s.owner = o /\ s.asset = c
<1>1. ASSUME NEW s \in Candidates(h)
      PROVE  h \in Hashes /\ ~Free(h) /\ Naming(h, s.owner, s.asset) /\ s \in EvidenceRow
  <2>1. PICK src \in Sources : \E id \in Kept(src) : s = RowOf(src, id) /\ s.hash = h
    BY DEF Candidates
  <2>a. PICK id \in Kept(src) : s = RowOf(src, id) /\ s.hash = h
    BY <2>1
  <2>2. s \in EvidenceRow
    BY <2>a, RowIsBacked
  <2>3. h \in Hashes
    BY <2>a, <2>2 DEF EvidenceRow
  <2>4. CASE src = "op"
    <3>1. id \in Ops /\ ops[id] # Absent /\ ops[id].hash = h /\ s.owner = ops[id].owner /\ s.asset = ops[id].asset
      BY <2>a, <2>4 DEF Kept, RowOf, OpRow
    <3> QED
      BY <2>2, <2>3, <3>1 DEF Naming, Free
  <2>5. CASE src # "op"
    <3>1. /\ src \in {"award", "spend"} /\ id = h /\ Ledger(src)[h] # Absent
          /\ s.owner = Ledger(src)[h].owner /\ s.asset = Absent
      BY <2>a, <2>5 DEF Kept, RowOf, LedgerRow, Sources
    <3>2. ~Free(h)
      BY <3>1 DEF Free, Ledger
    <3> QED
      BY <2>2, <2>3, <3>1, <3>2 DEF Naming
  <2> QED
    BY <2>4, <2>5
<1>2. ASSUME NEW o, NEW c, h \in Hashes, Naming(h, o, c) PROVE \E s \in Candidates(h) : s.owner = o /\ s.asset = c
  <2>1. CASE \E k \in Ops : ops[k] # Absent /\ ops[k].hash = h /\ ops[k].owner = o /\ ops[k].asset = c
    <3>1. PICK k \in Ops : ops[k] # Absent /\ ops[k].hash = h /\ ops[k].owner = o /\ ops[k].asset = c
      BY <2>1
    <3>2. PICK s : s = RowOf("op", k)
      OBVIOUS
    <3>3. k \in Kept("op") /\ s.hash = h /\ s.owner = o /\ s.asset = c
      BY <3>1, <3>2 DEF Kept, RowOf, OpRow
    <3>4. s \in Candidates(h)
      BY <3>2, <3>3 DEF Candidates, Sources
    <3> QED
      BY <3>3, <3>4
  <2>2. CASE \E src \in {"award", "spend"} : Ledger(src)[h] # Absent /\ Ledger(src)[h].owner = o /\ c = Absent
    <3>1. PICK src \in {"award", "spend"} : Ledger(src)[h] # Absent /\ Ledger(src)[h].owner = o /\ c = Absent
      BY <2>2
    <3>2. PICK s : s = RowOf(src, h)
      OBVIOUS
    <3>3. h \in Kept(src) /\ s.hash = h /\ s.owner = o /\ s.asset = c
      BY <1>2, <3>1, <3>2 DEF Kept, RowOf, LedgerRow
    <3>4. s \in Candidates(h)
      BY <3>2, <3>3 DEF Candidates, Sources
    <3> QED
      BY <3>3, <3>4
  <2> QED
    BY <1>2, <2>1, <2>2 DEF Naming
<1> QED
  BY <1>1, <1>2

\* A hash that the code finds to agree with a row.
LEMMA AgreeingFits ==
  ASSUME RInv, NEW h, h # Absent, Candidates(h) # {}, NEW target, Agrees(h, target)
  PROVE  FitsHash(h, target.owner, target.asset)
<1>1. TablesOK
  BY DEF RInv, EvidenceOK
<1>2. h \in Hashes /\ ~Free(h)
  BY <1>1, CandidateNames
<1>3. ASSUME NEW p \in Parties, NEW b \in Assets \cup {Absent}, Naming(h, p, b)
      PROVE  Fits(target.owner, p) /\ Fits(target.asset, b)
  <2>1. PICK s \in Candidates(h) : s.owner = p /\ s.asset = b
    BY <1>1, <1>2, <1>3, CandidateNames
  <2>2. Fits(target.owner, p)
    BY <2>1 DEF Agrees, RefOwners, Fits
  <2>3. ASSUME b # Absent PROVE RefAssets(h) = {b}
    <3>1. b \in RefAssets(h)
      BY <2>1, <2>3 DEF RefAssets
    <3>2. ASSUME NEW d \in RefAssets(h) PROVE d = b
      <4>1. PICK t \in Candidates(h) : t.asset = d /\ d # Absent
        BY <3>2 DEF RefAssets
      <4>2. Naming(h, t.owner, d)
        BY <1>1, <4>1, CandidateNames
      <4>3. PICK j \in Ops : ops[j] # Absent /\ ops[j].hash = h /\ ops[j].asset = d
        BY <4>1, <4>2 DEF Naming
      <4>4. PICK k \in Ops : ops[k] # Absent /\ ops[k].hash = h /\ ops[k].asset = b
        BY <1>3, <2>3 DEF Naming
      <4>5. j = k
        BY <4>3, <4>4 DEF RInv, RetainedOps
      <4> QED
        BY <4>3, <4>4, <4>5
    <3> QED
      BY <3>1, <3>2
  <2>4. ASSUME b # Absent PROVE Cardinality(RefAssets(h)) = 1
    BY <2>3, <2>4, FS_Singleton
  <2>5. Fits(target.asset, b)
    BY <2>3, <2>4 DEF Agrees, Fits
  <2> QED
    BY <2>2, <2>5
<1> QED
  BY <1>2, <1>3 DEF FitsHash

\* Steps of the operations and of the report leave the annotations alone.
LEMMA OthersKeepNInv ==
  ASSUME NInv, RInv', Onward, UNCHANGED <<annotations, asks, lock>>
  PROVE  NInv'
<1>1. WritersAlone'
  <2>1. ASSUME NEW n \in Annotators, asks[n].at = "write"
        PROVE  /\ RowId(asks[n].body) \in lock /\ Prior(asks[n].body) = {}
               /\ KnownTarget(asks[n].body.subject, asks[n].target.owner, asks[n].target.asset)'
    <3>1. /\ RowId(asks[n].body) \in lock /\ Prior(asks[n].body) = {}
          /\ KnownTarget(asks[n].body.subject, asks[n].target.owner, asks[n].target.asset)
      BY <2>1 DEF NInv, WritersAlone
    <3>2. PICK subject, o, c : subject = asks[n].body.subject /\ o = asks[n].target.owner /\ c = asks[n].target.asset
      OBVIOUS
    <3>3. KnownTarget(subject, o, c)'
      BY <3>1, <3>2, TargetIsKept
    <3> QED
      BY <3>1, <3>2, <3>3 DEF KnownTarget
  <2> QED
    BY <2>1 DEF NInv, WritersAlone, RowId, Prior
<1>2. ASSUME NEW a \in annotations PROVE Referred(a)'
  <2>1. PICK o \in Parties, c \in Assets \cup {Absent} :
          KnownTarget(a.body.subject, o, c) /\ (a.body.ref # Absent => FitsHash(a.body.ref, o, c))
    BY DEF NInv, Referred
  <2>2. KnownTarget(a.body.subject, o, c)'
    BY <2>1, TargetIsKept
  <2>3. ASSUME NEW h, FitsHash(h, o, c) PROVE FitsHash(h, o, c)'
    <3>1. h \in Hashes /\ ~Free(h) /\ h # Absent
      BY <2>3, AbsentAssumption DEF FitsHash
    <3>2. ~Free(h)'
      BY <3>1 DEF Free, Onward, Continues
    <3>3. ASSUME NEW p \in Parties, NEW b \in Assets \cup {Absent}, Naming(h, p, b)' PROVE Fits(o, p) /\ Fits(c, b)
      <4>1. Naming(h, p, b) \/ (b = Absent /\ \E d \in Assets \cup {Absent} : Naming(h, p, d))
        BY <3>1, <3>3 DEF Onward
      <4> QED
        BY <2>3, <4>1 DEF FitsHash, Fits
    <3> QED
      BY <3>1, <3>2, <3>3 DEF FitsHash
  <2> QED
    BY <2>1, <2>2, <2>3 DEF Referred
<1> QED
  BY <1>1, <1>2 DEF NInv

\* An annotator's step leaves the tables and the report alone, and is sound for
\* the report when it is well typed.
LEMMA AskTyped ==
  ASSUME RInv, UNCHANGED <<tables, period, report>>, NEW n \in Annotators, NEW new \in AskRecord,
         asks' = [asks EXCEPT ![n] = new], new.body \in Bodies,
         \A a \in annotations' : a.body \in Bodies, faults' \in 0 .. MaxEvidenceFaults
  PROVE  RInv' /\ asks'[n] = new /\ \A m \in Annotators \ {n} : asks'[m] = asks[m]
<1>1. asks \in [Annotators -> AskRecord]
  BY DEF RInv, EvidenceOK
<1>2. asks' \in [Annotators -> AskRecord] /\ asks'[n] = new /\ \A m \in Annotators \ {n} : asks'[m] = asks[m]
  BY <1>1
<1>3. \A m \in Annotators : asks'[m].at # "idle" => asks'[m].body \in Bodies
  BY <1>2 DEF RInv, EvidenceOK
<1>4. TablesOK' /\ report' \in ReportRecord /\ period' \in Dates
  BY DEF RInv, EvidenceOK, TablesOK, tables
<1>5. EvidenceOK'
  BY <1>2, <1>3, <1>4 DEF EvidenceOK
<1> QED
  BY <1>2, <1>5, AsideSound

\* Of a step that changes one request and no table, what is left to show.
LEMMA AskKeepsNInv ==
  ASSUME NInv, RInv', UNCHANGED <<tables, period, report>>, NEW n \in Annotators,
         \A m \in Annotators \ {n} : asks'[m] = asks[m],
         \A m \in Annotators \ {n} : asks[m].at = "write" =>
           RowId(asks[m].body) \in lock' /\ Prior(asks[m].body)' = {},
         asks'[n].at = "write" =>
           /\ RowId(asks'[n].body) \in lock' \ lock /\ Prior(asks'[n].body) = {} /\ annotations' = annotations
           /\ KnownTarget(asks'[n].body.subject, asks'[n].target.owner, asks'[n].target.asset),
         \A a \in annotations' \ annotations : Referred(a)
  PROVE  NInv'
<1>1. UNCHANGED <<ops, awards, spends>>
  BY DEF tables
<1>2. \A a \in annotations' : Referred(a)'
  <2>1. \A a \in annotations' : Referred(a)
    BY DEF NInv
  <2>2. \A subject, o, c : KnownTarget(subject, o, c)' = KnownTarget(subject, o, c)
    BY <1>1 DEF KnownTarget, Ledger
  <2>3. \A h, o, c : Naming(h, o, c)' = Naming(h, o, c) /\ Free(h)' = Free(h)
    BY <1>1 DEF Naming, Free, Ledger
  <2>4. \A h, o, c : FitsHash(h, o, c)' = FitsHash(h, o, c)
    BY <2>3 DEF FitsHash
  <2> QED
    BY <2>1, <2>2, <2>4 DEF Referred
<1>3. ASSUME NEW m \in Annotators, asks'[m].at = "write"
      PROVE  /\ RowId(asks[m].body)' \in lock' /\ Prior(asks[m].body)' = {}
             /\ KnownTarget(asks[m].body.subject, asks[m].target.owner, asks[m].target.asset)'
  <2>1. CASE m = n
    <3>1. /\ RowId(asks'[n].body) \in lock' /\ Prior(asks'[n].body) = {} /\ annotations' = annotations
          /\ KnownTarget(asks'[n].body.subject, asks'[n].target.owner, asks'[n].target.asset)
      BY <1>3, <2>1
    <3> QED
      BY <1>1, <2>1, <3>1 DEF RowId, Prior, KnownTarget, Ledger
  <2>2. CASE m # n
    <3>1. asks'[m] = asks[m] /\ asks[m].at = "write"
      BY <1>3, <2>2
    <3>2. KnownTarget(asks[m].body.subject, asks[m].target.owner, asks[m].target.asset)
      BY <3>1 DEF NInv, WritersAlone
    <3>3. RowId(asks[m].body) \in lock' /\ Prior(asks[m].body)' = {}
      BY <2>2, <3>1
    <3> QED
      BY <1>1, <3>1, <3>2, <3>3 DEF RowId, Prior, KnownTarget, Ledger
  <2> QED
    BY <2>1, <2>2
<1>4. ASSUME NEW l \in Annotators, NEW m \in Annotators, asks'[l].at = "write", asks'[m].at = "write",
             RowId(asks'[l].body) = RowId(asks'[m].body)
      PROVE  l = m
  <2>1. \A j \in Annotators \ {n} : asks'[j].at = "write" => RowId(asks'[j].body) \in lock
    BY DEF NInv, WritersAlone
  <2>2. CASE l = n \/ m = n
    BY <1>4, <2>1, <2>2
  <2>3. CASE l # n /\ m # n
    BY <1>4, <2>3 DEF NInv, WritersAlone
  <2> QED
    BY <2>2, <2>3
<1>5. WritersAlone'
  BY <1>3, <1>4 DEF WritersAlone, RowId
<1> QED
  BY <1>2, <1>5 DEF NInv

LEMMA AskSound == ASSUME NInv, NEW n \in Annotators, NEW body \in Bodies, Ask(n, body) PROVE NInv'
<1>1. UNCHANGED <<tables, period, report, annotations, lock, faults>> /\ RInv
  BY DEF Ask, NInv
<1>2. PICK new : new = [at |-> "lock", body |-> body, answer |-> Absent, target |-> Absent]
  OBVIOUS
<1>3. new \in AskRecord /\ new.body \in Bodies /\ asks' = [asks EXCEPT ![n] = new] /\ new.at = "lock"
  BY <1>2 DEF Ask, AskRecord
<1>4. (\A a \in annotations' : a.body \in Bodies) /\ faults' \in 0 .. MaxEvidenceFaults
  BY <1>1 DEF RInv, EvidenceOK
<1>5. RInv' /\ asks'[n] = new /\ \A m \in Annotators \ {n} : asks'[m] = asks[m]
  BY <1>1, <1>3, <1>4, AskTyped
<1>6. \A m \in Annotators \ {n} : asks[m].at = "write" => RowId(asks[m].body) \in lock' /\ Prior(asks[m].body)' = {}
  BY <1>1, <1>5 DEF NInv, WritersAlone, Prior
<1>7. asks'[n].at # "write" /\ annotations' \ annotations = {}
  BY <1>1, <1>3, <1>5
<1> QED
  BY <1>1, <1>5, <1>6, <1>7, AskKeepsNInv

\* An answered request, and what its repetition is told.
Repeated(n) ==
  asks[n].at # "answered" /\ asks'[n].at = "answered" /\ (\E a \in annotations : a.body = asks[n].body)
    => asks'[n].answer = "stored"

LEMMA AnswerIs ==
  ASSUME RInv, NEW n \in Annotators, asks[n].at # "idle", NEW what \in AskAnswers
  PROVE  /\ Answer(n, what) \in AskRecord /\ Answer(n, what).body \in Bodies
         /\ Answer(n, what).at = "answered" /\ Answer(n, what).answer = what
<1>1. asks[n] \in AskRecord /\ asks[n].body \in Bodies
  BY DEF RInv, EvidenceOK
<1> QED
  BY <1>1 DEF Answer, AskRecord

LEMMA LookupSound == ASSUME NInv, NEW n \in Annotators, Lookup(n) PROVE NInv' /\ Repeated(n) /\ \A m \in Annotators \ {n} : asks'[m] = asks[m]
<1>1. /\ UNCHANGED <<tables, period, report, annotations, faults>> /\ RInv
      /\ asks[n].at = "lock" /\ RowId(asks[n].body) \notin lock
  BY DEF Lookup, NInv, RowId
<1> DEFINE body == asks[n].body
<1>2. asks[n] \in AskRecord /\ body \in Bodies /\ body.subject.src \in Sources
  BY <1>1, BodiesAssumption DEF RInv, EvidenceOK
<1>3. (\A a \in annotations' : a.body \in Bodies) /\ faults' \in 0 .. MaxEvidenceFaults
  BY <1>1 DEF RInv, EvidenceOK
<1>4. ASSUME NEW what \in AskAnswers, asks' = [asks EXCEPT ![n] = Answer(n, what)], UNCHANGED lock
      PROVE  NInv' /\ asks'[n].at = "answered" /\ asks'[n].answer = what /\ \A m \in Annotators \ {n} : asks'[m] = asks[m]
  <2>1. Answer(n, what) \in AskRecord /\ Answer(n, what).body \in Bodies
    BY <1>1, AnswerIs
  <2>2. RInv' /\ asks'[n] = Answer(n, what) /\ \A m \in Annotators \ {n} : asks'[m] = asks[m]
    BY <1>1, <1>3, <1>4, <2>1, AskTyped
  <2>3. asks'[n].at = "answered" /\ asks'[n].answer = what
    BY <1>1, <2>2, AnswerIs
  <2>4. \A m \in Annotators \ {n} : asks[m].at = "write" => RowId(asks[m].body) \in lock' /\ Prior(asks[m].body)' = {}
    BY <1>1, <1>4, <2>2 DEF NInv, WritersAlone, Prior
  <2>5. annotations' \ annotations = {}
    BY <1>1
  <2>6. NInv'
    BY <1>1, <2>2, <2>3, <2>4, <2>5, AskKeepsNInv
  <2> QED
    BY <2>2, <2>3, <2>6
<1>5. CASE Prior(body) # {}
  <2>1. PICK what \in AskAnswers :
          /\ what = IF \E a \in Prior(body) : a.body = body THEN "stored" ELSE "conflict"
          /\ asks' = [asks EXCEPT ![n] = Answer(n, what)] /\ UNCHANGED lock
    BY <1>5 DEF Lookup, AskAnswers
  <2>2. NInv' /\ asks'[n].answer = what /\ \A m \in Annotators \ {n} : asks'[m] = asks[m]
    BY <1>4, <2>1
  <2>3. (\E a \in annotations : a.body = body) => what = "stored"
    BY <2>1 DEF Prior
  <2> QED
    BY <2>2, <2>3 DEF Repeated
<1>6. CASE Prior(body) = {} /\ SubjectRow(body.subject) = {}
  <2>1. asks' = [asks EXCEPT ![n] = Answer(n, "not_found")] /\ UNCHANGED lock
    BY <1>6 DEF Lookup
  <2>2. NInv' /\ \A m \in Annotators \ {n} : asks'[m] = asks[m]
    BY <1>4, <2>1 DEF AskAnswers
  <2>3. ~ \E a \in annotations : a.body = body
    BY <1>6 DEF Prior
  <2> QED
    BY <2>2, <2>3 DEF Repeated
<1>7. CASE Prior(body) = {} /\ SubjectRow(body.subject) # {}
  <2>1. PICK r \in SubjectRow(body.subject) :
          asks' = [asks EXCEPT ![n].at = "write", ![n].target = [owner |-> r.owner, asset |-> r.asset]]
    BY <1>7 DEF Lookup
  <2>2. lock' = lock \cup {RowId(body)}
    BY <1>7 DEF Lookup, RowId
  <2>3. r \in EvidenceRow /\ KnownTarget(body.subject, r.owner, r.asset)
    BY <1>1, <1>2, SubjectRowIs
  <2>4. PICK new : new = [[asks[n] EXCEPT !.at = "write"] EXCEPT !.target = [owner |-> r.owner, asset |-> r.asset]]
    OBVIOUS
  <2>5. asks' = [asks EXCEPT ![n] = new]
    BY <1>1, <1>2, <2>1, <2>4 DEF RInv, EvidenceOK, AskRecord
  <2>6. new \in AskRecord /\ new.body = body /\ new.at = "write"
        /\ new.target.owner = r.owner /\ new.target.asset = r.asset
    BY <1>2, <2>3, <2>4 DEF AskRecord, AskTarget, EvidenceRow
  <2>7. RInv' /\ asks'[n] = new /\ \A m \in Annotators \ {n} : asks'[m] = asks[m]
    BY <1>1, <1>2, <1>3, <2>5, <2>6, AskTyped
  <2>8. \A m \in Annotators \ {n} : asks[m].at = "write" => RowId(asks[m].body) \in lock' /\ Prior(asks[m].body)' = {}
    BY <1>1, <2>2, <2>7 DEF NInv, WritersAlone, Prior
  <2>9. /\ RowId(asks'[n].body) \in lock' \ lock /\ Prior(asks'[n].body) = {} /\ annotations' = annotations
        /\ KnownTarget(asks'[n].body.subject, asks'[n].target.owner, asks'[n].target.asset)
    BY <1>1, <1>7, <2>2, <2>3, <2>6, <2>7
  <2>10. NInv'
    BY <1>1, <2>7, <2>8, <2>9, AskKeepsNInv
  <2>11. Repeated(n)
    BY <2>6, <2>7 DEF Repeated
  <2> QED
    BY <2>7, <2>10, <2>11
<1> QED
  BY <1>5, <1>6, <1>7

LEMMA AnnotateSound == ASSUME NInv, NEW n \in Annotators, Annotate(n) PROVE NInv' /\ Repeated(n) /\ \A m \in Annotators \ {n} : asks'[m] = asks[m]
<1> DEFINE body == asks[n].body
           h == body.ref
           bad == h # Absent /\ (Candidates(h) = {} \/ ~ Agrees(h, asks[n].target))
<1>1. /\ UNCHANGED <<tables, period, report>> /\ RInv
      /\ asks[n].at = "write" /\ lock' = lock \ {RowId(body)}
  BY DEF Annotate, NInv, RowId
<1>2. asks[n] \in AskRecord /\ body \in Bodies /\ body.subject.src \in Sources
  BY <1>1, BodiesAssumption DEF RInv, EvidenceOK
<1>3. RowId(body) \in lock /\ Prior(body) = {} /\ KnownTarget(body.subject, asks[n].target.owner, asks[n].target.asset)
  BY <1>1 DEF NInv, WritersAlone
<1> DEFINE Written(what) ==
             /\ asks' = [asks EXCEPT ![n] = Answer(n, what)]
             /\ faults' \in {faults, faults + 1} /\ (faults' = faults + 1 => faults < MaxEvidenceFaults)
             /\ \/ annotations' = annotations
                \/ ~bad /\ \E kinds : annotations' = annotations \cup {[body |-> body, asset |-> kinds]}
<1>4. PICK what \in AskAnswers : Written(what)
  <2>1. CASE bad
    <3>1. asks' = [asks EXCEPT ![n] = Answer(n, "refused")] /\ UNCHANGED <<annotations, faults>>
      BY <2>1 DEF Annotate
    <3>2. Written("refused") /\ "refused" \in AskAnswers
      BY <1>1, <3>1, BoundsAssumption DEF AskAnswers, RInv, EvidenceOK
    <3> QED
      BY <3>2
  <2>2. CASE ~bad
    <3> DEFINE asset == IF h # Absent /\ Cardinality(RefAssets(h)) = 1 THEN RefAssets(h) ELSE {}
    <3>1. \/ /\ annotations' = annotations \cup {[body |-> body, asset |-> asset]} /\ UNCHANGED faults
             /\ \E told \in {"stored", "lost"} : asks' = [asks EXCEPT ![n] = Answer(n, told)]
          \/ /\ faults < MaxEvidenceFaults /\ faults' = faults + 1 /\ UNCHANGED annotations
             /\ asks' = [asks EXCEPT ![n] = Answer(n, "error")]
      BY <1>3, <2>2 DEF Annotate
    <3> HIDE DEF asset
    <3>2. faults # faults + 1
      BY <1>1, BoundsAssumption DEF RInv, EvidenceOK
    <3>3. CASE faults' = faults + 1
      <4>1. Written("error") /\ "error" \in AskAnswers
        BY <3>1, <3>2, <3>3 DEF AskAnswers
      <4> QED
        BY <4>1
    <3>4. CASE faults' # faults + 1
      <4>1. PICK told \in {"stored", "lost"} : asks' = [asks EXCEPT ![n] = Answer(n, told)]
        BY <3>1, <3>4
      <4>2. annotations' = annotations \cup {[body |-> body, asset |-> asset]} /\ UNCHANGED faults
        BY <3>1, <3>4
      <4>3. Written(told) /\ told \in AskAnswers
        BY <2>2, <3>4, <4>1, <4>2 DEF AskAnswers
      <4> QED
        BY <4>3
    <3> QED
      BY <3>3, <3>4
  <2> QED
    BY <2>1, <2>2
<1>5. (\A a \in annotations' : a.body \in Bodies) /\ faults' \in 0 .. MaxEvidenceFaults
  <2>1. \A a \in annotations' : a.body \in Bodies
    BY <1>1, <1>2, <1>4 DEF RInv, EvidenceOK
  <2>2. faults' \in 0 .. MaxEvidenceFaults
    BY <1>1, <1>4, BoundsAssumption DEF RInv, EvidenceOK
  <2> QED
    BY <2>1, <2>2
<1>6. Answer(n, what) \in AskRecord /\ Answer(n, what).body \in Bodies /\ Answer(n, what).at = "answered"
  BY <1>1, AnswerIs
<1>7. RInv' /\ asks'[n] = Answer(n, what) /\ \A m \in Annotators \ {n} : asks'[m] = asks[m]
  BY <1>1, <1>4, <1>5, <1>6, AskTyped
<1>8. \A m \in Annotators \ {n} : asks[m].at = "write" => RowId(asks[m].body) \in lock' /\ Prior(asks[m].body)' = {}
  <2> SUFFICES ASSUME NEW m \in Annotators \ {n}, asks[m].at = "write"
               PROVE  RowId(asks[m].body) \in lock' /\ {a \in annotations' : a.body.actor = asks[m].body.actor /\ a.body.key = asks[m].body.key} = {}
    BY <1>7 DEF Prior
  <2>1. RowId(asks[m].body) \in lock /\ Prior(asks[m].body) = {} /\ RowId(asks[m].body) # RowId(body)
    BY <1>1 DEF NInv, WritersAlone
  <2>2. \A a \in annotations' \ annotations : a.body = body
    BY <1>4
  <2>3. ~(body.actor = asks[m].body.actor /\ body.key = asks[m].body.key)
    BY <2>1 DEF RowId
  <2> QED
    BY <1>1, <2>1, <2>2, <2>3 DEF Prior
<1>9. ASSUME NEW a \in annotations' \ annotations PROVE Referred(a)
  <2>1. a.body = body /\ ~bad
    BY <1>4, <1>9
  <2>2. PICK o, c : o = asks[n].target.owner /\ c = asks[n].target.asset
    OBVIOUS
  <2>3. KnownTarget(body.subject, o, c)
    BY <1>3, <2>2
  <2>4. o \in Parties /\ c \in Assets \cup {Absent}
    BY <1>1, <2>3, TargetIsTyped DEF RInv, EvidenceOK
  <2>5. h # Absent => FitsHash(h, o, c)
    BY <1>1, <2>1, <2>2, AgreeingFits
  <2> QED
    BY <2>1, <2>3, <2>4, <2>5 DEF Referred
<1>10. asks'[n].at # "write"
  BY <1>6, <1>7
<1>11. NInv'
  BY <1>1, <1>7, <1>8, <1>9, <1>10, AskKeepsNInv
<1>12. Repeated(n)
  <2>1. ~ \E a \in annotations : a.body = body
    BY <1>3 DEF Prior
  <2> QED
    BY <2>1 DEF Repeated
<1> QED
  BY <1>7, <1>11, <1>12

LEMMA EvidenceInitSound == EvidenceInit => NInv
<1> SUFFICES ASSUME EvidenceInit PROVE NInv
  OBVIOUS
<1>1. /\ RetainedOps(ops)
      /\ awards \in [Hashes -> LedgerRecord \cup {Absent}] /\ spends \in [Hashes -> LedgerRecord \cup {Absent}]
  BY RetainedAssumption DEF EvidenceInit
<1>2. /\ period = 0 /\ report = NoReport /\ annotations = {} /\ lock = {} /\ faults = 0
      /\ asks = [n \in Annotators |-> [at |-> "idle", body |-> Absent, answer |-> Absent, target |-> Absent]]
  BY DEF EvidenceInit
<1>3. EvidenceOK
  <2>1. report \in ReportRecord
    BY <1>2 DEF NoReport, ReportRecord
  <2>2. asks \in [Annotators -> AskRecord]
    BY <1>2 DEF AskRecord
  <2>3. \A n \in Annotators : asks[n].at # "idle" => asks[n].body \in Bodies
    BY <1>2
  <2>4. faults \in 0 .. MaxEvidenceFaults /\ period \in Dates
    BY <1>2, BoundsAssumption DEF Dates
  <2> QED
    BY <1>1, <1>2, <2>1, <2>2, <2>3, <2>4 DEF EvidenceOK, TablesOK, RetainedOps
<1>4. /\ report.at = "idle" /\ report.held = {} /\ report.due = {} /\ report.rows = {} /\ report.got = NoReport.got
      /\ \A s \in Sources : report.got[s] = Absent
  BY <1>2 DEF NoReport
<1>5. GotOK /\ HeldOK /\ DueOK /\ ReadOK /\ ReportBuilt
  BY <1>4 DEF GotOK, HeldOK, DueOK, ReadOK, ReportBuilt, CountedOnce, CountedAgrees, NothingIsMissing, Counted
<1>6. WritersAlone
  BY <1>2 DEF WritersAlone
<1> QED
  BY <1>1, <1>2, <1>3, <1>5, <1>6 DEF NInv, RInv

LEMMA EvidenceNextSound == ASSUME NInv, EvidenceNext \/ UNCHANGED evidenceVars PROVE NInv' /\ \A n \in Annotators : Repeated(n)
<1> RInv
  BY DEF NInv
<1>1. ASSUME UNCHANGED <<annotations, asks, lock>>, Onward, RInv' PROVE NInv' /\ \A n \in Annotators : Repeated(n)
  <2>1. \A n \in Annotators : Repeated(n)
    BY <1>1 DEF Repeated
  <2> QED
    BY <1>1, <2>1, OthersKeepNInv
<1>3. ASSUME NEW q \in Queries, Begin(q) PROVE NInv' /\ \A n \in Annotators : Repeated(n)
  <2>1. RInv' /\ Onward /\ UNCHANGED <<annotations, asks, lock>>
    BY <1>3, BeginSound DEF Begin
  <2> QED
    BY <1>1, <2>1
<1>4. ASSUME NEW s \in Sources, Read(s) PROVE NInv' /\ \A n \in Annotators : Repeated(n)
  <2>1. RInv' /\ Onward /\ UNCHANGED <<annotations, asks, lock>>
    BY <1>4, ReadSound DEF Read
  <2> QED
    BY <1>1, <2>1
<1>5. ASSUME Build PROVE NInv' /\ \A n \in Annotators : Repeated(n)
  <2>1. RInv' /\ Onward /\ UNCHANGED <<annotations, asks, lock>>
    BY <1>5, BuildSound DEF Build
  <2> QED
    BY <1>1, <2>1
<1>6. ASSUME NEW k \in Ops, OperationsNext(k) PROVE NInv' /\ \A n \in Annotators : Repeated(n)
  <2>1. UNCHANGED <<annotations, asks, lock>>
    BY <1>6 DEF OperationsNext, Prepared, Submitted, Claim, BecomesUnknown, Confirmed, ProjectionFails, Projected,
                Failed, FailedPreflight, Recorded, OpsWritten
  <2>2. RInv' /\ Onward
    BY <1>6, OperationsSound
  <2> QED
    BY <1>1, <2>1, <2>2
<1>7. ASSUME PeriodEnds PROVE NInv' /\ \A n \in Annotators : Repeated(n)
  <2>1. /\ UNCHANGED <<tables, report, annotations, asks, lock, faults>>
        /\ period < LastPeriod /\ period' = period + 1 /\ period \in Dates
    BY <1>7 DEF PeriodEnds, RInv, EvidenceOK
  <2>2. period' \in Dates
    BY <2>1, BoundsAssumption DEF Dates
  <2>3. EvidenceOK'
    BY <2>1, <2>2 DEF RInv, EvidenceOK, TablesOK, tables
  <2> QED
    BY <1>1, <2>1, <2>3, AsideSound
<1>11. ASSUME NEW n \in Annotators, NInv', Repeated(n), \A m \in Annotators \ {n} : asks'[m] = asks[m]
       PROVE  \A m \in Annotators : Repeated(m)
  BY <1>11 DEF Repeated
<1>12. ASSUME NEW n \in Annotators, NEW body \in Bodies, Ask(n, body) PROVE NInv' /\ \A m \in Annotators : Repeated(m)
  <2>1. NInv'
    BY <1>12, AskSound
  <2>2. asks \in [Annotators -> AskRecord]
    BY DEF RInv, EvidenceOK
  <2>3. asks'[n].at = "lock" /\ \A m \in Annotators \ {n} : asks'[m] = asks[m]
    BY <1>12, <2>2 DEF Ask
  <2> QED
    BY <1>11, <2>1, <2>3 DEF Repeated
<1>13. ASSUME NEW n \in Annotators, Lookup(n) PROVE NInv' /\ \A m \in Annotators : Repeated(m)
  BY <1>11, <1>13, LookupSound
<1>14. ASSUME NEW n \in Annotators, Annotate(n) PROVE NInv' /\ \A m \in Annotators : Repeated(m)
  BY <1>11, <1>14, AnnotateSound
<1>15. ASSUME UNCHANGED evidenceVars PROVE NInv' /\ \A n \in Annotators : Repeated(n)
  <2>1. UNCHANGED <<tables, period, report, annotations, asks, lock, faults>>
    BY <1>15 DEF evidenceVars, tables
  <2>2. EvidenceOK'
    BY <2>1 DEF RInv, EvidenceOK, TablesOK, tables
  <2> QED
    BY <1>1, <2>1, <2>2, AsideSound
<1> QED
  BY <1>3, <1>4, <1>5, <1>6, <1>7, <1>12, <1>13, <1>14, <1>15 DEF EvidenceNext

\* The evidence report (adminEvidence.ts): it counts a movement once, and none
\* whose operation is recorded otherwise later; unless it says that a table was
\* not read whole, what it counts agrees with every row of the same hash that
\* was created in its window before it began, and each movement of the window
\* that was projected when it began is counted or shown for review when nothing
\* is filtered, although the tables are read one after the other while the
\* operations go on. For any number of operations, hashes, owners and earlier
\* rows, any window and any cap.
THEOREM ReportsAreTrue == EvidenceSpec => []ReportIsTrue
<1>1. NInv /\ [EvidenceNext]_evidenceVars => NInv'
  BY EvidenceNextSound
<1>2. NInv => ReportIsTrue
  <2> SUFFICES ASSUME NInv PROVE ReportIsTrue
    OBVIOUS
  <2>1. EvidenceTypeOK
    BY DEF NInv, RInv, EvidenceOK, ReportRecord, EvidenceRow, AskRecord, EvidenceTypeOK
  <2>2. CountedStays
    BY DEF CountedStays, Counted, NInv, RInv, ReadOK, Backed, OpBacks, LedgerBacks
  <2> QED
    BY <2>1, <2>2 DEF NInv, RInv, ReportBuilt, ReportIsTrue
<1> QED
  BY <1>1, <1>2, EvidenceInitSound, PTL DEF EvidenceSpec

\* Correction annotations: the row that is annotated and every row of the
\* transfer that the annotation refers to agree about owner and asset where both
\* are known, also rows that are recorded later; and a repetition of a stored
\* request is answered with what was stored, whatever other requests of the same
\* actor and key are in flight.
THEOREM AnnotationsAgree == EvidenceSpec => AnnotationsHold
<1>1. NInv /\ [EvidenceNext]_evidenceVars => NInv'
  BY EvidenceNextSound
<1>2. NInv => ReferencesAgree
  <2> SUFFICES ASSUME NInv, NEW a \in annotations, a.body.ref # Absent,
                      NEW r \in SubjectRow(a.body.subject), NEW s \in Candidates(a.body.ref)
               PROVE  Fits(r.owner, s.owner) /\ Fits(r.asset, s.asset)
    BY DEF ReferencesAgree, Fits
  <2>1. RInv /\ TablesOK /\ a.body.subject.src \in Sources
    BY BodiesAssumption DEF NInv, RInv, EvidenceOK
  <2>2. KnownTarget(a.body.subject, r.owner, r.asset)
    BY <2>1, SubjectRowIs
  <2>3. PICK o \in Parties, c \in Assets \cup {Absent} :
          KnownTarget(a.body.subject, o, c) /\ FitsHash(a.body.ref, o, c)
    BY DEF NInv, Referred
  <2>4. o = r.owner /\ c = r.asset
    BY <2>2, <2>3 DEF KnownTarget
  <2>5. Naming(a.body.ref, s.owner, s.asset) /\ s \in EvidenceRow
    BY <2>1, CandidateNames
  <2> QED
    BY <2>3, <2>4, <2>5 DEF FitsHash, EvidenceRow
<1>3. NInv /\ [EvidenceNext]_evidenceVars
        => [\A n \in Annotators :
              asks[n].at # "answered" /\ asks'[n].at = "answered" /\ (\E a \in annotations : a.body = asks[n].body)
                => asks'[n].answer = "stored"]_evidenceVars
  BY EvidenceNextSound DEF Repeated
<1>4. EvidenceSpec => RepeatIsAnswered
  BY <1>1, <1>3, EvidenceInitSound, PTL DEF EvidenceSpec, RepeatIsAnswered
<1> QED
  BY <1>1, <1>2, <1>4, EvidenceInitSound, PTL DEF EvidenceSpec, AnnotationsHold
-----------------------------------------------------------------------------
(* The treasury's work for a managed wallet.                               *)

\* What makes ManagedIsTrue hold, conjunct by conjunct.
FundKeys == TopUpKeys \cup (Managed \X Shortfalls)
WalletTx == [grant: BOOLEAN, state: {"pending", "ok", "failed"}]
Work ==
  [job: {"approve", "revoke", "move"}, owner: Managed, key: Keys \cup {None}, wallet: Wallets,
   amount: Amounts, tx: Tx \cup {None}, nonce: Nat]

\* Where a run may stand, by what it works on and what it holds.
ApprovalPoints == {"sendApproval", "saveApproval", "awaitApproval", "markApproved", "approvalUnknown"}
FundPoints ==
  {"checkSubmitted", "checkReconciled", "saveSubmitted", "saveReconciled", "awaitFunding", "fundUnknown"}
MovePoints == {"awaitMove", "moveEvidence", "moveFailed", "moveUnknown"}
RevokePoints == {"awaitRevokeGas", "sendRevoke"}
HoldingPoints == {"broadcast", "submitLease", "unknownLease"} \cup FundPoints \cup MovePoints \cup RevokePoints
ClaimedPoints ==
  {"prove", "recover", "measure", "measureTopUp", "claimTopUp", "fundPreflight", "markFunded", "claimApproval"}
    \cup FundPoints \cup ApprovalPoints
ManagedPoints == {"idle", "claim", "prepare", "readBalance"} \cup HoldingPoints \cup ClaimedPoints

\* A preparation that has a hash is never started over, and one with an
\* attempt under way says what it is worth.
PrepSound(r) ==
  /\ r \in Preparation /\ r.attempt \in FundKeys \cup {None}
  /\ r.status = "failed" => r.fund = None
  /\ r.attempt # None => r.value # 0
  /\ r.status = "funding" /\ r.fund # None => r.attempt # None
  /\ r.status \in {"funded", "approving"} => r.attempt = None

\* A lease is its key's, a failed one was rejected by the chain, and that of a
\* funding is known to the wallet's row.
LeaseSound(k) ==
  lease[k] # None =>
    /\ lease[k].tx.key = k /\ lease[k].tx.amount # 0
    /\ lease[k].status = "failed" => lease[k].tx \in reverted
    /\ k \in FundKeys => LET w == lease[k].tx.wallet IN
                           w \in Managed /\ prep[w] # None /\ prep[w].fund # None

ManagedTables ==
  /\ ChainTypeOK /\ lease \in [Keys -> ManagedLease \cup {None}]
  /\ prep \in [Managed -> Preparation \cup {None}]
  /\ tokens \in [Managed -> Amounts] /\ wallet \in [Managed -> Seq(WalletTx)]
  /\ \A k \in Keys : LeaseSound(k)
  /\ \A w \in Managed : prep[w] # None => PrepSound(prep[w])
  /\ \A t \in Known : lease[t.key] # None /\ lease[t.key].tx = t
  /\ ApprovedIsMined /\ MovedAnswersTrue

\* What a run at pt with memory m relies on.
WorkSound(pt, m) ==
  pt # "idle" =>
    /\ m \in Work
    /\ m.job = "approve" => m.wallet = m.owner /\ m.key \in FundKeys \cup {None}
    /\ m.job = "revoke" => m.key \in RevokeKeys
    /\ m.job = "move" => m.key \in MoveKeys
    /\ pt \in {"claim"} \cup ClaimedPoints => m.job = "approve"
    /\ pt \in {"readBalance"} \cup MovePoints => m.job = "move"
    /\ pt \in RevokePoints => m.job = "revoke"
    /\ m.job = "approve" /\ pt # "claim" => prep[m.owner] # None
    /\ pt \in {"prepare", "claimTopUp"} => m.key \in Keys /\ m.amount # 0
    /\ pt \in HoldingPoints =>
         /\ m.key \in Keys /\ lease[m.key] # None /\ lease[m.key].tx = m.tx
         /\ m.tx.wallet = m.wallet /\ m.tx.amount = m.amount
    /\ pt = "moveFailed" => m.tx \in reverted
    /\ pt \in ApprovalPoints => prep[m.owner].status = "approving"
    /\ pt \in {"saveApproval", "awaitApproval", "markApproved"} =>
         m.nonce \in 1..Len(wallet[m.owner]) /\ wallet[m.owner][m.nonce].grant
    /\ pt \in {"awaitApproval", "markApproved"} => prep[m.owner].approval = m.nonce
    /\ pt = "markApproved" => wallet[m.owner][m.nonce].state = "ok"

\* At most one run is approving for a wallet.
Approving(p, w) == pc[p] \in ApprovalPoints /\ loc[p].owner = w
ApprovesAlone == \A p, q \in Procs, w \in Managed : Approving(p, w) /\ Approving(q, w) => p = q

WorksTyped == pc \in [Procs -> ManagedPoints] /\ loc \in [Procs -> Work \cup {None}]
WInv == ManagedTables /\ WorksTyped /\ (\A p \in Procs : WorkSound(pc[p], loc[p])) /\ ApprovesAlone
-----------------------------------------------------------------------------
(* What every step keeps for the runs that do not take it.                 *)

\* Leases keep their transfer, rejected transfers stay rejected, the wallets'
\* own transactions stay where they are, rows stay, and a row being approved
\* stays so unless who approves.
Unchanging(w, who) ==
  prep[w] # None =>
    /\ prep'[w] # None
    /\ prep[w].status = "approving" /\ ~who =>
         prep'[w].status = "approving" /\ prep'[w].approval = prep[w].approval
SentStay ==
  /\ \A k \in Keys : lease[k] # None => lease'[k] # None /\ lease'[k].tx = lease[k].tx
  /\ reverted \subseteq reverted'
  /\ \A w \in Managed : \A i \in 1..Len(wallet[w]) :
       /\ i \in 1..Len(wallet'[w]) /\ wallet'[w][i].grant = wallet[w][i].grant
       /\ wallet[w][i].state = "ok" => wallet'[w][i].state = "ok"

\* A run keeps what it relies on while others act.
LEMMA WorkKept ==
  ASSUME NEW pt, NEW m, WorkSound(pt, m), SentStay,
         m \in Work => Unchanging(m.owner, FALSE)
  PROVE  WorkSound(pt, m)'
<1> SUFFICES ASSUME pt # "idle" PROVE WorkSound(pt, m)'
  BY DEF WorkSound
<1>1. m \in Work /\ m.owner \in Managed
  BY DEF WorkSound, Work
<1>2. Unchanging(m.owner, FALSE)
  BY <1>1
<1>3. pt \in {"saveApproval", "awaitApproval", "markApproved"} =>
         /\ m.nonce \in 1..Len(wallet'[m.owner]) /\ wallet'[m.owner][m.nonce].grant
         /\ wallet[m.owner][m.nonce].state = "ok" => wallet'[m.owner][m.nonce].state = "ok"
  BY <1>1 DEF WorkSound, SentStay
<1>4. pt \in ApprovalPoints => pt # "claim" /\ pt \in ClaimedPoints
  BY DEF ApprovalPoints, ClaimedPoints
<1>5. m.job = "approve" /\ pt # "claim" =>
        /\ prep[m.owner] # None /\ prep'[m.owner] # None
        /\ prep[m.owner].status = "approving" =>
             prep'[m.owner].status = "approving" /\ prep'[m.owner].approval = prep[m.owner].approval
  BY <1>2 DEF WorkSound, Unchanging
<1>6. pt \in ApprovalPoints => prep'[m.owner].status = "approving"
  BY <1>4, <1>5 DEF WorkSound
<1>7. pt \in {"awaitApproval", "markApproved"} => prep'[m.owner].approval = m.nonce
  BY <1>4, <1>5 DEF WorkSound, ApprovalPoints
<1>8. pt \in HoldingPoints =>
         /\ m.key \in Keys /\ lease'[m.key] # None /\ lease'[m.key].tx = m.tx
         /\ m.tx.wallet = m.wallet /\ m.tx.amount = m.amount
  BY DEF WorkSound, SentStay
<1>9. pt = "moveFailed" => m.tx \in reverted'
  BY DEF WorkSound, SentStay
<1>10. pt = "markApproved" => wallet'[m.owner][m.nonce].state = "ok"
  BY <1>3 DEF WorkSound
<1> QED
  BY <1>1, <1>3, <1>5, <1>6, <1>7, <1>8, <1>9, <1>10 DEF WorkSound

\* A step of run p that keeps the tables sound and what others rely on, and
\* leaves p sound where it stands.
LEMMA RunMoves ==
  ASSUME WInv, NEW p \in Procs, NEW pt \in ManagedPoints, NEW m \in Work \cup {None},
         pc' = [pc EXCEPT ![p] = pt], loc' = [loc EXCEPT ![p] = m],
         ManagedTables', SentStay, WorkSound(pt, m)',
         \A w \in Managed : Unchanging(w, Approving(p, w)),
         pt \in ApprovalPoints => \/ Approving(p, m.owner)
                                  \/ prep[m.owner].status # "approving"
  PROVE  WInv'
<1>1. WorksTyped'
  BY DEF WInv, WorksTyped
<1>2. pc'[p] = pt /\ loc'[p] = m /\ \A q \in Procs \ {p} : pc'[q] = pc[q] /\ loc'[q] = loc[q]
  BY DEF WInv, WorksTyped
<1>3. ASSUME NEW q \in Procs \ {p} PROVE WorkSound(pc[q], loc[q])'
  <2>1. WorkSound(pc[q], loc[q])
    BY DEF WInv
  <2>2. pc'[q] = pc[q] /\ loc'[q] = loc[q]
    BY <1>2
  <2> DEFINE here == pc[q]  mem == loc[q]
  <2>3. PICK x, y : x = here /\ y = mem
    OBVIOUS
  <2>4. CASE mem \in Work => Unchanging(mem.owner, FALSE)
    <3>1. WorkSound(x, y) /\ (y \in Work => Unchanging(y.owner, FALSE))
      BY <2>1, <2>3, <2>4
    <3> HIDE DEF here, mem
    <3>2. WorkSound(x, y)'
      BY <3>1, WorkKept
    <3>3. pc'[q] = x /\ loc'[q] = y
      BY <2>2, <2>3 DEF here, mem
    <3> QED
      BY <3>2, <3>3 DEF WorkSound
  <2>5. CASE mem \in Work /\ ~Unchanging(mem.owner, FALSE)
    <3>1. mem.owner \in Managed
      BY <2>5 DEF Work
    <3>2. Approving(p, mem.owner) /\ prep[mem.owner] # None /\ prep'[mem.owner] # None
      BY <3>1, <2>5 DEF Unchanging
    <3>3. here \notin ApprovalPoints
      BY <3>1, <3>2 DEF WInv, ApprovesAlone, Approving
    <3>4. here = "idle" \/ (here \notin {"awaitApproval", "markApproved", "saveApproval"})
      BY <3>3 DEF ApprovalPoints
    <3>5. WorkSound(x, y)'
      BY <2>1, <2>3, <3>1, <3>2, <3>3, <3>4 DEF WorkSound, SentStay
    <3>6. pc'[q] = x /\ loc'[q] = y
      BY <2>2, <2>3
    <3> QED
      BY <3>5, <3>6 DEF WorkSound
  <2> QED
    BY <2>4, <2>5
<1>4. WorkSound(pc[p], loc[p])'
  BY <1>2 DEF WorkSound
<1>5. ApprovesAlone'
  <2> SUFFICES ASSUME NEW q \in Procs, NEW r \in Procs, NEW w \in Managed,
                      Approving(q, w)', Approving(r, w)', q # r
               PROVE  FALSE
    BY DEF ApprovesAlone
  <2>1. ASSUME NEW x \in Procs \ {p}, Approving(p, w)', Approving(x, w)' PROVE FALSE
    <3>1. pt \in ApprovalPoints /\ m.owner = w /\ Approving(x, w)
      BY <1>2, <2>1 DEF Approving
    <3>2. prep[w].status = "approving"
      BY <3>1 DEF WInv, WorkSound, Approving, ApprovalPoints
    <3> QED
      BY <3>1, <3>2 DEF WInv, ApprovesAlone
  <2>2. q # p /\ r # p => Approving(q, w) /\ Approving(r, w)
    BY <1>2 DEF Approving
  <2> QED
    BY <2>1, <2>2 DEF WInv, ApprovesAlone
<1> QED
  BY <1>1, <1>3, <1>4, <1>5 DEF WInv
-----------------------------------------------------------------------------
(* What the steps write.                                                   *)

\* A wallet of its own shape is one of the managed wallets.
LEMMA KeyKinds ==
  /\ FundKeys \subseteq Keys /\ RevokeKeys \subseteq Keys /\ MoveKeys \subseteq Keys
  /\ FundKeys \cap (RevokeKeys \cup MoveKeys) = {} /\ RevokeKeys \cap MoveKeys = {}
  /\ \A w \in Managed, v \in Shortfalls : FundingKey(w, v) \in FundKeys
  /\ \A v \in Shortfalls : v \in Amounts /\ v # 0
  /\ Managed \subseteq Wallets /\ Targets \subseteq Wallets /\ Amounts \subseteq Nat
  /\ \A k \in RevokeKeys \cup MoveKeys : OwnerOf[k] \in Managed
BY KeysAssumption, KindsAssumption, OwnersAssumption, ShortfallsAssumption, AmountsAssumption
   DEF FundKeys, FundingKey

\* Nothing is written.
LEMMA NothingWritten ==
  ASSUME ManagedTables, UNCHANGED <<lease, chainVars, prep, wallet, tokens, moved>>
  PROVE  ManagedTables' /\ SentStay /\ \A w \in Managed, who \in BOOLEAN : Unchanging(w, who)
<1>1. \A k \in Keys : LeaseSound(k)'
  BY DEF ManagedTables, LeaseSound, chainVars
<1>2. \A w \in Managed : prep'[w] # None => PrepSound(prep[w])'
  BY DEF ManagedTables, PrepSound
<1>3. ApprovedIsMined' /\ MovedAnswersTrue'
  BY DEF ManagedTables, ApprovedIsMined, MovedAnswersTrue, chainVars
<1>4. ManagedTables'
  BY <1>1, <1>2, <1>3 DEF ManagedTables, ChainTypeOK, chainVars, Known, Mined
<1> QED
  BY <1>4 DEF SentStay, Unchanging, chainVars

\* What may be written over the row of wallet w: a sound row that keeps a
\* saved hash, leaves an approval alone unless who is approving, and says
\* approved only of an approval that was executed.
RowWritten(w, s, who) ==
  /\ PrepSound(s)
  /\ prep[w] # None /\ prep[w].fund # None => s.fund # None
  /\ prep[w] # None /\ prep[w].status = "approving" /\ ~who =>
       s.status = "approving" /\ s.approval = prep[w].approval
  /\ s.status = "approved" =>
       s.approval \in 1..Len(wallet[w]) /\ wallet[w][s.approval] = [grant |-> TRUE, state |-> "ok"]

\* At most one lease is marked, and failed only if the chain rejected it.
LeaseIsMarked ==
  \/ lease' = lease
  \/ \E k \in Keys, status \in LeaseStatuses \cup {"failed"} :
       /\ lease' = LeaseMarked(k, status)
       /\ status = "failed" /\ lease[k] # None => lease[k].tx \in reverted

\* Steps that write one row, mark one lease, or do both.
LEMMA MarksWritten ==
  ASSUME ManagedTables, LeaseIsMarked, NEW w \in Managed, NEW s, NEW who \in BOOLEAN,
         UNCHANGED <<chainVars, wallet, tokens, moved>>,
         prep' = prep \/ (prep' = [prep EXCEPT ![w] = s] /\ RowWritten(w, s, who))
  PROVE  /\ ManagedTables' /\ SentStay /\ Unchanging(w, who)
         /\ \A u \in Managed : u # w => Unchanging(u, FALSE) /\ Unchanging(u, TRUE)
<1>1. prep' = [prep EXCEPT ![w] = s] /\ RowWritten(w, s, who) => s \in Preparation /\ s # None
  BY ManagedNoneAssumption DEF RowWritten, PrepSound
<1>2. /\ prep' \in [Managed -> Preparation \cup {None}]
      /\ \A u \in Managed \ {w} : prep'[u] = prep[u]
      /\ prep'[w] = prep[w] \/ (prep'[w] = s /\ s # None /\ RowWritten(w, s, who))
  BY <1>1 DEF ManagedTables
<1>5. /\ lease' \in [Keys -> ManagedLease \cup {None}]
      /\ \A l \in Keys : lease'[l] = None <=> lease[l] = None
      /\ \A l \in Keys : lease[l] # None => lease'[l].tx = lease[l].tx
      /\ \A l \in Keys : lease[l] # None /\ lease'[l].status = "failed" => lease[l].tx \in reverted
  <2>1. CASE lease' = lease
    BY <2>1 DEF ManagedTables, LeaseSound
  <2>2. CASE lease' # lease
    <3>1. PICK k \in Keys, status \in LeaseStatuses \cup {"failed"} :
            /\ lease' = LeaseMarked(k, status)
            /\ status = "failed" /\ lease[k] # None => lease[k].tx \in reverted
      BY <2>2 DEF LeaseIsMarked
    <3>2. PICK new : new = [lease[k] EXCEPT !.status = status]
      OBVIOUS
    <3>3. lease[k] # None => /\ new \in ManagedLease /\ new # None /\ new.tx = lease[k].tx
                             /\ new.status = status
      BY <3>1, <3>2, ManagedNoneAssumption DEF ManagedTables, ManagedLease
    <3>4. lease[k] # None /\ lease' = [lease EXCEPT ![k] = new]
      BY <2>2, <3>1, <3>2 DEF LeaseMarked, ManagedTables, ManagedLease
    <3>5. lease'[k] = new /\ \A l \in Keys \ {k} : lease'[l] = lease[l]
      BY <3>3, <3>4 DEF ManagedTables
    <3> QED
      BY <3>1, <3>3, <3>4, <3>5 DEF ManagedTables, LeaseSound
  <2> QED
    BY <2>1, <2>2
<1>6. \A u \in Managed : prep[u] # None /\ prep[u].fund # None => prep'[u] # None /\ prep'[u].fund # None
  BY <1>2 DEF RowWritten
<1>7. \A l \in Keys : LeaseSound(l)'
  BY <1>5, <1>6 DEF ManagedTables, LeaseSound, chainVars
<1>8. \A u \in Managed : prep'[u] # None => PrepSound(prep[u])'
  <2> SUFFICES ASSUME NEW u \in Managed, prep'[u] # None PROVE PrepSound(prep[u])'
    OBVIOUS
  <2>1. PICK x : x = prep'[u]
    OBVIOUS
  <2>2. PrepSound(x)
    BY <1>2, <2>1 DEF ManagedTables, RowWritten
  <2> QED
    BY <2>1, <2>2 DEF PrepSound
<1>9. ApprovedIsMined'
  BY <1>2 DEF ManagedTables, ApprovedIsMined, RowWritten
<1>10. ManagedTables'
  BY <1>2, <1>5, <1>7, <1>8, <1>9, ZenonT(40)
     DEF ManagedTables, ChainTypeOK, chainVars, Known, Mined, MovedAnswersTrue, Tx
<1>11. SentStay
  BY <1>5 DEF SentStay, chainVars
<1> QED
  BY <1>2, <1>10, <1>11 DEF Unchanging, RowWritten
-----------------------------------------------------------------------------
(* How a run goes on.                                                      *)

\* Run p goes to pt with memory m.
GoesTo(p, pt, m) == pc' = [pc EXCEPT ![p] = pt] /\ loc' = [loc EXCEPT ![p] = m]

\* A run begins to approve only a row nobody approves.
MayApprove(p, pt, m) ==
  pt \in ApprovalPoints => Approving(p, m.owner) \/ prep[m.owner].status # "approving"

LEMMA GotoGoes ==
  ASSUME WInv, NEW p \in Procs, NEW pt
  PROVE  /\ Goto(p, pt) => GoesTo(p, pt, IF pt = "idle" THEN None ELSE loc[p])
         /\ \A m : GotoWith(p, pt, m) => GoesTo(p, pt, IF pt = "idle" THEN None ELSE m)
BY DEF WInv, WorksTyped, Goto, GotoWith, GoesTo

\* A run at work has a memory of its own.
LEMMA AtWork ==
  ASSUME WInv, NEW p \in Procs, pc[p] # "idle"
  PROVE  /\ WorkSound(pc[p], loc[p]) /\ loc[p] \in Work /\ loc[p].owner \in Managed
         /\ loc[p].owner \in Wallets /\ loc[p].wallet \in Wallets /\ loc[p].amount \in Amounts
         /\ pc[p] \in ManagedPoints
BY OwnersAssumption DEF WInv, WorkSound, Work, WorksTyped

\* An idle run relies on nothing.
LEMMA IdleIsSound == \A m : WorkSound("idle", m) /\ WorkSound("idle", m)'
BY DEF WorkSound

\* Run p writes a row or marks a lease, or both or neither, and goes on.
LEMMA RunWrites ==
  ASSUME WInv, NEW p \in Procs, NEW pt \in ManagedPoints, NEW m \in Work \cup {None},
         GoesTo(p, pt, m), LeaseIsMarked, NEW w \in Managed, NEW s,
         UNCHANGED <<chainVars, wallet, tokens, moved>>,
         prep' = prep \/ (prep' = [prep EXCEPT ![w] = s] /\ RowWritten(w, s, Approving(p, w))),
         SentStay => WorkSound(pt, m)', MayApprove(p, pt, m)
  PROVE  WInv'
<1>1. Approving(p, w) \in BOOLEAN
  BY DEF Approving
<1>2. PICK who \in BOOLEAN : who = Approving(p, w)
  BY <1>1
<1>3. /\ ManagedTables' /\ SentStay /\ Unchanging(w, who)
      /\ \A u \in Managed : u # w => Unchanging(u, FALSE) /\ Unchanging(u, TRUE)
  BY <1>2, MarksWritten DEF WInv
<1>4. \A u \in Managed : Unchanging(u, Approving(p, u))
  <2> SUFFICES ASSUME NEW u \in Managed, u # w PROVE Unchanging(u, Approving(p, u))
    BY <1>2, <1>3
  <2>1. Unchanging(u, FALSE)
    BY <1>3
  <2> QED
    BY <2>1 DEF Unchanging
<1> QED
  BY <1>3, <1>4, RunMoves DEF GoesTo, MayApprove

\* Run p writes nothing and goes on.
LEMMA RunWalks ==
  ASSUME WInv, NEW p \in Procs, NEW pt \in ManagedPoints, NEW m \in Work \cup {None},
         GoesTo(p, pt, m), UNCHANGED <<lease, chainVars, prep, wallet, tokens, moved>>,
         WorkSound(pt, m), MayApprove(p, pt, m)
  PROVE  WInv'
<1>1. ManagedTables' /\ SentStay /\ \A w \in Managed, who \in BOOLEAN : Unchanging(w, who)
  BY NothingWritten DEF WInv
<1>2. WorkSound(pt, m)'
  <2>1. m \in Work => Unchanging(m.owner, FALSE)
    BY <1>1 DEF Work
  <2> QED
    BY <1>1, <2>1, WorkKept
<1>3. \A w \in Managed : Unchanging(w, Approving(p, w))
  BY <1>1 DEF Approving
<1> QED
  BY <1>1, <1>2, <1>3, RunMoves DEF GoesTo, MayApprove

\* A run gives up, whatever it wrote of one row and one lease.
LEMMA RunStops ==
  ASSUME WInv, NEW p \in Procs, GoesTo(p, "idle", None), LeaseIsMarked, NEW w \in Managed, NEW s,
         UNCHANGED <<chainVars, wallet, tokens, moved>>,
         prep' = prep \/ (prep' = [prep EXCEPT ![w] = s] /\ RowWritten(w, s, Approving(p, w)))
  PROVE  WInv'
<1>1. "idle" \in ManagedPoints /\ MayApprove(p, "idle", None)
  BY DEF ManagedPoints, MayApprove, ApprovalPoints
<1> QED
  BY <1>1, RunWrites, IdleIsSound

\* A run gives up without writing anything but an answer.
LEMMA RunLeaves ==
  ASSUME WInv, NEW p \in Procs, GoesTo(p, "idle", None),
         UNCHANGED <<lease, chainVars, prep, wallet, tokens, moved>>
  PROVE  WInv'
<1>1. "idle" \in ManagedPoints /\ MayApprove(p, "idle", None)
  BY DEF ManagedPoints, MayApprove, ApprovalPoints
<1> QED
  BY <1>1, RunWalks, IdleIsSound

\* A run saves a row: where it goes on, the row is saved; where the call
\* failed, it may be.
LEMMA RunSaves ==
  ASSUME WInv, NEW p \in Procs, NEW m, m = loc[p], NEW w \in Managed, NEW s, NEW new,
         NEW done \in ManagedPoints, NEW failed \in ManagedPoints, pc[p] # "idle",
         new = prep \/ (new = [prep EXCEPT ![w] = s] /\ RowWritten(w, s, Approving(p, w))),
         SavePrep(p, new, done, failed), UNCHANGED <<lease, chainVars, wallet, tokens, moved>>,
         prep' = new /\ SentStay /\ done # "idle" => WorkSound(done, m)',
         SentStay /\ failed # "idle" => WorkSound(failed, m)',
         MayApprove(p, done, m), MayApprove(p, failed, m)
  PROVE  WInv'
<1>1. m \in Work
  BY AtWork
<1>2. LeaseIsMarked
  BY DEF LeaseIsMarked
<1>3. ASSUME NEW pt \in {done, failed}, Goto(p, pt), prep' \in {prep, new},
             SentStay /\ pt # "idle" => WorkSound(pt, m)', MayApprove(p, pt, m)
      PROVE  WInv'
  <2>1. GoesTo(p, pt, IF pt = "idle" THEN None ELSE m)
    BY <1>3, GotoGoes
  <2>2. CASE pt = "idle"
    BY <2>1, <2>2, <1>2, <1>3, RunStops
  <2>3. CASE pt # "idle"
    BY <2>1, <2>3, <1>1, <1>2, <1>3, RunWrites
  <2> QED
    BY <2>2, <2>3
<1> QED
  BY <1>3 DEF SavePrep
-----------------------------------------------------------------------------
(* Runs that approve, up to the treasury's transaction.                    *)

\* A new memory.
LEMMA MemoryIs ==
  ASSUME NEW job \in {"approve", "revoke", "move"}, NEW w \in Managed, NEW k \in Keys \cup {None},
         NEW to \in Wallets, NEW v \in Amounts, NEW m, m = Memory(job, w, k, to, v)
  PROVE  /\ m \in Work /\ m.job = job /\ m.owner = w /\ m.key = k /\ m.wallet = to /\ m.amount = v
         /\ m.tx = None /\ m.nonce = 0
BY DEF Memory, Work

\* A run that approves and holds no transaction, anywhere before the approval.
Preparing(m) ==
  /\ m \in Work /\ m.job = "approve" /\ m.wallet = m.owner /\ m.key \in FundKeys \cup {None}
  /\ prep[m.owner] # None
PlainPoints == {"prove", "recover", "measure", "measureTopUp", "fundPreflight", "markFunded", "claimApproval"}
LEMMA PreparingIsSound ==
  ASSUME NEW pt \in PlainPoints, NEW m
  PROVE  /\ pt \in ManagedPoints /\ pt # "idle" /\ pt \notin ApprovalPoints
         /\ Preparing(m) => WorkSound(pt, m)
         /\ Preparing(m)' => WorkSound(pt, m)'
<1>1. /\ pt \in ManagedPoints \cap ClaimedPoints /\ pt \notin {"claim", "idle", "readBalance", "prepare", "claimTopUp"}
      /\ pt \notin HoldingPoints /\ pt \notin MovePoints /\ pt \notin RevokePoints
      /\ pt \notin ApprovalPoints
      /\ pt \notin {"moveFailed", "saveApproval", "awaitApproval", "markApproved"}
  BY DEF PlainPoints, ManagedPoints, ClaimedPoints, HoldingPoints, MovePoints, RevokePoints, ApprovalPoints,
         FundPoints
<1> QED
  BY <1>1 DEF WorkSound, Preparing

\* A run that is about to prepare a funding.
LEMMA FundingIsSound ==
  ASSUME NEW pt \in {"prepare", "claimTopUp"}, NEW m, m.key \in FundKeys, m.amount # 0
  PROVE  /\ pt \in ManagedPoints /\ pt # "idle" /\ pt \notin ApprovalPoints
         /\ Preparing(m) => WorkSound(pt, m)
         /\ Preparing(m)' => WorkSound(pt, m)'
<1>1. /\ pt \in ManagedPoints /\ pt \notin {"claim", "idle", "readBalance"}
      /\ pt \notin HoldingPoints /\ pt \notin MovePoints /\ pt \notin RevokePoints
      /\ pt \notin ApprovalPoints
      /\ pt \notin {"moveFailed", "saveApproval", "awaitApproval", "markApproved"}
  BY DEF ManagedPoints, ClaimedPoints, HoldingPoints, MovePoints, RevokePoints, ApprovalPoints, FundPoints
<1> QED
  BY <1>1, KeyKinds DEF WorkSound, Preparing

\* What a run that approves knows once it has claimed its row.
LEMMA PreparingRuns ==
  ASSUME WInv, NEW p \in Procs, pc[p] \in ClaimedPoints
  PROVE  Preparing(loc[p])
<1>1. pc[p] # "idle" /\ pc[p] # "claim"
  BY DEF ClaimedPoints, FundPoints, ApprovalPoints
<1> QED
  BY <1>1, AtWork DEF WorkSound, Preparing

LEMMA StartApprovalSound ==
  ASSUME WInv, NEW p \in Procs, NEW w \in Managed, StartApproval(p, w)
  PROVE  WInv'
<1>1. PICK m : m = Memory("approve", w, None, w, 0)
  OBVIOUS
<1>2. m \in Work /\ m.job = "approve" /\ m.owner = w /\ m.key = None /\ m.wallet = w
  BY <1>1, MemoryIs, KeyKinds, AmountsAssumption
<1>3. GoesTo(p, "claim", m)
  BY <1>1, GotoGoes DEF StartApproval
<1>4. WorkSound("claim", m) /\ "claim" \in ManagedPoints /\ MayApprove(p, "claim", m)
  BY <1>2 DEF WorkSound, ManagedPoints, ClaimedPoints, HoldingPoints, MovePoints, RevokePoints,
              ApprovalPoints, FundPoints, MayApprove
<1> QED
  BY <1>2, <1>3, <1>4, RunWalks DEF StartApproval, managedVars, answerVars

\* A run that found row r goes on.
LEMMA ResumeSound ==
  ASSUME WInv, NEW p \in Procs, pc[p] \in {"claim", "recover"}, NEW w, w = loc[p].owner,
         NEW r, PrepSound(r), Resume(p, r), NEW s, prep'[w] # None,
         UNCHANGED <<lease, chainVars, wallet, tokens, moved>>,
         prep' = prep \/ (prep' = [prep EXCEPT ![w] = s] /\ RowWritten(w, s, Approving(p, w)))
  PROVE  WInv'
<1>1. PICK m : m = loc[p]
  OBVIOUS
<1>2. /\ m \in Work /\ m.owner = w /\ w \in Managed /\ m.job = "approve" /\ m.wallet = w
      /\ m.key \in FundKeys \cup {None}
  BY <1>1, AtWork DEF WorkSound, ClaimedPoints
<1>3. LeaseIsMarked
  BY DEF LeaseIsMarked
<1>4. Preparing(m)'
  BY <1>2 DEF Preparing
<1>5. CASE Goto(p, "measureTopUp")
  <2>1. GoesTo(p, "measureTopUp", m)
    BY <1>1, <1>5, GotoGoes
  <2>2. "measureTopUp" \in ManagedPoints /\ MayApprove(p, "measureTopUp", m) /\ WorkSound("measureTopUp", m)'
    BY <1>4, PreparingIsSound DEF PlainPoints, MayApprove, ApprovalPoints
  <2> QED
    BY <1>2, <1>3, <2>1, <2>2, RunWrites
<1>6. CASE r.attempt # None /\ GotoWith(p, "prepare", Memory("approve", w, r.attempt, w, r.value))
  <2>1. PICK n : n = Memory("approve", w, r.attempt, w, r.value)
    OBVIOUS
  <2>2. r.attempt \in FundKeys /\ r.attempt \in Keys /\ r.value \in Amounts /\ r.value # 0 /\ w \in Wallets
    BY <1>2, <1>6, KeyKinds DEF PrepSound, Preparation
  <2>3. n \in Work /\ n.job = "approve" /\ n.owner = w /\ n.key = r.attempt /\ n.wallet = w /\ n.amount = r.value
    BY <1>2, <2>1, <2>2, MemoryIs
  <2>4. GoesTo(p, "prepare", n)
    BY <1>6, <2>1, GotoGoes
  <2>5. Preparing(n)'
    BY <1>4, <2>2, <2>3 DEF Preparing
  <2>6. "prepare" \in ManagedPoints /\ WorkSound("prepare", n)' /\ MayApprove(p, "prepare", n)
    BY <2>2, <2>3, <2>5, FundingIsSound DEF MayApprove
  <2> QED
    BY <1>2, <1>3, <2>3, <2>4, <2>6, RunWrites
<1>7. CASE Goto(p, "idle")
  BY <1>2, <1>3, <1>7, GotoGoes, RunStops
<1> QED
  BY <1>1, <1>2, <1>5, <1>6, <1>7 DEF Resume
\* A run claims a wallet's preparation, or finds it claimed.
LEMMA ClaimPreparationSound ==
  ASSUME WInv, NEW p \in Procs, ClaimPreparation(p)
  PROVE  WInv'
<1>1. PICK m, w : m = loc[p] /\ w = m.owner
  OBVIOUS
<1>2. /\ pc[p] = "claim" /\ pc[p] # "idle" /\ m \in Work /\ w \in Managed /\ m.job = "approve" /\ m.wallet = w
      /\ m.key \in FundKeys \cup {None}
  BY <1>1, AtWork DEF WorkSound, ClaimPreparation
<1>3. UNCHANGED <<lease, chainVars, wallet, tokens, moved>>
  BY DEF ClaimPreparation, answerVars
<1>4. prep[w] # None => PrepSound(prep[w])
  BY <1>2 DEF WInv, ManagedTables
<1>5. CASE Claimable(w) /\ SavePrep(p, ClaimedPrep(w), "measure", "idle")
  <2>1. PICK s : s = IF prep[w] = None THEN NewPreparation
                     ELSE [[[prep[w] EXCEPT !.status = "funding"] EXCEPT !.attempt = None] EXCEPT !.value = 0]
    OBVIOUS
  <2>2. ClaimedPrep(w) = [prep EXCEPT ![w] = s]
    BY <1>2, <2>1 DEF ClaimedPrep, WInv, ManagedTables, Preparation
  <2>3. RowWritten(w, s, Approving(p, w))
    <3>1. CASE prep[w] = None
      BY <2>1, <3>1, AmountsAssumption DEF RowWritten, PrepSound, NewPreparation, Preparation, PrepStatuses
    <3>2. CASE prep[w] # None
      <4>1. prep[w].status = "failed" /\ prep[w].fund = None
        BY <1>5, <3>2 DEF Claimable, ReclaimablePrep
      <4> QED
        BY <2>1, <3>2, <4>1, <1>4, AmountsAssumption DEF RowWritten, PrepSound, Preparation, PrepStatuses
    <3> QED
      BY <3>1, <3>2
  <2>4. s # None
    BY <2>3, ManagedNoneAssumption DEF RowWritten, PrepSound
  <2>5. prep' = ClaimedPrep(w) => Preparing(m)'
    BY <1>1, <1>2, <2>2, <2>4 DEF Preparing, WInv, ManagedTables
  <2>6. /\ {"measure", "idle"} \subseteq ManagedPoints
        /\ MayApprove(p, "measure", m) /\ MayApprove(p, "idle", m)
        /\ prep' = ClaimedPrep(w) => WorkSound("measure", m)'
    BY <2>5, PreparingIsSound DEF PlainPoints, MayApprove, ApprovalPoints, ManagedPoints
  <2> QED
    BY <1>1, <1>2, <1>3, <1>5, <2>2, <2>3, <2>6, RunSaves
<1>6. CASE ~Claimable(w) /\ UNCHANGED prep /\ Resume(p, prep[w])
  <2>1. prep[w] # None /\ PrepSound(prep[w]) /\ prep'[w] # None
    BY <1>4, <1>6 DEF Claimable
  <2> QED
    BY <1>1, <1>2, <1>3, <1>6, <2>1, ResumeSound
<1>7. CASE ~Claimable(w) /\ UNCHANGED prep /\ Goto(p, "idle")
  <2>1. GoesTo(p, "idle", None)
    BY <1>7, GotoGoes
  <2> QED
    BY <1>3, <1>7, <2>1, RunLeaves
<1>8. CASE /\ ~Claimable(w) /\ UNCHANGED prep /\ prep[w].fund # None
           /\ GotoWith(p, "prove", [loc[p] EXCEPT !.tx = prep[w].fund])
  <2>1. prep[w] # None /\ prep[w].fund \in Tx
    BY <1>4, <1>8 DEF Claimable, PrepSound, Preparation
  <2>2. PICK n : n = [m EXCEPT !.tx = prep[w].fund]
    OBVIOUS
  <2>3. n \in Work /\ Preparing(n)
    BY <1>1, <1>2, <2>1, <2>2 DEF Work, Preparing
  <2>4. GoesTo(p, "prove", n)
    BY <1>1, <1>8, <2>2, GotoGoes
  <2>5. "prove" \in ManagedPoints /\ MayApprove(p, "prove", n) /\ WorkSound("prove", n)
    BY <2>3, PreparingIsSound DEF PlainPoints, MayApprove
  <2> QED
    BY <1>3, <1>8, <2>3, <2>4, <2>5, RunWalks
<1> QED
  BY <1>1, <1>5, <1>6, <1>7, <1>8 DEF ClaimPreparation

\* A saved funding is proved.
LEMMA ProveFundingSound ==
  ASSUME WInv, NEW p \in Procs, ProveFunding(p)
  PROVE  WInv'
<1>1. PICK m : m = loc[p]
  OBVIOUS
<1>2. pc[p] = "prove" /\ pc[p] # "idle" /\ pc[p] \in ClaimedPoints /\ m \in Work
  BY <1>1, AtWork DEF ProveFunding, ClaimedPoints
<1>3. UNCHANGED <<lease, chainVars, prep, wallet, tokens, moved>>
  BY DEF ProveFunding, managedVars, answerVars
<1>4. "recover" \in ManagedPoints /\ WorkSound("recover", m) /\ MayApprove(p, "recover", m)
  BY <1>1, <1>2, PreparingRuns, PreparingIsSound DEF PlainPoints, MayApprove
<1>5. GoesTo(p, "recover", m) \/ GoesTo(p, "idle", None)
  BY <1>1, GotoGoes DEF ProveFunding
<1> QED
  BY <1>2, <1>3, <1>4, <1>5, RunWalks, RunLeaves

\* A recovered row is funded again.
LEMMA RecoverFundedSound ==
  ASSUME WInv, NEW p \in Procs, RecoverFunded(p)
  PROVE  WInv'
<1>1. PICK m, w : m = loc[p] /\ w = m.owner
  OBVIOUS
<1>2. pc[p] = "recover" /\ pc[p] # "idle" /\ pc[p] \in ClaimedPoints /\ m \in Work /\ w \in Managed
  BY <1>1, AtWork DEF RecoverFunded, ClaimedPoints
<1>3. UNCHANGED <<lease, chainVars, wallet, tokens, moved>>
  BY DEF RecoverFunded, answerVars
<1>4. prep[w] # None /\ PrepSound(prep[w])
  BY <1>1, <1>2, PreparingRuns DEF Preparing, WInv, ManagedTables
<1>5. PICK s : s = [[[prep[w] EXCEPT !.status = "funded"] EXCEPT !.attempt = None] EXCEPT !.value = 0]
  OBVIOUS
<1>6. PICK new : new = RecoveredFunded(w)
  OBVIOUS
<1>7. \/ new = prep
      \/ new = [prep EXCEPT ![w] = s] /\ prep[w].status = "unknown" /\ prep[w].fund # None
  BY <1>4, <1>5, <1>6 DEF RecoveredFunded, PrepWhere, PrepSound, Preparation
<1>8. new = prep \/ (new = [prep EXCEPT ![w] = s] /\ RowWritten(w, s, Approving(p, w)))
  <2>1. prep[w].status = "unknown" /\ prep[w].fund # None => RowWritten(w, s, Approving(p, w))
    BY <1>4, <1>5, AmountsAssumption DEF RowWritten, PrepSound, Preparation, PrepStatuses
  <2> QED
    BY <1>7, <2>1
<1>9. new[w] # None /\ PrepSound(new[w])
  <2>1. CASE new = prep
    BY <1>4, <2>1
  <2>2. CASE new = [prep EXCEPT ![w] = s] /\ RowWritten(w, s, Approving(p, w))
    <3>1. new[w] = s
      BY <1>2, <2>2 DEF WInv, ManagedTables
    <3> QED
      BY <2>2, <3>1, ManagedNoneAssumption DEF RowWritten, PrepSound
  <2> QED
    BY <1>8, <2>1, <2>2
<1>10. CASE prep' = new /\ Resume(p, new[w])
  BY <1>1, <1>2, <1>3, <1>8, <1>9, <1>10, ResumeSound
<1>11. CASE prep' \in {prep, new} /\ Goto(p, "idle")
  <2>1. GoesTo(p, "idle", None) /\ LeaseIsMarked
    BY <1>3, <1>11, GotoGoes DEF LeaseIsMarked
  <2> QED
    BY <1>2, <1>3, <1>8, <1>11, <2>1, RunStops
<1> QED
  BY <1>1, <1>6, <1>10, <1>11 DEF RecoverFunded
\* A run that holds the transaction of its key's lease.
Holds(m) ==
  /\ m.key \in Keys /\ lease[m.key] # None /\ lease[m.key].tx = m.tx
  /\ m.tx.wallet = m.wallet /\ m.tx.amount = m.amount

\* A funding's run with its transaction.
LEMMA FundHolds ==
  ASSUME NEW pt \in FundPoints, NEW m
  PROVE  /\ pt \in ManagedPoints /\ pt # "idle" /\ pt \notin ApprovalPoints /\ pt \in ClaimedPoints \cap HoldingPoints
         /\ Preparing(m) /\ Holds(m) => WorkSound(pt, m)
         /\ Preparing(m)' /\ Holds(m)' => WorkSound(pt, m)'
<1>1. /\ pt \in ManagedPoints /\ pt \notin {"claim", "idle", "readBalance", "prepare", "claimTopUp"}
      /\ pt \in ClaimedPoints \cap HoldingPoints
      /\ pt \notin MovePoints /\ pt \notin RevokePoints /\ pt \notin ApprovalPoints
      /\ pt \notin {"moveFailed", "saveApproval", "awaitApproval", "markApproved"}
  BY DEF ManagedPoints, ClaimedPoints, HoldingPoints, MovePoints, RevokePoints, ApprovalPoints, FundPoints
<1> QED
  BY <1>1 DEF WorkSound, Preparing, Holds

LEMMA HoldingRuns ==
  ASSUME WInv, NEW p \in Procs, pc[p] \in HoldingPoints
  PROVE  Holds(loc[p]) /\ pc[p] # "idle" /\ loc[p].tx \in Tx /\ loc[p].tx.key = loc[p].key
<1>1. pc[p] # "idle"
  BY DEF HoldingPoints, FundPoints, MovePoints, RevokePoints
<1>2. Holds(loc[p])
  BY <1>1, AtWork DEF WorkSound, Holds
<1>3. lease[loc[p].key] \in ManagedLease /\ LeaseSound(loc[p].key)
  BY <1>2 DEF Holds, WInv, ManagedTables
<1> QED
  BY <1>1, <1>2, <1>3 DEF Holds, ManagedLease, LeaseSound

\* The row of a funding that was prepared has a hash.
LEMMA FundingIsSaved ==
  ASSUME WInv, NEW p \in Procs, pc[p] \in FundPoints
  PROVE  LET w == loc[p].owner IN
         /\ prep[w] # None /\ PrepSound(prep[w]) /\ prep[w].fund # None
         /\ loc[p].key \in FundKeys
<1>1. pc[p] \in ClaimedPoints /\ pc[p] \in HoldingPoints
  BY FundHolds
<1>2. Holds(loc[p]) /\ Preparing(loc[p]) /\ pc[p] # "idle"
  BY <1>1, HoldingRuns, PreparingRuns
<1>3. loc[p].key \in FundKeys
  BY <1>2, ManagedNoneAssumption DEF Holds, Preparing
<1>4. LeaseSound(loc[p].key)
  BY <1>2 DEF Holds, WInv, ManagedTables
<1> QED
  BY <1>2, <1>3, <1>4 DEF Holds, Preparing, LeaseSound, WInv, ManagedTables

LEMMA MeasureSound ==
  ASSUME WInv, NEW p \in Procs, Measure(p) \/ MeasureTopUp(p)
  PROVE  WInv'
<1>1. PICK m, w : m = loc[p] /\ w = m.owner
  OBVIOUS
<1>2. pc[p] \in {"measure", "measureTopUp"} /\ pc[p] # "idle" /\ pc[p] \in ClaimedPoints
  BY DEF Measure, MeasureTopUp, ClaimedPoints
<1>3. m \in Work /\ w \in Managed /\ w \in Wallets /\ Preparing(m)
  BY <1>1, <1>2, AtWork, PreparingRuns
<1>4. UNCHANGED <<lease, chainVars, prep, wallet, tokens, moved>>
  BY DEF Measure, MeasureTopUp, managedVars, answerVars
<1>5. ASSUME NEW pt \in {"markFunded", "claimApproval"}, Goto(p, pt) PROVE WInv'
  <2>1. GoesTo(p, pt, m)
    BY <1>1, <1>5, GotoGoes
  <2>2. pt \in ManagedPoints /\ WorkSound(pt, m) /\ MayApprove(p, pt, m)
    BY <1>3, PreparingIsSound DEF PlainPoints, MayApprove
  <2> QED
    BY <1>3, <1>4, <2>1, <2>2, RunWalks
<1>6. CASE Goto(p, "idle")
  BY <1>4, <1>6, GotoGoes, RunLeaves
<1>7. ASSUME NEW pt \in {"prepare", "claimTopUp"}, NEW v \in Shortfalls, NEW k \in FundKeys,
             GotoWith(p, pt, Memory("approve", w, k, w, v))
      PROVE  WInv'
  <2>1. PICK n : n = Memory("approve", w, k, w, v)
    OBVIOUS
  <2>2. v \in Amounts /\ v # 0 /\ k \in Keys
    BY KeyKinds
  <2>3. n \in Work /\ n.job = "approve" /\ n.owner = w /\ n.key = k /\ n.wallet = w /\ n.amount = v
    BY <1>3, <2>1, <2>2, MemoryIs
  <2>4. Preparing(n) /\ GoesTo(p, pt, n)
    BY <1>1, <1>3, <1>7, <2>1, <2>3, GotoGoes DEF Preparing
  <2>5. pt \in ManagedPoints /\ WorkSound(pt, n) /\ MayApprove(p, pt, n)
    BY <2>2, <2>3, <2>4, FundingIsSound DEF MayApprove
  <2> QED
    BY <1>4, <2>3, <2>4, <2>5, RunWalks
<1>8. CASE Measure(p)
  <2>1. \A v \in Shortfalls : FundingKey(w, v) \in FundKeys
    BY <1>3, KeyKinds
  <2> QED
    BY <1>1, <1>5, <1>6, <1>7, <1>8, <2>1 DEF Measure
<1>9. CASE MeasureTopUp(p)
  <2>1. TopUpKeys \subseteq FundKeys
    BY DEF FundKeys
  <2> QED
    BY <1>1, <1>5, <1>7, <1>9, <2>1 DEF MeasureTopUp
<1> QED
  BY <1>8, <1>9

LEMMA ClaimTopUpSound ==
  ASSUME WInv, NEW p \in Procs, ClaimTopUp(p)
  PROVE  WInv'
<1>1. PICK m, w : m = loc[p] /\ w = m.owner
  OBVIOUS
<1>2. pc[p] = "claimTopUp" /\ pc[p] # "idle" /\ pc[p] \in ClaimedPoints
  BY DEF ClaimTopUp, ClaimedPoints
<1>3. m \in Work /\ w \in Managed /\ Preparing(m) /\ m.key \in Keys /\ m.amount # 0 /\ m.key \in FundKeys
  BY <1>1, <1>2, AtWork, PreparingRuns, ManagedNoneAssumption DEF WorkSound, Preparing
<1>4. UNCHANGED <<lease, chainVars, wallet, tokens, moved>>
  BY DEF ClaimTopUp, answerVars
<1>5. prep[w] # None /\ PrepSound(prep[w])
  BY <1>1, <1>3 DEF Preparing, WInv, ManagedTables
<1>6. CASE TopUpFree(prep[w]) /\ SavePrep(p, ToppedUp(w, m.key, m.amount), "prepare", "idle")
  <2>1. PICK s : s = [[[prep[w] EXCEPT !.status = "funding"] EXCEPT !.attempt = m.key] EXCEPT !.value = m.amount]
    OBVIOUS
  <2>2. ToppedUp(w, m.key, m.amount) = [prep EXCEPT ![w] = s]
    BY <1>3, <1>5, <2>1 DEF ToppedUp, WInv, ManagedTables, PrepSound, Preparation
  <2>3. RowWritten(w, s, Approving(p, w)) /\ s # None
    BY <1>3, <1>5, <1>6, <2>1, ManagedNoneAssumption
       DEF RowWritten, PrepSound, Preparation, PrepStatuses, TopUpFree, Work
  <2>4. prep' = ToppedUp(w, m.key, m.amount) => Preparing(m)'
    BY <1>1, <1>3, <2>2, <2>3 DEF Preparing, WInv, ManagedTables
  <2>5. /\ {"prepare", "idle"} \subseteq ManagedPoints
        /\ MayApprove(p, "prepare", m) /\ MayApprove(p, "idle", m)
        /\ prep' = ToppedUp(w, m.key, m.amount) => WorkSound("prepare", m)'
    BY <1>3, <2>4, FundingIsSound DEF MayApprove, ApprovalPoints, ManagedPoints
  <2> QED
    BY <1>1, <1>2, <1>3, <1>4, <1>6, <2>2, <2>3, <2>5, RunSaves
<1>7. CASE Goto(p, "idle") /\ UNCHANGED prep
  BY <1>4, <1>7, GotoGoes, RunLeaves
<1> QED
  BY <1>1, <1>6, <1>7 DEF ClaimTopUp

\* A run saves a row and gives up.
LEMMA RunSavesLast ==
  ASSUME WInv, NEW p \in Procs, NEW w \in Managed, NEW s, NEW new,
         new = prep \/ (new = [prep EXCEPT ![w] = s] /\ RowWritten(w, s, Approving(p, w))),
         SavePrep(p, new, "idle", "idle"), UNCHANGED <<lease, chainVars, wallet, tokens, moved>>
  PROVE  WInv'
<1>1. GoesTo(p, "idle", None) /\ LeaseIsMarked /\ prep' \in {prep, new}
  BY GotoGoes DEF SavePrep, LeaseIsMarked
<1> QED
  BY <1>1, RunStops

LEMMA FundPreflightFailedSound ==
  ASSUME WInv, NEW p \in Procs, FundPreflightFailed(p)
  PROVE  WInv'
<1>1. PICK m, w : m = loc[p] /\ w = m.owner
  OBVIOUS
<1>2. pc[p] \in ClaimedPoints /\ pc[p] # "idle"
  BY DEF FundPreflightFailed, ClaimedPoints
<1>3. w \in Managed /\ Preparing(m)
  BY <1>1, <1>2, AtWork, PreparingRuns
<1>4. prep[w] # None /\ PrepSound(prep[w])
  BY <1>1, <1>3 DEF Preparing, WInv, ManagedTables
<1>5. PICK s : s = [[[prep[w] EXCEPT !.status = "failed"] EXCEPT !.attempt = None] EXCEPT !.value = 0]
  OBVIOUS
<1>6. PICK new : new = FundingPreflightFailed(w)
  OBVIOUS
<1>7. \/ new = prep
      \/ new = [prep EXCEPT ![w] = s] /\ prep[w].fund = None /\ prep[w].status \in {"funding", "failed"}
  BY <1>4, <1>5, <1>6 DEF FundingPreflightFailed, PrepWhere, PrepSound, Preparation
<1>8. new = prep \/ (new = [prep EXCEPT ![w] = s] /\ RowWritten(w, s, Approving(p, w)))
  <2>1. prep[w].fund = None /\ prep[w].status \in {"funding", "failed"} => RowWritten(w, s, Approving(p, w))
    BY <1>4, <1>5, AmountsAssumption DEF RowWritten, PrepSound, Preparation, PrepStatuses
  <2> QED
    BY <1>7, <2>1
<1> QED
  BY <1>1, <1>3, <1>6, <1>8, RunSavesLast DEF FundPreflightFailed, answerVars
LEMMA CheckSubmittedSound ==
  ASSUME WInv, NEW p \in Procs, CheckSubmitted(p) \/ AwaitFunding(p)
  PROVE  WInv'
<1>1. PICK m : m = loc[p]
  OBVIOUS
<1>2. pc[p] \in FundPoints
  BY DEF CheckSubmitted, AwaitFunding, FundPoints
<1>3. pc[p] \in ClaimedPoints \cap HoldingPoints /\ pc[p] # "idle"
  BY <1>2, FundHolds
<1>4. m \in Work /\ Preparing(m) /\ Holds(m)
  BY <1>1, <1>3, AtWork, PreparingRuns, HoldingRuns
<1>5. UNCHANGED <<lease, chainVars, prep, wallet, tokens, moved>>
  BY DEF CheckSubmitted, AwaitFunding, managedVars, answerVars
<1>6. \E pt \in {"fundUnknown", "saveSubmitted", "saveReconciled", "markFunded"} : Goto(p, pt)
  BY DEF CheckSubmitted, AwaitFunding
<1>7. PICK pt \in {"fundUnknown", "saveSubmitted", "saveReconciled", "markFunded"} : Goto(p, pt)
  BY <1>6
<1>8. pt \in FundPoints \/ pt \in PlainPoints
  BY DEF FundPoints, PlainPoints
<1>9. pt \in ManagedPoints /\ pt # "idle" /\ WorkSound(pt, m) /\ MayApprove(p, pt, m)
  BY <1>4, <1>8, FundHolds, PreparingIsSound DEF MayApprove
<1>10. GoesTo(p, pt, m)
  BY <1>1, <1>7, <1>9, GotoGoes
<1> QED
  BY <1>4, <1>5, <1>9, <1>10, RunWalks

LEMMA SaveSubmittedSound ==
  ASSUME WInv, NEW p \in Procs, SaveSubmitted(p)
  PROVE  WInv'
<1>1. PICK m, w : m = loc[p] /\ w = m.owner
  OBVIOUS
<1>2. pc[p] \in FundPoints /\ pc[p] # "idle"
  BY DEF SaveSubmitted, FundPoints
<1>3. pc[p] \in ClaimedPoints \cap HoldingPoints
  BY <1>2, FundHolds
<1>4. m \in Work /\ w \in Managed /\ Preparing(m) /\ Holds(m) /\ m.tx \in Tx
  BY <1>1, <1>2, <1>3, AtWork, PreparingRuns, HoldingRuns
<1>5. prep[w] # None /\ PrepSound(prep[w]) /\ prep[w].fund # None /\ m.key \in FundKeys /\ m.key \in Keys
  BY <1>1, <1>2, FundingIsSaved, KeyKinds
<1>6. PICK s : s = [[prep[w] EXCEPT !.fund = m.tx] EXCEPT !.attempt = m.key]
  OBVIOUS
<1>7. PICK new : new = FundingSubmitted(w, m.key, m.tx)
  OBVIOUS
<1>8. new = prep \/ (new = [prep EXCEPT ![w] = s] /\ prep[w].status = "funding")
  BY <1>5, <1>6, <1>7 DEF FundingSubmitted, PrepWhere, PrepSound, Preparation
<1>9. prep[w].status = "funding" => RowWritten(w, s, Approving(p, w)) /\ s # None
  BY <1>4, <1>5, <1>6, NoneAssumption, ManagedNoneAssumption
     DEF RowWritten, PrepSound, Preparation, PrepStatuses
<1>10. prep' \in {prep, new} => prep'[w] # None
  BY <1>4, <1>5, <1>8, <1>9 DEF WInv, ManagedTables
<1>11. UNCHANGED <<lease, chainVars, wallet, tokens, moved>>
  BY DEF SaveSubmitted, answerVars
<1>12. prep' \in {prep, new} => Preparing(m)' /\ Holds(m)'
  BY <1>1, <1>4, <1>10, <1>11 DEF Preparing, Holds
<1>13. ASSUME NEW pt \in {"awaitFunding", "markFunded", "fundUnknown"}
       PROVE  /\ pt \in ManagedPoints /\ MayApprove(p, pt, m)
              /\ prep' \in {prep, new} => WorkSound(pt, m)'
  <2>1. pt \in FundPoints \/ pt \in PlainPoints
    BY DEF FundPoints, PlainPoints
  <2> QED
    BY <1>12, <2>1, FundHolds, PreparingIsSound DEF MayApprove
<1>14. PICK done \in {"awaitFunding", "markFunded"} : SavePrep(p, new, done, "fundUnknown")
  BY <1>1, <1>7 DEF SaveSubmitted
<1>15. prep' \in {prep, new}
  BY <1>14 DEF SavePrep
<1> QED
  BY <1>1, <1>2, <1>4, <1>8, <1>9, <1>11, <1>13, <1>14, <1>15, RunSaves

LEMMA FundUnknownSound ==
  ASSUME WInv, NEW p \in Procs, FundUnknown(p)
  PROVE  WInv'
<1>1. PICK m, w : m = loc[p] /\ w = m.owner
  OBVIOUS
<1>2. pc[p] \in FundPoints /\ pc[p] # "idle"
  BY DEF FundUnknown, FundPoints
<1>3. pc[p] \in HoldingPoints
  BY <1>2, FundHolds
<1>4. w \in Managed /\ m.tx \in Tx
  BY <1>1, <1>2, <1>3, AtWork, HoldingRuns
<1>5. prep[w] # None /\ PrepSound(prep[w]) /\ m.key \in FundKeys /\ m.key # None
  BY <1>1, <1>2, FundingIsSaved, KeyKinds, ManagedNoneAssumption
<1>6. PICK s : s = [[prep[w] EXCEPT !.status = "unknown"] EXCEPT !.fund = m.tx]
  OBVIOUS
<1>7. PICK new : new = FundingUnknown(w, m.key, m.tx)
  OBVIOUS
<1>8. new = prep \/ (new = [prep EXCEPT ![w] = s] /\ prep[w].attempt = m.key)
  BY <1>5, <1>6, <1>7 DEF FundingUnknown, PrepWhere, PrepSound, Preparation
<1>9. prep[w].attempt = m.key => RowWritten(w, s, Approving(p, w))
  BY <1>4, <1>5, <1>6, NoneAssumption DEF RowWritten, PrepSound, Preparation, PrepStatuses
<1> QED
  BY <1>1, <1>4, <1>7, <1>8, <1>9, RunSavesLast DEF FundUnknown, answerVars

LEMMA MarkFundedSound ==
  ASSUME WInv, NEW p \in Procs, MarkFunded(p)
  PROVE  WInv'
<1>1. PICK m, w : m = loc[p] /\ w = m.owner
  OBVIOUS
<1>2. pc[p] \in ClaimedPoints /\ pc[p] # "idle"
  BY DEF MarkFunded, ClaimedPoints
<1>3. m \in Work /\ w \in Managed /\ Preparing(m)
  BY <1>1, <1>2, AtWork, PreparingRuns
<1>4. prep[w] # None /\ PrepSound(prep[w])
  BY <1>1, <1>3 DEF Preparing, WInv, ManagedTables
<1>5. PICK s : s = [[[prep[w] EXCEPT !.status = "funded"] EXCEPT !.attempt = None] EXCEPT !.value = 0]
  OBVIOUS
<1>6. PICK new : new = Funded(w)
  OBVIOUS
<1>7. new = prep \/ (new = [prep EXCEPT ![w] = s] /\ prep[w].status \in {"funding", "funded"})
  BY <1>4, <1>5, <1>6 DEF Funded, PrepWhere, PrepSound, Preparation
<1>8. prep[w].status \in {"funding", "funded"} => RowWritten(w, s, Approving(p, w)) /\ s # None
  BY <1>4, <1>5, AmountsAssumption, ManagedNoneAssumption DEF RowWritten, PrepSound, Preparation, PrepStatuses
<1>9. prep' = new => Preparing(m)'
  BY <1>1, <1>3, <1>4, <1>7, <1>8 DEF Preparing, WInv, ManagedTables
<1>10. /\ {"claimApproval", "idle"} \subseteq ManagedPoints
       /\ MayApprove(p, "claimApproval", m) /\ MayApprove(p, "idle", m)
       /\ prep' = new => WorkSound("claimApproval", m)'
  BY <1>9, PreparingIsSound DEF PlainPoints, MayApprove, ApprovalPoints, ManagedPoints
<1>11. SavePrep(p, new, "claimApproval", "idle") /\ UNCHANGED <<lease, chainVars, wallet, tokens, moved>>
  BY <1>1, <1>6 DEF MarkFunded, answerVars
<1> QED
  BY <1>1, <1>2, <1>3, <1>7, <1>8, <1>10, <1>11, RunSaves
-----------------------------------------------------------------------------
(* The approval.                                                           *)

\* A run that approves for its wallet, before it has a nonce.
LEMMA ApprovingIsSound ==
  ASSUME NEW pt \in {"sendApproval", "approvalUnknown"}, NEW m
  PROVE  /\ pt \in ManagedPoints \cap ApprovalPoints /\ pt # "idle"
         /\ Preparing(m) /\ prep[m.owner].status = "approving" => WorkSound(pt, m)
         /\ Preparing(m)' /\ prep'[m.owner].status = "approving" => WorkSound(pt, m)'
<1>1. /\ pt \in ManagedPoints \cap ApprovalPoints
      /\ pt \notin {"claim", "idle", "readBalance", "prepare", "claimTopUp"}
      /\ pt \notin HoldingPoints /\ pt \notin MovePoints /\ pt \notin RevokePoints
      /\ pt \notin {"moveFailed", "saveApproval", "awaitApproval", "markApproved"}
  BY DEF ManagedPoints, ClaimedPoints, HoldingPoints, MovePoints, RevokePoints, ApprovalPoints, FundPoints
<1> QED
  BY <1>1 DEF WorkSound, Preparing

\* ... and with one.
Signed(pt, m) ==
  /\ Preparing(m) /\ prep[m.owner].status = "approving"
  /\ m.nonce \in 1..Len(wallet[m.owner]) /\ wallet[m.owner][m.nonce].grant
  /\ pt # "saveApproval" => prep[m.owner].approval = m.nonce
  /\ pt = "markApproved" => wallet[m.owner][m.nonce].state = "ok"
LEMMA SignedIsSound ==
  ASSUME NEW pt \in {"saveApproval", "awaitApproval", "markApproved"}, NEW m
  PROVE  /\ pt \in ManagedPoints \cap ApprovalPoints /\ pt # "idle"
         /\ Signed(pt, m) <=> (Preparing(m) /\ WorkSound(pt, m))
         /\ Signed(pt, m)' => WorkSound(pt, m)'
<1>1. /\ pt \in ManagedPoints \cap ApprovalPoints
      /\ pt \notin {"claim", "idle", "readBalance", "prepare", "claimTopUp", "moveFailed"}
      /\ pt \notin HoldingPoints /\ pt \notin MovePoints /\ pt \notin RevokePoints
  BY DEF HoldingPoints, MovePoints, RevokePoints, FundPoints, ManagedPoints, ClaimedPoints, ApprovalPoints
<1>2. Signed(pt, m) => WorkSound(pt, m)
  BY <1>1 DEF WorkSound, Preparing, Signed
<1>3. Preparing(m) /\ WorkSound(pt, m) => Signed(pt, m)
  BY <1>1 DEF WorkSound, Preparing, Signed
<1>4. Signed(pt, m)' => WorkSound(pt, m)'
  BY <1>1 DEF WorkSound, Preparing, Signed
<1> QED
  BY <1>1, <1>2, <1>3, <1>4 DEF Signed

LEMMA ApprovingRuns ==
  ASSUME WInv, NEW p \in Procs, pc[p] \in ApprovalPoints
  PROVE  /\ pc[p] # "idle" /\ loc[p] \in Work /\ loc[p].owner \in Managed /\ Preparing(loc[p])
         /\ Approving(p, loc[p].owner) /\ prep[loc[p].owner].status = "approving"
         /\ PrepSound(prep[loc[p].owner]) /\ prep[loc[p].owner].attempt = None
<1>1. pc[p] \in ClaimedPoints /\ pc[p] # "idle"
  BY DEF ClaimedPoints, ApprovalPoints
<1>2. loc[p].owner \in Managed /\ Preparing(loc[p]) /\ prep[loc[p].owner].status = "approving"
  BY <1>1, AtWork, PreparingRuns DEF WorkSound
<1> QED
  BY <1>1, <1>2, AtWork DEF Preparing, Approving, WInv, ManagedTables, PrepSound

LEMMA ClaimApprovalSound ==
  ASSUME WInv, NEW p \in Procs, ClaimApproval(p)
  PROVE  WInv'
<1>1. PICK m, w : m = loc[p] /\ w = m.owner
  OBVIOUS
<1>2. pc[p] \in ClaimedPoints /\ pc[p] # "idle"
  BY DEF ClaimApproval, ClaimedPoints
<1>3. m \in Work /\ w \in Managed /\ Preparing(m)
  BY <1>1, <1>2, AtWork, PreparingRuns
<1>4. prep[w] # None /\ PrepSound(prep[w])
  BY <1>1, <1>3 DEF Preparing, WInv, ManagedTables
<1>5. UNCHANGED <<lease, chainVars, wallet, tokens, moved>>
  BY DEF ClaimApproval, answerVars
<1>6. CASE Goto(p, "idle") /\ UNCHANGED prep
  BY <1>5, <1>6, GotoGoes, RunLeaves
<1>7. CASE /\ ApprovalFree(prep[w])
           /\ SavePrep(p, [prep EXCEPT ![w].status = "approving"], "sendApproval", "idle")
  <2>1. PICK s : s = [prep[w] EXCEPT !.status = "approving"]
    OBVIOUS
  <2>2. PICK new : new = [prep EXCEPT ![w] = s]
    OBVIOUS
  <2>3. new = [prep EXCEPT ![w].status = "approving"]
    BY <2>1, <2>2
  <2>4. RowWritten(w, s, Approving(p, w)) /\ s # None /\ s.status = "approving" /\ prep[w].status # "approving"
    BY <1>4, <1>7, <2>1, ManagedNoneAssumption
       DEF RowWritten, PrepSound, Preparation, PrepStatuses, ApprovalFree
  <2>5. prep' = new => prep'[w] = s
    BY <1>3, <2>2 DEF WInv, ManagedTables
  <2>6. prep' = new => WorkSound("sendApproval", m)'
    BY <1>1, <1>3, <2>4, <2>5, ApprovingIsSound DEF Preparing
  <2>7. /\ {"sendApproval", "idle"} \subseteq ManagedPoints
        /\ MayApprove(p, "sendApproval", m) /\ MayApprove(p, "idle", m)
    BY <1>1, <2>4 DEF MayApprove, ApprovalPoints, ManagedPoints, ClaimedPoints
  <2> QED
    BY <1>1, <1>2, <1>3, <1>5, <1>7, <2>2, <2>3, <2>4, <2>6, <2>7, RunSaves, ZenonT(40)
<1> QED
  BY <1>1, <1>6, <1>7 DEF ClaimApproval

\* The wallets' own transactions are written: more of them, or one mined.
WalletsGrow ==
  /\ wallet' \in [Managed -> Seq(WalletTx)]
  /\ \A w \in Managed : \A i \in 1..Len(wallet[w]) :
       /\ i \in 1..Len(wallet'[w]) /\ wallet'[w][i].grant = wallet[w][i].grant
       /\ wallet[w][i].state = "ok" => wallet'[w][i].state = "ok"
LEMMA WalletWritten ==
  ASSUME ManagedTables, WalletsGrow, UNCHANGED <<lease, chainVars, prep, tokens, moved>>
  PROVE  ManagedTables' /\ SentStay /\ \A w \in Managed, who \in BOOLEAN : Unchanging(w, who)
<1>1. \A k \in Keys : LeaseSound(k)'
  BY DEF ManagedTables, LeaseSound, chainVars
<1>2. \A w \in Managed : prep'[w] # None => PrepSound(prep[w])'
  BY DEF ManagedTables, PrepSound
<1>3. ApprovedIsMined'
  <2> SUFFICES ASSUME NEW w \in Managed, prep[w] # None, prep[w].status = "approved"
               PROVE  /\ prep[w].approval \in 1..Len(wallet'[w])
                      /\ wallet'[w][prep[w].approval] = [grant |-> TRUE, state |-> "ok"]
    BY DEF ApprovedIsMined
  <2>1. PICK i : i = prep[w].approval
    OBVIOUS
  <2>2. i \in 1..Len(wallet[w]) /\ wallet[w][i] = [grant |-> TRUE, state |-> "ok"]
    BY <2>1 DEF ManagedTables, ApprovedIsMined
  <2>3. i \in 1..Len(wallet'[w]) /\ wallet'[w][i].grant = TRUE /\ wallet'[w][i].state = "ok"
    BY <2>2 DEF WalletsGrow
  <2>4. wallet'[w] \in Seq(WalletTx)
    BY DEF WalletsGrow
  <2>5. wallet'[w][i] \in WalletTx
    BY <2>3, <2>4
  <2>6. wallet'[w][i] = [grant |-> TRUE, state |-> "ok"]
    BY <2>3, <2>5 DEF WalletTx
  <2> QED
    BY <2>1, <2>3, <2>6
<1>4. MovedAnswersTrue'
  BY DEF ManagedTables, MovedAnswersTrue, chainVars
<1>5. ManagedTables'
  BY <1>1, <1>2, <1>3, <1>4 DEF ManagedTables, ChainTypeOK, chainVars, Known, Mined, WalletsGrow
<1> QED
  BY <1>5 DEF SentStay, Unchanging, chainVars, WalletsGrow

\* A wallet sends a transaction.
LEMMA WalletSent ==
  ASSUME ManagedTables, NEW w \in Managed, NEW grant \in BOOLEAN, WalletSends(w, grant)
  PROVE  /\ WalletsGrow
         /\ Len(wallet[w]) + 1 \in 1..Len(wallet'[w]) /\ wallet'[w][Len(wallet[w]) + 1].grant = grant
<1>1. PICK t : t = [grant |-> grant, state |-> "pending"]
  OBVIOUS
<1>2. t \in WalletTx
  BY <1>1 DEF WalletTx
<1>3. wallet \in [Managed -> Seq(WalletTx)] /\ wallet' = [wallet EXCEPT ![w] = Append(wallet[w], t)]
  BY <1>1 DEF ManagedTables, WalletSends
<1>4. wallet[w] \in Seq(WalletTx) /\ wallet'[w] = Append(wallet[w], t)
  BY <1>3
<1>5. wallet' \in [Managed -> Seq(WalletTx)]
  BY <1>2, <1>3, <1>4
<1>6. /\ Len(wallet'[w]) = Len(wallet[w]) + 1 /\ Len(wallet[w]) \in Nat
      /\ wallet'[w][Len(wallet[w]) + 1] = t
      /\ \A i \in 1..Len(wallet[w]) : wallet'[w][i] = wallet[w][i]
  BY <1>2, <1>4
<1>7. \A u \in Managed \ {w} : wallet'[u] = wallet[u] /\ Len(wallet[u]) \in Nat
  BY <1>3
<1>8. \A u \in Managed : \A i \in 1..Len(wallet[u]) :
        i \in 1..Len(wallet'[u]) /\ wallet'[u][i] = wallet[u][i]
  BY <1>6, <1>7
<1> QED
  BY <1>1, <1>5, <1>6, <1>8 DEF WalletsGrow

LEMMA SendApprovalSound ==
  ASSUME WInv, NEW p \in Procs, SendApproval(p)
  PROVE  WInv'
<1>1. PICK m, w : m = loc[p] /\ w = m.owner
  OBVIOUS
<1>2. pc[p] \in ApprovalPoints
  BY DEF SendApproval, ApprovalPoints
<1>3. /\ m \in Work /\ w \in Managed /\ Preparing(m) /\ Approving(p, w)
      /\ prep[w].status = "approving"
  BY <1>1, <1>2, ApprovingRuns
<1>4. UNCHANGED <<lease, chainVars, prep, tokens, moved>>
  BY DEF SendApproval, answerVars
<1>5. ASSUME NEW pt \in ApprovalPoints \cap ManagedPoints, NEW n \in Work, n.owner = w, GoesTo(p, pt, n),
             WalletsGrow, WorkSound(pt, n)'
      PROVE  WInv'
  <2>1. ManagedTables' /\ SentStay /\ \A u \in Managed, who \in BOOLEAN : Unchanging(u, who)
    BY <1>4, <1>5, WalletWritten DEF WInv
  <2>2. \A u \in Managed : Unchanging(u, Approving(p, u))
    BY <2>1 DEF Approving
  <2> QED
    BY <1>3, <1>5, <2>1, <2>2, RunMoves DEF GoesTo
<1>6. CASE UNCHANGED wallet \/ WalletSends(w, TRUE)
  <2>1. WalletsGrow
    BY <1>3, <1>6, WalletSent DEF WInv, ManagedTables, WalletsGrow
  <2>2. CASE Goto(p, "approvalUnknown")
    <3>1. GoesTo(p, "approvalUnknown", m)
      BY <1>1, <2>2, GotoGoes
    <3>2. WorkSound("approvalUnknown", m)' /\ "approvalUnknown" \in ApprovalPoints \cap ManagedPoints
      BY <1>1, <1>3, <1>4, ApprovingIsSound DEF Preparing
    <3> QED
      BY <1>1, <1>3, <1>5, <2>1, <3>1, <3>2
  <2>3. CASE /\ WalletSends(w, TRUE)
             /\ GotoWith(p, "saveApproval", [loc[p] EXCEPT !.nonce = Len(wallet[w]) + 1])
    <3>1. PICK n : n = [m EXCEPT !.nonce = Len(wallet[w]) + 1]
      OBVIOUS
    <3>2. Len(wallet[w]) + 1 \in 1..Len(wallet'[w]) /\ wallet'[w][Len(wallet[w]) + 1].grant = TRUE
      BY <1>3, <2>3, WalletSent DEF WInv
    <3>3. Len(wallet[w]) + 1 \in Nat
      BY <1>3 DEF WInv, ManagedTables
    <3>4. /\ n \in Work /\ n.owner = w /\ n.nonce = Len(wallet[w]) + 1 /\ n.job = m.job
          /\ n.wallet = m.wallet /\ n.key = m.key
      BY <1>1, <1>3, <3>1, <3>3 DEF Work
    <3>5. GoesTo(p, "saveApproval", n)
      BY <1>1, <2>3, <3>1, GotoGoes
    <3>6. Preparing(n)'
      BY <1>1, <1>3, <1>4, <3>4 DEF Preparing
    <3>7. Signed("saveApproval", n)'
      BY <1>1, <1>3, <1>4, <3>2, <3>4, <3>6 DEF Signed
    <3>8. WorkSound("saveApproval", n)' /\ "saveApproval" \in ApprovalPoints \cap ManagedPoints
      BY <3>7, SignedIsSound
    <3> QED
      BY <1>5, <2>1, <3>4, <3>5, <3>8
  <2> QED
    BY <1>1, <2>2, <2>3 DEF SendApproval
<1> QED
  BY <1>1, <1>6 DEF SendApproval

LEMMA SaveApprovalSound ==
  ASSUME WInv, NEW p \in Procs, SaveApproval(p)
  PROVE  WInv'
<1>1. PICK m, w : m = loc[p] /\ w = m.owner
  OBVIOUS
<1>2. pc[p] = "saveApproval" /\ pc[p] \in ApprovalPoints
  BY DEF SaveApproval, ApprovalPoints
<1>3. /\ m \in Work /\ w \in Managed /\ Preparing(m) /\ Approving(p, w) /\ pc[p] # "idle"
      /\ prep[w].status = "approving" /\ PrepSound(prep[w]) /\ prep[w] # None /\ prep[w].attempt = None
  BY <1>1, <1>2, ApprovingRuns DEF Preparing
<1>4. UNCHANGED <<lease, chainVars, wallet, tokens, moved>>
  BY DEF SaveApproval, answerVars
<1>5. Signed("saveApproval", m) /\ m.nonce \in Nat
  BY <1>1, <1>2, <1>3, SignedIsSound DEF WInv, Work
<1>6. PICK s : s = [prep[w] EXCEPT !.approval = m.nonce]
  OBVIOUS
<1>7. PICK new : new = [prep EXCEPT ![w] = s]
  OBVIOUS
<1>8. SavePrep(p, new, "awaitApproval", "approvalUnknown")
  BY <1>1, <1>3, <1>6, <1>7 DEF SaveApproval, ApprovalSubmitted, PrepWhere
<1>9. s # None /\ s.status = "approving" /\ s.approval = m.nonce /\ PrepSound(s)
  BY <1>3, <1>5, <1>6, ManagedNoneAssumption DEF PrepSound, Preparation, PrepStatuses
<1>10. RowWritten(w, s, Approving(p, w))
  BY <1>3, <1>6, <1>9 DEF RowWritten, PrepSound, Preparation
<1>11. prep' = new => prep'[w] = s
  BY <1>3, <1>7 DEF WInv, ManagedTables
<1>12. prep' \in {prep, new} => Preparing(m)' /\ prep'[w].status = "approving"
  BY <1>1, <1>3, <1>9, <1>11 DEF Preparing
<1>13. prep' = new => Signed("awaitApproval", m)'
  BY <1>1, <1>4, <1>5, <1>9, <1>11, <1>12 DEF Signed
<1>14. /\ {"awaitApproval", "approvalUnknown"} \subseteq ManagedPoints
       /\ MayApprove(p, "awaitApproval", m) /\ MayApprove(p, "approvalUnknown", m)
       /\ prep' = new => WorkSound("awaitApproval", m)'
       /\ prep' \in {prep, new} => WorkSound("approvalUnknown", m)'
  BY <1>1, <1>3, <1>12, <1>13, SignedIsSound, ApprovingIsSound DEF MayApprove
<1>15. prep' \in {prep, new}
  BY <1>8 DEF SavePrep
<1> QED
  BY <1>1, <1>3, <1>4, <1>7, <1>8, <1>10, <1>14, <1>15, RunSaves

LEMMA AwaitApprovalSound ==
  ASSUME WInv, NEW p \in Procs, AwaitApproval(p)
  PROVE  WInv'
<1>1. PICK m, w : m = loc[p] /\ w = m.owner
  OBVIOUS
<1>2. pc[p] = "awaitApproval" /\ pc[p] \in ApprovalPoints
  BY DEF AwaitApproval, ApprovalPoints
<1>3. m \in Work /\ Preparing(m) /\ Approving(p, w) /\ prep[w].status = "approving"
  BY <1>1, <1>2, ApprovingRuns
<1>4. UNCHANGED <<lease, chainVars, prep, wallet, tokens, moved>>
  BY DEF AwaitApproval, managedVars, answerVars
<1>5. Signed("awaitApproval", m)
  BY <1>1, <1>2, <1>3, SignedIsSound DEF WInv
<1>6. CASE wallet[w][m.nonce].state = "ok" /\ Goto(p, "markApproved")
  <2>1. WorkSound("markApproved", m) /\ "markApproved" \in ManagedPoints
    BY <1>1, <1>5, <1>6, SignedIsSound DEF Signed
  <2>2. GoesTo(p, "markApproved", m) /\ MayApprove(p, "markApproved", m)
    BY <1>1, <1>3, <1>6, GotoGoes DEF MayApprove
  <2> QED
    BY <1>3, <1>4, <2>1, <2>2, RunWalks
<1>7. CASE Goto(p, "approvalUnknown")
  <2>1. WorkSound("approvalUnknown", m) /\ "approvalUnknown" \in ManagedPoints
    BY <1>1, <1>3, ApprovingIsSound
  <2>2. GoesTo(p, "approvalUnknown", m) /\ MayApprove(p, "approvalUnknown", m)
    BY <1>1, <1>3, <1>7, GotoGoes DEF MayApprove
  <2> QED
    BY <1>3, <1>4, <2>1, <2>2, RunWalks
<1> QED
  BY <1>1, <1>6, <1>7 DEF AwaitApproval, ReceiptOk

LEMMA EndApprovalSound ==
  ASSUME WInv, NEW p \in Procs, ApprovalUnknown(p) \/ MarkApproved(p)
  PROVE  WInv'
<1>1. PICK m, w : m = loc[p] /\ w = m.owner
  OBVIOUS
<1>2. pc[p] \in ApprovalPoints
  BY DEF ApprovalUnknown, MarkApproved, ApprovalPoints
<1>3. /\ m \in Work /\ w \in Managed /\ Preparing(m) /\ Approving(p, w) /\ prep[w] # None
      /\ prep[w].status = "approving" /\ PrepSound(prep[w]) /\ prep[w].attempt = None
  BY <1>1, <1>2, ApprovingRuns DEF Preparing
<1>4. UNCHANGED <<lease, chainVars, wallet, tokens, moved>>
  BY DEF ApprovalUnknown, MarkApproved, answerVars
<1>5. ASSUME NEW status \in {"unknown", "approved"}, NEW s, s = [prep[w] EXCEPT !.status = status],
             status = "approved" => /\ prep[w].approval \in 1..Len(wallet[w])
                                    /\ wallet[w][prep[w].approval] = [grant |-> TRUE, state |-> "ok"],
             SavePrep(p, [prep EXCEPT ![w] = s], "idle", "idle")
      PROVE  WInv'
  <2>1. PrepSound(s)
    BY <1>3, <1>5 DEF PrepSound, Preparation, PrepStatuses
  <2>2. RowWritten(w, s, Approving(p, w))
    BY <1>3, <1>5, <2>1 DEF RowWritten, PrepSound, Preparation
  <2> QED
    BY <1>3, <1>4, <1>5, <2>2, RunSavesLast
<1>6. CASE ApprovalUnknown(p)
  BY <1>1, <1>3, <1>5, <1>6 DEF ApprovalUnknown, ApprovalOutcomeUnknown, PrepWhere
<1>7. CASE MarkApproved(p)
  <2>1. Signed("markApproved", m)
    BY <1>1, <1>3, <1>7, SignedIsSound DEF WInv, MarkApproved
  <2>2. PICK i : i = prep[w].approval
    OBVIOUS
  <2>3. /\ i = m.nonce /\ i \in 1..Len(wallet[w]) /\ wallet[w][i].grant /\ wallet[w][i].state = "ok"
        /\ wallet[w] \in Seq(WalletTx)
    BY <1>1, <1>3, <2>1, <2>2 DEF Signed, WInv, ManagedTables
  <2>4. wallet[w][i] \in WalletTx
    BY <2>3
  <2>5. wallet[w][i] = [grant |-> TRUE, state |-> "ok"]
    BY <2>3, <2>4 DEF WalletTx
  <2> QED
    BY <1>1, <1>3, <1>5, <1>7, <2>2, <2>3, <2>5 DEF MarkApproved, Approved, PrepWhere
<1> QED
  BY <1>6, <1>7
-----------------------------------------------------------------------------
(* Revocations and moves.                                                  *)

Moves(m) == m \in Work /\ m.job = "move" /\ m.key \in MoveKeys
Revokes(m) == m \in Work /\ m.job = "revoke" /\ m.key \in RevokeKeys
LEMMA OtherPoints ==
  ASSUME NEW pt \in {"prepare", "readBalance"} \cup MovePoints \cup RevokePoints
  PROVE  /\ pt \in ManagedPoints /\ pt # "idle" /\ pt \notin ApprovalPoints
         /\ pt \notin ClaimedPoints /\ pt # "claim"
         /\ pt \notin {"claimTopUp", "saveApproval", "awaitApproval", "markApproved"}
         /\ pt \in MovePoints \cup RevokePoints => pt \in HoldingPoints /\ pt # "prepare"
         /\ pt \in {"prepare", "readBalance"} => pt \notin HoldingPoints
         /\ pt \in RevokePoints => pt \notin {"readBalance"} \cup MovePoints
         /\ pt \in {"readBalance"} \cup MovePoints => pt \notin RevokePoints
         /\ pt = "prepare" => pt \notin {"readBalance"} \cup MovePoints \cup RevokePoints
BY DEF ManagedPoints, ClaimedPoints, HoldingPoints, MovePoints, RevokePoints, ApprovalPoints, FundPoints

LEMMA OtherIsSound ==
  ASSUME NEW m
  PROVE  /\ Moves(m) => WorkSound("readBalance", m) /\ WorkSound("readBalance", m)'
         /\ (Moves(m) \/ Revokes(m)) /\ m.amount # 0 => WorkSound("prepare", m) /\ WorkSound("prepare", m)'
         /\ \A pt \in MovePoints :
              /\ Moves(m) /\ Holds(m) /\ (pt = "moveFailed" => m.tx \in reverted) => WorkSound(pt, m)
              /\ Moves(m) /\ Holds(m)' /\ (pt = "moveFailed" => m.tx \in reverted') => WorkSound(pt, m)'
         /\ \A pt \in RevokePoints :
              /\ Revokes(m) /\ Holds(m) => WorkSound(pt, m)
              /\ Revokes(m) /\ Holds(m)' => WorkSound(pt, m)'
<1>1. Moves(m) => WorkSound("readBalance", m) /\ WorkSound("readBalance", m)'
  <2>1. "readBalance" \notin ApprovalPoints \cup HoldingPoints \cup RevokePoints
    BY OtherPoints
  <2> QED
    BY <2>1, OtherPoints DEF WorkSound, Moves
<1>2. (Moves(m) \/ Revokes(m)) /\ m.amount # 0 => WorkSound("prepare", m) /\ WorkSound("prepare", m)'
  <2>1. "prepare" \notin ApprovalPoints \cup HoldingPoints \cup RevokePoints \cup MovePoints
    BY OtherPoints
  <2> QED
    BY <2>1, OtherPoints, KeyKinds DEF WorkSound, Moves, Revokes
<1>3. ASSUME NEW pt \in MovePoints, Moves(m)
      PROVE  /\ Holds(m) /\ (pt = "moveFailed" => m.tx \in reverted) => WorkSound(pt, m)
             /\ Holds(m)' /\ (pt = "moveFailed" => m.tx \in reverted') => WorkSound(pt, m)'
  BY <1>3, OtherPoints DEF WorkSound, Moves, Holds
<1>4. ASSUME NEW pt \in RevokePoints, Revokes(m)
      PROVE  /\ Holds(m) => WorkSound(pt, m)
             /\ Holds(m)' => WorkSound(pt, m)'
  <2>1. pt # "moveFailed"
    BY DEF RevokePoints
  <2> QED
    BY <1>4, <2>1, OtherPoints DEF WorkSound, Revokes, Holds
<1> QED
  BY <1>1, <1>2, <1>3, <1>4

\* What a run of a move or a revocation knows.
LEMMA OtherRuns ==
  ASSUME WInv, NEW p \in Procs, pc[p] # "idle"
  PROVE  /\ pc[p] \in {"readBalance"} \cup MovePoints => Moves(loc[p])
         /\ pc[p] \in RevokePoints => Revokes(loc[p])
         /\ pc[p] \in MovePoints \cup RevokePoints => Holds(loc[p])
         /\ pc[p] = "moveFailed" => loc[p].tx \in reverted
<1>1. pc[p] \in MovePoints \cup RevokePoints => pc[p] \in HoldingPoints
  BY OtherPoints
<1> QED
  BY <1>1, AtWork, HoldingRuns DEF WorkSound, Moves, Revokes

\* A transaction that is held stays held.
LEMMA HoldsStays ==
  ASSUME NEW m, Holds(m), SentStay
  PROVE  Holds(m)'
BY DEF Holds, SentStay

LEMMA StartOtherSound ==
  ASSUME WInv, NEW p \in Procs,
         \/ \E k \in RevokeKeys : StartRevoke(p, k)
         \/ \E k \in MoveKeys, to \in Targets : StartMove(p, k, to)
  PROVE  WInv'
<1>1. UNCHANGED <<lease, chainVars, prep, wallet, tokens, moved>>
  BY DEF StartRevoke, StartMove, managedVars, answerVars
<1>2. ASSUME NEW m, NEW pt \in {"prepare", "readBalance"}, GotoWith(p, pt, m), m \in Work, WorkSound(pt, m)
      PROVE  WInv'
  <2>1. GoesTo(p, pt, m) /\ pt \in ManagedPoints /\ MayApprove(p, pt, m)
    BY <1>2, GotoGoes, OtherPoints DEF MayApprove
  <2> QED
    BY <1>1, <1>2, <2>1, RunWalks
<1>3. ASSUME NEW k \in RevokeKeys, StartRevoke(p, k) PROVE WInv'
  <2>1. PICK v \in Shortfalls : GotoWith(p, "prepare", Memory("revoke", OwnerOf[k], k, OwnerOf[k], v))
    BY <1>3 DEF StartRevoke
  <2>2. PICK m, w : m = Memory("revoke", w, k, w, v) /\ w = OwnerOf[k]
    OBVIOUS
  <2>3. w \in Managed /\ w \in Wallets /\ k \in Keys /\ v \in Amounts /\ v # 0
    BY <2>2, KeyKinds
  <2>4. m \in Work /\ m.job = "revoke" /\ m.key = k /\ m.amount = v
    BY <2>2, <2>3, MemoryIs
  <2>5. WorkSound("prepare", m)
    BY <2>3, <2>4, OtherIsSound DEF Revokes
  <2> QED
    BY <1>2, <2>1, <2>2, <2>4, <2>5
<1>4. ASSUME NEW k \in MoveKeys, NEW to \in Targets, StartMove(p, k, to) PROVE WInv'
  <2>1. PICK w : w = OwnerOf[k]
    OBVIOUS
  <2>2. w \in Managed /\ to \in Wallets /\ k \in Keys
    BY <2>1, KeyKinds
  <2>3. CASE GotoWith(p, "readBalance", Memory("move", w, k, to, 0))
    <3>1. PICK m : m = Memory("move", w, k, to, 0)
      OBVIOUS
    <3>2. m \in Work /\ m.job = "move" /\ m.key = k
      BY <2>2, <3>1, MemoryIs, AmountsAssumption
    <3>3. WorkSound("readBalance", m)
      BY <3>2, OtherIsSound DEF Moves
    <3> QED
      BY <1>2, <2>3, <3>1, <3>2, <3>3
  <2>4. CASE lease[k] # None /\ GotoWith(p, "prepare", Memory("move", w, k, to, lease[k].tx.amount))
    <3>1. PICK m, v : m = Memory("move", w, k, to, v) /\ v = lease[k].tx.amount
      OBVIOUS
    <3>2. v \in Amounts /\ v # 0
      BY <2>2, <2>4, <3>1 DEF WInv, ManagedTables, LeaseSound, ManagedLease, Tx
    <3>3. m \in Work /\ m.job = "move" /\ m.key = k /\ m.amount = v
      BY <2>2, <3>1, <3>2, MemoryIs
    <3>4. WorkSound("prepare", m)
      BY <3>2, <3>3, OtherIsSound DEF Moves
    <3> QED
      BY <1>2, <2>4, <3>1, <3>3, <3>4
  <2> QED
    BY <1>4, <2>1, <2>3, <2>4 DEF StartMove
<1> QED
  BY <1>3, <1>4

LEMMA AwaitRevokeGasSound ==
  ASSUME WInv, NEW p \in Procs, AwaitRevokeGas(p)
  PROVE  WInv'
<1>1. PICK m : m = loc[p]
  OBVIOUS
<1>2. pc[p] \in RevokePoints /\ pc[p] # "idle" /\ "sendRevoke" \in RevokePoints
  BY DEF AwaitRevokeGas, RevokePoints
<1>3. UNCHANGED <<lease, chainVars, prep, wallet, tokens, moved>>
  BY DEF AwaitRevokeGas, managedVars, answerVars
<1>4. m \in Work /\ WorkSound("sendRevoke", m)
  BY <1>1, <1>2, AtWork, OtherRuns, OtherIsSound
<1>5. GoesTo(p, "idle", None) \/ GoesTo(p, "sendRevoke", m)
  BY <1>1, GotoGoes DEF AwaitRevokeGas
<1>6. "sendRevoke" \in ManagedPoints /\ MayApprove(p, "sendRevoke", m)
  BY <1>2, OtherPoints DEF MayApprove
<1> QED
  BY <1>3, <1>4, <1>5, <1>6, RunLeaves, RunWalks

LEMMA SendRevokeSound ==
  ASSUME WInv, NEW p \in Procs, SendRevoke(p)
  PROVE  WInv'
<1>1. PICK w : w = loc[p].owner
  OBVIOUS
<1>2. w \in Managed
  BY <1>1, AtWork DEF SendRevoke
<1>3. UNCHANGED <<lease, chainVars, prep, tokens, moved>>
  BY DEF SendRevoke, answerVars
<1>4. WalletsGrow
  <2>1. UNCHANGED wallet \/ WalletSends(w, FALSE)
    BY <1>1 DEF SendRevoke
  <2> QED
    BY <1>2, <2>1, WalletSent DEF WInv, ManagedTables, WalletsGrow
<1>5. ManagedTables' /\ SentStay /\ \A u \in Managed, who \in BOOLEAN : Unchanging(u, who)
  BY <1>3, <1>4, WalletWritten DEF WInv
<1>6. \A u \in Managed : Unchanging(u, Approving(p, u))
  BY <1>5 DEF Approving
<1>7. GoesTo(p, "idle", None) /\ "idle" \in ManagedPoints /\ "idle" \notin ApprovalPoints
  BY GotoGoes DEF SendRevoke, ManagedPoints, ApprovalPoints
<1> QED
  BY <1>5, <1>6, <1>7, RunMoves, IdleIsSound DEF GoesTo

LEMMA ReadBalanceSound ==
  ASSUME WInv, NEW p \in Procs, ReadBalance(p)
  PROVE  WInv'
<1>1. PICK m, w : m = loc[p] /\ w = m.owner
  OBVIOUS
<1>2. pc[p] = "readBalance" /\ pc[p] # "idle"
  BY DEF ReadBalance
<1>3. m \in Work /\ w \in Managed /\ Moves(m)
  BY <1>1, <1>2, AtWork, OtherRuns
<1>4. UNCHANGED <<lease, chainVars, prep, wallet, tokens, moved>>
  BY DEF ReadBalance
<1>5. CASE Movable(w) /\ GotoWith(p, "prepare", [loc[p] EXCEPT !.amount = tokens[w]])
  <2>1. PICK n : n = [m EXCEPT !.amount = tokens[w]]
    OBVIOUS
  <2>2. tokens[w] \in Amounts /\ tokens[w] # 0
    BY <1>3, <1>5, AmountsAssumption DEF Movable, WInv, ManagedTables
  <2>3. n \in Work /\ Moves(n) /\ n.amount # 0
    BY <1>3, <2>1, <2>2 DEF Moves, Work
  <2>4. GoesTo(p, "prepare", n)
    BY <1>1, <1>5, <2>1, GotoGoes
  <2>5. WorkSound("prepare", n) /\ "prepare" \in ManagedPoints /\ MayApprove(p, "prepare", n)
    BY <2>3, OtherIsSound, OtherPoints DEF MayApprove
  <2> QED
    BY <1>4, <2>3, <2>4, <2>5, RunWalks
<1>6. CASE Goto(p, "idle")
  BY <1>4, <1>6, GotoGoes, RunLeaves
<1> QED
  BY <1>1, <1>5, <1>6 DEF ReadBalance, DenyMove

\* A move may be answered as done once its transfer is paid.
LEMMA AnswerIsTrue ==
  ASSUME WInv, NEW p \in Procs, NEW pt \in {"idle"} \cup MovePoints, GoesTo(p, pt, IF pt = "idle" THEN None ELSE loc[p]),
         pc[p] \in MovePoints, UNCHANGED <<lease, chainVars, prep, wallet, tokens>>,
         moved' = moved \/ (AnswerMoved(p) /\ loc[p].tx \in paid),
         pt = "moveFailed" => loc[p].tx \in reverted
  PROVE  WInv'
<1>1. PICK m : m = loc[p]
  OBVIOUS
<1>2. /\ m \in Work /\ Moves(m) /\ Holds(m) /\ m.tx.key = m.key
      /\ pc[p] # "idle"
  <2>1. pc[p] \in HoldingPoints /\ pc[p] # "idle"
    BY OtherPoints
  <2> QED
    BY <1>1, <2>1, AtWork, OtherRuns, HoldingRuns
<1>3. MovedAnswersTrue'
  <2>1. PICK a : a = [key |-> m.key, wallet |-> m.wallet, amount |-> m.amount]
    OBVIOUS
  <2>2. moved' = moved \/ (moved' = moved \cup {a} /\ m.tx \in paid)
    BY <1>1, <2>1 DEF AnswerMoved
  <2>3. m.tx.key = a.key /\ m.tx.wallet = a.wallet /\ m.tx.amount = a.amount
    BY <1>2, <2>1 DEF Holds
  <2> QED
    BY <2>2, <2>3 DEF WInv, ManagedTables, MovedAnswersTrue, chainVars
<1>4. ManagedTables'
  <2>1. \A k \in Keys : LeaseSound(k)'
    BY DEF WInv, ManagedTables, LeaseSound, chainVars
  <2>2. \A w \in Managed : prep'[w] # None => PrepSound(prep[w])'
    BY DEF WInv, ManagedTables, PrepSound
  <2>3. ApprovedIsMined'
    BY DEF WInv, ManagedTables, ApprovedIsMined
  <2> QED
    BY <1>3, <2>1, <2>2, <2>3 DEF WInv, ManagedTables, ChainTypeOK, chainVars, Known, Mined
<1>5. SentStay /\ \A w \in Managed : Unchanging(w, Approving(p, w))
  BY DEF SentStay, Unchanging, chainVars
<1>6. PICK n \in Work \cup {None} : n = IF pt = "idle" THEN None ELSE m
  BY <1>2
<1>7. pt \in ManagedPoints /\ pt \notin ApprovalPoints
  BY OtherPoints DEF ManagedPoints, ApprovalPoints
<1>8. WorkSound(pt, n)'
  <2>1. CASE pt = "idle"
    BY <2>1, IdleIsSound
  <2>2. CASE pt # "idle"
    <3>1. Holds(n)' /\ Moves(n)
      BY <1>2, <1>5, <1>6, <2>2, HoldsStays
    <3>2. pt = "moveFailed" => n.tx \in reverted'
      BY <1>1, <1>6, <2>2 DEF chainVars
    <3> QED
      BY <2>2, <3>1, <3>2, OtherIsSound
  <2> QED
    BY <2>1, <2>2
<1> QED
  BY <1>1, <1>4, <1>5, <1>6, <1>7, <1>8, RunMoves DEF GoesTo

LEMMA AwaitMoveSound ==
  ASSUME WInv, NEW p \in Procs, AwaitMove(p) \/ MoveEvidence(p)
  PROVE  WInv'
<1>1. pc[p] \in MovePoints
  BY DEF AwaitMove, MoveEvidence, MovePoints
<1>2. UNCHANGED <<lease, chainVars, prep, wallet, tokens>>
  BY DEF AwaitMove, MoveEvidence
<1>3. \A pt \in {"idle"} \cup MovePoints :
        Goto(p, pt) => GoesTo(p, pt, IF pt = "idle" THEN None ELSE loc[p])
  BY GotoGoes
<1>4. {"moveFailed", "moveUnknown"} \subseteq MovePoints /\ "idle" \in {"idle"} \cup MovePoints
  BY DEF MovePoints
<1>5. CASE AwaitMove(p)
  <2>1. \/ loc[p].tx \in paid /\ AnswerMoved(p) /\ Goto(p, "idle")
        \/ loc[p].tx \in reverted /\ UNCHANGED moved /\ Goto(p, "moveFailed")
        \/ UNCHANGED moved /\ Goto(p, "moveUnknown")
    BY <1>5 DEF AwaitMove, MoveConfirmed, Mined
  <2> QED
    BY <1>1, <1>2, <1>3, <1>4, <2>1, AnswerIsTrue
<1>6. CASE MoveEvidence(p)
  <2>1. PICK e : e = Evidence(loc[p].tx, loc[p].wallet, loc[p].amount)
    OBVIOUS
  <2>2. (e = "valid" => loc[p].tx \in paid) /\ (e = "reverted" => loc[p].tx \in reverted)
    BY <2>1 DEF Evidence, Known, Mined
  <2>3. \E d : /\ Goto(p, MovePoint(d)) /\ (d = "reverted" => e = "reverted")
               /\ UNCHANGED moved \/ (e = "valid" /\ AnswerMoved(p))
    <3>1. \A d \in DegradedEvidence : d # "reverted"
      BY DEF DegradedEvidence
    <3> QED
      BY <1>6, <2>1, <3>1 DEF MoveEvidence
  <2>4. PICK d : /\ Goto(p, MovePoint(d)) /\ (d = "reverted" => e = "reverted")
                 /\ UNCHANGED moved \/ (e = "valid" /\ AnswerMoved(p))
    BY <2>3
  <2>5. PICK pt : pt = MovePoint(d)
    OBVIOUS
  <2>6. pt \in {"idle"} \cup MovePoints /\ (pt = "moveFailed" => d = "reverted")
    BY <2>5 DEF MovePoint, MovePoints
  <2>7. GoesTo(p, pt, IF pt = "idle" THEN None ELSE loc[p])
    BY <1>3, <2>4, <2>5, <2>6
  <2> QED
    BY <1>1, <1>2, <2>2, <2>4, <2>6, <2>7, AnswerIsTrue
<1> QED
  BY <1>5, <1>6

LEMMA MoveFailedSound ==
  ASSUME WInv, NEW p \in Procs, MoveFailed(p)
  PROVE  WInv'
<1>1. PICK m, w, k : m = loc[p] /\ w = m.owner /\ k = m.key
  OBVIOUS
<1>2. pc[p] \in MovePoints /\ pc[p] # "idle"
  BY DEF MoveFailed, MovePoints
<1>3. w \in Managed /\ Holds(m) /\ (pc[p] = "moveFailed" => m.tx \in reverted)
  BY <1>1, <1>2, AtWork, OtherRuns
<1>4. UNCHANGED <<chainVars, prep, wallet, tokens, moved>>
  BY DEF MoveFailed
<1>5. LeaseIsMarked
  <2>1. CASE UNCHANGED lease
    BY <2>1 DEF LeaseIsMarked
  <2>2. PICK status : status = IF pc[p] = "moveFailed" THEN "failed" ELSE "unknown"
    OBVIOUS
  <2>3. CASE lease' = LeaseMarked(k, status)
    <3>1. status = "failed" => lease[k].tx \in reverted
      BY <1>1, <1>3, <2>2 DEF Holds
    <3> QED
      BY <1>1, <1>3, <2>2, <2>3, <3>1 DEF LeaseIsMarked, LeaseStatuses, Holds
  <2> QED
    BY <1>1, <2>1, <2>2, <2>3 DEF MoveFailed
<1>6. GoesTo(p, "idle", None)
  BY GotoGoes DEF MoveFailed
<1> QED
  BY <1>3, <1>4, <1>5, <1>6, RunStops
-----------------------------------------------------------------------------
(* The treasury's transaction for any of the three jobs.                   *)

\* What any run knows that is about to prepare, or holds a transaction.
OwnWork(m) ==
  /\ m \in Work
  /\ m.job = "approve" => m.wallet = m.owner /\ m.key \in FundKeys \cup {None} /\ prep[m.owner] # None
  /\ m.job = "revoke" => m.key \in RevokeKeys
  /\ m.job = "move" => m.key \in MoveKeys
LeasePoints == {"broadcast", "submitLease", "unknownLease"}
LEMMA LeaseHolds ==
  ASSUME NEW pt \in LeasePoints, NEW m
  PROVE  /\ pt \in ManagedPoints \cap HoldingPoints /\ pt # "idle" /\ pt \notin ApprovalPoints
         /\ OwnWork(m) /\ Holds(m) => WorkSound(pt, m)
         /\ OwnWork(m)' /\ Holds(m)' => WorkSound(pt, m)'
<1>1. /\ pt \in ManagedPoints \cap HoldingPoints
      /\ pt \notin {"claim", "idle", "readBalance", "prepare", "claimTopUp", "moveFailed"}
      /\ pt \notin ClaimedPoints /\ pt \notin MovePoints /\ pt \notin RevokePoints /\ pt \notin ApprovalPoints
      /\ pt \notin {"saveApproval", "awaitApproval", "markApproved"}
  BY DEF ManagedPoints, ClaimedPoints, HoldingPoints, MovePoints, RevokePoints, ApprovalPoints, FundPoints,
         LeasePoints
<1> QED
  BY <1>1 DEF WorkSound, OwnWork, Holds

LEMMA OwnRuns ==
  ASSUME WInv, NEW p \in Procs, pc[p] \in {"prepare"} \cup LeasePoints
  PROVE  /\ OwnWork(loc[p]) /\ pc[p] # "idle" /\ loc[p].owner \in Managed
         /\ loc[p].job = "approve" => Preparing(loc[p])
         /\ loc[p].job # "approve" => Revokes(loc[p]) \/ Moves(loc[p])
         /\ pc[p] = "prepare" => loc[p].key \in Keys /\ loc[p].amount # 0
         /\ pc[p] \in LeasePoints => Holds(loc[p])
<1>1. pc[p] # "idle" /\ pc[p] # "claim"
  BY DEF LeasePoints
<1>2. OwnWork(loc[p]) /\ (pc[p] = "prepare" => loc[p].key \in Keys /\ loc[p].amount # 0)
  BY <1>1, AtWork DEF WorkSound, OwnWork
<1>3. pc[p] \in LeasePoints => Holds(loc[p])
  BY LeaseHolds, HoldingRuns
<1>4. loc[p].job \in {"approve", "revoke", "move"}
  BY <1>2 DEF OwnWork, Work
<1> QED
  BY <1>1, <1>2, <1>3, <1>4, AtWork DEF OwnWork, Preparing, Revokes, Moves

\* A run goes on without a saved hash.
LEMMA UnsentManagedSound ==
  ASSUME WInv, NEW p \in Procs, pc[p] = "prepare", NEW review, Unsent(p, review),
         UNCHANGED <<lease, chainVars, prep, wallet, tokens, moved>>
  PROVE  WInv'
<1>1. PICK m : m = loc[p]
  OBVIOUS
<1>2. m \in Work /\ (m.job = "approve" => Preparing(m))
  BY <1>1, OwnRuns DEF OwnWork
<1>3. CASE m.job = "approve"
  <2>1. GoesTo(p, "fundPreflight", m)
    BY <1>1, <1>3, GotoGoes DEF Unsent
  <2>2. /\ "fundPreflight" \in ManagedPoints /\ WorkSound("fundPreflight", m)
        /\ MayApprove(p, "fundPreflight", m)
    BY <1>2, <1>3, PreparingIsSound DEF PlainPoints, MayApprove
  <2> QED
    BY <1>2, <2>1, <2>2, RunWalks
<1>4. CASE m.job # "approve"
  BY <1>1, <1>4, GotoGoes, RunLeaves DEF Unsent
<1> QED
  BY <1>3, <1>4

LEMMA PrepareManagedRefusedSound ==
  ASSUME WInv, NEW p \in Procs, PrepareManagedRefused(p) \/ PrepareFindsOther(p)
  PROVE  WInv'
<1>1. \E review : Unsent(p, review)
  BY DEF PrepareManagedRefused, PrepareFindsOther
<1> QED
  BY <1>1, UnsentManagedSound DEF PrepareManagedRefused, PrepareFindsOther

\* A nonce is a number.
LEMMA NoncesAreNat ==
  ASSUME ManagedTables, NEW pending \in ReportedNonces, NEW n \in NextNonces(pending)
  PROVE  n \in Nat
<1>1. \A t \in Known : t \in Tx
  BY DEF ManagedTables, ChainTypeOK, Known, Mined
<1>2. pending \in Nat
  BY <1>1 DEF ReportedNonces, Tx
<1>3. \A k \in Holding : lease[k] \in ManagedLease
  BY DEF ManagedTables, Holding, Leased
<1> QED
  BY <1>2, <1>3 DEF NextNonces, ManagedLease, Tx

\* The lease of t is written with its parent.
LeaseWritten(m, k, t) ==
  /\ k = m.key /\ k \in Keys /\ lease[k] = None /\ m.amount # 0
  /\ t \in Tx /\ t.key = k /\ t.wallet = m.wallet /\ t.amount = m.amount
  /\ lease' = PreparedLease(k, t) /\ UNCHANGED <<chainVars, wallet, tokens, moved>>
  /\ m.job = "approve" => FundingTargetOpen(m.owner, k, t)
  /\ prep' = IF m.job = "approve" THEN PreparedFunding(m.owner, k, t) ELSE prep
LEMMA LeaseIsNew ==
  ASSUME ManagedTables, NEW m, OwnWork(m), NEW k, NEW t, LeaseWritten(m, k, t)
  PROVE  /\ ManagedTables' /\ SentStay /\ \A w \in Managed : Unchanging(w, FALSE) /\ Unchanging(w, TRUE)
         /\ OwnWork(m)' /\ lease'[k] # None /\ lease'[k].tx = t
<1> USE DEF LeaseWritten
<1>1. PICK l : l = [tx |-> t, status |-> "prepared"]
  OBVIOUS
<1>2. l \in ManagedLease /\ l # None /\ l.tx = t /\ l.status = "prepared"
  BY <1>1, ManagedNoneAssumption DEF ManagedLease, LeaseStatuses
<1>3. /\ lease' \in [Keys -> ManagedLease \cup {None}] /\ lease'[k] = l
      /\ \A j \in Keys \ {k} : lease'[j] = lease[j]
  BY <1>1, <1>2 DEF PreparedLease, ManagedTables
<1>4. PICK w : w = m.owner
  OBVIOUS
<1>5. w \in Managed /\ m \in Work
  BY <1>4 DEF OwnWork, Work
<1>6. PICK s : s = [[[[prep[w] EXCEPT !.fund = t] EXCEPT !.attempt = k] EXCEPT !.value = t.amount]
                    EXCEPT !.status = "funding"]
  OBVIOUS
<1>7. CASE m.job = "approve"
  <2>1. /\ prep[w] # None /\ PrepSound(prep[w]) /\ k \in FundKeys /\ t.wallet = w
        /\ prep[w].status \in {"funding", "funded", "unknown"} /\ t # None
    BY <1>4, <1>5, <1>7, ManagedNoneAssumption, NoneAssumption DEF OwnWork, ManagedTables, FundingTargetOpen
  <2>2. prep' = [prep EXCEPT ![w] = s]
    BY <1>4, <1>5, <1>6, <1>7, <2>1 DEF PreparedFunding, ManagedTables, PrepSound, Preparation
  <2>3. PrepSound(s) /\ s # None /\ s.fund # None /\ s.status = "funding"
    BY <1>6, <2>1, ManagedNoneAssumption DEF PrepSound, Preparation, PrepStatuses, Tx
  <2>4. prep' \in [Managed -> Preparation \cup {None}] /\ prep'[w] = s /\ \A u \in Managed \ {w} : prep'[u] = prep[u]
    BY <1>5, <2>2, <2>3 DEF ManagedTables, PrepSound
  <2>5. \A j \in Keys : LeaseSound(j)'
    <3>1. LeaseSound(k)'
      BY <1>2, <1>3, <1>5, <2>1, <2>3, <2>4 DEF LeaseSound
    <3>2. \A j \in Keys \ {k} : LeaseSound(j)'
      BY <1>3, <2>3, <2>4 DEF LeaseSound, ManagedTables, chainVars
    <3> QED
      BY <3>1, <3>2
  <2>6. \A u \in Managed : prep'[u] # None => PrepSound(prep[u])'
    <3>1. PrepSound(prep[w])'
      BY <2>3, <2>4 DEF PrepSound
    <3>2. \A u \in Managed \ {w} : prep'[u] # None => PrepSound(prep[u])'
      BY <2>4 DEF PrepSound, ManagedTables
    <3> QED
      BY <3>1, <3>2
  <2>7. ApprovedIsMined'
    BY <2>3, <2>4, ZenonT(40) DEF ManagedTables, ApprovedIsMined
  <2>8. \A u \in Managed : Unchanging(u, FALSE) /\ Unchanging(u, TRUE)
    BY <2>1, <2>3, <2>4 DEF Unchanging
  <2>11. \A u \in Known' : lease'[u.key] # None /\ lease'[u.key].tx = u
    BY <1>3 DEF ManagedTables, ChainTypeOK, chainVars, Known, Mined, Tx
  <2>12. ChainTypeOK' /\ MovedAnswersTrue' /\ tokens' = tokens /\ wallet' = wallet
    BY DEF ManagedTables, ChainTypeOK, chainVars, MovedAnswersTrue
  <2>9. ManagedTables'
    BY <1>3, <2>4, <2>5, <2>6, <2>7, <2>11, <2>12 DEF ManagedTables
  <2>10. SentStay /\ OwnWork(m)'
    BY <1>3, <1>4, <2>3, <2>4 DEF SentStay, chainVars, OwnWork
  <2> QED
    BY <1>2, <1>3, <2>8, <2>9, <2>10
<1>8. CASE m.job # "approve"
  <2>1. prep' = prep /\ k \notin FundKeys
    BY <1>5, <1>8, KeyKinds DEF OwnWork, Work
  <2>2. \A j \in Keys : LeaseSound(j)'
    <3>1. LeaseSound(k)'
      BY <1>2, <1>3, <2>1 DEF LeaseSound
    <3>2. \A j \in Keys \ {k} : LeaseSound(j)'
      BY <1>3, <2>1 DEF LeaseSound, ManagedTables, chainVars
    <3> QED
      BY <3>1, <3>2
  <2>3. \A u \in Managed : prep'[u] # None => PrepSound(prep[u])'
    BY <2>1 DEF PrepSound, ManagedTables
  <2>6. ApprovedIsMined'
    BY <2>1 DEF ManagedTables, ApprovedIsMined
  <2>4. ManagedTables'
    BY <1>3, <2>1, <2>2, <2>3, <2>6
       DEF ManagedTables, ChainTypeOK, chainVars, Known, Mined, MovedAnswersTrue, Tx
  <2>5. SentStay /\ OwnWork(m)' /\ \A u \in Managed : Unchanging(u, FALSE) /\ Unchanging(u, TRUE)
    BY <1>3, <2>1 DEF SentStay, chainVars, OwnWork, Unchanging
  <2> QED
    BY <1>2, <1>3, <2>4, <2>5
<1> QED
  BY <1>7, <1>8

LEMMA PrepareManagedSound ==
  ASSUME WInv, NEW p \in Procs, PrepareManaged(p)
  PROVE  WInv'
<1>1. PICK m, k : m = loc[p] /\ k = m.key
  OBVIOUS
<1>2. pc[p] = "prepare" /\ lease[k] = None /\ UNCHANGED <<chainVars, wallet, tokens, moved>>
  BY <1>1 DEF PrepareManaged
<1>3. /\ m \in Work /\ OwnWork(m) /\ (m.job = "approve" => Preparing(m)) /\ k \in Keys /\ m.amount # 0
      /\ m.job \in {"approve", "revoke", "move"} /\ m.owner \in Managed
  BY <1>1, <1>2, OwnRuns DEF OwnWork, Work
<1>4. PICK pending \in ReportedNonces : \E n \in NextNonces(pending) :
        LET t == Transfer(p, n) IN
        /\ TargetReady(p, t) /\ lease' = PreparedLease(k, t)
        /\ prep' = IF m.job = "approve" THEN PreparedFunding(m.owner, k, t) ELSE prep
        /\ GotoWith(p, "broadcast", [loc[p] EXCEPT !.tx = t]) \/ Unsent(p, FALSE)
  BY <1>1 DEF PrepareManaged
<1>5. PICK n \in NextNonces(pending) :
        LET t == Transfer(p, n) IN
        /\ TargetReady(p, t) /\ lease' = PreparedLease(k, t)
        /\ prep' = IF m.job = "approve" THEN PreparedFunding(m.owner, k, t) ELSE prep
        /\ GotoWith(p, "broadcast", [loc[p] EXCEPT !.tx = t]) \/ Unsent(p, FALSE)
  BY <1>4
<1>6. PICK t : t = Transfer(p, n)
  OBVIOUS
<1>7. n \in Nat
  BY NoncesAreNat DEF WInv
<1>8. t \in Tx /\ t.key = k /\ t.wallet = m.wallet /\ t.amount = m.amount
  BY <1>1, <1>3, <1>6, <1>7 DEF Transfer, Tx, Work
<1>9. m.job = "approve" => FundingTargetOpen(m.owner, k, t)
  BY <1>1, <1>5, <1>6 DEF TargetReady
<1>10. /\ ManagedTables' /\ SentStay /\ \A w \in Managed : Unchanging(w, FALSE) /\ Unchanging(w, TRUE)
       /\ OwnWork(m)' /\ lease'[k] # None /\ lease'[k].tx = t
  <2>1. lease' = PreparedLease(k, t) /\ prep' = IF m.job = "approve" THEN PreparedFunding(m.owner, k, t) ELSE prep
    BY <1>5, <1>6
  <2>2. LeaseWritten(m, k, t)
    BY <1>1, <1>2, <1>3, <1>8, <1>9, <2>1 DEF LeaseWritten
  <2>3. ManagedTables /\ OwnWork(m)
    BY <1>3 DEF WInv
  <2> QED
    BY <2>2, <2>3, LeaseIsNew
<1>11. \A w \in Managed : Unchanging(w, Approving(p, w))
  <2> SUFFICES ASSUME NEW w \in Managed PROVE Unchanging(w, Approving(p, w))
    OBVIOUS
  <2>1. Unchanging(w, FALSE)
    BY <1>10
  <2> QED
    BY <2>1 DEF Unchanging
<1>12. CASE GotoWith(p, "broadcast", [loc[p] EXCEPT !.tx = t])
  <2>1. PICK h : h = [m EXCEPT !.tx = t]
    OBVIOUS
  <2>2. /\ h \in Work /\ h.job = m.job /\ h.owner = m.owner /\ h.wallet = m.wallet /\ h.key = k
        /\ h.amount = m.amount /\ h.tx = t
    BY <1>1, <1>3, <1>8, <2>1 DEF Work
  <2>3. GoesTo(p, "broadcast", h)
    BY <1>1, <1>12, <2>1, GotoGoes
  <2>4. OwnWork(h)'
    BY <1>1, <1>10, <2>2 DEF OwnWork
  <2>5. Holds(h)'
    BY <1>3, <1>8, <1>10, <2>2 DEF Holds
  <2>6. WorkSound("broadcast", h)' /\ "broadcast" \in ManagedPoints /\ "broadcast" \notin ApprovalPoints
    BY <2>4, <2>5, LeaseHolds DEF LeasePoints
  <2> QED
    BY <1>10, <1>11, <2>2, <2>3, <2>6, RunMoves DEF GoesTo
<1>13. CASE Unsent(p, FALSE)
  <2>1. CASE m.job = "approve"
    <3>1. GoesTo(p, "fundPreflight", m)
      BY <1>1, <1>13, <2>1, GotoGoes DEF Unsent
    <3>2. Preparing(m)'
      BY <1>10, <2>1, <1>3 DEF OwnWork, Preparing
    <3>3. /\ "fundPreflight" \in ManagedPoints /\ WorkSound("fundPreflight", m)'
          /\ "fundPreflight" \notin ApprovalPoints
      BY <3>2, PreparingIsSound DEF PlainPoints
    <3> QED
      BY <1>3, <1>10, <1>11, <3>1, <3>3, RunMoves DEF GoesTo
  <2>2. CASE m.job # "approve"
    <3>1. GoesTo(p, "idle", None) /\ "idle" \in ManagedPoints /\ "idle" \notin ApprovalPoints
      BY <1>1, <1>13, <2>2, GotoGoes DEF Unsent, ManagedPoints, ApprovalPoints
    <3> QED
      BY <1>10, <1>11, <3>1, IdleIsSound, RunMoves DEF GoesTo
  <2> QED
    BY <2>1, <2>2
<1> QED
  BY <1>5, <1>6, <1>12, <1>13

\* What a lease tells the row it belongs to.
LEMMA ParentIsMarked ==
  ASSUME ManagedTables, NEW k \in Keys, lease[k] # None, NEW w \in Managed, lease[k].tx.wallet = w,
         NEW new, new = ParentMarked(k, "unknown"), NEW s, s = [prep[w] EXCEPT !.status = "unknown"],
         NEW who \in BOOLEAN
  PROVE  new = prep \/ (new = [prep EXCEPT ![w] = s] /\ RowWritten(w, s, who) /\ s # None)
<1>1. new = prep \/ (/\ new = [prep EXCEPT ![w] = s] /\ prep[w] # None
                     /\ CurrentAttempt(prep[w], k, lease[k].tx))
  BY DEF ParentMarked, PrepWhere
<1>2. CASE prep[w] # None /\ CurrentAttempt(prep[w], k, lease[k].tx)
  <2>1. PrepSound(prep[w]) /\ prep[w].status # "approving"
    BY <1>2 DEF ManagedTables, CurrentAttempt
  <2>2. RowWritten(w, s, who) /\ s # None
    BY <2>1, ManagedNoneAssumption DEF RowWritten, PrepSound, Preparation, PrepStatuses
  <2> QED
    BY <1>1, <2>2
<1> QED
  BY <1>1, <1>2

\* A lease is marked unknown with its parent, or nothing is written, and the
\* run goes on with the lease's transaction or gives up.
LEMMA UnknownIsSound ==
  ASSUME WInv, NEW p \in Procs, pc[p] \in {"prepare"} \cup LeasePoints,
         NEW m, m = loc[p], lease[m.key] # None, m.key \in Keys,
         NEW t, t = lease[m.key].tx, t.wallet = m.wallet, t.amount = m.amount,
         NEW n \in Work, n.owner = m.owner, n.job = m.job, n.wallet = m.wallet, n.key = m.key,
         n.amount = m.amount, n.tx = t,
         UNCHANGED <<chainVars, wallet, tokens, moved>>,
         \/ /\ lease' = LeaseMarked(m.key, "unknown")
            /\ prep' = IF m.job = "approve" THEN ParentMarked(m.key, "unknown") ELSE prep
         \/ UNCHANGED <<lease, prep>>,
         \/ m.job = "approve" /\ GoesTo(p, "fundUnknown", n)
         \/ m.job # "approve" /\ GoesTo(p, "idle", None)
  PROVE  WInv'
<1>1. LeaseIsMarked
  BY DEF LeaseIsMarked, LeaseStatuses
<1>2. OwnWork(m) /\ m \in Work /\ m.owner \in Managed
  BY OwnRuns DEF OwnWork
<1>3. CASE m.job = "approve"
  <2>1. PICK w, s, who : w = m.owner /\ s = [prep[w] EXCEPT !.status = "unknown"] /\ who = Approving(p, w)
    OBVIOUS
  <2>2. w \in Managed /\ prep[w] # None /\ who \in BOOLEAN /\ t.wallet = w
    BY <1>2, <1>3, <2>1 DEF OwnWork, Approving
  <2>3. prep' = prep \/ (prep' = [prep EXCEPT ![w] = s] /\ RowWritten(w, s, who) /\ s # None)
    <3>1. PICK new : new = ParentMarked(m.key, "unknown")
      OBVIOUS
    <3>2. new = prep \/ (new = [prep EXCEPT ![w] = s] /\ RowWritten(w, s, who) /\ s # None)
      BY <2>1, <2>2, <3>1, ParentIsMarked DEF WInv
    <3> QED
      BY <1>3, <3>1, <3>2
  <2>4. prep'[w] # None
    BY <2>2, <2>3 DEF WInv, ManagedTables
  <2>5. Preparing(n)'
    BY <1>2, <1>3, <2>1, <2>4 DEF Preparing, OwnWork
  <2>6. SentStay => Holds(n)'
    BY DEF SentStay, Holds
  <2>7. "fundUnknown" \in FundPoints
    BY DEF FundPoints
  <2>8. /\ "fundUnknown" \in ManagedPoints /\ MayApprove(p, "fundUnknown", n)
        /\ SentStay => WorkSound("fundUnknown", n)'
    BY <2>5, <2>6, <2>7, FundHolds DEF MayApprove
  <2>9. GoesTo(p, "fundUnknown", n)
    BY <1>3
  <2> QED
    BY <1>1, <2>1, <2>2, <2>3, <2>8, <2>9, RunWrites
<1>4. CASE m.job # "approve"
  BY <1>1, <1>2, <1>4, RunStops
<1> QED
  BY <1>3, <1>4

LEMMA PrepareFindsPreparedSound ==
  ASSUME WInv, NEW p \in Procs, PrepareFindsPrepared(p)
  PROVE  WInv'
<1>1. PICK m, t : m = loc[p] /\ t = lease[m.key].tx
  OBVIOUS
<1>2. pc[p] = "prepare" /\ lease[m.key] # None /\ t.wallet = m.wallet /\ t.amount = m.amount
  BY <1>1 DEF PrepareFindsPrepared, SameLeaseIntent
<1>3. m \in Work /\ m.key \in Keys
  BY <1>1, <1>2, OwnRuns DEF OwnWork
<1>4. t \in Tx
  BY <1>1, <1>2, <1>3 DEF WInv, ManagedTables, ManagedLease
<1>5. PICK n : n = [m EXCEPT !.tx = t]
  OBVIOUS
<1>6. /\ n \in Work /\ n.owner = m.owner /\ n.job = m.job /\ n.wallet = m.wallet /\ n.key = m.key
      /\ n.amount = m.amount /\ n.tx = t
  BY <1>1, <1>3, <1>4, <1>5 DEF Work
<1>7. \/ m.job = "approve" /\ GoesTo(p, "fundUnknown", n)
      \/ m.job # "approve" /\ GoesTo(p, "idle", None)
  BY <1>1, <1>5, GotoGoes DEF PrepareFindsPrepared
<1>8. /\ UNCHANGED <<chainVars, wallet, tokens, moved>>
      /\ \/ /\ lease' = LeaseMarked(m.key, "unknown")
            /\ prep' = IF m.job = "approve" THEN ParentMarked(m.key, "unknown") ELSE prep
         \/ UNCHANGED <<lease, prep>>
  BY <1>1 DEF PrepareFindsPrepared, answerVars
<1> QED
  BY <1>1, <1>2, <1>3, <1>6, <1>7, <1>8, UnknownIsSound

LEMMA UnknownManagedSound ==
  ASSUME WInv, NEW p \in Procs, UnknownManaged(p)
  PROVE  WInv'
<1>1. PICK m : m = loc[p]
  OBVIOUS
<1>2. pc[p] = "unknownLease" /\ pc[p] \in LeasePoints
  BY DEF UnknownManaged, LeasePoints
<1>3. m \in Work /\ Holds(m)
  BY <1>1, <1>2, OwnRuns DEF OwnWork
<1>4. \/ m.job = "approve" /\ GoesTo(p, "fundUnknown", m)
      \/ m.job # "approve" /\ GoesTo(p, "idle", None)
  BY <1>1, GotoGoes DEF UnknownManaged
<1>5. /\ UNCHANGED <<chainVars, wallet, tokens, moved>>
      /\ \/ /\ lease' = LeaseMarked(m.key, "unknown")
            /\ prep' = IF m.job = "approve" THEN ParentMarked(m.key, "unknown") ELSE prep
         \/ UNCHANGED <<lease, prep>>
  BY <1>1 DEF UnknownManaged, answerVars
<1>6. PICK t : t = lease[m.key].tx
  OBVIOUS
<1>7. m.tx = t /\ t.wallet = m.wallet /\ t.amount = m.amount /\ lease[m.key] # None /\ m.key \in Keys
  BY <1>3, <1>6 DEF Holds
<1> QED
  BY <1>1, <1>2, <1>3, <1>4, <1>5, <1>6, <1>7, UnknownIsSound

LEMMA PrepareFindsSentSound ==
  ASSUME WInv, NEW p \in Procs, PrepareFindsSent(p)
  PROVE  WInv'
<1>1. PICK m, t : m = loc[p] /\ t = lease[m.key].tx
  OBVIOUS
<1>2. /\ pc[p] = "prepare" /\ lease[m.key] # None /\ t.wallet = m.wallet /\ t.amount = m.amount
      /\ UNCHANGED <<lease, chainVars, prep, wallet, tokens, moved>>
  BY <1>1 DEF PrepareFindsSent, SameLeaseIntent, managedVars, answerVars
<1>3. /\ m \in Work /\ m.key \in Keys /\ (m.job = "approve" => Preparing(m))
      /\ m.job # "approve" => Revokes(m) \/ Moves(m)
  BY <1>1, <1>2, OwnRuns DEF OwnWork
<1>4. t \in Tx
  BY <1>1, <1>2, <1>3 DEF WInv, ManagedTables, ManagedLease
<1>5. PICK n : n = [m EXCEPT !.tx = t]
  OBVIOUS
<1>6. /\ n \in Work /\ n.owner = m.owner /\ n.job = m.job /\ n.wallet = m.wallet /\ n.key = m.key
      /\ n.amount = m.amount /\ n.tx = t
  BY <1>1, <1>3, <1>4, <1>5 DEF Work
<1>7. Holds(n)
  BY <1>1, <1>2, <1>3, <1>6 DEF Holds
<1>8. ASSUME NEW pt, pt \in ManagedPoints /\ pt # "idle" /\ pt \notin ApprovalPoints,
             GotoWith(p, pt, n), WorkSound(pt, n)
      PROVE  WInv'
  <2>1. GoesTo(p, pt, n) /\ MayApprove(p, pt, n)
    BY <1>8, GotoGoes DEF MayApprove
  <2> QED
    BY <1>2, <1>6, <1>8, <2>1, RunWalks
<1>9. CASE m.job = "move"
  <2>1. GotoWith(p, "moveEvidence", n) /\ "moveEvidence" \in MovePoints
    BY <1>1, <1>5, <1>9 DEF PrepareFindsSent, MovePoints
  <2>2. Moves(n)
    BY <1>3, <1>6, <1>9 DEF Moves, Revokes
  <2> QED
    BY <1>7, <1>8, <2>1, <2>2, OtherIsSound, OtherPoints
<1>10. CASE m.job = "revoke"
  <2>1. CASE GotoWith(p, "sendRevoke", n)
    <3>1. Revokes(n) /\ "sendRevoke" \in RevokePoints
      BY <1>3, <1>6, <1>10 DEF Moves, Revokes, RevokePoints
    <3> QED
      BY <1>7, <1>8, <2>1, <3>1, OtherIsSound, OtherPoints
  <2>2. CASE Goto(p, "idle")
    BY <1>2, <2>2, GotoGoes, RunLeaves
  <2> QED
    BY <1>1, <1>5, <1>10, <2>1, <2>2 DEF PrepareFindsSent
<1>11. CASE m.job = "approve"
  <2>1. PICK pt \in {"checkReconciled", "fundUnknown"} : GotoWith(p, pt, n)
    BY <1>1, <1>5, <1>11 DEF PrepareFindsSent
  <2>2. pt \in FundPoints /\ Preparing(n)
    BY <1>3, <1>6, <1>11 DEF FundPoints, Preparing
  <2> QED
    BY <1>7, <1>8, <2>1, <2>2, FundHolds
<1> QED
  BY <1>3, <1>9, <1>10, <1>11 DEF Work

\* The bytes reach an endpoint or not.
LEMMA BroadcastManagedSound ==
  ASSUME WInv, NEW p \in Procs, BroadcastManaged(p)
  PROVE  WInv'
<1>1. PICK m : m = loc[p]
  OBVIOUS
<1>2. pc[p] = "broadcast" /\ pc[p] \in LeasePoints \cap HoldingPoints
  BY LeaseHolds DEF BroadcastManaged, Broadcast, LeasePoints
<1>3. m \in Work /\ OwnWork(m) /\ Holds(m) /\ m.tx \in Tx /\ m.tx.key = m.key
  BY <1>1, <1>2, OwnRuns, HoldingRuns DEF OwnWork
<1>4. UNCHANGED <<lease, prep, wallet, tokens, moved, paid, reverted>>
  BY DEF BroadcastManaged, Broadcast, managedVars, answerVars
<1>5. PICK pt \in {"submitLease", "unknownLease"} : Goto(p, pt)
  BY DEF BroadcastManaged, Broadcast
<1>6. GoesTo(p, pt, m) /\ pt \in LeasePoints
  BY <1>1, <1>5, GotoGoes DEF LeasePoints
<1>7. pool' \subseteq pool \cup {m.tx}
  BY <1>1 DEF BroadcastManaged, Broadcast, Accept
<1>8. ManagedTables'
  <2>1. \A k \in Keys : LeaseSound(k)'
    BY <1>4 DEF WInv, ManagedTables, LeaseSound
  <2>2. \A w \in Managed : prep'[w] # None => PrepSound(prep[w])'
    BY <1>4 DEF WInv, ManagedTables, PrepSound
  <2>3. ApprovedIsMined' /\ MovedAnswersTrue'
    BY <1>4 DEF WInv, ManagedTables, ApprovedIsMined, MovedAnswersTrue
  <2>4. \A t \in Known' : lease'[t.key] # None /\ lease'[t.key].tx = t
    BY <1>3, <1>4, <1>7 DEF WInv, ManagedTables, Known, Mined, Holds
  <2>5. ChainTypeOK'
    BY <1>3, <1>4, <1>7 DEF WInv, ManagedTables, ChainTypeOK
  <2> QED
    BY <1>4, <2>1, <2>2, <2>3, <2>4, <2>5 DEF WInv, ManagedTables
<1>9. SentStay /\ \A w \in Managed : Unchanging(w, Approving(p, w))
  BY <1>4 DEF SentStay, Unchanging
<1>10. OwnWork(m)' /\ Holds(m)'
  BY <1>1, <1>3, <1>4 DEF OwnWork, Holds
<1>11. WorkSound(pt, m)' /\ pt \in ManagedPoints /\ pt \notin ApprovalPoints
  BY <1>6, <1>10, LeaseHolds
<1> QED
  BY <1>3, <1>6, <1>8, <1>9, <1>11, RunMoves DEF GoesTo

LEMMA SubmitManagedSound ==
  ASSUME WInv, NEW p \in Procs, SubmitManaged(p)
  PROVE  WInv'
<1>1. PICK m, k : m = loc[p] /\ k = m.key
  OBVIOUS
<1>2. pc[p] \in LeasePoints
  BY DEF SubmitManaged, LeasePoints
<1>3. /\ m \in Work /\ OwnWork(m) /\ Holds(m) /\ (m.job = "approve" => Preparing(m))
      /\ (m.job # "approve" => Revokes(m) \/ Moves(m)) /\ m.owner \in Managed
  BY <1>1, <1>2, OwnRuns DEF OwnWork
<1>4. UNCHANGED <<chainVars, prep, wallet, tokens, moved>>
  BY DEF SubmitManaged, managedVars, answerVars
<1>5. LeaseIsMarked
  BY <1>1, <1>3 DEF SubmitManaged, LeaseIsMarked, LeaseStatuses, Holds
<1>6. \/ m.job = "approve" /\ Goto(p, "checkSubmitted")
      \/ m.job = "revoke" /\ Goto(p, "awaitRevokeGas")
      \/ m.job = "move" /\ Goto(p, "awaitMove")
      \/ Goto(p, "unknownLease")
  <2>1. m.job \in {"approve", "revoke", "move"}
    BY <1>3 DEF Work
  <2> QED
    BY <1>1, <2>1 DEF SubmitManaged
<1>7. OwnWork(m)' /\ (m.job = "approve" => Preparing(m)')
  BY <1>1, <1>3, <1>4 DEF OwnWork, Preparing
<1>8. SentStay => Holds(m)'
  BY <1>3, HoldsStays
<1>9. ASSUME NEW pt, pt \in ManagedPoints /\ pt # "idle" /\ pt \notin ApprovalPoints,
             Goto(p, pt), SentStay => WorkSound(pt, m)'
      PROVE  WInv'
  <2>1. GoesTo(p, pt, m) /\ MayApprove(p, pt, m)
    BY <1>1, <1>9, GotoGoes DEF MayApprove
  <2> QED
    BY <1>3, <1>4, <1>5, <1>9, <2>1, RunWrites
<1>10. CASE m.job = "approve" /\ Goto(p, "checkSubmitted")
  <2>1. "checkSubmitted" \in FundPoints
    BY DEF FundPoints
  <2> QED
    BY <1>7, <1>8, <1>9, <1>10, <2>1, FundHolds
<1>11. CASE m.job = "revoke" /\ Goto(p, "awaitRevokeGas")
  <2>1. "awaitRevokeGas" \in RevokePoints /\ Revokes(m)
    BY <1>3, <1>11 DEF RevokePoints, Revokes, Moves
  <2> QED
    BY <1>8, <1>9, <1>11, <2>1, OtherIsSound, OtherPoints
<1>12. CASE m.job = "move" /\ Goto(p, "awaitMove")
  <2>1. "awaitMove" \in MovePoints /\ Moves(m)
    BY <1>3, <1>12 DEF MovePoints, Revokes, Moves
  <2> QED
    BY <1>8, <1>9, <1>12, <2>1, OtherIsSound, OtherPoints
<1>13. CASE Goto(p, "unknownLease")
  <2>1. "unknownLease" \in LeasePoints
    BY DEF LeasePoints
  <2> QED
    BY <1>7, <1>8, <1>9, <1>13, <2>1, LeaseHolds
<1> QED
  BY <1>6, <1>10, <1>11, <1>12, <1>13

LEMMA CrashManagedSound ==
  ASSUME WInv, NEW p \in Procs, CrashManaged(p)
  PROVE  WInv'
BY GotoGoes, RunLeaves DEF CrashManaged, Crash, managedVars, answerVars
-----------------------------------------------------------------------------
(* The environment.                                                        *)

\* What happens outside the runs.
LEMMA OthersAct ==
  ASSUME WInv, UNCHANGED <<pc, loc>>, ManagedTables', SentStay, \A w \in Managed : Unchanging(w, FALSE)
  PROVE  WInv'
<1>1. ASSUME NEW p \in Procs PROVE WorkSound(pc[p], loc[p])'
  <2>1. PICK pt, m : pt = pc[p] /\ m = loc[p]
    OBVIOUS
  <2>2. WorkSound(pt, m) /\ (m \in Work => Unchanging(m.owner, FALSE))
    BY <2>1 DEF WInv, Work
  <2>3. WorkSound(pt, m)'
    BY <2>2, WorkKept
  <2>4. pc'[p] = pt /\ loc'[p] = m
    BY <2>1
  <2> QED
    BY <2>3, <2>4 DEF WorkSound
<1>2. WorksTyped' /\ ApprovesAlone'
  BY DEF WInv, WorksTyped, ApprovesAlone, Approving
<1> QED
  BY <1>1, <1>2 DEF WInv

\* The chain moves on: transfers leave the pool, receipts stay.
LEMMA ChainMoves ==
  ASSUME WInv, UNCHANGED <<pc, loc, lease, prep, wallet, moved>>,
         tokens' \in [Managed -> Amounts], Known' \subseteq Known, paid \subseteq paid',
         reverted \subseteq reverted'
  PROVE  WInv'
<1>1. \A k \in Keys : LeaseSound(k)'
  BY DEF WInv, ManagedTables, LeaseSound
<1>2. \A w \in Managed : prep'[w] # None => PrepSound(prep[w])'
  BY DEF WInv, ManagedTables, PrepSound
<1>3. ApprovedIsMined' /\ MovedAnswersTrue'
  BY DEF WInv, ManagedTables, ApprovedIsMined, MovedAnswersTrue
<1>4. ChainTypeOK'
  BY DEF WInv, ManagedTables, ChainTypeOK, Known, Mined
<1>5. ManagedTables'
  BY <1>1, <1>2, <1>3, <1>4 DEF WInv, ManagedTables
<1>6. SentStay /\ \A w \in Managed : Unchanging(w, FALSE)
  BY DEF SentStay, Unchanging
<1> QED
  BY <1>5, <1>6, OthersAct

LEMMA MineManagedSound ==
  ASSUME WInv, MineManaged
  PROVE  WInv'
<1>1. PICK t \in pool, ok \in BOOLEAN :
        /\ Mine(t, ok) /\ (t.key \in MoveKeys /\ ~MoveWorks(t) => ~ok)
        /\ tokens' = IF ok /\ t.key \in MoveKeys
                     THEN [tokens EXCEPT ![OwnerOf[t.key]] = @ - t.amount] ELSE tokens
        /\ UNCHANGED <<pc, loc, lease, prep, wallet, moved>>
  BY DEF MineManaged, answerVars
<1>2. Known' \subseteq Known /\ paid \subseteq paid' /\ reverted \subseteq reverted'
  BY <1>1 DEF Mine, Known, Mined
<1>3. tokens' \in [Managed -> Amounts]
  <2>1. CASE ok /\ t.key \in MoveKeys
    <3>1. PICK w : w = OwnerOf[t.key]
      OBVIOUS
    <3>2. w \in Managed /\ tokens[w] \in Amounts /\ t.amount \in Amounts
      BY <2>1, <3>1, KeyKinds DEF WInv, ManagedTables, ChainTypeOK, Tx
    <3>3. t.amount <= tokens[w]
      BY <1>1, <2>1, <3>1, <3>2, KeyKinds DEF MoveWorks
    <3>4. tokens[w] - t.amount \in Amounts
      BY <3>2, <3>3, TokensAssumption
    <3>5. tokens' = [tokens EXCEPT ![w] = tokens[w] - t.amount]
      BY <1>1, <2>1, <3>1
    <3> QED
      BY <3>2, <3>4, <3>5 DEF WInv, ManagedTables
  <2>2. CASE ~(ok /\ t.key \in MoveKeys)
    BY <1>1, <2>2 DEF WInv, ManagedTables
  <2> QED
    BY <2>1, <2>2
<1> QED
  BY <1>1, <1>2, <1>3, ChainMoves

LEMMA MineWalletSound ==
  ASSUME WInv, MineWallet
  PROVE  WInv'
<1>a. PICK w \in Managed : \E i \in 1..Len(wallet[w]), state \in {"ok", "failed"} :
        /\ wallet[w][i].state = "pending" /\ wallet' = [wallet EXCEPT ![w][i].state = state]
        /\ UNCHANGED <<pc, loc, lease, chainVars, prep, tokens, moved>>
  BY DEF MineWallet, answerVars
<1>1. PICK i \in 1..Len(wallet[w]), state \in {"ok", "failed"} :
        /\ wallet[w][i].state = "pending" /\ wallet' = [wallet EXCEPT ![w][i].state = state]
        /\ UNCHANGED <<pc, loc, lease, chainVars, prep, tokens, moved>>
  BY <1>a
<1>2. PICK r : r = [wallet[w][i] EXCEPT !.state = state]
  OBVIOUS
<1>3. PICK s : s = [wallet[w] EXCEPT ![i] = r]
  OBVIOUS
<1>4. wallet[w] \in Seq(WalletTx) /\ wallet \in [Managed -> Seq(WalletTx)]
  BY DEF WInv, ManagedTables
<1>5. wallet[w][i] \in WalletTx
  BY <1>4
<1>6. r \in WalletTx /\ r.grant = wallet[w][i].grant
  BY <1>2, <1>5 DEF WalletTx
<1>7. /\ s \in Seq(WalletTx) /\ Len(s) = Len(wallet[w]) /\ s[i] = r
      /\ \A j \in 1..Len(wallet[w]) : j # i => s[j] = wallet[w][j]
  BY <1>3, <1>4, <1>6
<1>8. wallet' = [wallet EXCEPT ![w] = s]
  BY <1>1, <1>2, <1>3
<1>9. /\ wallet' \in [Managed -> Seq(WalletTx)] /\ wallet'[w] = s
      /\ \A u \in Managed \ {w} : wallet'[u] = wallet[u]
  BY <1>4, <1>7, <1>8
<1>10. WalletsGrow
  BY <1>1, <1>6, <1>7, <1>9 DEF WalletsGrow
<1>11. ManagedTables' /\ SentStay /\ \A u \in Managed, who \in BOOLEAN : Unchanging(u, who)
  BY <1>1, <1>10, WalletWritten DEF WInv
<1> QED
  BY <1>1, <1>11, OthersAct

LEMMA DepositSound ==
  ASSUME WInv, Deposit
  PROVE  WInv'
<1>1. tokens' \in [Managed -> Amounts]
  BY DEF Deposit, WInv, ManagedTables
<1> QED
  BY <1>1, ChainMoves DEF Deposit, chainVars, answerVars, Known, Mined

LEMMA EvictManagedSound ==
  ASSUME WInv, EvictManaged
  PROVE  WInv'
<1>1. /\ UNCHANGED <<pc, loc, lease, prep, wallet, tokens, moved>> /\ pool' \subseteq pool
      /\ UNCHANGED <<paid, reverted>>
  BY DEF EvictManaged, EvictOne, Evict, managedVars, answerVars
<1> QED
  BY <1>1, ChainMoves DEF WInv, ManagedTables, Known, Mined
-----------------------------------------------------------------------------
(* The invariant and what it says.                                         *)

LEMMA ManagedInitSound ==
  ASSUME Init
  PROVE  WInv
<1>1. PICK approved \in SUBSET Managed :
        /\ wallet = [w \in Managed |->
             IF w \in approved THEN <<[grant |-> TRUE, state |-> "ok"]>> ELSE <<>>]
        /\ prep = [w \in Managed |->
             IF w \in approved THEN [NewPreparation EXCEPT !.status = "approved", !.approval = 1]
             ELSE None]
  BY DEF Init
<1>2. PICK n : n = NewPreparation
  OBVIOUS
<1>a. n \in Preparation /\ n.fund = None /\ n.attempt = None
  BY <1>2, AmountsAssumption DEF NewPreparation, Preparation, PrepStatuses
<1>b. PICK r : r = [[n EXCEPT !.status = "approved"] EXCEPT !.approval = 1]
  OBVIOUS
<1>3. r = [n EXCEPT !.status = "approved", !.approval = 1]
  BY <1>a, <1>b DEF Preparation
<1>4. PrepSound(r) /\ r # None /\ r.status = "approved" /\ r.approval = 1
  <2>1. r \in Preparation /\ r.status = "approved" /\ r.approval = 1 /\ r.attempt = None
    BY <1>a, <1>b DEF Preparation, PrepStatuses
  <2> QED
    BY <2>1, ManagedNoneAssumption DEF PrepSound
<1>5. prep \in [Managed -> {r, None}] /\ \A w \in Managed : prep[w] # None => prep[w] = r /\ w \in approved
  BY <1>1, <1>2, <1>3
<1>6. PICK t : t = [grant |-> TRUE, state |-> "ok"]
  OBVIOUS
<1>7. t \in WalletTx /\ <<t>> \in Seq(WalletTx) /\ <<>> \in Seq(WalletTx) /\ Len(<<t>>) = 1 /\ <<t>>[1] = t
  BY <1>6 DEF WalletTx
<1>8. wallet \in [Managed -> Seq(WalletTx)] /\ \A w \in approved : wallet[w] = <<t>>
  BY <1>1, <1>6, <1>7
<1>9. prep \in [Managed -> Preparation \cup {None}]
  BY <1>4, <1>5 DEF PrepSound
<1>10. ApprovedIsMined
  <2> SUFFICES ASSUME NEW w \in Managed, prep[w] # None
               PROVE  /\ prep[w].approval \in 1..Len(wallet[w])
                      /\ wallet[w][prep[w].approval] = [grant |-> TRUE, state |-> "ok"]
    BY DEF ApprovedIsMined
  <2>1. prep[w].approval = 1 /\ wallet[w] = <<t>>
    BY <1>4, <1>5, <1>8
  <2>2. 1 \in 1..Len(<<t>>) /\ <<t>>[1] = [grant |-> TRUE, state |-> "ok"]
    BY <1>6, <1>7
  <2> QED
    BY <2>1, <2>2
<1>11. /\ lease = [k \in Keys |-> None] /\ pool = {} /\ paid = {} /\ reverted = {} /\ moved = {}
       /\ tokens = Tokens /\ pc = [p \in Procs |-> "idle"] /\ loc = [p \in Procs |-> None]
  BY DEF Init, LeaseInit, ChainInit
<1>12. \A k \in Keys : LeaseSound(k)
  BY <1>11 DEF LeaseSound
<1>13. \A w \in Managed : prep[w] # None => PrepSound(prep[w])
  BY <1>4, <1>5
<1>14. ManagedTables
  BY <1>8, <1>9, <1>10, <1>11, <1>12, <1>13, TokensAssumption
     DEF ManagedTables, ChainTypeOK, Known, Mined, MovedAnswersTrue
<1>15. WorksTyped /\ \A p \in Procs : WorkSound(pc[p], loc[p])
  BY <1>11, IdleIsSound DEF WorksTyped, ManagedPoints
<1>16. ApprovesAlone
  BY <1>11 DEF ApprovesAlone, Approving, ApprovalPoints
<1> QED
  BY <1>14, <1>15, <1>16 DEF WInv

LEMMA NextSound ==
  ASSUME WInv, [Next]_vars
  PROVE  WInv'
<1>1. ASSUME NEW p \in Procs, ApprovalStep(p) PROVE WInv'
  BY <1>1, StartApprovalSound, ClaimPreparationSound, ProveFundingSound, RecoverFundedSound, MeasureSound,
     ClaimTopUpSound, FundPreflightFailedSound, CheckSubmittedSound, SaveSubmittedSound, FundUnknownSound,
     MarkFundedSound, ClaimApprovalSound, SendApprovalSound, SaveApprovalSound, AwaitApprovalSound,
     EndApprovalSound
     DEF ApprovalStep
<1>2. ASSUME NEW p \in Procs, LeaseStep(p) PROVE WInv'
  BY <1>2, PrepareManagedSound, PrepareManagedRefusedSound, PrepareFindsPreparedSound,
     PrepareFindsSentSound, BroadcastManagedSound, SubmitManagedSound, UnknownManagedSound
     DEF LeaseStep
<1>3. ASSUME NEW p \in Procs, MoveStep(p) \/ RevokeStep(p) PROVE WInv'
  BY <1>3, StartOtherSound, ReadBalanceSound, AwaitMoveSound, MoveFailedSound, AwaitRevokeGasSound,
     SendRevokeSound
     DEF MoveStep, RevokeStep
<1>4. CASE UNCHANGED vars
  <2>1. UNCHANGED <<pc, loc, lease, chainVars, prep, wallet, tokens, moved>>
    BY <1>4 DEF vars, managedVars, answerVars
  <2>2. ManagedTables' /\ SentStay /\ \A w \in Managed, who \in BOOLEAN : Unchanging(w, who)
    BY <2>1, NothingWritten DEF WInv
  <2> QED
    BY <2>1, <2>2, OthersAct
<1> QED
  BY <1>1, <1>2, <1>3, <1>4, CrashManagedSound, MineManagedSound, MineWalletSound, DepositSound,
     EvictManagedSound
     DEF Next

\* What the invariant says.
LEMMA ManagedFollows ==
  ASSUME WInv
  PROVE  ManagedIsTrue
<1>1. FailedLeaseIsReverted
  BY DEF WInv, ManagedTables, LeaseSound, FailedLeaseIsReverted, Leased
<1>2. FailedPreparationUnsent
  <2> SUFFICES ASSUME NEW w \in Managed, prep[w] # None, prep[w].status = "failed",
                      NEW t \in Known, t.key \in FundKeys, t.wallet = w
               PROVE  FALSE
    BY DEF FailedPreparationUnsent, FundKeys
  <2>1. lease[t.key] # None /\ lease[t.key].tx = t /\ LeaseSound(t.key)
    BY KeyKinds DEF WInv, ManagedTables
  <2>2. prep[w].fund # None /\ PrepSound(prep[w])
    BY <2>1 DEF LeaseSound, WInv, ManagedTables
  <2> QED
    BY <2>2 DEF PrepSound
<1>3. TypeOK
  <2>1. ASSUME NEW p \in Procs
        PROVE  /\ pc[p] # "idle" => loc[p].owner \in Managed
               /\ pc[p] = "prepare" => loc[p].key \in Keys /\ loc[p].amount \in Amounts \ {0}
               /\ pc[p] \in {"broadcast", "awaitFunding", "awaitMove", "awaitRevokeGas", "moveEvidence"}
                    => loc[p].tx \in Tx
               /\ pc[p] = "awaitApproval" => loc[p].nonce \in 1..Len(wallet[loc[p].owner])
    <3>1. {"broadcast", "awaitFunding", "awaitMove", "awaitRevokeGas", "moveEvidence"} \subseteq HoldingPoints
      BY DEF HoldingPoints, FundPoints, MovePoints, RevokePoints
    <3>2. pc[p] \in HoldingPoints => loc[p].tx \in Tx
      BY HoldingRuns
    <3>3. pc[p] = "prepare" => loc[p].key \in Keys /\ loc[p].amount # 0 /\ loc[p].amount \in Amounts
      BY AtWork, OwnRuns
    <3> QED
      BY <3>1, <3>2, <3>3, AtWork DEF WorkSound
  <2> QED
    BY <2>1 DEF TypeOK, WInv, ManagedTables, PrepTypeOK
<1> QED
  BY <1>1, <1>2, <1>3 DEF ManagedIsTrue, WInv, ManagedTables

\* What the leases, the answers and the preparations of a managed wallet say
\* happened has happened on the chain, in every interleaving of any number of
\* runs in any number of server processes (prepareAndBroadcastTransaction,
\* approveUserForSpendingViaFunding, moveFundsFromManagedWallet).
THEOREM ManagedIsTruthful == Spec => []ManagedIsTrue
<1>1. Init => WInv
  BY ManagedInitSound
<1>2. WInv /\ [Next]_vars => WInv'
  BY NextSound
<1>3. WInv => ManagedIsTrue
  BY ManagedFollows
<1> QED
  BY <1>1, <1>2, <1>3, PTL DEF Spec
-----------------------------------------------------------------------------
(* Who makes a funding unknown.                                            *)

\* The updates of wallet u's row that do not make a funding unknown.
OtherUpdate(u, new) ==
  \/ new \in {ClaimedPrep(u), RecoveredFunded(u), FundingPreflightFailed(u), Funded(u), Approved(u)}
  \/ new = [prep EXCEPT ![u].status = "approving"]
  \/ \E k, v : new \in {ToppedUp(u, k, v), FundingSubmitted(u, k, v), PreparedFunding(u, k, v)}
  \/ \E n : new = ApprovalSubmitted(u, n)
LEMMA FundingStays ==
  ASSUME ManagedTables, NEW u \in Managed, NEW w \in Managed, prep[w] # None, prep[w].status = "funding",
         NEW new, OtherUpdate(u, new)
  PROVE  new[w].status # "unknown"
<1>1. prep \in [Managed -> Preparation \cup {None}] /\ prep[w] \in Preparation
  BY DEF ManagedTables
<1>2. CASE new = ClaimedPrep(u)
  BY <1>1, <1>2 DEF ClaimedPrep, NewPreparation, Preparation
<1>3. CASE new = RecoveredFunded(u) \/ new = FundingPreflightFailed(u)
  BY <1>1, <1>3 DEF RecoveredFunded, FundingPreflightFailed, PrepWhere, Preparation
<1>4. ASSUME NEW k, NEW v, new = ToppedUp(u, k, v) PROVE new[w].status # "unknown"
  BY <1>1, <1>4 DEF ToppedUp, Preparation
<1>5. ASSUME NEW k, NEW t, new = FundingSubmitted(u, k, t) PROVE new[w].status # "unknown"
  BY <1>1, <1>5 DEF FundingSubmitted, PrepWhere, Preparation
<1>6. ASSUME NEW k, NEW t, new = PreparedFunding(u, k, t) PROVE new[w].status # "unknown"
  BY <1>1, <1>6 DEF PreparedFunding, Preparation
<1>7. CASE new = Funded(u) \/ new = Approved(u)
  BY <1>1, <1>7 DEF Funded, Approved, PrepWhere, Preparation
<1>8. CASE new = [prep EXCEPT ![u].status = "approving"]
  BY <1>1, <1>8 DEF Preparation
<1>9. ASSUME NEW n, new = ApprovalSubmitted(u, n) PROVE new[w].status # "unknown"
  BY <1>1, <1>9 DEF ApprovalSubmitted, PrepWhere, Preparation
<1>10. CASE new \in {ClaimedPrep(u), RecoveredFunded(u), FundingPreflightFailed(u), Funded(u), Approved(u)}
  BY <1>2, <1>3, <1>7, <1>10
<1> QED
  BY <1>4, <1>5, <1>6, <1>8, <1>9, <1>10 DEF OtherUpdate

\* A lease's callback and a run's own mark make only that attempt unknown.
LEMMA AttemptIsNamed ==
  ASSUME ManagedTables, NEW u \in Managed, NEW w \in Managed, prep[w] # None, prep[w].status = "funding", NEW k \in Keys,
         NEW t
  PROVE  /\ ParentMarked(k, "unknown")[w].status = "unknown" => prep[w].attempt = k
         /\ FundingUnknown(u, k, t)[w].status = "unknown" => prep[w].attempt = k
<1>1. prep[w].status # "unknown"
  OBVIOUS
<1>2. FundingUnknown(u, k, t)[w].status = "unknown" => prep[w].attempt = k
  BY <1>1 DEF PrepWhere, FundingUnknown, ManagedTables
<1>3. ParentMarked(k, "unknown")[w].status = "unknown" => prep[w].attempt = k
  <2>1. PICK v : v = lease[k].tx.wallet
    OBVIOUS
  <2> QED
    BY <1>1, <2>1 DEF ParentMarked, PrepWhere, CurrentAttempt, ManagedTables
<1> QED
  BY <1>2, <1>3

\* The run that makes a funding unknown is the one of its attempt.
LEMMA DemotedByItsOwn ==
  ASSUME WInv, [Next]_vars, NEW w \in Managed, prep[w] # None, prep[w].status = "funding",
         prep'[w].status = "unknown"
  PROVE  \E p \in Procs : pc'[p] # pc[p] /\ loc[p].key = prep[w].attempt
<1>1. prep' # prep
  OBVIOUS
<1>2. ManagedTables /\ pc \in [Procs -> ManagedPoints]
  BY DEF WInv, WorksTyped
<1>3. ASSUME NEW p \in Procs, NEW pt, NEW other, Goto(p, pt) \/ GotoWith(p, pt, other), pc[p] # pt
      PROVE  pc'[p] # pc[p]
  BY <1>2, <1>3 DEF Goto, GotoWith
<1>4. ASSUME NEW p \in Procs, PrepareFindsPrepared(p) \/ UnknownManaged(p)
      PROVE  pc'[p] # pc[p] /\ loc[p].key = prep[w].attempt
  <2>1. PICK k : k = loc[p].key
    OBVIOUS
  <2>2. k \in Keys
    <3>1. pc[p] \in {"prepare"} \cup LeasePoints
      BY <1>4 DEF PrepareFindsPrepared, UnknownManaged, LeasePoints
    <3>2. pc[p] \in LeasePoints => Holds(loc[p])
      BY <3>1, OwnRuns
    <3> QED
      BY <2>1, <3>1, <3>2, OwnRuns DEF Holds
  <2>3. prep' = ParentMarked(k, "unknown")
    BY <1>1, <1>4, <2>1 DEF PrepareFindsPrepared, UnknownManaged
  <2>4. prep[w].attempt = k
    BY <1>2, <2>2, <2>3, AttemptIsNamed
  <2>5. pc'[p] # pc[p]
    BY <1>2, <1>4 DEF PrepareFindsPrepared, UnknownManaged, Goto, GotoWith
  <2> QED
    BY <2>1, <2>4, <2>5
<1>5. ASSUME NEW p \in Procs, FundUnknown(p)
      PROVE  pc'[p] # pc[p] /\ loc[p].key = prep[w].attempt
  <2>1. PICK k, u, t : k = loc[p].key /\ u = loc[p].owner /\ t = loc[p].tx
    OBVIOUS
  <2>2. pc[p] \in FundPoints
    BY <1>5 DEF FundUnknown, FundPoints
  <2>3. k \in Keys /\ u \in Managed
    BY <2>1, <2>2, FundHolds, FundingIsSaved, KeyKinds, AtWork
  <2>4. prep' = FundingUnknown(u, k, t)
    BY <1>1, <1>5, <2>1 DEF FundUnknown, SavePrep
  <2>5. prep[w].attempt = k
    BY <1>2, <2>3, <2>4, AttemptIsNamed
  <2>6. pc'[p] # pc[p]
    BY <1>2, <1>5 DEF FundUnknown, SavePrep, Goto
  <2> QED
    BY <2>1, <2>5, <2>6
<1>6. ASSUME NEW p \in Procs, ApprovalUnknown(p) PROVE FALSE
  <2>1. PICK u : u = loc[p].owner
    OBVIOUS
  <2>2. u \in Managed /\ prep[u].status = "approving"
    BY <1>6, <2>1, ApprovingRuns DEF ApprovalUnknown, ApprovalPoints
  <2>3. prep'[w] = prep[w]
    BY <1>1, <1>2, <1>6, <2>1, <2>2 DEF PrepWhere, ApprovalUnknown, SavePrep, ApprovalOutcomeUnknown, ManagedTables
  <2> QED
    BY <2>3
<1>7. ASSUME NEW p \in Procs, NEW u \in Managed, u = loc[p].owner,
             \/ ClaimPreparation(p) \/ RecoverFunded(p) \/ ClaimTopUp(p) \/ FundPreflightFailed(p)
             \/ SaveSubmitted(p) \/ MarkFunded(p) \/ ClaimApproval(p) \/ SaveApproval(p) \/ MarkApproved(p)
             \/ PrepareManaged(p)
      PROVE  FALSE
  <2>1. PICK new : new = prep'
    OBVIOUS
  <2>2. OtherUpdate(u, new)
    <3>1. CASE ClaimPreparation(p)
      BY <1>1, <1>7, <2>1, <3>1 DEF OtherUpdate, ClaimPreparation, SavePrep
    <3>2. CASE RecoverFunded(p)
      BY <1>1, <1>7, <2>1, <3>2 DEF OtherUpdate, RecoverFunded
    <3>3. CASE ClaimTopUp(p)
      BY <1>1, <1>7, <2>1, <3>3 DEF OtherUpdate, ClaimTopUp, SavePrep
    <3>4. CASE FundPreflightFailed(p) \/ MarkFunded(p) \/ MarkApproved(p)
      BY <1>1, <1>7, <2>1, <3>4 DEF OtherUpdate, FundPreflightFailed, MarkFunded, MarkApproved, SavePrep
    <3>5. CASE SaveSubmitted(p)
      BY <1>1, <1>7, <2>1, <3>5 DEF OtherUpdate, SaveSubmitted, SavePrep
    <3>6. CASE ClaimApproval(p)
      BY <1>1, <1>7, <2>1, <3>6 DEF OtherUpdate, ClaimApproval, SavePrep
    <3>7. CASE SaveApproval(p)
      BY <1>1, <1>7, <2>1, <3>7 DEF OtherUpdate, SaveApproval, SavePrep
    <3>8. CASE PrepareManaged(p)
      BY <1>1, <1>7, <2>1, <3>8 DEF OtherUpdate, PrepareManaged
    <3> QED
      BY <1>7, <3>1, <3>2, <3>3, <3>4, <3>5, <3>6, <3>7, <3>8
  <2>3. new[w].status # "unknown"
    BY <1>2, <1>7, <2>2, FundingStays
  <2> QED
    BY <2>1, <2>3
<1>8. ASSUME NEW p \in Procs,
             ApprovalStep(p) \/ LeaseStep(p) \/ MoveStep(p) \/ RevokeStep(p) \/ CrashManaged(p)
      PROVE  \/ PrepareFindsPrepared(p) \/ UnknownManaged(p) \/ FundUnknown(p) \/ ApprovalUnknown(p)
             \/ /\ loc[p].owner \in Managed
                /\ \/ ClaimPreparation(p) \/ RecoverFunded(p) \/ ClaimTopUp(p) \/ FundPreflightFailed(p)
                   \/ SaveSubmitted(p) \/ MarkFunded(p) \/ ClaimApproval(p) \/ SaveApproval(p) \/ MarkApproved(p)
                   \/ PrepareManaged(p)
  <2>1. CASE ApprovalStep(p)
    <3>1. ~\E u \in Managed : StartApproval(p, u)
      BY <1>1 DEF StartApproval, managedVars
    <3>2. ~(\/ ProveFunding(p) \/ Measure(p) \/ MeasureTopUp(p) \/ CheckSubmitted(p) \/ AwaitFunding(p)
            \/ SendApproval(p) \/ AwaitApproval(p))
      BY <1>1 DEF ProveFunding, Measure, MeasureTopUp, CheckSubmitted, AwaitFunding, SendApproval,
                  AwaitApproval, managedVars
    <3>3. pc[p] # "idle" => loc[p].owner \in Managed
      BY AtWork
    <3>4. \/ ClaimPreparation(p) \/ RecoverFunded(p) \/ ClaimTopUp(p) \/ FundPreflightFailed(p)
          \/ SaveSubmitted(p) \/ MarkFunded(p) \/ ClaimApproval(p) \/ SaveApproval(p) \/ MarkApproved(p)
          => pc[p] # "idle"
      BY DEF ClaimPreparation, RecoverFunded, ClaimTopUp, FundPreflightFailed, SaveSubmitted, MarkFunded,
             ClaimApproval, SaveApproval, MarkApproved
    <3> QED
      BY <2>1, <3>1, <3>2, <3>3, <3>4 DEF ApprovalStep
  <2>2. CASE LeaseStep(p)
    <3>1. ~(\/ PrepareManagedRefused(p) \/ PrepareFindsOther(p) \/ PrepareFindsSent(p) \/ BroadcastManaged(p)
            \/ SubmitManaged(p))
      BY <1>1 DEF PrepareManagedRefused, PrepareFindsOther, PrepareFindsSent, BroadcastManaged, SubmitManaged,
                  managedVars
    <3>2. PrepareManaged(p) => loc[p].owner \in Managed
      BY OwnRuns DEF PrepareManaged
    <3> QED
      BY <2>2, <3>1, <3>2 DEF LeaseStep
  <2>3. CASE MoveStep(p)
    BY <1>1, <2>3 DEF MoveStep, StartMove, ReadBalance, AwaitMove, MoveEvidence, MoveFailed, managedVars
  <2>4. CASE RevokeStep(p) \/ CrashManaged(p)
    BY <1>1, <2>4 DEF RevokeStep, StartRevoke, AwaitRevokeGas, SendRevoke, CrashManaged, managedVars
  <2> QED
    BY <1>8, <2>1, <2>2, <2>3, <2>4
<1>9. ~(MineManaged \/ MineWallet \/ Deposit \/ EvictManaged \/ UNCHANGED vars)
  BY <1>1 DEF MineManaged, MineWallet, Deposit, EvictManaged, managedVars, vars
<1>10. PICK p \in Procs : ApprovalStep(p) \/ LeaseStep(p) \/ MoveStep(p) \/ RevokeStep(p) \/ CrashManaged(p)
  BY <1>9 DEF Next
<1> QED
  BY <1>4, <1>5, <1>6, <1>7, <1>8, <1>10

\* A funding under way is made unknown only by the run of that attempt: a
\* delayed callback of an older attempt never demotes a newer one
\* (updateApprovalFundingParent and markUnknown).
THEOREM NewerAttemptsStay == Spec => NewerAttemptKept
<1>1. Init => WInv
  BY ManagedInitSound
<1>2. WInv /\ [Next]_vars => WInv'
  BY NextSound
<1>3. WInv /\ [Next]_vars =>
        [\A w \in Managed :
           prep[w] # None /\ prep[w].status = "funding" /\ prep[w].attempt # None
             /\ prep'[w].status = "unknown"
             => \E p \in Procs : pc'[p] # pc[p] /\ loc[p].key = prep[w].attempt]_vars
  BY DemotedByItsOwn
<1> QED
  BY <1>1, <1>2, <1>3, PTL DEF Spec, NewerAttemptKept
=============================================================================
