--------------------------- MODULE AwardExecutor ---------------------------
(***************************************************************************)
(* Concurrent runs of processAwardFromCDR and recoverAwardOperation over   *)
(* the shared tables and the chain: lookup, claim, projection and the      *)
(* awards table. The transfer itself is TransferRuns. A run that is        *)
(* refused before it wrote anything is not a step.                         *)
(***************************************************************************)
EXTENDS TransferRuns

CONSTANTS
  Sessions,     \* physical charging sessions a CDR may name
  SessionOf,    \* the charging session of a key, or None for an unqualified CDR
  DedupOf,      \* the ambiguous legacy "session-provider" key of a key
  LegacyAwards, \* award rows the database may hold from before token_operations
  MaxFaults,    \* bound on failing calls and crashes
  MaxRuleEdits, \* bound on edits of the award rules
  MaxRelinks,   \* bound on changes of the owner's active wallet
  MaxReverts,   \* bound on transfers mined with a failed receipt
  MaxEvictions  \* bound on transfers evicted from the pool

AwardRow == [key: Keys, wallet: Wallets, amount: Amounts, tx: Tx \cup {None}]

ASSUME KeysAssumption == None \notin Sessions /\ SessionOf \in [Keys -> Sessions \cup {None}]

\* Older transfers are not among those of the model: None stands for their hash.
ASSUME LegacyAssumption ==
  LegacyAwards \subseteq [key: Keys, wallet: Wallets, amount: Amounts, tx: {None}]
ASSUME BoundsAssumption ==
  /\ MaxFaults \in Nat /\ MaxRuleEdits \in Nat /\ MaxRelinks \in Nat
  /\ MaxReverts \in Nat /\ MaxEvictions \in Nat

Budget == [faults: Nat, edits: Nat, relinks: Nat, reverts: Nat, evictions: Nat]

Points == {"idle", "resolve", "claim", "zero", "prepare", "preflight",
           "broadcast", "submitLease", "unknownLease", "submit", "verify",
           "fresh", "confirm", "unknown", "failNoMovement", "failReview",
           "record", "projectionError", "complete"}

\* What a run holds in memory: its request, and the recipient, amount and
\* hash it works with.
Locals == [key: Keys, intent: Intents, wallet: Wallets \cup {None},
           amount: Amounts, tx: Tx \cup {None}]

ASSUME NoneNotLocal == None \notin Locals /\ None \notin Row /\ None \notin Lease

VARIABLES
  awards,   \* the awards table; balances are credited in the same transaction
  answers,  \* successful results returned so far
  policy,   \* amount the current award rules give each CDR
  active    \* the owner's active wallet

vars == <<op, pool, paid, reverted, lease, awards, pc, loc, answers, policy, active, budget>>

awardVars == <<awards, answers, policy, active>>

Answer(k, a) == answers' = answers \cup {[key |-> k, amount |-> a]}

-----------------------------------------------------------------------------
(* processAwardFromCDR: look the operation up, resolve the owner, claim.   *)

\* Mutant: a confirmed row is taken for complete.
ReplayPointConfirmedDone(row) ==
  IF row.status \in {"failed", "projected", "confirmed"} THEN "idle"
  ELSE IF row.hash = None THEN (IF row.amount = 0 THEN "zero" ELSE "idle")
  ELSE IF row.status \in {"submitted", "unknown"} THEN "verify"
  ELSE "record"

\* projectAwardOperation dispatches on the saved row.
ReplayPoint(row) ==
  IF row.status \in {"failed", "projected"} THEN "idle"
  ELSE IF row.hash = None THEN (IF row.amount = 0 THEN "zero" ELSE "idle")
  ELSE IF row.status \in {"submitted", "unknown"} THEN "verify"
  ELSE "record"

\* findByKey, and the amount to work with: the saved one when a row exists,
\* otherwise what the current rules give. A zero-award row without a hash is
\* replayed at once.
Lookup(p, k, c) ==
  /\ pc[p] = "idle"
  /\ \/ /\ op[k] = None
        /\ GotoWith(p, "resolve", [key |-> k, intent |-> c, wallet |-> None,
                                   amount |-> policy[c], tx |-> None])
        /\ UNCHANGED answers
     \/ /\ op[k] # None /\ op[k].intent = c
        /\ LET zero == op[k].amount = 0 /\ op[k].hash = None IN
           /\ GotoWith(p, IF zero THEN ReplayPoint(op[k]) ELSE "claim",
                       [key |-> k, intent |-> c, wallet |-> op[k].wallet,
                        amount |-> op[k].amount, tx |-> None])
           /\ IF zero /\ op[k].status = "projected" THEN Answer(k, 0) ELSE UNCHANGED answers
  /\ UNCHANGED <<op, chainVars, lease, awards, policy, active, budget>>

\* Mutant: the owner's wallet is not resolved before the claim.
ResolveSkipped(p) ==
  /\ pc[p] = "resolve" /\ Goto(p, "claim")
  /\ UNCHANGED <<op, chainVars, lease, awards, answers, policy, active, budget>>

\* getUserWalletConfig: the active wallet at the time of the read.
Resolve(p) ==
  /\ pc[p] = "resolve"
  /\ GotoWith(p, "claim", [loc[p] EXCEPT !.wallet = active])
  /\ UNCHANGED <<op, chainVars, lease, awards, answers, policy, active, budget>>

\* Where a run that holds the claim goes on: by its own amount.
ClaimedPoint(p) == IF loc[p].amount = 0 THEN "zero" ELSE "prepare"

\* Mutant: only a claim still in flight blocks a replacement CDR.
SessionCollisionInFlight(k) ==
  /\ SessionOf[k] # None
  /\ \E other \in Keys \ {k} : /\ op[other] # None /\ SessionOf[other] = SessionOf[k]
                              /\ op[other].status \in OpenStatuses

\* Another key already owns the physical charging session.
SessionCollision(k) ==
  /\ SessionOf[k] # None
  /\ \E other \in Keys \ {k} : op[other] # None /\ SessionOf[other] = SessionOf[k]

\* Another key already owns the legacy deduplication key.
DedupCollision(k) ==
  \E other \in Keys \ {k} : op[other] # None /\ DedupOf[other] = DedupOf[k]

LegacyMatches(k) == {a \in awards : DedupOf[a.key] = DedupOf[k]}

\* claim finds no row and no collision, and inserts one.
ClaimNew(p) ==
  LET k == loc[p].key IN
  /\ pc[p] = "claim" /\ op[k] = None
  /\ ~SessionCollision(k) /\ ~DedupCollision(k) /\ LegacyMatches(k) = {}
  /\ SaveOp(p, Inserted(k, loc[p].intent, loc[p].wallet, loc[p].amount), ClaimedPoint(p), "idle")
  /\ UNCHANGED <<chainVars, lease, awards, answers, policy, active>>

\* claim takes over a preflight failure with the same intent.
ClaimReclaimed(p) ==
  LET k == loc[p].key IN
  /\ pc[p] = "claim" /\ op[k] # None /\ SameIntent(k, loc[p].intent, loc[p].wallet)
  /\ Reclaimable(k)
  /\ SaveOp(p, Reclaimed(k), ClaimedPoint(p), "idle")
  /\ UNCHANGED <<chainVars, lease, awards, answers, policy, active>>

\* claim is refused: another intent, session or legacy key owns the award,
\* or an award of the same session predates the table.
ClaimRefused(p) ==
  LET k == loc[p].key IN
  /\ pc[p] = "claim"
  /\ \/ op[k] # None /\ ~SameIntent(k, loc[p].intent, loc[p].wallet) /\ UNCHANGED answers
     \/ op[k] = None /\ (SessionCollision(k) \/ DedupCollision(k)) /\ UNCHANGED answers
     \/ /\ op[k] = None /\ ~SessionCollision(k) /\ ~DedupCollision(k)
        /\ \E a \in LegacyMatches(k) :
             IF a.key = k /\ a.wallet = loc[p].wallet THEN Answer(k, a.amount) ELSE UNCHANGED answers
  /\ Goto(p, "idle")
  /\ UNCHANGED <<op, chainVars, lease, awards, policy, active, budget>>

\* claim returns a row another run owns: replay it with its saved values.
ClaimReplay(p) ==
  LET k == loc[p].key IN
  /\ pc[p] = "claim" /\ op[k] # None /\ SameIntent(k, loc[p].intent, loc[p].wallet)
  /\ ~Reclaimable(k)
  /\ GotoWith(p, ReplayPoint(op[k]), [loc[p] EXCEPT !.amount = op[k].amount, !.tx = op[k].hash])
  /\ IF op[k].status = "projected" THEN Answer(k, op[k].amount) ELSE UNCHANGED answers
  /\ UNCHANGED <<op, chainVars, lease, awards, policy, active, budget>>

\* A zero-award decision needs no transfer: complete it.
ProjectZero(p) ==
  LET k == loc[p].key IN
  /\ pc[p] = "zero"
  /\ \/ op' = MarkProjected(k) /\ Answer(k, 0) /\ NoFault
     \/ op' \in {op, MarkProjected(k)} /\ UNCHANGED answers /\ Fault
  /\ Goto(p, "idle")
  /\ UNCHANGED <<chainVars, lease, awards, policy, active>>
-----------------------------------------------------------------------------
(* projectAwardOperation: evidence, confirmation, projection.              *)

\* recordAward, one transaction: a row with the same hash or the same
\* deduplication key must be this very award; otherwise insert it.
SameAward(a, p) ==
  a.key = loc[p].key /\ a.amount = loc[p].amount /\ a.wallet = loc[p].wallet

Clashing(p) ==
  {a \in awards : a.tx = loc[p].tx \/ DedupOf[a.key] = DedupOf[loc[p].key]}

Recorded(p) ==
  IF Clashing(p) = {}
  THEN awards \cup {[key |-> loc[p].key, wallet |-> loc[p].wallet,
                     amount |-> loc[p].amount, tx |-> loc[p].tx]}
  ELSE awards

Record(p) ==
  /\ pc[p] = "record"
  /\ \/ /\ \A a \in Clashing(p) : SameAward(a, p)
        /\ awards' = Recorded(p) /\ Goto(p, "complete") /\ NoFault
     \/ /\ \E a \in Clashing(p) : ~SameAward(a, p)
        /\ UNCHANGED awards /\ Goto(p, "projectionError") /\ NoFault
     \/ /\ \A a \in Clashing(p) : SameAward(a, p)
        /\ awards' \in {awards, Recorded(p)} /\ Goto(p, "projectionError") /\ Fault
  /\ UNCHANGED <<op, chainVars, lease, answers, policy, active>>

\* markProjected, and the successful result.
Complete(p) ==
  LET k == loc[p].key IN
  /\ pc[p] = "complete"
  /\ \/ op' = MarkProjected(k) /\ Answer(k, loc[p].amount) /\ NoFault
     \/ op' \in {op, MarkProjected(k)} /\ UNCHANGED answers /\ Fault
  /\ Goto(p, "idle")
  /\ UNCHANGED <<chainVars, lease, awards, policy, active>>
-----------------------------------------------------------------------------
(* recoverAwardOperation with fresh evidence (the admin recovery route). A *)
(* failed row stays as it is whatever the evidence, so that is no step.    *)

Recover(p, k) ==
  /\ pc[p] = "idle"
  /\ op[k] # None /\ op[k].hash # None /\ op[k].status \notin {"projected", "failed"}
  /\ GotoWith(p, "fresh", [key |-> k, intent |-> op[k].intent, wallet |-> op[k].wallet,
                           amount |-> op[k].amount, tx |-> op[k].hash])
  /\ UNCHANGED <<op, chainVars, lease, awards, answers, policy, active, budget>>

\* A projected row with a hash is answered from the saved values.
RecoverProjected(p, k) ==
  /\ pc[p] = "idle"
  /\ op[k] # None /\ op[k].hash # None /\ op[k].status = "projected"
  /\ Answer(k, op[k].amount)
  /\ UNCHANGED <<op, chainVars, lease, awards, pc, loc, policy, active, budget>>

-----------------------------------------------------------------------------
(* The environment.                                                        *)

MineNext ==
  /\ \E t \in pool : \/ Mine(t, TRUE) /\ NoFault
                     \/ /\ Mine(t, FALSE)
                        /\ budget.reverts > 0 /\ budget' = [budget EXCEPT !.reverts = @ - 1]
  /\ UNCHANGED <<op, lease, awards, pc, loc, answers, policy, active>>

\* An administrator edits the award rules.
EditRules ==
  /\ budget.edits > 0 /\ budget' = [budget EXCEPT !.edits = @ - 1]
  /\ \E c \in Intents, a \in Amounts : policy' = [policy EXCEPT ![c] = a]
  /\ UNCHANGED <<op, chainVars, lease, awards, pc, loc, answers, active>>

\* The owner activates another wallet.
Relink ==
  /\ budget.relinks > 0 /\ budget' = [budget EXCEPT !.relinks = @ - 1]
  /\ active' \in Wallets
  /\ UNCHANGED <<op, chainVars, lease, awards, pc, loc, answers, policy>>

\* The unique deduplication key of the awards table.
DedupUnique(table) == \A a, b \in table : DedupOf[a.key] = DedupOf[b.key] => a = b

Init ==
  /\ OperationsInit /\ ChainInit /\ LeaseInit
  /\ awards \in SUBSET LegacyAwards /\ DedupUnique(awards)
  /\ pc = [p \in Procs |-> "idle"] /\ loc = [p \in Procs |-> None]
  /\ answers = {}
  /\ policy \in [Intents -> Amounts] /\ active \in Wallets
  /\ budget = [faults |-> MaxFaults, edits |-> MaxRuleEdits, relinks |-> MaxRelinks,
               reverts |-> MaxReverts, evictions |-> MaxEvictions]

Submission(p) == SubmissionStep(p) /\ UNCHANGED awardVars
Projection(p) ==
  (EvidenceStep(p) /\ UNCHANGED awardVars) \/ Record(p) \/ Complete(p)
Claiming(p) ==
  \/ Resolve(p) \/ ClaimNew(p) \/ ClaimReclaimed(p) \/ ClaimRefused(p)
  \/ ClaimReplay(p) \/ ProjectZero(p)
Step(p) == Claiming(p) \/ Submission(p) \/ Projection(p)

Start(p) ==
  \E k \in Keys : Recover(p, k) \/ RecoverProjected(p, k) \/ \E c \in Intents : Lookup(p, k, c)
Environment == MineNext \/ (EvictOne /\ UNCHANGED awardVars) \/ EditRules \/ Relink

Next == (\E p \in Procs : Step(p) \/ Start(p) \/ (Crash(p) /\ UNCHANGED awardVars)) \/ Environment

Spec == Init /\ [][Next]_vars
-----------------------------------------------------------------------------
(* Properties.                                                             *)

\* The tables, the chain and the memory of every run hold values of their
\* types; a run knows its key from the start, its owner's wallet once it has
\* resolved it, and the signed transfer when it is about to send it.
TypeOK ==
  /\ OperationsTypeOK /\ ChainTypeOK /\ LeaseTypeOK
  /\ awards \subseteq AwardRow
  /\ pc \in [Procs -> Points]
  /\ loc \in [Procs -> Locals \cup {None}]
  /\ \A p \in Procs :
       /\ pc[p] # "idle" => loc[p] \in Locals
       /\ pc[p] \notin {"idle", "resolve"} => loc[p].wallet \in Wallets
       /\ pc[p] = "broadcast" => loc[p].tx \in Tx
  /\ answers \subseteq [key: Keys, amount: Amounts]
  /\ policy \in [Intents -> Amounts] /\ active \in Wallets
  /\ budget \in Budget

\* Two keys that stand for one award: the same key, the same physical
\* charging session, or the same legacy deduplication key.
SameAwardKeys(k, l) ==
  \/ k = l
  \/ SessionOf[k] # None /\ SessionOf[k] = SessionOf[l]
  \/ DedupOf[k] = DedupOf[l]

\* However CDR deliveries, retries, replacement CDRs, crashes and lost
\* answers interleave, the chain never holds two transfers for one award.
PaidOnce ==
  \A t, u \in Known : SameAwardKeys(t.key, u.key) => t = u

\* The nonce coordinator never lets a transfer reach the chain above a nonce
\* the chain has not seen, which would block it and all later ones, as long
\* as no node has dropped a transfer that it had accepted.
NoNonceGap ==
  budget.evictions = MaxEvictions =>
    \A t \in Known : \A n \in 0..t.nonce : \E u \in Known : u.nonce = n

SettledRowsKept ==
  \A k \in Keys : op[k] # None =>
    /\ op'[k] # None
    /\ op[k].hash # None => op'[k].hash = op[k].hash
    /\ op[k].status = "projected" \/ (op[k].status = "failed" /\ op[k].hash # None)
         => op'[k] = op[k]

\* A saved hash is never replaced, and a projected row, or a failed row with
\* a hash, never changes again, whichever stale run writes next.
SettledRowsStay == [][SettledRowsKept]_vars

\* Each recorded award is the transfer whose hash it carries: same key, owner
\* and amount, and an award is recorded (and its balance credited) once.
AwardsMatchTransfers ==
  /\ \A a \in awards : a.tx # None =>
       a.tx.key = a.key /\ a.tx.wallet = a.wallet /\ a.tx.amount = a.amount
  /\ DedupUnique(awards)

\* A successful result is durable: the row is projected with the answered
\* amount and a positive award is in the awards table, now and later. The
\* exception is a success answered without evidence of a transfer that then
\* fails: markProjected leaves the failed row alone and does not say so.
AnswersAreDurable ==
  \A x \in answers :
    \/ \E a \in awards \cap LegacyAwards : a.key = x.key /\ a.amount = x.amount
    \/ /\ op[x.key] # None /\ op[x.key].amount = x.amount
       /\ op[x.key].status = "projected" \/ op[x.key].hash \in reverted
       /\ x.amount > 0 => \E a \in awards : a.key = x.key /\ a.amount = x.amount

\* A transfer that was paid is never written off as failed.
PaidIsNotRejected ==
  \A t \in paid : op[t.key].status # "failed"

\* The outcome "confirmed" of a row means its transfer is proven on chain.
ConfirmedIsProven ==
  \A k \in Keys : op[k] # None /\ op[k].outcome = "confirmed" => op[k].hash \in paid

-----------------------------------------------------------------------------
(* Liveness: runs that are not crashed go on, and the sender keeps         *)
(* delivering the CDR of a key until it is answered.                       *)
Retry(k) == \E p \in Procs, c \in Intents : Lookup(p, k, c)

FairSpec ==
  /\ Spec
  /\ \A p \in Procs : WF_vars(Step(p))
  /\ \A k \in Keys : SF_vars(Retry(k))

\* A paid transfer ends up in the awards table, whatever failed in between.
PaidIsEventuallyRecorded ==
  \A k \in Keys : (\E t \in paid : t.key = k) ~> (\E a \in awards : a.key = k)
=============================================================================
