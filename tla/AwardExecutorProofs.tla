------------------------ MODULE AwardExecutorProofs ------------------------
(***************************************************************************)
(* Safety of AwardExecutor for every number of keys, runs, wallets and     *)
(* amounts and every bound on faults, by one inductive invariant, IInv;    *)
(* that it implements AwardLedger; what becomes of an award's transfer, by *)
(* three more invariants on top of IInv; and what AwardLedger promises.    *)
(***************************************************************************)
EXTENDS AwardRefinement, AwardLedger, TransferRunsProofs

\* Points at which a run works with a saved hash.
HashPoints == Points \ {"idle", "resolve", "claim", "zero", "prepare", "preflight"}

\* Runs past the preparation hold the hash of their row.
HoldersMatch ==
  \A p \in Procs : pc[p] \in HashPoints =>
    op[loc[p].key] # None /\ op[loc[p].key].hash # None /\ op[loc[p].key].hash = loc[p].tx

\* A run between claim and commit owns an untouched row.
OwnersMatch ==
  \A p \in Procs :
    /\ pc[p] = "prepare" => Untouched(op[loc[p].key]) /\ op[loc[p].key].hash = None
    /\ pc[p] = "preflight" => /\ op[loc[p].key] # None
                              /\ op[loc[p].key].hash = None => Untouched(op[loc[p].key])

\* Only one run is between claim and commit of a hashless row.
OwnersExclude ==
  \A p, q \in Procs :
    /\ pc[p] \in {"prepare", "preflight"} /\ pc[q] \in {"prepare", "preflight"}
    /\ loc[p].key = loc[q].key /\ op[loc[p].key].hash = None
    => p = q

\* What a row's outcome says about its hash and amount.
RowsAreSound ==
  \A k \in Keys : op[k] # None =>
    /\ op[k].hash # None => op[k].amount # 0
    /\ op[k].hash # None /\ op[k].outcome = "no_movement" => op[k].hash \in reverted
    /\ op[k].hash = None /\ op[k].status = "failed" => op[k].amount # 0
    /\ op[k].status = "projected" =>
         op[k].outcome = IF op[k].amount = 0 THEN "no_movement" ELSE "confirmed"

\* A rejected transfer was read from a failed receipt.
RejectionsAreProven ==
  \A p \in Procs : pc[p] = "failNoMovement" => loc[p].tx \in reverted

\* Two keys of one award never both have a row.
OneRowPerAward ==
  \A k, l \in Keys : op[k] # None /\ op[l] # None /\ SameAwardKeys(k, l) => k = l

IInv ==
  /\ TypeOK /\ LeaseMatchesRow /\ NonceNeverReused /\ ChainIsLeased
  /\ HoldersMatch /\ OwnersMatch /\ OwnersExclude
  /\ RowsAreSound /\ RejectionsAreProven /\ OneRowPerAward
-----------------------------------------------------------------------------
(* Type correctness.                                                       *)

\* Every step of every run and of the environment keeps the types.
LEMMA TypeStep == TypeOK /\ [Next]_vars => TypeOK'
<1> SUFFICES ASSUME TypeOK, [Next]_vars PROVE TypeOK'
  OBVIOUS
<1> USE NoneAssumption, NoneNotLocal, AmountsAssumption
<1> USE DEF TypeOK, OperationsTypeOK, ChainTypeOK, LeaseTypeOK, chainVars,
            Locals, Points, Budget, Fault, NoFault, awardVars
<1>1. ASSUME NEW p \in Procs, Resolve(p) PROVE TypeOK'
  BY <1>1 DEF Resolve, GotoWith
<1>2. ASSUME NEW p \in Procs, ClaimNew(p) PROVE TypeOK'
  BY <1>2 DEF ClaimNew, Inserted, NewRow, Row, Statuses, OpenStatuses, Outcomes, SaveOp, Goto, ClaimedPoint
<1>3. ASSUME NEW p \in Procs, ClaimReclaimed(p) PROVE TypeOK'
  BY <1>3 DEF ClaimReclaimed, Reclaimed, Row, Statuses, OpenStatuses, Outcomes, SaveOp, Goto, ClaimedPoint
<1>4. ASSUME NEW p \in Procs, ClaimRefused(p) PROVE TypeOK'
  BY <1>4 DEF ClaimRefused, Goto, Answer, LegacyMatches, AwardRow
<1>5. ASSUME NEW p \in Procs, ClaimReplay(p) PROVE TypeOK'
  <2>1. loc[p] \in Locals /\ loc[p].wallet \in Wallets /\ loc[p].key \in Keys
    BY <1>5 DEF ClaimReplay
  <2>2. op[loc[p].key] \in Row
    BY <1>5, <2>1 DEF ClaimReplay
  <2>3. ReplayPoint(op[loc[p].key]) \in {"idle", "zero", "verify", "record"}
    BY DEF ReplayPoint
  <2>4. [loc[p] EXCEPT !.amount = op[loc[p].key].amount, !.tx = op[loc[p].key].hash] \in Locals
    BY <2>1, <2>2 DEF Row
  <2>5. answers' \subseteq [key: Keys, amount: Amounts]
    BY <1>5, <2>1, <2>2 DEF ClaimReplay, Answer, Row
  <2> QED
    BY <1>5, <2>1, <2>3, <2>4, <2>5 DEF ClaimReplay, GotoWith
<1>6. ASSUME NEW p \in Procs, ProjectZero(p) PROVE TypeOK'
  <2>1. loc[p].key \in Keys /\ loc[p].tx \in Tx \cup {None}
    BY <1>6 DEF ProjectZero
  <2>2. MarkProjected(loc[p].key) \in [Keys -> Row \cup {None}]
    BY <2>1, MarksType
  <2>3. op' \in [Keys -> Row \cup {None}]
    BY <1>6, <2>2 DEF ProjectZero
  <2> QED
    BY <1>6, <2>1, <2>3 DEF ProjectZero, Goto, Answer
<1>7. ASSUME NEW p \in Procs, Prepare(p), UNCHANGED awardVars PROVE TypeOK'
  <2>1. /\ loc[p] \in Locals /\ loc[p].wallet \in Wallets /\ loc[p].key \in Keys
        /\ UNCHANGED <<awards, answers, policy, active, pool, paid, reverted>>
    BY <1>7 DEF Prepare
  <2>2. PICK pending \in ReportedNonces : \E n \in NextNonces(pending) :
          /\ TargetOpen(loc[p].key, Transfer(p, n))
          /\ lease' = PreparedLease(loc[p].key, Transfer(p, n))
          /\ op' = PreparedTarget(loc[p].key, Transfer(p, n))
          /\ budget' \in Budget
          /\ \/ GotoWith(p, "broadcast", [loc[p] EXCEPT !.tx = Transfer(p, n)])
             \/ Goto(p, "preflight")
    BY <1>7 DEF Prepare
  <2>3. PICK n \in NextNonces(pending) :
          /\ TargetOpen(loc[p].key, Transfer(p, n))
          /\ lease' = PreparedLease(loc[p].key, Transfer(p, n))
          /\ op' = PreparedTarget(loc[p].key, Transfer(p, n))
          /\ budget' \in Budget
          /\ \/ GotoWith(p, "broadcast", [loc[p] EXCEPT !.tx = Transfer(p, n)])
             \/ Goto(p, "preflight")
    BY <2>2
  <2>4. Transfer(p, n) \in Tx
    BY <2>1, <2>2, <2>3 DEF Transfer, Tx, NextNonces, ReportedNonces, Known, Mined, Holding, Leased, Lease
  <2>5. op' \in [Keys -> Row \cup {None}] /\ lease' \in [Keys -> Lease \cup {None}]
    BY <2>1, <2>3, <2>4 DEF PreparedLease, PreparedTarget, TargetOpen, Lease, LeaseStatuses,
       Row, Statuses, OpenStatuses
  <2> QED
    BY <2>1, <2>3, <2>4, <2>5 DEF GotoWith, Goto
<1>8. ASSUME NEW p \in Procs, PrepareRefused(p), UNCHANGED awardVars PROVE TypeOK'
  BY <1>8 DEF PrepareRefused, Goto
<1>9. ASSUME NEW p \in Procs, PreflightFailed(p), UNCHANGED awardVars PROVE TypeOK'
  <2>1. loc[p].key \in Keys /\ loc[p].tx \in Tx \cup {None}
    BY <1>9 DEF PreflightFailed
  <2>2. MarkPreflightFailed(loc[p].key) \in [Keys -> Row \cup {None}]
    BY <2>1, MarksType
  <2>3. op' \in [Keys -> Row \cup {None}]
    BY <1>9, <2>2 DEF PreflightFailed, SaveOp
  <2> QED
    BY <1>9, <2>1, <2>3 DEF PreflightFailed, SaveOp, Goto
<1>10. ASSUME NEW p \in Procs, Broadcast(p), UNCHANGED awardVars PROVE TypeOK'
  BY <1>10 DEF Broadcast, Goto, Accept
<1>11. ASSUME NEW p \in Procs, SubmitLease(p), UNCHANGED awardVars PROVE TypeOK'
  <2>1. /\ TargetMarked(loc[p].key, "submitted") \in [Keys -> Row \cup {None}]
        /\ LeaseMarked(loc[p].key, "submitted") \in [Keys -> Lease \cup {None}]
    BY <1>11 DEF SubmitLease, TargetMarked, LeaseMarked, UpdateWhere, Row, Lease, LeaseStatuses, Statuses, OpenStatuses
  <2>2. op' \in [Keys -> Row \cup {None}] /\ lease' \in [Keys -> Lease \cup {None}]
    BY <1>11, <2>1 DEF SubmitLease
  <2> QED
    BY <1>11, <2>2 DEF SubmitLease, Goto
<1>12. ASSUME NEW p \in Procs, UnknownLease(p), UNCHANGED awardVars PROVE TypeOK'
  BY <1>12 DEF UnknownLease, Goto, TargetMarked, LeaseMarked, UpdateWhere, Row, Lease, LeaseStatuses, Statuses, OpenStatuses, Outcomes
<1>13. ASSUME NEW p \in Procs, Submit(p), UNCHANGED awardVars PROVE TypeOK'
  <2>1. loc[p].key \in Keys /\ loc[p].tx \in Tx \cup {None}
    BY <1>13 DEF Submit
  <2>2. MarkSubmitted(loc[p].key, loc[p].tx) \in [Keys -> Row \cup {None}]
    BY <2>1, MarksType
  <2>3. op' \in [Keys -> Row \cup {None}]
    BY <1>13, <2>2 DEF Submit, SaveOp
  <2> QED
    BY <1>13, <2>1, <2>3 DEF Submit, SaveOp, Goto
<1>14. ASSUME NEW p \in Procs, Verify(p), UNCHANGED awardVars PROVE TypeOK'
  BY <1>14 DEF Verify, Goto, EvidencePoint, Evidence, DegradedEvidence
<1>15. ASSUME NEW p \in Procs, VerifyFresh(p), UNCHANGED awardVars PROVE TypeOK'
  BY <1>15 DEF VerifyFresh, Goto, FreshPoint, Evidence, DegradedEvidence
<1>16. ASSUME NEW p \in Procs, StillUnknown(p), UNCHANGED awardVars PROVE TypeOK'
  <2>1. loc[p].key \in Keys /\ loc[p].tx \in Tx \cup {None}
    BY <1>16 DEF StillUnknown
  <2>2. MarkUnknown(loc[p].key) \in [Keys -> Row \cup {None}]
    BY <2>1, MarksType
  <2>3. op' \in [Keys -> Row \cup {None}]
    BY <1>16, <2>2 DEF StillUnknown, SaveOp
  <2> QED
    BY <1>16, <2>1, <2>3 DEF StillUnknown, SaveOp, Goto
<1>17. ASSUME NEW p \in Procs, RejectEvidence(p), UNCHANGED awardVars PROVE TypeOK'
  <2>1. loc[p].key \in Keys
    BY <1>17 DEF RejectEvidence
  <2>2. \A o \in {"no_movement", "review"} : MarkFailed(loc[p].key, o) \in [Keys -> Row \cup {None}]
    BY <2>1, MarksType DEF Outcomes
  <2>3. op' \in [Keys -> Row \cup {None}]
    BY <1>17, <2>2 DEF RejectEvidence, SaveOp
  <2> QED
    BY <1>17, <2>3 DEF RejectEvidence, SaveOp, Goto
<1>18. ASSUME NEW p \in Procs, Confirm(p), UNCHANGED awardVars PROVE TypeOK'
  <2>1. loc[p].key \in Keys
    BY <1>18 DEF Confirm
  <2>2. MarkConfirmed(loc[p].key) \in [Keys -> Row \cup {None}]
    BY <2>1, MarksType
  <2>3. op' \in [Keys -> Row \cup {None}]
    BY <1>18, <2>2 DEF Confirm, SaveOp
  <2> QED
    BY <1>18, <2>3 DEF Confirm, SaveOp, Goto
<1>19. ASSUME NEW p \in Procs, Record(p) PROVE TypeOK'
  BY <1>19 DEF Record, Goto, Recorded, AwardRow
<1>20. ASSUME NEW p \in Procs, ProjectionError(p), UNCHANGED awardVars PROVE TypeOK'
  <2>1. loc[p].key \in Keys /\ loc[p].tx \in Tx \cup {None}
    BY <1>20 DEF ProjectionError
  <2>2. MarkProjectionError(loc[p].key) \in [Keys -> Row \cup {None}]
    BY <2>1, MarksType
  <2>3. op' \in [Keys -> Row \cup {None}]
    BY <1>20, <2>2 DEF ProjectionError, SaveOp
  <2> QED
    BY <1>20, <2>1, <2>3 DEF ProjectionError, SaveOp, Goto
<1>21. ASSUME NEW p \in Procs, Complete(p) PROVE TypeOK'
  <2>1. loc[p].key \in Keys /\ loc[p].tx \in Tx \cup {None}
    BY <1>21 DEF Complete
  <2>2. MarkProjected(loc[p].key) \in [Keys -> Row \cup {None}]
    BY <2>1, MarksType
  <2>3. op' \in [Keys -> Row \cup {None}]
    BY <1>21, <2>2 DEF Complete
  <2> QED
    BY <1>21, <2>1, <2>3 DEF Complete, Goto, Answer
<1>22. ASSUME NEW p \in Procs, Crash(p), UNCHANGED awardVars PROVE TypeOK'
  BY <1>22 DEF Crash, Goto
<1>23. ASSUME NEW p \in Procs, NEW k \in Keys, NEW c \in Intents, Lookup(p, k, c) PROVE TypeOK'
  BY <1>23 DEF Lookup, GotoWith, ReplayPoint, Answer, Row
<1>24. ASSUME NEW p \in Procs, NEW k \in Keys, Recover(p, k) PROVE TypeOK'
  BY <1>24 DEF Recover, GotoWith, Row
<1>25. ASSUME NEW p \in Procs, NEW k \in Keys, RecoverProjected(p, k) PROVE TypeOK'
  BY <1>25 DEF RecoverProjected, Answer, Row
<1>26. ASSUME Environment PROVE TypeOK'
  BY <1>26 DEF Environment, MineNext, Mine, EvictOne, Evict, EditRules, Relink
<1>27. CASE UNCHANGED vars
  BY <1>27 DEF vars
<1> QED
  BY <1>1, <1>2, <1>3, <1>4, <1>5, <1>6, <1>7, <1>8, <1>9, <1>10, <1>11, <1>12, <1>13, <1>14, <1>15, <1>16, <1>17, <1>18, <1>19, <1>20, <1>21, <1>22, <1>23, <1>24, <1>25, <1>26, <1>27 DEF Next, Step, Start, Claiming, Submission, Projection,
     SubmissionStep, EvidenceStep
-----------------------------------------------------------------------------
(* Most steps leave every hash, amount and lease transfer in place.        *)

\* A new state of a row, with the transfer, the owner and the intent it had.
SameRow(n, r) ==
  n.hash = r.hash /\ n.amount = r.amount /\ n.wallet = r.wallet /\ n.intent = r.intent

\* No row or lease appears, vanishes or changes hash, amount or owner, the
\* chain stays, and only the row of key k changes.
Kept(k) ==
  /\ \A l \in Keys :
       /\ op'[l] = None <=> op[l] = None
       /\ op[l] # None => SameRow(op'[l], op[l])
       /\ l # k => op'[l] = op[l]
       /\ lease'[l] = None <=> lease[l] = None
       /\ lease[l] # None => lease'[l].tx = lease[l].tx
  /\ pool' = pool /\ paid' = paid /\ reverted' = reverted

MarkStep(p) ==
  \/ ProjectZero(p) \/ PreflightFailed(p) \/ SubmitLease(p) \/ UnknownLease(p)
  \/ Submit(p) \/ StillUnknown(p) \/ RejectEvidence(p) \/ Confirm(p)
  \/ ProjectionError(p) \/ Complete(p)

\* An UPDATE that keeps hash and amount changes nothing else the leases and
\* the chain depend on.
LEMMA UpdateKeeps ==
  ASSUME TypeOK, NEW k \in Keys, NEW guard, NEW row,
         op[k] # None /\ guard => row \in Row /\ SameRow(row, op[k]),
         op' \in {op, UpdateWhere(k, guard, row)}, lease' = lease, UNCHANGED chainVars
  PROVE  Kept(k)
BY NoneNotLocal DEF Kept, SameRow, UpdateWhere, TypeOK, OperationsTypeOK, chainVars

\* Every marking step is such an update: no mark replaces a hash.
LEMMA MarksKeep ==
  ASSUME IInv, NEW p \in Procs, MarkStep(p)
  PROVE  Kept(loc[p].key)
<1> DEFINE k == loc[p].key
<1> DEFINE r == op[k]
<1>0. k \in Keys /\ TypeOK
  BY DEF IInv, TypeOK, MarkStep, ProjectZero, PreflightFailed, SubmitLease, UnknownLease, Submit,
     StillUnknown, RejectEvidence, Confirm, ProjectionError, Complete, Locals
<1>r. r # None => r \in Row
  BY <1>0 DEF TypeOK, OperationsTypeOK
<1>1. CASE ProjectZero(p)
  BY <1>0, <1>r, <1>1, UpdateKeeps DEF SameRow, ProjectZero, MarkProjected, Row, Statuses, OpenStatuses, Outcomes
<1>2. CASE PreflightFailed(p)
  <2>1. ASSUME r # None
        PROVE  LET row == [r EXCEPT !.status = "failed", !.outcome = "no_movement"] IN
               row \in Row /\ SameRow(row, r)
    BY <1>r, <2>1 DEF SameRow, Row, Statuses, Outcomes
  <2>2. op' \in {op, MarkPreflightFailed(k)} /\ lease' = lease /\ UNCHANGED chainVars
    BY <1>2 DEF PreflightFailed, SaveOp
  <2> QED
    BY <1>0, <2>1, <2>2, UpdateKeeps DEF MarkPreflightFailed
<1>3. CASE Submit(p)
  <2>1. r # None /\ r.hash = loc[p].tx
    BY <1>3 DEF IInv, HoldersMatch, HashPoints, Points, Submit
  <2> QED
    BY <1>0, <1>r, <1>3, <2>1, UpdateKeeps DEF SameRow, Submit, SaveOp, MarkSubmitted, Row, Statuses, OpenStatuses
<1>4. CASE StillUnknown(p)
  BY <1>0, <1>r, <1>4, UpdateKeeps DEF SameRow, StillUnknown, SaveOp, MarkUnknown, Row, Statuses, OpenStatuses, Outcomes
<1>5. CASE RejectEvidence(p)
  BY <1>0, <1>r, <1>5, UpdateKeeps DEF SameRow, RejectEvidence, SaveOp, MarkFailed, Row, Statuses, OpenStatuses, Outcomes
<1>6. CASE Confirm(p)
  BY <1>0, <1>r, <1>6, UpdateKeeps DEF SameRow, Confirm, SaveOp, MarkConfirmed, Row, Statuses, OpenStatuses, Outcomes
<1>7. CASE ProjectionError(p)
  BY <1>0, <1>r, <1>7, UpdateKeeps DEF SameRow, ProjectionError, SaveOp, MarkProjectionError, Row, Statuses, OpenStatuses, Outcomes
<1>8. CASE Complete(p)
  BY <1>0, <1>r, <1>8, UpdateKeeps DEF SameRow, Complete, MarkProjected, Row, Statuses, OpenStatuses, Outcomes
<1>9. ASSUME NEW status \in {"submitted", "unknown"},
             op' \in {op, TargetMarked(k, status)}, lease' \in {lease, LeaseMarked(k, status)},
             UNCHANGED chainVars
      PROVE  Kept(k)
  <2>1. ASSUME NEW l \in Keys
        PROVE  /\ op'[l] = None <=> op[l] = None
               /\ op[l] # None => SameRow(op'[l], op[l])
               /\ l # k => op'[l] = op[l]
    <3>1. ASSUME r # None
          PROVE  LET row == [r EXCEPT !.status = status] IN
                 row \in Row /\ SameRow(row, r)
      BY <1>r, <3>1 DEF SameRow, Row, Statuses, OpenStatuses
    <3> QED
      BY <1>0, <1>9, <3>1, NoneNotLocal DEF SameRow, TargetMarked, UpdateWhere, TypeOK, OperationsTypeOK
  <2>2. ASSUME NEW l \in Keys
        PROVE  /\ lease'[l] = None <=> lease[l] = None
               /\ lease[l] # None => lease'[l].tx = lease[l].tx
    <3>1. lease[k] # None =>
            LET new == [lease[k] EXCEPT !.status = status] IN
            new \in Lease /\ new.tx = lease[k].tx
      BY <1>0 DEF TypeOK, LeaseTypeOK, Lease, LeaseStatuses
    <3> QED
      BY <1>0, <1>9, <3>1, NoneNotLocal DEF LeaseMarked, TypeOK, LeaseTypeOK
  <2> QED
    BY <1>9, <2>1, <2>2 DEF Kept, chainVars
<1>10. CASE SubmitLease(p) \/ UnknownLease(p)
  <2>1. \E status \in {"submitted", "unknown"} :
          /\ op' \in {op, TargetMarked(k, status)} /\ lease' \in {lease, LeaseMarked(k, status)}
          /\ UNCHANGED chainVars
    BY <1>10 DEF SubmitLease, UnknownLease
  <2> QED
    BY <1>9, <2>1
<1> QED
  BY <1>1, <1>2, <1>3, <1>4, <1>5, <1>6, <1>7, <1>8, <1>10 DEF MarkStep
-----------------------------------------------------------------------------
(* Steps that read the tables and the chain without changing them.         *)

\* Where a quiet step may take run p: to a point whose facts hold already.
QuietMove(p) ==
  /\ \A q \in Procs \ {p} : pc'[q] = pc[q] /\ loc'[q] = loc[q]
  /\ pc'[p] \in HashPoints => /\ op[loc'[p].key] # None /\ op[loc'[p].key].hash # None
                              /\ op[loc'[p].key].hash = loc'[p].tx
  /\ pc'[p] # "prepare"
  /\ pc'[p] = "preflight" => pc[p] = "prepare" /\ loc'[p] = loc[p]
  /\ pc'[p] = "failNoMovement" => loc'[p].tx \in reverted

QuietStep(p) ==
  \/ Resolve(p) \/ ClaimRefused(p) \/ ClaimReplay(p) \/ PrepareRefused(p)
  \/ Verify(p) \/ VerifyFresh(p) \/ Record(p) \/ Crash(p) \/ Start(p)

\* Every step that only reads takes its run to a point it is entitled to.
LEMMA QuietMoves ==
  ASSUME IInv, NEW p \in Procs, QuietStep(p)
  PROVE  QuietMove(p) /\ UNCHANGED <<op, chainVars, lease>>
<1> USE DEF HashPoints, Points
<1>0. /\ pc \in [Procs -> Points] /\ loc \in [Procs -> Locals \cup {None}]
      /\ pc[p] # "idle" => loc[p] \in Locals
  BY DEF IInv, TypeOK
<1>h. pc[p] \in HashPoints => /\ op[loc[p].key] # None /\ op[loc[p].key].hash # None
                             /\ op[loc[p].key].hash = loc[p].tx
  BY DEF IInv, HoldersMatch
<1>1. CASE Resolve(p) \/ ClaimRefused(p) \/ Crash(p)
  BY <1>0, <1>1 DEF Resolve, ClaimRefused, Crash, QuietMove, Goto, GotoWith
<1>2. CASE ClaimReplay(p)
  <2> DEFINE k == loc[p].key
  <2> DEFINE memory == [loc[p] EXCEPT !.amount = op[k].amount, !.tx = op[k].hash]
  <2>1. /\ ReplayPoint(op[k]) \in {"idle", "zero", "verify", "record"}
        /\ ReplayPoint(op[k]) \in {"verify", "record"} => op[k].hash # None
    BY DEF ReplayPoint
  <2>2. memory.key = k /\ memory.tx = op[k].hash
    BY <1>0, <1>2 DEF ClaimReplay, Locals
  <2>3. op[k] # None /\ UNCHANGED <<op, chainVars, lease>>
    BY <1>2 DEF ClaimReplay
  <2>4. /\ pc'[p] = ReplayPoint(op[k])
        /\ pc'[p] # "idle" => loc'[p] = memory
        /\ \A q \in Procs \ {p} : pc'[q] = pc[q] /\ loc'[q] = loc[q]
    BY <1>0, <1>2 DEF ClaimReplay, GotoWith
  <2> QED
    BY <2>1, <2>2, <2>3, <2>4 DEF QuietMove
<1>3. CASE PrepareRefused(p) \/ Record(p)
  BY <1>0, <1>h, <1>3 DEF PrepareRefused, Record, QuietMove, Goto
<1>4. CASE Verify(p)
  <2>1. \A e : EvidencePoint(e) \in {"confirm", "failNoMovement", "failReview", "unknown"}
    BY DEF EvidencePoint
  <2>2. EvidencePoint(Evidence(loc[p].tx, loc[p].wallet, loc[p].amount)) = "failNoMovement"
          => loc[p].tx \in reverted
    BY DEF EvidencePoint, Evidence, Known, Mined
  <2>3. \A e \in DegradedEvidence : EvidencePoint(e) # "failNoMovement"
    BY DEF EvidencePoint, DegradedEvidence
  <2>4. /\ \E e : pc'[p] = EvidencePoint(e)
        /\ pc'[p] = "failNoMovement" => loc[p].tx \in reverted
        /\ loc' = loc /\ UNCHANGED <<op, chainVars, lease>>
        /\ \A q \in Procs \ {p} : pc'[q] = pc[q]
    BY <1>0, <1>4, <2>1, <2>2, <2>3 DEF Verify, Goto
  <2> QED
    BY <1>4, <1>h, <2>1, <2>4 DEF QuietMove, Verify
<1>5. CASE VerifyFresh(p)
  <2>1. \A e : FreshPoint(e) \in {"confirm", "unknown", "idle"}
    BY DEF FreshPoint
  <2> QED
    BY <1>0, <1>5, <1>h, <2>1 DEF VerifyFresh, QuietMove, Goto
<1>6. ASSUME NEW k \in Keys, Recover(p, k)
      PROVE  QuietMove(p) /\ UNCHANGED <<op, chainVars, lease>>
  BY <1>0, <1>6 DEF Recover, QuietMove, GotoWith
<1>7. ASSUME NEW k \in Keys, RecoverProjected(p, k)
      PROVE  QuietMove(p) /\ UNCHANGED <<op, chainVars, lease>>
  BY <1>7 DEF RecoverProjected, QuietMove
<1>8. ASSUME NEW k \in Keys, NEW c \in Intents, Lookup(p, k, c)
      PROVE  QuietMove(p) /\ UNCHANGED <<op, chainVars, lease>>
  <2>1. op[k].hash = None => ReplayPoint(op[k]) \in {"idle", "zero"}
    BY DEF ReplayPoint
  <2> QED
    BY <1>0, <1>8, <2>1 DEF Lookup, QuietMove, GotoWith
<1> QED
  BY <1>1, <1>2, <1>3, <1>4, <1>5, <1>6, <1>7, <1>8 DEF QuietStep, Start

\* Everything IInv says beyond the types.
RestOfIInv ==
  /\ LeaseMatchesRow /\ NonceNeverReused /\ ChainIsLeased
  /\ HoldersMatch /\ OwnersMatch /\ OwnersExclude
  /\ RowsAreSound /\ RejectionsAreProven /\ OneRowPerAward

\* A quiet move preserves the invariant.
LEMMA QuietKeeps ==
  ASSUME IInv, NEW p \in Procs, QuietMove(p), UNCHANGED <<op, chainVars, lease>>
  PROVE  RestOfIInv'
<1> USE DEF chainVars
<1>1. LeaseMatchesRow' /\ NonceNeverReused' /\ ChainIsLeased' /\ RowsAreSound' /\ OneRowPerAward'
  BY DEF IInv, LeaseMatchesRow, NonceNeverReused, Leased, ChainIsLeased, RowsAreSound,
     OneRowPerAward, SameAwardKeys
<1>2. HoldersMatch' /\ RejectionsAreProven'
  BY DEF IInv, HoldersMatch, RejectionsAreProven, QuietMove
<1>3. OwnersMatch'
  BY DEF IInv, OwnersMatch, Untouched, QuietMove
<1>4. OwnersExclude'
  BY DEF IInv, OwnersExclude, QuietMove
<1> QED
  BY <1>1, <1>2, <1>3, <1>4 DEF RestOfIInv
-----------------------------------------------------------------------------
(* Steps that mark a row or a lease.                                       *)

\* A step of run p leaves the other runs alone.
LEMMA OthersStay ==
  ASSUME IInv, NEW p \in Procs,
         Claiming(p) \/ SubmissionStep(p) \/ EvidenceStep(p) \/ Record(p) \/ Complete(p)
  PROVE  \A q \in Procs \ {p} : pc'[q] = pc[q] /\ loc'[q] = loc[q]
<1>0. pc \in [Procs -> Points] /\ loc \in [Procs -> Locals \cup {None}]
  BY DEF IInv, TypeOK
<1>1. \A point : Goto(p, point) => \A q \in Procs \ {p} : pc'[q] = pc[q] /\ loc'[q] = loc[q]
  BY <1>0 DEF Goto
<1>2. \A point, memory : GotoWith(p, point, memory)
                           => \A q \in Procs \ {p} : pc'[q] = pc[q] /\ loc'[q] = loc[q]
  BY <1>0 DEF GotoWith
<1>3. (\E point : Goto(p, point)) \/ (\E point, memory : GotoWith(p, point, memory))
  BY DEF Claiming, SubmissionStep, EvidenceStep, Resolve, ClaimNew, ClaimReclaimed, ClaimRefused,
     ClaimReplay, ProjectZero, Prepare, PrepareRefused, PreflightFailed, Broadcast, SubmitLease,
     UnknownLease, Submit, Verify, VerifyFresh, StillUnknown, RejectEvidence, Confirm, Record,
     ProjectionError, Complete, SaveOp
<1> QED
  BY <1>1, <1>2, <1>3

\* Where a marking step may take its run: it never starts to own a row, and
\* it keeps its memory on the way.
LEMMA MarksMove ==
  ASSUME IInv, NEW p \in Procs, MarkStep(p)
  PROVE  /\ \A q \in Procs \ {p} : pc'[q] = pc[q] /\ loc'[q] = loc[q]
         /\ pc'[p] \in {"idle", "submit", "unknownLease", "verify", "unknown", "record"}
         /\ pc'[p] # "idle" => pc[p] \in HashPoints /\ loc'[p] = loc[p]
<1>0. pc \in [Procs -> Points] /\ loc \in [Procs -> Locals \cup {None}]
  BY DEF IInv, TypeOK
<1>1. \A q \in Procs \ {p} : pc'[q] = pc[q] /\ loc'[q] = loc[q]
  BY OthersStay DEF MarkStep, Claiming, SubmissionStep, EvidenceStep
<1>2. \A point : Goto(p, point) => pc'[p] = point /\ (point # "idle" => loc'[p] = loc[p])
  BY <1>0 DEF Goto
<1>3. CASE ProjectZero(p) \/ Complete(p)
  BY <1>1, <1>2, <1>3 DEF ProjectZero, Complete
<1>4. CASE SubmitLease(p)
  BY <1>1, <1>2, <1>4 DEF SubmitLease, HashPoints, Points
<1>5. CASE UnknownLease(p)
  BY <1>1, <1>2, <1>5 DEF UnknownLease, HashPoints, Points
<1>6. CASE Submit(p) \/ Confirm(p)
  BY <1>1, <1>2, <1>6 DEF Submit, Confirm, SaveOp, HashPoints, Points
<1>7. CASE PreflightFailed(p) \/ StillUnknown(p) \/ RejectEvidence(p) \/ ProjectionError(p)
  BY <1>1, <1>2, <1>7 DEF PreflightFailed, StillUnknown, RejectEvidence, ProjectionError, SaveOp
<1> QED
  BY <1>3, <1>4, <1>5, <1>6, <1>7 DEF MarkStep

\* What the marks may do to a row r with hash or amount kept: move an open
\* row on, reject it on the proof of a failed receipt, release an untouched
\* row, or complete it.
MovedOn(r, n) ==
  /\ r.hash # None /\ r.status \in OpenStatuses \cup {"confirmed"}
  /\ n.status \in Statuses \ {"projected"} /\ n.outcome \in {r.outcome, "confirmed", "review"}
Rejected(r, n) ==
  /\ r.hash \in reverted /\ r.hash # None /\ r.status \in OpenStatuses
  /\ n.status = "failed" /\ n.outcome = "no_movement"
Released(p, r, n) ==
  /\ pc[p] = "preflight" /\ r.hash = None /\ Untouched(r)
  /\ n.status = "failed" /\ n.outcome = "no_movement"
Completed(r, n) ==
  /\ r.status # "failed" /\ (r.hash # None \/ r.amount = 0)
  /\ n.status = "projected"
  /\ n.outcome = IF r.amount = 0 THEN "no_movement" ELSE "confirmed"
  /\ r.status = "projected" => n = r

RowChange(p, r, n) ==
  n = r \/ MovedOn(r, n) \/ Rejected(r, n) \/ Released(p, r, n) \/ Completed(r, n)

\* Every marking step changes its row in one of these ways: the guards of the
\* SQL updates exclude all others, given what the run knows.
LEMMA MarkedRow ==
  ASSUME IInv, NEW p \in Procs, MarkStep(p), op[loc[p].key] # None
  PROVE  RowChange(p, op[loc[p].key], op'[loc[p].key])
<1> DEFINE k == loc[p].key
<1> DEFINE r == op[k]
<1> USE DEF RowChange
<1>0. k \in Keys /\ TypeOK /\ op \in [Keys -> Row \cup {None}]
  BY DEF IInv, TypeOK, OperationsTypeOK, MarkStep, ProjectZero, PreflightFailed, SubmitLease,
     UnknownLease, Submit, StillUnknown, RejectEvidence, Confirm, ProjectionError, Complete, Locals
<1>r. r \in Row
  BY <1>0
<1>h. pc[p] \in HashPoints => r.hash # None /\ r.hash = loc[p].tx
  BY DEF IInv, HoldersMatch
<1>1. CASE ProjectZero(p) \/ Complete(p)
  <2> DEFINE n == [r EXCEPT !.status = "projected",
                            !.outcome = IF r.amount = 0 THEN "no_movement" ELSE "confirmed"]
  <2>1. op' \in {op, MarkProjected(k)}
    BY <1>1 DEF ProjectZero, Complete
  <2>2. op'[k] = r \/ (r.status # "failed" /\ (r.hash # None \/ r.amount = 0) /\ op'[k] = n)
    BY <1>0, <2>1 DEF MarkProjected, UpdateWhere
  <2>3. /\ n.status = "projected"
        /\ n.outcome = IF r.amount = 0 THEN "no_movement" ELSE "confirmed"
    BY <1>r DEF Row
  <2>4. r.status = "projected" => r.outcome = IF r.amount = 0 THEN "no_movement" ELSE "confirmed"
    BY <1>0 DEF IInv, RowsAreSound
  <2>5. r.status = "projected" => n = r
    BY <1>r, <2>4 DEF Row
  <2> QED
    BY <2>2, <2>3, <2>5 DEF Completed
<1>2. CASE PreflightFailed(p)
  <2> DEFINE n == [r EXCEPT !.status = "failed", !.outcome = "no_movement"]
  <2>1. op' \in {op, MarkPreflightFailed(k)}
    BY <1>2 DEF PreflightFailed, SaveOp
  <2>2. op'[k] = r \/ (r.hash = None /\ op'[k] = n)
    BY <1>0, <2>1 DEF MarkPreflightFailed, UpdateWhere
  <2>3. n.status = "failed" /\ n.outcome = "no_movement"
    BY <1>r DEF Row
  <2>4. pc[p] = "preflight" /\ (r.hash = None => Untouched(r))
    BY <1>2 DEF PreflightFailed, IInv, OwnersMatch
  <2> QED
    BY <2>2, <2>3, <2>4 DEF Released
<1>3. CASE RejectEvidence(p)
  <2> DEFINE n(o) == [r EXCEPT !.status = "failed", !.outcome = o]
  <2>1. \A o : n(o).status = "failed" /\ n(o).outcome = o
    BY <1>r DEF Row
  <2>2. CASE pc[p] = "failNoMovement"
    <3>1. op' \in {op, MarkFailed(k, "no_movement")}
      BY <1>3, <2>2 DEF RejectEvidence, SaveOp
    <3>2. op'[k] = r \/ (r.hash # None /\ r.status \in OpenStatuses /\ op'[k] = n("no_movement"))
      BY <1>0, <3>1 DEF MarkFailed, UpdateWhere
    <3>3. r.hash \in reverted
      BY <1>h, <2>2 DEF IInv, RejectionsAreProven, HashPoints, Points
    <3> QED
      BY <2>1, <3>2, <3>3 DEF Rejected
  <2>3. CASE pc[p] = "failReview"
    <3>1. op' \in {op, MarkFailed(k, "review")}
      BY <1>3, <2>3 DEF RejectEvidence, SaveOp
    <3>2. op'[k] = r \/ (r.hash # None /\ r.status \in OpenStatuses /\ op'[k] = n("review"))
      BY <1>0, <3>1 DEF MarkFailed, UpdateWhere
    <3> QED
      BY <2>1, <3>2 DEF MovedOn, Statuses, OpenStatuses
  <2> QED
    BY <1>3, <2>2, <2>3 DEF RejectEvidence
<1>4. ASSUME r.hash # None, r.status \in OpenStatuses \cup {"confirmed"},
             NEW s \in Statuses \ {"projected"}, NEW o \in {r.outcome, "confirmed"},
             op'[k] \in {[r EXCEPT !.status = s, !.outcome = o], [r EXCEPT !.hash = r.hash, !.status = s],
                         [r EXCEPT !.status = s]}
      PROVE  RowChange(p, r, op'[k])
  BY <1>r, <1>4 DEF MovedOn, Row
<1>5. CASE Submit(p)
  <2>1. pc[p] \in HashPoints /\ op' \in {op, MarkSubmitted(k, loc[p].tx)}
    BY <1>5 DEF Submit, SaveOp, HashPoints, Points
  <2>2. r.hash # None /\ loc[p].tx = r.hash
    BY <1>h, <2>1
  <2>3. op'[k] = r \/ (r.status \in OpenStatuses /\ op'[k] = [r EXCEPT !.hash = r.hash, !.status = "submitted"])
    BY <1>0, <2>1, <2>2 DEF MarkSubmitted, UpdateWhere
  <2> QED
    BY <1>4, <2>2, <2>3 DEF Statuses, OpenStatuses
<1>6. CASE StillUnknown(p)
  <2>1. pc[p] \in HashPoints /\ op' \in {op, MarkUnknown(k)}
    BY <1>6 DEF StillUnknown, SaveOp, HashPoints, Points
  <2> QED
    BY <1>0, <1>h, <1>4, <2>1 DEF MarkUnknown, UpdateWhere, Statuses, OpenStatuses
<1>7. CASE Confirm(p)
  <2>1. pc[p] \in HashPoints /\ op' \in {op, MarkConfirmed(k)}
    BY <1>7 DEF Confirm, SaveOp, HashPoints, Points
  <2> QED
    BY <1>0, <1>h, <1>4, <2>1 DEF MarkConfirmed, UpdateWhere, Statuses, OpenStatuses
<1>8. CASE ProjectionError(p)
  <2>1. pc[p] \in HashPoints /\ op' \in {op, MarkProjectionError(k)}
    BY <1>8 DEF ProjectionError, SaveOp, HashPoints, Points
  <2> QED
    BY <1>0, <1>h, <1>4, <2>1 DEF MarkProjectionError, UpdateWhere, Statuses, OpenStatuses
<1>9. CASE SubmitLease(p) \/ UnknownLease(p)
  <2>1. pc[p] \in HashPoints /\ \E s \in {"submitted", "unknown"} : op' \in {op, TargetMarked(k, s)}
    BY <1>9 DEF SubmitLease, UnknownLease, HashPoints, Points
  <2> QED
    BY <1>0, <1>h, <1>4, <2>1 DEF TargetMarked, UpdateWhere, Statuses, OpenStatuses
<1> QED
  BY <1>1, <1>2, <1>3, <1>5, <1>6, <1>7, <1>8, <1>9 DEF MarkStep

\* A marking step preserves the invariant.
LEMMA MarksPreserve ==
  ASSUME IInv, NEW p \in Procs, MarkStep(p)
  PROVE  RestOfIInv'
<1> DEFINE k == loc[p].key
<1>0. k \in Keys /\ TypeOK
  BY DEF IInv, TypeOK, MarkStep, ProjectZero, PreflightFailed, SubmitLease, UnknownLease, Submit,
     StillUnknown, RejectEvidence, Confirm, ProjectionError, Complete, Locals
<1>1. Kept(k)
  BY MarksKeep
<1>2. op[k] # None => RowChange(p, op[k], op'[k])
  BY MarkedRow
<1>3. \A q \in Procs : pc[q] # "idle" => loc[q].key \in Keys
  BY <1>0 DEF TypeOK, Locals
<1>m. /\ \A q \in Procs \ {p} : pc'[q] = pc[q] /\ loc'[q] = loc[q]
      /\ pc'[p] \in {"idle", "submit", "unknownLease", "verify", "unknown", "record"}
      /\ pc'[p] # "idle" => pc[p] \in HashPoints /\ loc'[p] = loc[p]
  BY MarksMove
<1>4. LeaseMatchesRow' /\ NonceNeverReused' /\ OneRowPerAward'
  BY <1>1 DEF IInv, Kept, SameRow, LeaseMatchesRow, NonceNeverReused, Leased, OneRowPerAward, SameAwardKeys
<1>5. ChainIsLeased'
  BY <1>0, <1>1 DEF IInv, Kept, ChainIsLeased, TypeOK, ChainTypeOK, Tx
<1>6. HoldersMatch'
  <2> SUFFICES ASSUME NEW q \in Procs, pc'[q] \in HashPoints
               PROVE  /\ op'[loc'[q].key] # None /\ op'[loc'[q].key].hash # None
                      /\ op'[loc'[q].key].hash = loc'[q].tx
    BY DEF HoldersMatch
  <2>1. pc[q] \in HashPoints /\ loc'[q] = loc[q]
    BY <1>m DEF HashPoints
  <2>2. loc[q].key \in Keys
    BY <1>3, <2>1 DEF HashPoints
  <2> QED
    BY <1>1, <2>1, <2>2 DEF IInv, HoldersMatch, Kept, SameRow
<1>7. OwnersMatch'
  <2> SUFFICES ASSUME NEW q \in Procs, pc'[q] \in {"prepare", "preflight"}
               PROVE  /\ op'[loc'[q].key] # None
                      /\ pc'[q] = "prepare" => op'[loc'[q].key].hash = None
                      /\ op'[loc'[q].key].hash = None => Untouched(op'[loc'[q].key])
    BY DEF OwnersMatch, Untouched
  <2>1. q # p /\ pc'[q] = pc[q] /\ loc'[q] = loc[q] /\ loc[q].key \in Keys
    BY <1>m, <1>3
  <2>2. /\ op[loc[q].key] # None /\ op'[loc[q].key] # None
        /\ op'[loc[q].key].hash = op[loc[q].key].hash
        /\ pc[q] = "prepare" => op[loc[q].key].hash = None
        /\ op[loc[q].key].hash = None => Untouched(op[loc[q].key])
    BY <1>1, <2>1 DEF IInv, OwnersMatch, Kept, SameRow, Untouched
  <2>3. ASSUME op[loc[q].key].hash = None PROVE op'[loc[q].key] = op[loc[q].key]
    <3>1. CASE loc[q].key # k
      BY <1>1, <2>1, <3>1 DEF Kept
    <3>2. CASE loc[q].key = k
      <4>1. ~Released(p, op[k], op'[k])
        BY <2>1, <2>3, <3>2 DEF Released, IInv, OwnersExclude
      <4>2. ~Completed(op[k], op'[k])
        BY <2>2, <2>3, <3>2 DEF Completed, Untouched
      <4> QED
        BY <1>2, <2>2, <2>3, <3>2, <4>1, <4>2 DEF RowChange, MovedOn, Rejected
    <3> QED
      BY <3>1, <3>2
  <2> QED
    BY <2>1, <2>2, <2>3
<1>8. OwnersExclude'
  <2> SUFFICES ASSUME NEW q1 \in Procs, NEW q2 \in Procs,
                      pc'[q1] \in {"prepare", "preflight"}, pc'[q2] \in {"prepare", "preflight"},
                      loc'[q1].key = loc'[q2].key, op'[loc'[q1].key].hash = None
               PROVE  q1 = q2
    BY DEF OwnersExclude
  <2>1. /\ pc'[q1] = pc[q1] /\ loc'[q1] = loc[q1] /\ loc[q1].key \in Keys
        /\ pc'[q2] = pc[q2] /\ loc'[q2] = loc[q2]
    BY <1>m, <1>3
  <2>2. op[loc[q1].key] # None
    BY <2>1 DEF IInv, OwnersMatch, Untouched
  <2> QED
    BY <1>1, <2>1, <2>2 DEF IInv, OwnersExclude, Kept, SameRow
<1>9. RowsAreSound'
  <2> SUFFICES ASSUME NEW l \in Keys, op'[l] # None
               PROVE  /\ op'[l].hash # None => op'[l].amount # 0
                      /\ op'[l].hash # None /\ op'[l].outcome = "no_movement" => op'[l].hash \in reverted'
                      /\ op'[l].hash = None /\ op'[l].status = "failed" => op'[l].amount # 0
                      /\ op'[l].status = "projected" =>
                           op'[l].outcome = IF op'[l].amount = 0 THEN "no_movement" ELSE "confirmed"
    BY DEF RowsAreSound
  <2>1. /\ op[l] # None /\ op'[l].hash = op[l].hash /\ op'[l].amount = op[l].amount
        /\ reverted' = reverted /\ (l # k => op'[l] = op[l])
    BY <1>1 DEF Kept, SameRow
  <2>2. /\ op[l].hash # None => op[l].amount # 0
        /\ op[l].hash # None /\ op[l].outcome = "no_movement" => op[l].hash \in reverted
        /\ op[l].hash = None /\ op[l].status = "failed" => op[l].amount # 0
        /\ op[l].status = "projected" =>
             op[l].outcome = IF op[l].amount = 0 THEN "no_movement" ELSE "confirmed"
    BY <2>1 DEF IInv, RowsAreSound
  <2>3. CASE op'[l] = op[l]
    BY <2>1, <2>2, <2>3
  <2>4. CASE op'[l] # op[l]
    <3>1. l = k /\ RowChange(p, op[l], op'[l])
      BY <1>2, <2>1, <2>4
    <3>2. CASE MovedOn(op[l], op'[l]) \/ Rejected(op[l], op'[l])
      BY <2>1, <2>2, <3>2 DEF MovedOn, Rejected
    <3>3. CASE Released(p, op[l], op'[l])
      BY <2>1, <3>3 DEF Released, Untouched
    <3>4. CASE Completed(op[l], op'[l])
      BY <2>1, <2>2, <3>4 DEF Completed
    <3> QED
      BY <2>4, <3>1, <3>2, <3>3, <3>4 DEF RowChange
  <2> QED
    BY <2>3, <2>4
<1>10. RejectionsAreProven'
  BY <1>1, <1>m DEF IInv, RejectionsAreProven, Kept
<1> QED
  BY <1>4, <1>5, <1>6, <1>7, <1>8, <1>9, <1>10 DEF RestOfIInv
-----------------------------------------------------------------------------
(* Claims.                                                                 *)

\* A claim gives run p a row that no other run owns: one that is new, or one
\* that failed before any hash was saved.
ClaimTaken(p) ==
  LET k == loc[p].key IN
  /\ op \in [Keys -> Row \cup {None}] /\ k \in Keys /\ lease[k] = None
  /\ op' \in [Keys -> Row \cup {None}]
  /\ op[k] = None \/ (op[k].status = "failed" /\ op[k].hash = None)
  /\ op[k] = None => \A l \in Keys : op[l] # None => ~SameAwardKeys(k, l) /\ ~SameAwardKeys(l, k)
  /\ \A l \in Keys \ {k} : op'[l] = op[l]
  /\ op'[k] # None /\ op'[k].hash = None /\ op'[k].status = "submitting" /\ op'[k].outcome = "unknown"
  /\ pc'[p] = "prepare" => op'[k].amount # 0
  /\ UNCHANGED <<chainVars, lease>>
  /\ \A q \in Procs \ {p} : pc'[q] = pc[q] /\ loc'[q] = loc[q]
  /\ pc'[p] \in {"idle", "zero", "prepare"} /\ (pc'[p] # "idle" => loc'[p] = loc[p])

\* A taken claim preserves the invariant.
LEMMA ClaimTakenKeeps ==
  ASSUME IInv, NEW p \in Procs, ClaimTaken(p)
  PROVE  RestOfIInv'
<1> DEFINE k == loc[p].key
<1> USE DEF chainVars
<1>0. k \in Keys /\ TypeOK
  BY DEF IInv, ClaimTaken
<1>1. \A q \in Procs : pc[q] # "idle" => loc[q].key \in Keys
  BY <1>0 DEF TypeOK, Locals
<1>2. \A q \in Procs : pc[q] \in HashPoints \cup {"prepare", "preflight"} => loc[q].key # k
  BY <1>1 DEF IInv, HoldersMatch, OwnersMatch, Untouched, ClaimTaken
<1>3. LeaseMatchesRow' /\ NonceNeverReused' /\ ChainIsLeased'
  BY <1>0 DEF IInv, ClaimTaken, LeaseMatchesRow, NonceNeverReused, Leased, ChainIsLeased
<1>4. OneRowPerAward'
  <2>1. \A l \in Keys : op'[l] # None => l = k \/ op[l] # None
    BY DEF ClaimTaken
  <2>2. ASSUME NEW l \in Keys, NEW m \in Keys, op'[l] # None, op'[m] # None, SameAwardKeys(l, m)
        PROVE  l = m
    BY <1>0, <2>1, <2>2 DEF IInv, ClaimTaken, OneRowPerAward
  <2> QED
    BY <2>2 DEF OneRowPerAward, SameAwardKeys
<1>5. HoldersMatch' /\ RejectionsAreProven'
  <2>1. \A q \in Procs : pc'[q] \in HashPoints => q # p
    BY DEF ClaimTaken, HashPoints
  <2> QED
    BY <1>1, <1>2, <2>1 DEF IInv, ClaimTaken, HoldersMatch, RejectionsAreProven, HashPoints, Points
<1>6. OwnersMatch'
  <2>1. ASSUME NEW q \in Procs \ {p}, pc'[q] \in {"prepare", "preflight"}
        PROVE  op'[loc'[q].key] = op[loc[q].key] /\ loc'[q] = loc[q] /\ pc'[q] = pc[q]
    BY <1>1, <1>2, <2>1 DEF ClaimTaken
  <2>2. pc'[p] = "prepare" => Untouched(op'[loc'[p].key]) /\ op'[loc'[p].key].hash = None
    BY DEF ClaimTaken, Untouched
  <2>3. pc'[p] # "preflight"
    BY DEF ClaimTaken
  <2> QED
    BY <2>1, <2>2, <2>3 DEF IInv, OwnersMatch, Untouched
<1>7. OwnersExclude'
  <2> SUFFICES ASSUME NEW q1 \in Procs, NEW q2 \in Procs,
                      pc'[q1] \in {"prepare", "preflight"}, pc'[q2] \in {"prepare", "preflight"},
                      loc'[q1].key = loc'[q2].key, op'[loc'[q1].key].hash = None
               PROVE  q1 = q2
    BY DEF OwnersExclude
  <2>1. \A q \in Procs : pc'[q] \in {"prepare", "preflight"} => (q = p <=> loc'[q].key = k)
    BY <1>2 DEF ClaimTaken
  <2>2. CASE q1 # p /\ q2 # p
    BY <1>1, <2>1, <2>2 DEF IInv, OwnersExclude, ClaimTaken
  <2> QED
    BY <2>1, <2>2
<1>8. RowsAreSound'
  BY DEF IInv, RowsAreSound, ClaimTaken
<1> QED
  BY <1>3, <1>4, <1>5, <1>6, <1>7, <1>8 DEF RestOfIInv

\* Both claims take a row, or fail without a trace.
LEMMA ClaimsPreserve ==
  ASSUME IInv, NEW p \in Procs, ClaimNew(p) \/ ClaimReclaimed(p), TypeOK'
  PROVE  RestOfIInv'
<1> DEFINE k == loc[p].key
<1>0. /\ k \in Keys /\ loc[p] \in Locals /\ loc[p].wallet \in Wallets
      /\ op \in [Keys -> Row \cup {None}] /\ op' \in [Keys -> Row \cup {None}]
      /\ pc \in [Procs -> Points] /\ loc \in [Procs -> Locals \cup {None}]
  BY DEF IInv, TypeOK, OperationsTypeOK, Locals, ClaimNew, ClaimReclaimed
<1>1. /\ \A q \in Procs \ {p} : pc'[q] = pc[q] /\ loc'[q] = loc[q]
      /\ pc'[p] \in {"idle", "zero", "prepare"} /\ (pc'[p] # "idle" => loc'[p] = loc[p])
      /\ pc'[p] = "prepare" => loc[p].amount # 0
      /\ UNCHANGED <<chainVars, lease>>
  BY <1>0 DEF ClaimNew, ClaimReclaimed, SaveOp, Goto, ClaimedPoint
<1>2. CASE op' = op /\ pc'[p] = "idle"
  <2>1. QuietMove(p)
    BY <1>1, <1>2 DEF QuietMove, HashPoints
  <2> QED
    BY <1>1, <1>2, <2>1, QuietKeeps
<1>3. CASE ClaimNew(p) /\ op' = Inserted(k, loc[p].intent, loc[p].wallet, loc[p].amount)
  <2>1. /\ op[k] = None /\ ~SessionCollision(k) /\ ~DedupCollision(k)
    BY <1>3 DEF ClaimNew
  <2>2. \A l \in Keys : op[l] # None => ~SameAwardKeys(k, l) /\ ~SameAwardKeys(l, k)
    BY <2>1 DEF SessionCollision, DedupCollision, SameAwardKeys
  <2>3. op'[k] = NewRow(loc[p].intent, loc[p].wallet, loc[p].amount) /\ \A l \in Keys \ {k} : op'[l] = op[l]
    BY <1>0, <1>3 DEF Inserted
  <2>4. /\ op'[k] # None /\ op'[k].hash = None /\ op'[k].status = "submitting"
        /\ op'[k].outcome = "unknown" /\ op'[k].amount = loc[p].amount
    <3>1. NewRow(loc[p].intent, loc[p].wallet, loc[p].amount) \in Row
      BY <1>0 DEF NewRow, Row, Statuses, OpenStatuses, Outcomes, Locals
    <3> QED
      BY <2>3, <3>1, NoneNotLocal DEF NewRow
  <2>5. lease[k] = None
    BY <1>0, <2>1 DEF IInv, LeaseMatchesRow
  <2>6. ClaimTaken(p)
    BY <1>0, <1>1, <2>1, <2>2, <2>3, <2>4, <2>5 DEF ClaimTaken
  <2> QED
    BY <2>6, ClaimTakenKeeps
<1>4. CASE ClaimReclaimed(p) /\ op' = Reclaimed(k)
  <2>1. op[k] # None /\ op[k].status = "failed" /\ op[k].hash = None
    BY <1>4 DEF ClaimReclaimed, Reclaimable
  <2>2. op[k] \in Row /\ op[k].amount # 0
    BY <1>0, <2>1 DEF IInv, RowsAreSound
  <2>3. /\ op'[k] = [op[k] EXCEPT !.status = "submitting", !.outcome = "unknown"]
        /\ \A l \in Keys \ {k} : op'[l] = op[l]
    BY <1>0, <1>4, <2>2 DEF Reclaimed, Row
  <2>4. /\ op'[k] # None /\ op'[k].hash = None /\ op'[k].status = "submitting"
        /\ op'[k].outcome = "unknown" /\ op'[k].amount # 0
    <3>1. [op[k] EXCEPT !.status = "submitting", !.outcome = "unknown"] \in Row
      BY <2>2 DEF Row, Statuses, OpenStatuses, Outcomes
    <3> QED
      BY <2>1, <2>2, <2>3, <3>1, NoneNotLocal DEF Row
  <2>5. lease[k] = None
    <3>1. lease[k] # None => lease[k] \in Lease /\ op[k].hash = lease[k].tx
      BY <1>0 DEF IInv, LeaseMatchesRow, TypeOK, LeaseTypeOK
    <3> QED
      BY <2>1, <3>1, NoneAssumption DEF Lease
  <2>6. ClaimTaken(p)
    BY <1>0, <1>1, <2>1, <2>3, <2>4, <2>5 DEF ClaimTaken
  <2> QED
    BY <2>6, ClaimTakenKeeps
<1>5. \/ op' = op /\ pc'[p] = "idle"
      \/ ClaimNew(p) /\ op' = Inserted(k, loc[p].intent, loc[p].wallet, loc[p].amount)
      \/ ClaimReclaimed(p) /\ op' = Reclaimed(k)
  BY <1>0 DEF ClaimNew, ClaimReclaimed, SaveOp, Goto
<1> QED
  BY <1>2, <1>3, <1>4, <1>5
-----------------------------------------------------------------------------
(* Preparation, broadcast and the chain.                                   *)

\* prepare gives the only run that owns the row a hash no lease has.
LEMMA PreparePreserves ==
  ASSUME IInv, NEW p \in Procs, Prepare(p)
  PROVE  RestOfIInv' /\ op'[loc[p].key] # None /\ op'[loc[p].key].hash # None
<1> DEFINE k == loc[p].key
<1>0. /\ k \in Keys /\ TypeOK /\ loc[p] \in Locals /\ pc[p] = "prepare" /\ lease[k] = None
      /\ op \in [Keys -> Row \cup {None}] /\ lease \in [Keys -> Lease \cup {None}]
      /\ pc \in [Procs -> Points] /\ loc \in [Procs -> Locals \cup {None}]
  BY DEF IInv, TypeOK, OperationsTypeOK, LeaseTypeOK, Locals, Prepare
<1>1. PICK n \in UNION {NextNonces(pending) : pending \in ReportedNonces} :
        /\ lease' = PreparedLease(k, Transfer(p, n)) /\ op' = PreparedTarget(k, Transfer(p, n))
        /\ \/ GotoWith(p, "broadcast", [loc[p] EXCEPT !.tx = Transfer(p, n)])
           \/ Goto(p, "preflight")
  BY DEF Prepare
<1> DEFINE t == Transfer(p, n)
<1>2. /\ t \in Tx /\ t # None /\ t.key = k /\ t.nonce = n
      /\ \A l \in Keys : lease[l] # None => lease[l].tx.nonce # n
  <2>1. t.key = k /\ t.nonce = n
    BY DEF Transfer
  <2>2. \A l \in Keys : lease[l] # None => lease[l].tx.nonce \in Nat
    BY <1>0 DEF Lease, Tx
  <2>3. ReportedNonces \subseteq Nat
    BY <1>0 DEF ReportedNonces, Known, Mined, TypeOK, ChainTypeOK, Tx
  <2>4. n \in Nat /\ \A l \in Keys : lease[l] # None => n > lease[l].tx.nonce
    BY <1>0, <2>2, <2>3 DEF NextNonces, Holding, Leased, Lease, LeaseStatuses
  <2>5. t \in Tx
    BY <1>0, <2>4 DEF Transfer, Tx, Locals, TypeOK
  <2> QED
    BY <2>1, <2>2, <2>4, <2>5, NoneAssumption
<1>3. op[k] # None /\ op[k] \in Row /\ Untouched(op[k]) /\ op[k].hash = None
  BY <1>0 DEF IInv, OwnersMatch, Untouched
<1>4. /\ op'[k] = [op[k] EXCEPT !.hash = t, !.status = "submitting"]
      /\ \A l \in Keys \ {k} : op'[l] = op[l]
  BY <1>0, <1>1, <1>3 DEF PreparedTarget, Row
<1>5. /\ op'[k] # None /\ op'[k].hash = t /\ op'[k].status = "submitting"
      /\ op'[k].outcome = "unknown" /\ op'[k].amount # 0
  <2>1. /\ [op[k] EXCEPT !.hash = t, !.status = "submitting"].hash = t
        /\ [op[k] EXCEPT !.hash = t, !.status = "submitting"].status = "submitting"
        /\ [op[k] EXCEPT !.hash = t, !.status = "submitting"].outcome = op[k].outcome
        /\ [op[k] EXCEPT !.hash = t, !.status = "submitting"].amount = op[k].amount
    BY <1>3 DEF Row
  <2>2. [op[k] EXCEPT !.hash = t, !.status = "submitting"] \in Row
    BY <1>2, <1>3 DEF Row, Statuses, OpenStatuses
  <2>3. op'[k] # None
    BY <1>4, <2>2, NoneNotLocal
  <2> QED
    BY <1>3, <1>4, <2>1, <2>3 DEF Untouched
<1>6. lease'[k] = [tx |-> t, status |-> "prepared"] /\ \A l \in Keys \ {k} : lease'[l] = lease[l]
  BY <1>0, <1>1 DEF PreparedLease
<1>7. lease'[k] # None /\ lease'[k].tx = t
  <2>1. [tx |-> t, status |-> "prepared"] \in Lease
    BY <1>2 DEF Lease, LeaseStatuses
  <2> QED
    BY <1>6, <2>1, NoneNotLocal
<1>8. /\ \A q \in Procs \ {p} : pc'[q] = pc[q] /\ loc'[q] = loc[q]
      /\ pc'[p] \in {"broadcast", "preflight"} /\ loc'[p].key = k
      /\ pc'[p] = "broadcast" => loc'[p].tx = t
  BY <1>0, <1>1 DEF GotoWith, Goto, Locals
<1>9. UNCHANGED chainVars
  BY DEF Prepare
<1>10. \A q \in Procs : pc[q] # "idle" => loc[q].key \in Keys
  BY <1>0 DEF TypeOK, Locals
<1>11. \A q \in Procs \ {p} : pc[q] \in HashPoints \cup {"prepare", "preflight"} => loc[q].key # k
  BY <1>0, <1>3 DEF IInv, HoldersMatch, OwnersExclude
<1>12. LeaseMatchesRow'
  <2>1. ASSUME NEW l \in Keys \ {k}
        PROVE  op'[l] = op[l] /\ lease'[l] = lease[l]
    BY <1>4, <1>6, <2>1
  <2>2. /\ op'[k] # None /\ op'[k].hash = lease'[k].tx /\ lease'[k].tx.key = k
        /\ lease'[k] # None
    BY <1>2, <1>5, <1>7
  <2> HIDE DEF t
  <2> QED
    BY <2>1, <2>2 DEF IInv, LeaseMatchesRow
<1>13. NonceNeverReused'
  BY <1>0, <1>2, <1>6, <1>7 DEF IInv, NonceNeverReused, Leased
<1>14. ChainIsLeased'
  BY <1>0, <1>6, <1>9 DEF IInv, ChainIsLeased, chainVars, TypeOK, ChainTypeOK, Tx
<1>15. OneRowPerAward'
  BY <1>0, <1>3, <1>4, <1>5 DEF IInv, OneRowPerAward, SameAwardKeys
<1>16. HoldersMatch'
  <2>1. ASSUME NEW q \in Procs \ {p}, pc'[q] \in HashPoints
        PROVE  op'[loc'[q].key] = op[loc[q].key] /\ loc'[q] = loc[q] /\ pc'[q] = pc[q]
    BY <1>4, <1>8, <1>10, <1>11, <2>1 DEF HashPoints
  <2>2. pc'[p] \in HashPoints => /\ op'[loc'[p].key] # None /\ op'[loc'[p].key].hash # None
                                /\ op'[loc'[p].key].hash = loc'[p].tx
    BY <1>2, <1>5, <1>8 DEF HashPoints
  <2> QED
    BY <2>1, <2>2 DEF IInv, HoldersMatch
<1>17. OwnersMatch'
  <2>1. ASSUME NEW q \in Procs \ {p}, pc'[q] \in {"prepare", "preflight"}
        PROVE  op'[loc'[q].key] = op[loc[q].key] /\ loc'[q] = loc[q] /\ pc'[q] = pc[q]
    BY <1>4, <1>8, <1>10, <1>11, <2>1
  <2> QED
    BY <1>2, <1>5, <1>8, <2>1 DEF IInv, OwnersMatch, Untouched
<1>18. OwnersExclude'
  <2> SUFFICES ASSUME NEW q1 \in Procs, NEW q2 \in Procs,
                      pc'[q1] \in {"prepare", "preflight"}, pc'[q2] \in {"prepare", "preflight"},
                      loc'[q1].key = loc'[q2].key, op'[loc'[q1].key].hash = None
               PROVE  q1 = q2
    BY DEF OwnersExclude
  <2>1. loc'[q1].key # k
    BY <1>2, <1>5
  <2>2. q1 # p /\ q2 # p
    BY <1>8, <2>1
  <2> QED
    BY <1>4, <1>8, <1>10, <2>1, <2>2 DEF IInv, OwnersExclude
<1>19. RowsAreSound'
  <2>1. reverted' = reverted
    BY <1>9 DEF chainVars
  <2> QED
    BY <1>4, <1>5, <2>1 DEF IInv, RowsAreSound
<1>20. RejectionsAreProven'
  BY <1>8, <1>9 DEF IInv, RejectionsAreProven, chainVars
<1> QED
  BY <1>2, <1>5, <1>12, <1>13, <1>14, <1>15, <1>16, <1>17, <1>18, <1>19, <1>20 DEF RestOfIInv

\* A broadcast hands the chain the leased transfer, or nothing.
LEMMA BroadcastPreserves ==
  ASSUME IInv, NEW p \in Procs, Broadcast(p)
  PROVE  RestOfIInv'
<1> DEFINE k == loc[p].key
<1> DEFINE t == loc[p].tx
<1>0. k \in Keys /\ TypeOK /\ pc[p] = "broadcast" /\ pc[p] \in HashPoints
  BY DEF IInv, TypeOK, Locals, Broadcast, HashPoints, Points
<1>1. lease[k] # None /\ lease[k].tx = t /\ t.key = k
  BY <1>0 DEF IInv, HoldersMatch, LeaseMatchesRow
<1>2. /\ UNCHANGED <<op, lease, paid, reverted>>
      /\ pool' = pool \/ (pool' = pool \cup {t} /\ t \notin Known)
  BY DEF Broadcast, Accept
<1>3. /\ \A q \in Procs \ {p} : pc'[q] = pc[q] /\ loc'[q] = loc[q]
      /\ pc'[p] \in {"submitLease", "unknownLease"} /\ loc'[p] = loc[p]
  BY <1>0 DEF Broadcast, Goto, TypeOK
<1>4. ChainIsLeased'
  BY <1>1, <1>2 DEF IInv, ChainIsLeased, Known, Mined
<1>5. LeaseMatchesRow' /\ NonceNeverReused' /\ RowsAreSound' /\ OneRowPerAward'
  BY <1>2 DEF IInv, LeaseMatchesRow, NonceNeverReused, Leased, RowsAreSound, OneRowPerAward, SameAwardKeys
<1>6. HoldersMatch' /\ RejectionsAreProven'
  BY <1>0, <1>2, <1>3 DEF IInv, HoldersMatch, RejectionsAreProven
<1>7. OwnersMatch'
  BY <1>2, <1>3 DEF IInv, OwnersMatch, Untouched
<1>8. OwnersExclude'
  BY <1>2, <1>3 DEF IInv, OwnersExclude
<1> QED
  BY <1>4, <1>5, <1>6, <1>7, <1>8 DEF RestOfIInv

\* Mining and eviction move leased transfers only, and a transfer is mined
\* with one receipt. Rule edits and relinks touch none of this state.
LEMMA EnvironmentPreserves ==
  ASSUME IInv, Environment
  PROVE  RestOfIInv'
<1>0. TypeOK /\ UNCHANGED <<op, lease, pc, loc>>
  BY DEF IInv, Environment, MineNext, EvictOne, EditRules, Relink
<1>1. /\ pool' \subseteq pool /\ reverted \subseteq reverted'
      /\ pool' \cup paid' \cup reverted' \subseteq pool \cup paid \cup reverted
      /\ \A t \in reverted' : t \notin pool' /\ t \notin paid'
  <2>1. CASE MineNext
    <3>1. PICK t \in pool, ok \in BOOLEAN : Mine(t, ok)
      BY <2>1 DEF MineNext
    <3>2. t.nonce \in 0..t.nonce
      BY <1>0 DEF TypeOK, ChainTypeOK, Tx
    <3>3. t \notin Mined
      BY <1>0, <3>1, <3>2 DEF Mine, TypeOK, ChainTypeOK, Tx
    <3>4. /\ pool' = pool \ {t}
          /\ \/ paid' = paid \cup {t} /\ reverted' = reverted
             \/ paid' = paid /\ reverted' = reverted \cup {t}
      BY <3>1 DEF Mine
    <3> QED
      BY <3>3, <3>4 DEF IInv, ChainIsLeased, Mined
  <2>2. CASE EvictOne
    BY <2>2 DEF IInv, EvictOne, Evict, ChainIsLeased
  <2>3. CASE EditRules \/ Relink
    BY <2>3 DEF IInv, EditRules, Relink, chainVars, ChainIsLeased
  <2> QED
    BY <2>1, <2>2, <2>3 DEF Environment
<1>2. ChainIsLeased'
  BY <1>0, <1>1 DEF IInv, ChainIsLeased
<1>3. RowsAreSound' /\ RejectionsAreProven'
  BY <1>0, <1>1 DEF IInv, RowsAreSound, RejectionsAreProven
<1>4. LeaseMatchesRow' /\ NonceNeverReused' /\ OneRowPerAward'
  BY <1>0 DEF IInv, LeaseMatchesRow, NonceNeverReused, Leased, OneRowPerAward, SameAwardKeys
<1>5. HoldersMatch' /\ OwnersMatch' /\ OwnersExclude'
  BY <1>0 DEF IInv, HoldersMatch, OwnersMatch, Untouched, OwnersExclude
<1> QED
  BY <1>2, <1>3, <1>4, <1>5 DEF RestOfIInv
-----------------------------------------------------------------------------
(* The theorems.                                                           *)

\* Empty tables satisfy the invariant.
LEMMA InitIInv == Init => IInv
<1> SUFFICES ASSUME Init PROVE IInv
  OBVIOUS
<1> USE DEF Init, OperationsInit, ChainInit, LeaseInit
<1>1. TypeOK
  BY LegacyAssumption, BoundsAssumption DEF TypeOK, OperationsTypeOK, ChainTypeOK, LeaseTypeOK, Points, Budget, AwardRow
<1>2. LeaseMatchesRow /\ NonceNeverReused /\ ChainIsLeased /\ RowsAreSound /\ OneRowPerAward
  BY DEF LeaseMatchesRow, NonceNeverReused, Leased, ChainIsLeased, RowsAreSound, OneRowPerAward
<1>3. HoldersMatch /\ OwnersMatch /\ OwnersExclude /\ RejectionsAreProven
  BY DEF HoldersMatch, HashPoints, OwnersMatch, OwnersExclude, RejectionsAreProven
<1> QED
  BY <1>1, <1>2, <1>3 DEF IInv

\* Every step is quiet, marks, claims, prepares, broadcasts or is the
\* environment's.
LEMMA StepKinds ==
  ASSUME Next
  PROVE  \/ Environment
         \/ \E p \in Procs : \/ QuietStep(p) \/ MarkStep(p) \/ ClaimNew(p) \/ ClaimReclaimed(p)
                             \/ Prepare(p) \/ Broadcast(p)
BY DEF Next, Step, Claiming, Submission, Projection, SubmissionStep, EvidenceStep, QuietStep, MarkStep

\* The invariant is inductive.
LEMMA StepIInv == IInv /\ [Next]_vars => IInv'
<1> SUFFICES ASSUME IInv, [Next]_vars PROVE IInv'
  OBVIOUS
<1>1. TypeOK'
  BY TypeStep DEF IInv
<1>2. CASE UNCHANGED vars
  BY <1>2 DEF vars, IInv, TypeOK, OperationsTypeOK, ChainTypeOK, LeaseTypeOK, LeaseMatchesRow,
     NonceNeverReused, Leased, ChainIsLeased, HoldersMatch, OwnersMatch, Untouched, OwnersExclude,
     RowsAreSound, RejectionsAreProven, OneRowPerAward, SameAwardKeys
<1>3. CASE Next
  <2>1. RestOfIInv'
    <3>1. CASE Environment
      BY <3>1, EnvironmentPreserves
    <3>2. ASSUME NEW p \in Procs, QuietStep(p) PROVE RestOfIInv'
      BY <3>2, QuietMoves, QuietKeeps
    <3>3. ASSUME NEW p \in Procs, MarkStep(p) PROVE RestOfIInv'
      BY <3>3, MarksPreserve
    <3>4. ASSUME NEW p \in Procs, ClaimNew(p) \/ ClaimReclaimed(p) PROVE RestOfIInv'
      BY <1>1, <3>4, ClaimsPreserve
    <3>5. ASSUME NEW p \in Procs, Prepare(p) PROVE RestOfIInv'
      BY <3>5, PreparePreserves
    <3>6. ASSUME NEW p \in Procs, Broadcast(p) PROVE RestOfIInv'
      BY <3>6, BroadcastPreserves
    <3> QED
      BY <1>3, <3>1, <3>2, <3>3, <3>4, <3>5, <3>6, StepKinds
  <2> QED
    BY <1>1, <2>1 DEF IInv, RestOfIInv
<1> QED
  BY <1>2, <1>3

\* The invariant holds in every reachable state.
LEMMA InductiveInvariant == Spec => []IInv
BY InitIInv, StepIInv, PTL DEF Spec

\* The tables, the chain and every run's memory stay well typed: in
\* particular no run claims, prepares or broadcasts without a resolved wallet.
THEOREM TypeCorrect == Spec => []TypeOK
<1>1. IInv => TypeOK
  BY DEF IInv
<1> QED
  BY <1>1, InductiveInvariant, PTL

\* The chain never holds two transfers for one award, whatever keys,
\* sessions and legacy keys a CDR is delivered under (claim's collision
\* checks together with the lease written before each broadcast).
THEOREM AwardPaidOnce == Spec => []PaidOnce
<1>1. IInv => PaidOnce
  <2> SUFFICES ASSUME IInv, NEW t \in Known, NEW u \in Known, SameAwardKeys(t.key, u.key)
               PROVE  t = u
    BY DEF PaidOnce
  <2>1. t.key \in Keys /\ u.key \in Keys
    BY DEF IInv, TypeOK, ChainTypeOK, Known, Mined, Tx
  <2>2. lease[t.key] # None /\ lease[t.key].tx = t /\ lease[u.key] # None /\ lease[u.key].tx = u
    BY DEF IInv, ChainIsLeased, Known, Mined
  <2>3. op[t.key] # None /\ op[u.key] # None
    BY <2>1, <2>2 DEF IInv, LeaseMatchesRow
  <2>4. t.key = u.key
    BY <2>1, <2>3 DEF IInv, OneRowPerAward
  <2> QED
    BY <2>2, <2>4
<1> QED
  BY <1>1, InductiveInvariant, PTL

\* Every transfer the chain knows can be found from its operation row and
\* from its lease (prepare commits both before the bytes are sent).
THEOREM TransfersTraceable == Spec => []MovementIsTraceable
<1>1. IInv => MovementIsTraceable
  <2> SUFFICES ASSUME IInv, NEW t \in Known
               PROVE  /\ op[t.key] # None /\ op[t.key].hash = t
                      /\ lease[t.key] # None /\ lease[t.key].tx = t
    BY DEF MovementIsTraceable
  <2>1. t.key \in Keys
    BY DEF IInv, TypeOK, ChainTypeOK, Known, Mined, Tx
  <2>2. lease[t.key] # None /\ lease[t.key].tx = t
    BY DEF IInv, ChainIsLeased, Known, Mined
  <2> QED
    BY <2>1, <2>2 DEF IInv, LeaseMatchesRow
<1> QED
  BY <1>1, InductiveInvariant, PTL

\* The nonce coordinator never gives one nonce to two leases, however stale
\* the pending nonce an endpoint reports.
THEOREM NoncesUnique == Spec => []NonceNeverReused
<1>1. IInv => NonceNeverReused
  BY DEF IInv
<1> QED
  BY <1>1, InductiveInvariant, PTL

\* A row that reports no movement is right: markFailed and
\* markPreflightFailed are only reached with proof, or without a hash.
THEOREM NoMovementCorrect == Spec => []NoMovementIsTrue
<1>1. IInv => NoMovementIsTrue
  <2> SUFFICES ASSUME IInv, NEW k \in Keys, op[k] # None, op[k].outcome = "no_movement",
                      NEW t \in pool \cup paid, t.key = k
               PROVE  FALSE
    BY DEF NoMovementIsTrue
  <2>1. lease[k] # None /\ lease[k].tx = t /\ t \in Tx
    BY DEF IInv, ChainIsLeased, TypeOK, ChainTypeOK
  <2>2. op[k].hash = t /\ op[k].hash # None
    BY <2>1, NoneAssumption DEF IInv, LeaseMatchesRow
  <2>3. t \in reverted
    BY <2>2 DEF IInv, RowsAreSound
  <2> QED
    BY <2>3 DEF IInv, ChainIsLeased
<1> QED
  BY <1>1, InductiveInvariant, PTL

\* A run that is about to prepare finds no lease of its key, so the branch
\* for an already prepared transaction never runs for an award.
THEOREM PreparedOnce == Spec => []PrepareFindsNoLease
<1>1. IInv => PrepareFindsNoLease
  <2> SUFFICES ASSUME IInv, NEW p \in Procs, pc[p] = "prepare", lease[loc[p].key] # None
               PROVE  FALSE
    BY DEF PrepareFindsNoLease
  <2>1. loc[p].key \in Keys
    BY DEF IInv, TypeOK, Locals
  <2>2. lease[loc[p].key].tx \in Tx
    BY <2>1 DEF IInv, TypeOK, LeaseTypeOK, Lease
  <2>3. op[loc[p].key].hash = lease[loc[p].key].tx /\ op[loc[p].key].hash = None
    BY <2>1 DEF IInv, LeaseMatchesRow, OwnersMatch
  <2> QED
    BY <2>2, <2>3, NoneAssumption
<1> QED
  BY <1>1, InductiveInvariant, PTL

\* A saved hash is never replaced and a settled row never changes again,
\* whichever stale run writes next.
THEOREM SettledRowsAreFinal == Spec => SettledRowsStay
<1>1. IInv /\ [Next]_vars => [SettledRowsKept]_vars
  <2> SUFFICES ASSUME IInv, Next PROVE SettledRowsKept
    OBVIOUS
  <2>1. CASE op' = op
    BY <2>1 DEF SettledRowsKept
  <2>2. ASSUME NEW p \in Procs, MarkStep(p) PROVE SettledRowsKept
    <3>1. Kept(loc[p].key) /\ (op[loc[p].key] # None => RowChange(p, op[loc[p].key], op'[loc[p].key]))
      BY <2>2, MarksKeep, MarkedRow
    <3> QED
      BY <3>1 DEF SettledRowsKept, Kept, SameRow, RowChange, MovedOn, Rejected, Released, Completed,
         Untouched, OpenStatuses
  <2>3. ASSUME NEW p \in Procs, ClaimNew(p) \/ ClaimReclaimed(p) PROVE SettledRowsKept
    <3> DEFINE k == loc[p].key
    <3>1. k \in Keys /\ op \in [Keys -> Row \cup {None}] /\ TypeOK'
      BY <2>3, TypeStep DEF IInv, TypeOK, OperationsTypeOK, Locals, ClaimNew, ClaimReclaimed
    <3>2. \A l \in Keys \ {k} : op'[l] = op[l]
      BY <2>3, <3>1 DEF ClaimNew, ClaimReclaimed, SaveOp, Inserted, Reclaimed
    <3>3. CASE op[k] = None
      BY <3>2, <3>3 DEF SettledRowsKept
    <3>4. CASE op[k] # None
      <4>1. op[k] \in Row /\ op[k].status = "failed" /\ op[k].hash = None
        BY <2>3, <3>1, <3>4 DEF ClaimNew, ClaimReclaimed, Reclaimable
      <4>2. op'[k] # None
        <5>1. op'[k] \in {op[k], [op[k] EXCEPT !.status = "submitting", !.outcome = "unknown"]}
          BY <2>3, <3>1, <3>4, <4>1 DEF ClaimNew, ClaimReclaimed, SaveOp, Reclaimed, Row
        <5>2. [op[k] EXCEPT !.status = "submitting", !.outcome = "unknown"] \in Row
          BY <4>1 DEF Row, Statuses, OpenStatuses, Outcomes
        <5> QED
          BY <3>4, <5>1, <5>2, NoneNotLocal
      <4> QED
        BY <3>2, <4>1, <4>2 DEF SettledRowsKept
    <3> QED
      BY <3>3, <3>4
  <2>4. ASSUME NEW p \in Procs, Prepare(p) PROVE SettledRowsKept
    <3> DEFINE k == loc[p].key
    <3>1. /\ k \in Keys /\ op \in [Keys -> Row \cup {None}]
          /\ op[k] # None /\ op[k].hash = None /\ op[k].status = "submitting"
      BY <2>4 DEF IInv, TypeOK, OperationsTypeOK, Locals, Prepare, OwnersMatch, Untouched
    <3>2. \A l \in Keys \ {k} : op'[l] = op[l]
      BY <2>4, <3>1 DEF Prepare, PreparedTarget
    <3>3. op'[k] # None
      BY <2>4, PreparePreserves
    <3> QED
      BY <3>1, <3>2, <3>3 DEF SettledRowsKept
  <2>5. \/ op' = op
        \/ \E p \in Procs : MarkStep(p) \/ ClaimNew(p) \/ ClaimReclaimed(p) \/ Prepare(p)
    <3>1. CASE Environment
      BY <3>1 DEF Environment, MineNext, EvictOne, EditRules, Relink
    <3>2. ASSUME NEW p \in Procs, QuietStep(p) \/ Broadcast(p) PROVE op' = op
      BY <3>2, QuietMoves DEF Broadcast
    <3> QED
      BY <3>1, <3>2, StepKinds
  <2> QED
    BY <2>1, <2>2, <2>3, <2>4, <2>5
<1> QED
  BY <1>1, InductiveInvariant, PTL DEF Spec, SettledRowsStay
-----------------------------------------------------------------------------
(* The award executor implements the award ledger. IInv gives one row and  *)
(* one lease per award; what is left to show is that the recipient a run   *)
(* works with is the one of its row, and of the transfer it signs.         *)

\* A row, its hash and the runs that work on it agree on the recipient.
HashNamesWallet ==
  \A k \in Keys : op[k] # None /\ op[k].hash # None => op[k].hash.wallet = op[k].wallet

KnowsWallet(p) == op[loc[p].key] # None /\ loc[p].wallet = op[loc[p].key].wallet

RunsKnowWallet ==
  \A p \in Procs : pc[p] \in HashPoints \cup {"prepare"} => KnowsWallet(p)

WInv == HashNamesWallet /\ RunsKnowWallet
-----------------------------------------------------------------------------
\* A run reaches a saved hash with the recipient of its row.
LEMMA QuietWallets ==
  ASSUME IInv, WInv, NEW p \in Procs, QuietStep(p)
  PROVE  WInv'
<1> USE DEF HashPoints, Points
<1>0. /\ pc \in [Procs -> Points] /\ loc \in [Procs -> Locals \cup {None}]
      /\ pc[p] # "idle" => loc[p] \in Locals
  BY DEF IInv, TypeOK
<1>1. QuietMove(p) /\ UNCHANGED <<op, chainVars, lease>>
  BY QuietMoves
<1>2. HashNamesWallet'
  BY <1>1 DEF WInv, HashNamesWallet
<1>3. ASSUME pc'[p] \in HashPoints
      PROVE  loc'[p].wallet = op[loc'[p].key].wallet
  <2>1. CASE Resolve(p) \/ ClaimRefused(p) \/ Crash(p) \/ PrepareRefused(p)
    BY <1>0, <1>3, <2>1 DEF Resolve, ClaimRefused, Crash, PrepareRefused, Goto, GotoWith
  <2>2. CASE ClaimReplay(p)
    BY <1>0, <1>3, <2>2 DEF ClaimReplay, GotoWith, SameIntent, Locals
  <2>3. CASE Verify(p) \/ VerifyFresh(p) \/ Record(p)
    <3>1. loc'[p] = loc[p] /\ pc[p] \in HashPoints
      BY <1>0, <1>3, <2>3 DEF Verify, VerifyFresh, Record, Goto
    <3> QED
      BY <3>1 DEF WInv, RunsKnowWallet, KnowsWallet
  <2>4. ASSUME NEW k \in Keys, Recover(p, k)
        PROVE  loc'[p].wallet = op[loc'[p].key].wallet
    BY <1>0, <1>3, <2>4 DEF Recover, GotoWith
  <2>5. ASSUME NEW k \in Keys, RecoverProjected(p, k)
        PROVE  FALSE
    BY <1>3, <2>5 DEF RecoverProjected
  <2>6. ASSUME NEW k \in Keys, NEW c \in Intents, Lookup(p, k, c)
        PROVE  FALSE
    <3>1. op[k].hash = None => ReplayPoint(op[k]) \in {"idle", "zero"}
      BY DEF ReplayPoint
    <3> QED
      BY <1>0, <1>3, <2>6, <3>1 DEF Lookup, GotoWith
  <2> QED
    BY <2>1, <2>2, <2>3, <2>4, <2>5, <2>6 DEF QuietStep, Start
<1>4. RunsKnowWallet'
  BY <1>1, <1>3 DEF QuietMove, WInv, RunsKnowWallet, KnowsWallet
<1> QED
  BY <1>2, <1>4 DEF WInv

\* A mark changes neither the owner of a row nor a run's memory.
LEMMA MarkWallets ==
  ASSUME IInv, WInv, NEW p \in Procs, MarkStep(p)
  PROVE  WInv'
<1>1. Kept(loc[p].key)
  BY MarksKeep
<1>2. /\ \A q \in Procs \ {p} : pc'[q] = pc[q] /\ loc'[q] = loc[q]
      /\ pc'[p] # "prepare" /\ (pc'[p] # "idle" => pc[p] \in HashPoints /\ loc'[p] = loc[p])
  BY MarksMove
<1>3. HashNamesWallet'
  BY <1>1 DEF WInv, HashNamesWallet, Kept, SameRow
<1>4. ASSUME NEW q \in Procs, pc'[q] \in HashPoints \cup {"prepare"}
      PROVE  KnowsWallet(q)'
  <2>1. pc[q] \in HashPoints \cup {"prepare"} /\ loc'[q] = loc[q]
    BY <1>2, <1>4 DEF HashPoints
  <2>2. KnowsWallet(q) /\ loc[q].key \in Keys
    BY <2>1 DEF WInv, RunsKnowWallet, IInv, TypeOK, Locals, HashPoints
  <2> QED
    BY <1>1, <2>1, <2>2 DEF KnowsWallet, Kept, SameRow
<1> QED
  BY <1>3, <1>4 DEF WInv, RunsKnowWallet

\* A claim writes or confirms the recipient its run has resolved.
LEMMA ClaimWallets ==
  ASSUME IInv, WInv, NEW p \in Procs, ClaimNew(p) \/ ClaimReclaimed(p), TypeOK'
  PROVE  WInv'
<1> DEFINE k == loc[p].key
<1>0. /\ k \in Keys /\ loc[p] \in Locals /\ loc[p].wallet \in Wallets
      /\ op \in [Keys -> Row \cup {None}] /\ op' \in [Keys -> Row \cup {None}]
      /\ pc \in [Procs -> Points] /\ loc \in [Procs -> Locals \cup {None}]
  BY DEF IInv, TypeOK, OperationsTypeOK, Locals, ClaimNew, ClaimReclaimed
<1>1. /\ \A q \in Procs \ {p} : pc'[q] = pc[q] /\ loc'[q] = loc[q]
      /\ pc'[p] \in {"idle", "zero", "prepare"} /\ (pc'[p] # "idle" => loc'[p] = loc[p])
      /\ op' \in {op, Inserted(k, loc[p].intent, loc[p].wallet, loc[p].amount), Reclaimed(k)}
  BY <1>0 DEF ClaimNew, ClaimReclaimed, SaveOp, Goto, ClaimedPoint
<1>2. \A l \in Keys \ {k} : op'[l] = op[l]
  BY <1>0, <1>1 DEF Inserted, Reclaimed
<1>3. op'[k] = op[k] \/ (op'[k] # None /\ op'[k].hash = None /\ op'[k].wallet = loc[p].wallet)
  <2>1. CASE op' = op
    BY <2>1
  <2>2. CASE op' # op /\ ClaimNew(p)
    <3>1. op'[k] = NewRow(loc[p].intent, loc[p].wallet, loc[p].amount)
      BY <1>0, <2>2 DEF ClaimNew, SaveOp, Inserted
    <3>2. NewRow(loc[p].intent, loc[p].wallet, loc[p].amount) \in Row
      BY <1>0 DEF NewRow, Row, Statuses, OpenStatuses, Outcomes, Locals
    <3> QED
      BY <3>1, <3>2, NoneNotLocal DEF NewRow
  <2>3. CASE op' # op /\ ClaimReclaimed(p)
    <3>1. op[k] \in Row /\ op[k].hash = None /\ op[k].wallet = loc[p].wallet
      BY <1>0, <2>3 DEF ClaimReclaimed, Reclaimable, SameIntent
    <3>2. op'[k] = [op[k] EXCEPT !.status = "submitting", !.outcome = "unknown"]
      BY <1>0, <2>3, <3>1 DEF ClaimReclaimed, SaveOp, Reclaimed, Row
    <3>3. [op[k] EXCEPT !.status = "submitting", !.outcome = "unknown"] \in Row
      BY <3>1 DEF Row, Statuses, OpenStatuses, Outcomes
    <3> QED
      BY <3>1, <3>2, <3>3, NoneNotLocal DEF Row
  <2> QED
    BY <2>1, <2>2, <2>3
<1>4. HashNamesWallet'
  BY <1>2, <1>3 DEF WInv, HashNamesWallet
<1>5. ASSUME NEW q \in Procs, pc'[q] \in HashPoints \cup {"prepare"}
      PROVE  KnowsWallet(q)'
  <2>1. CASE q = p
    <3>1. pc'[p] = "prepare" /\ loc'[p] = loc[p]
      BY <1>1, <1>5, <2>1 DEF HashPoints
    <3>2. op'[k] # None /\ op'[k].wallet = loc[p].wallet
      <4>1. CASE ClaimNew(p)
        <5>1. op' = Inserted(k, loc[p].intent, loc[p].wallet, loc[p].amount)
          BY <1>0, <3>1, <4>1 DEF ClaimNew, SaveOp, Goto
        <5>2. op'[k] = NewRow(loc[p].intent, loc[p].wallet, loc[p].amount)
          BY <1>0, <5>1 DEF Inserted
        <5>3. NewRow(loc[p].intent, loc[p].wallet, loc[p].amount) \in Row
          BY <1>0 DEF NewRow, Row, Statuses, OpenStatuses, Outcomes, Locals
        <5> QED
          BY <5>2, <5>3, NoneNotLocal DEF NewRow
      <4>2. CASE ClaimReclaimed(p)
        <5>1. op[k] # None /\ op[k].wallet = loc[p].wallet
          BY <4>2 DEF ClaimReclaimed, SameIntent
        <5> QED
          BY <1>3, <5>1
      <4> QED
        BY <4>1, <4>2
    <3> QED
      BY <2>1, <3>1, <3>2 DEF KnowsWallet
  <2>2. CASE q # p
    <3>1. pc'[q] = pc[q] /\ loc'[q] = loc[q]
      BY <1>1, <2>2
    <3>2. KnowsWallet(q) /\ loc[q].key \in Keys
      BY <1>5, <3>1 DEF WInv, RunsKnowWallet, IInv, TypeOK, Locals, HashPoints
    <3>3. CASE loc[q].key = k
      <4>1. op[k] # None /\ (op'[k] = op[k] \/ op'[k].wallet = op[k].wallet) /\ op'[k] # None
        <5>1. op[k] # None
          BY <3>2, <3>3 DEF KnowsWallet
        <5>2. op[k].wallet = loc[p].wallet
          BY <5>1 DEF ClaimNew, ClaimReclaimed, SameIntent
        <5> QED
          BY <1>3, <5>1, <5>2
      <4> QED
        BY <3>1, <3>2, <3>3, <4>1 DEF KnowsWallet
    <3>4. CASE loc[q].key # k
      BY <1>2, <3>1, <3>2, <3>4 DEF KnowsWallet
    <3> QED
      BY <3>3, <3>4
  <2> QED
    BY <2>1, <2>2
<1> QED
  BY <1>4, <1>5 DEF WInv, RunsKnowWallet

\* The signed transfer names the recipient of its run.
LEMMA PrepareWallets ==
  ASSUME IInv, WInv, NEW p \in Procs, Prepare(p)
  PROVE  WInv'
<1> DEFINE k == loc[p].key
<1>0. k \in Keys /\ loc[p] \in Locals /\ TypeOK
  BY DEF IInv, TypeOK, Locals, Prepare
<1>1. PICK n : /\ op' = PreparedTarget(k, Transfer(p, n))
               /\ \/ GotoWith(p, "broadcast", [loc[p] EXCEPT !.tx = Transfer(p, n)])
                  \/ Goto(p, "preflight")
  BY DEF Prepare
<1>2. /\ op[k] # None /\ op[k] \in Row /\ op \in [Keys -> Row \cup {None}]
      /\ op[k].wallet = loc[p].wallet /\ op'[k] # None
  <2>1. KnowsWallet(p)
    BY DEF WInv, RunsKnowWallet, Prepare
  <2>2. op'[k] # None
    BY PreparePreserves
  <2> QED
    BY <1>0, <2>1, <2>2 DEF KnowsWallet, TypeOK, OperationsTypeOK
<1>3. /\ op'[k].hash = Transfer(p, n) /\ op'[k].wallet = op[k].wallet
      /\ \A l \in Keys \ {k} : op'[l] = op[l]
  BY <1>0, <1>1, <1>2 DEF PreparedTarget, Row
<1>4. HashNamesWallet'
  BY <1>2, <1>3 DEF WInv, HashNamesWallet, Transfer
<1>5. /\ \A q \in Procs \ {p} : pc'[q] = pc[q] /\ loc'[q] = loc[q]
      /\ loc'[p].key = k /\ loc'[p].wallet = loc[p].wallet
  BY <1>0, <1>1 DEF GotoWith, Goto, TypeOK, Locals
<1>6. ASSUME NEW q \in Procs, pc'[q] \in HashPoints \cup {"prepare"}
      PROVE  KnowsWallet(q)'
  <2>1. CASE q = p
    BY <1>2, <1>3, <1>5, <2>1 DEF KnowsWallet
  <2>2. CASE q # p
    <3>1. KnowsWallet(q) /\ loc[q].key \in Keys /\ loc'[q] = loc[q]
      BY <1>0, <1>5, <1>6, <2>2 DEF WInv, RunsKnowWallet, TypeOK, Locals, HashPoints
    <3> QED
      BY <1>2, <1>3, <3>1 DEF KnowsWallet
  <2> QED
    BY <2>1, <2>2
<1> QED
  BY <1>4, <1>6 DEF WInv, RunsKnowWallet

\* Every step keeps rows, hashes and runs agreed on the recipient.
LEMMA StepWInv == IInv /\ WInv /\ [Next]_vars => WInv'
<1> SUFFICES ASSUME IInv, WInv, [Next]_vars PROVE WInv'
  OBVIOUS
<1>1. CASE UNCHANGED <<op, pc, loc>>
  BY <1>1 DEF WInv, HashNamesWallet, RunsKnowWallet, KnowsWallet
<1>2. CASE Environment
  BY <1>1, <1>2 DEF Environment, MineNext, EvictOne, EditRules, Relink
<1>3. ASSUME NEW p \in Procs, Broadcast(p) PROVE WInv'
  <2>1. /\ op' = op /\ loc' = loc /\ pc[p] = "broadcast" /\ \A q \in Procs \ {p} : pc'[q] = pc[q]
    BY <1>3 DEF Broadcast, Goto, IInv, TypeOK
  <2> QED
    BY <2>1 DEF WInv, HashNamesWallet, RunsKnowWallet, KnowsWallet, HashPoints, Points
<1>4. CASE UNCHANGED vars
  BY <1>1, <1>4 DEF vars
<1>5. CASE Next
  BY <1>2, <1>3, <1>5, StepKinds, TypeStep, QuietWallets, MarkWallets, ClaimWallets, PrepareWallets DEF IInv
<1> QED
  BY <1>4, <1>5
-----------------------------------------------------------------------------
(* The simulation.                                                         *)

\* Only recordAward writes the awards table.
LEMMA LedgerSteps ==
  ASSUME Next
  PROVE  \/ Environment /\ UNCHANGED awards
         \/ \E p \in Procs : Record(p)
         \/ \E p \in Procs : (QuietStep(p) \/ Broadcast(p)) /\ UNCHANGED awards
         \/ \E p \in Procs : (MarkStep(p) \/ ClaimNew(p) \/ ClaimReclaimed(p)) /\ UNCHANGED awards
         \/ \E p \in Procs : Prepare(p) /\ UNCHANGED awards
<1>1. Environment => UNCHANGED awards
  BY DEF Environment, MineNext, EditRules, Relink, awardVars
<1>2. ASSUME NEW p \in Procs, Start(p) PROVE UNCHANGED awards
  BY <1>2 DEF Start, Recover, RecoverProjected, Lookup
<1>3. ASSUME NEW p \in Procs, Claiming(p) \/ Complete(p) PROVE UNCHANGED awards
  BY <1>3 DEF Claiming, Resolve, ClaimNew, ClaimReclaimed, ClaimRefused, ClaimReplay, ProjectZero, Complete
<1> QED
  BY <1>1, <1>2, <1>3 DEF Next, Step, Claiming, Submission, Projection, SubmissionStep, EvidenceStep,
     QuietStep, MarkStep, awardVars

\* A run with a saved hash works with a signed transfer to its recipient.
LEMMA HashIsSigned ==
  ASSUME IInv, WInv, NEW p \in Procs, pc[p] \in HashPoints
  PROVE  loc[p].tx \in Signed /\ loc[p].tx.key = loc[p].key /\ loc[p].tx.wallet = loc[p].wallet
<1>1. loc[p].key \in Keys
  BY DEF IInv, TypeOK, Locals, HashPoints
<1>2. op[loc[p].key] # None /\ op[loc[p].key].hash # None /\ op[loc[p].key].hash = loc[p].tx
  BY DEF IInv, HoldersMatch
<1>3. lease[loc[p].key] # None /\ lease[loc[p].key].tx = loc[p].tx /\ loc[p].tx.key = loc[p].key
  BY <1>1, <1>2 DEF IInv, LeaseMatchesRow
<1>4. loc[p].tx.wallet = loc[p].wallet
  BY <1>1, <1>2 DEF WInv, HashNamesWallet, RunsKnowWallet, KnowsWallet
<1> QED
  BY <1>1, <1>3, <1>4 DEF Signed, Leased

\* recordAward enters the transfer of its run, or leaves the table alone.
LEMMA RecordEnters ==
  ASSUME IInv, WInv, NEW p \in Procs, Record(p)
  PROVE  [Ledger!LedgerNext]_Ledger!ledgerVars
<1> DEFINE t == loc[p].tx
<1>1. UNCHANGED <<lease, paid>> /\ UNCHANGED Signed
  BY DEF Record, chainVars, Signed, Leased
<1>2. CASE UNCHANGED awards
  BY <1>1, <1>2 DEF Ledger!ledgerVars, Entered
<1>3. CASE Clashing(p) = {} /\ awards' = Recorded(p)
  <2>1. t \in Signed /\ t.key = loc[p].key /\ t.wallet = loc[p].wallet
    BY HashIsSigned DEF Record, HashPoints, Points
  <2> DEFINE row == [key |-> loc[p].key, wallet |-> loc[p].wallet, amount |-> loc[p].amount, tx |-> t]
  <2>2. Entered' = Entered \cup {[key |-> t.key, wallet |-> t.wallet, tx |-> t]}
    <3>1. awards' = awards \cup {row} /\ Entry(row) = [key |-> t.key, wallet |-> t.wallet, tx |-> t]
      BY <1>3, <2>1 DEF Recorded, Entry
    <3> QED
      BY <3>1 DEF Entered
  <2>3. ASSUME NEW e \in Entered
        PROVE  e.tx # t /\ <<e.key, t.key>> \notin {r \in Keys \X Keys : DedupOf[r[1]] = DedupOf[r[2]]}
    <3>1. PICK a \in awards : e = Entry(a)
      BY DEF Entered
    <3>2. a.tx # t /\ DedupOf[a.key] # DedupOf[t.key]
      BY <1>3, <2>1 DEF Clashing
    <3> QED
      BY <3>1, <3>2 DEF Entry
  <2>4. Ledger!Enter(t)
    BY <1>1, <2>1, <2>2, <2>3 DEF Ledger!Enter
  <2> QED
    BY <2>1, <2>4 DEF Ledger!LedgerNext
<1>4. awards' = awards \/ (Clashing(p) = {} /\ awards' = Recorded(p))
  BY DEF Record, Recorded
<1> QED
  BY <1>2, <1>3, <1>4

\* prepare signs one transfer of an award that has none: its row is the only
\* one of the award, and it has no lease.
LEMMA PrepareSigns ==
  ASSUME IInv, TypeOK', NEW p \in Procs, Prepare(p), UNCHANGED awards
  PROVE  Ledger!LedgerNext
<1> DEFINE k == loc[p].key
<1>1. k \in Keys /\ lease[k] = None /\ lease \in [Keys -> Lease \cup {None}]
  BY DEF IInv, TypeOK, LeaseTypeOK, Locals, Prepare
<1>2. PICK t : lease' = PreparedLease(k, t) /\ t.key = k
  BY DEF Prepare, Transfer
<1>3. lease'[k] = [tx |-> t, status |-> "prepared"] /\ \A l \in Keys \ {k} : lease'[l] = lease[l]
  BY <1>1, <1>2 DEF PreparedLease
<1>4. t \in Tx /\ lease'[k] # None
  <2>1. lease' \in [Keys -> Lease \cup {None}]
    BY DEF TypeOK, LeaseTypeOK
  <2>2. RestOfIInv'
    BY PreparePreserves
  <2>3. lease'[k] \in Lease
    <3>1. lease'[k] \in Lease \cup {None}
      BY <1>1, <2>1
    <3>2. op'[k] # None /\ op'[k].hash # None
      BY PreparePreserves
    <3> QED
      BY <1>1, <2>2, <3>1, <3>2 DEF RestOfIInv, LeaseMatchesRow
  <2> QED
    BY <1>3, <2>3, NoneNotLocal DEF Lease
<1>5. Signed' = Signed \cup {t}
  BY <1>1, <1>3, <1>4 DEF Signed, Leased
<1>6. ASSUME NEW u \in Signed
      PROVE  ~SameAwardKeys(t.key, u.key) /\ ~SameAwardKeys(u.key, t.key)
  <2>1. PICK l \in Keys : lease[l] # None /\ u = lease[l].tx
    BY DEF Signed, Leased
  <2>2. u.key = l /\ op[l] # None /\ l # k
    BY <1>1, <2>1 DEF IInv, LeaseMatchesRow
  <2>3. op[k] # None
    BY DEF IInv, OwnersMatch, Untouched, Prepare
  <2> QED
    BY <1>1, <1>2, <2>1, <2>2, <2>3 DEF IInv, OneRowPerAward
<1>7. UNCHANGED <<paid, Entered>>
  BY DEF Prepare, chainVars, Entered
<1>8. Ledger!Sign(t)
  BY <1>4, <1>5, <1>6, <1>7 DEF Ledger!Sign
<1> QED
  BY <1>5, <1>8 DEF Ledger!LedgerNext

\* What the chain mines has been signed.
LEMMA MineMoves ==
  ASSUME IInv, Environment, UNCHANGED awards
  PROVE  [Ledger!LedgerNext]_Ledger!ledgerVars
<1>1. UNCHANGED <<Signed, Entered>>
  BY DEF Environment, MineNext, EvictOne, EditRules, Relink, Signed, Leased, Entered
<1>2. CASE UNCHANGED paid
  BY <1>1, <1>2 DEF Ledger!ledgerVars
<1>3. CASE MineNext
  <2>1. PICK t \in pool, ok \in BOOLEAN : Mine(t, ok)
    BY <1>3 DEF MineNext
  <2>2. t \in Signed
    BY DEF IInv, ChainIsLeased, TypeOK, ChainTypeOK, Tx, Signed, Leased
  <2>3. paid' = paid \/ paid' = paid \cup {t}
    BY <2>1 DEF Mine
  <2>4. paid' = paid \cup {t} => Ledger!Move(t)
    BY <1>1, <2>2 DEF Ledger!Move
  <2> QED
    BY <1>2, <2>2, <2>3, <2>4 DEF Ledger!LedgerNext
<1> QED
  BY <1>2, <1>3 DEF Environment, EvictOne, Evict, EditRules, Relink, chainVars

\* Marks keep the transfer of every lease.
LEMMA KeptIsSilent ==
  ASSUME NEW k \in Keys, Kept(k), UNCHANGED awards
  PROVE  UNCHANGED Ledger!ledgerVars
<1>1. UNCHANGED Signed
  BY DEF Kept, Signed, Leased
<1> QED
  BY <1>1 DEF Kept, Ledger!ledgerVars, Entered

\* Every step of the executor is a step of the ledger, or leaves it alone.
LEMMA StepsImplement ==
  IInv /\ WInv /\ [Next]_vars => [Ledger!LedgerNext]_Ledger!ledgerVars
<1> SUFFICES ASSUME IInv, WInv, [Next]_vars PROVE [Ledger!LedgerNext]_Ledger!ledgerVars
  OBVIOUS
<1>1. CASE UNCHANGED <<lease, paid, awards>>
  BY <1>1 DEF Ledger!ledgerVars, Signed, Leased, Entered
<1>2. CASE UNCHANGED vars
  BY <1>1, <1>2 DEF vars
<1>3. ASSUME NEW p \in Procs, QuietStep(p) \/ Broadcast(p) \/ ClaimNew(p) \/ ClaimReclaimed(p), UNCHANGED awards
      PROVE  [Ledger!LedgerNext]_Ledger!ledgerVars
  <2>1. UNCHANGED <<lease, paid>>
    BY <1>3, QuietMoves DEF Broadcast, ClaimNew, ClaimReclaimed, chainVars
  <2> QED
    BY <1>1, <1>3, <2>1
<1>4. ASSUME NEW p \in Procs, MarkStep(p), UNCHANGED awards
      PROVE  [Ledger!LedgerNext]_Ledger!ledgerVars
  <2>1. loc[p].key \in Keys
    BY <1>4 DEF IInv, TypeOK, MarkStep, ProjectZero, PreflightFailed, SubmitLease, UnknownLease, Submit,
       StillUnknown, RejectEvidence, Confirm, ProjectionError, Complete, Locals
  <2> QED
    BY <1>4, <2>1, MarksKeep, KeptIsSilent
<1>5. ASSUME NEW p \in Procs, Prepare(p), UNCHANGED awards
      PROVE  [Ledger!LedgerNext]_Ledger!ledgerVars
  BY <1>5, TypeStep, PrepareSigns DEF IInv
<1>6. CASE Next
  BY <1>3, <1>4, <1>5, <1>6, LedgerSteps, RecordEnters, MineMoves
<1> QED
  BY <1>2, <1>6

\* Empty tables are an empty ledger.
LEMMA InitImplements == Init => WInv /\ Ledger!LedgerInit
<1> SUFFICES ASSUME Init PROVE WInv /\ Ledger!LedgerInit
  OBVIOUS
<1> USE DEF Init, OperationsInit, ChainInit, LeaseInit
<1>1. WInv
  BY DEF WInv, HashNamesWallet, RunsKnowWallet, HashPoints
<1>2. Ledger!LedgerInit
  BY DEF Ledger!LedgerInit, Signed, Leased, Entered
<1> QED
  BY <1>1, <1>2

\* processAwardFromCDR and recoverAwardOperation keep the promise of the
\* ledger under every interleaving, crash, lost answer and replay: an award's
\* transfer is signed once and for good, tokens move by signed transfers only,
\* and each row that is entered names its own transfer and recipient.
THEOREM AwardsImplementLedger == Spec => ImplementsLedger
<1>1. Spec => [](IInv /\ WInv)
  BY InductiveInvariant, InitImplements, StepWInv, PTL DEF Spec
<1> QED
  BY <1>1, InitImplements, StepsImplement, PTL DEF Spec, ImplementsLedger, Ledger!LedgerSpec
-----------------------------------------------------------------------------
(* What becomes of an award's transfer: it reaches the chain without a gap *)
(* below its nonce, it is never written off once it has been paid, and the *)
(* awards table and the answers tell the truth about it.                   *)
(*                                                                         *)
(* Three invariants on top of IInv and WInv, one for each question. Where  *)
(* the amount matters, a row's amount is the one the rules gave: a claim   *)
(* that takes a preflight failure over does not compare amounts, so the    *)
(* statements about amounts are for rules nobody edits.                    *)

\* Nobody has edited the award rules, no node has dropped a transfer.
RulesUnedited == budget.edits = MaxRuleEdits
NothingEvicted == budget.evictions = MaxEvictions

\* The bounded events only get fewer.
BudgetsFall == budget.edits <= MaxRuleEdits /\ budget.evictions <= MaxEvictions

\* Below the nonce of a lease every nonce is on the chain, and a lease that is
\* marked submitted is there itself.
GaplessBelow(n, known) == \A m \in Nat : m < n => \E u \in known : u.nonce = m

NInv ==
  /\ BudgetsFall
  /\ NothingEvicted =>
       /\ \A k \in Keys : lease[k] # None => GaplessBelow(lease[k].tx.nonce, Known)
       /\ \A k \in Keys : lease[k] # None /\ lease[k].status = "submitted" => lease[k].tx \in Known
       /\ \A p \in Procs : pc[p] = "submitLease" => loc[p].tx \in Known

\* A run that has claimed or found its row works on the intent of that row.
KnowsIntent(p) == op[loc[p].key] # None /\ op[loc[p].key].intent = loc[p].intent

\* A run with a hash works with the amount of its row or of its transfer, so
\* evidence that does not match means that the two differ.
AmountsKnown ==
  \A p \in Procs :
    /\ pc[p] \in HashPoints => loc[p].amount \in {op[loc[p].key].amount, loc[p].tx.amount}
    /\ pc[p] = "failReview" => loc[p].tx.amount # op[loc[p].key].amount

\* A failed transfer was reverted, or is not what its row says.
FailuresExplained ==
  \A k \in Keys : op[k] # None /\ op[k].hash # None /\ op[k].status = "failed" =>
    op[k].hash \in reverted \/ op[k].hash.amount # op[k].amount

\* Rows, transfers and runs have the amount the rules give their intent.
RulesRule ==
  /\ \A k \in Keys : op[k] # None =>
       /\ op[k].amount = policy[op[k].intent]
       /\ op[k].hash # None => op[k].hash.amount = op[k].amount
  /\ \A p \in Procs : pc[p] # "idle" => loc[p].amount = policy[loc[p].intent]

AInv ==
  /\ BudgetsFall
  /\ \A p \in Procs : pc[p] \notin {"idle", "resolve", "claim"} => KnowsIntent(p)
  /\ AmountsKnown /\ FailuresExplained
  /\ RulesUnedited => RulesRule

\* A row of the awards table is older than the operations or tells what its
\* operation did, and a positive award is answered for when it is in the table.
HasAward(k, a) == \E x \in awards : x.key = k /\ x.amount = a

AwardsTell ==
  \A a \in awards : a \in LegacyAwards
    \/ /\ op[a.key] # None /\ op[a.key].hash # None /\ op[a.key].hash = a.tx
       /\ a.wallet = op[a.key].wallet
       /\ RulesUnedited => a.amount = op[a.key].amount

RInv ==
  /\ AwardsTell /\ DedupUnique(awards)
  /\ \A p \in Procs : pc[p] = "complete" => HasAward(loc[p].key, loc[p].amount)
  /\ \A p \in Procs : pc[p] = "zero" => loc[p].amount = 0
  /\ RulesUnedited =>
       /\ \A k \in Keys : op[k] # None /\ op[k].status = "projected" /\ op[k].amount # 0
                            => HasAward(k, op[k].amount)
       /\ AnswersAreDurable
-----------------------------------------------------------------------------
(* What a step does to the bounds, the rules and the known transfers.      *)

\* Runs leave the rules alone and lose no transfer.
LEMMA RunsSpend ==
  ASSUME TypeOK, NEW p \in Procs, Step(p) \/ Start(p) \/ (Crash(p) /\ UNCHANGED awardVars)
  PROVE  (NoFault \/ Fault) /\ policy' = policy /\ Known \subseteq Known'
<1> USE DEF awardVars, chainVars, Known, Mined
<1>1. CASE Claiming(p)
  BY <1>1 DEF Claiming, Resolve, ClaimNew, ClaimReclaimed, ClaimRefused, ClaimReplay, ProjectZero,
     SaveOp, NoFault
<1>2. CASE Submission(p)
  BY <1>2 DEF Submission, SubmissionStep, Prepare, PrepareRefused, PreflightFailed, Broadcast,
     SubmitLease, UnknownLease, Submit, SaveOp, Accept
<1>3. CASE Projection(p)
  BY <1>3 DEF Projection, EvidenceStep, Verify, VerifyFresh, StillUnknown, RejectEvidence, Confirm,
     ProjectionError, Record, Complete, SaveOp
<1>4. CASE Start(p)
  BY <1>4 DEF Start, Recover, RecoverProjected, Lookup, NoFault
<1>5. CASE Crash(p) /\ UNCHANGED awardVars
  BY <1>5 DEF Crash
<1> QED
  BY <1>1, <1>2, <1>3, <1>4, <1>5 DEF Step

\* Only an edit changes the rules and only an eviction loses a transfer, and
\* each of them can be told from the budget ever after.
LEMMA BoundsTell ==
  ASSUME TypeOK, BudgetsFall, [Next]_vars
  PROVE  /\ BudgetsFall'
         /\ RulesUnedited' => RulesUnedited /\ policy' = policy
         /\ NothingEvicted' => NothingEvicted /\ Known \subseteq Known'
<1> USE BoundsAssumption DEF BudgetsFall, RulesUnedited, NothingEvicted, TypeOK, Budget
<1>1. CASE UNCHANGED vars
  BY <1>1 DEF vars, Known, Mined
<1>2. ASSUME NEW p \in Procs, Step(p) \/ Start(p) \/ (Crash(p) /\ UNCHANGED awardVars)
      PROVE  budget'.edits = budget.edits /\ budget'.evictions = budget.evictions
  BY <1>2, RunsSpend DEF Fault, NoFault
<1>3. CASE EvictOne /\ UNCHANGED awardVars
  BY <1>3 DEF EvictOne, awardVars
<1>4. CASE EditRules
  BY <1>4 DEF EditRules, chainVars, Known, Mined
<1>5. CASE MineNext \/ Relink
  <2>1. Known \subseteq Known' /\ policy' = policy
    BY <1>5 DEF MineNext, Mine, Relink, chainVars, Known, Mined
  <2>2. budget'.edits = budget.edits /\ budget'.evictions = budget.evictions
    BY <1>5 DEF MineNext, Relink, NoFault
  <2> QED
    BY <2>1, <2>2
<1>6. CASE Next
  BY <1>2, <1>3, <1>4, <1>5, <1>6, RunsSpend DEF Next, Environment
<1> QED
  BY <1>1, <1>6
-----------------------------------------------------------------------------
(* Nonces.                                                                 *)

\* Only four steps write leases or hand a transfer to the chain.
LEMMA LeasesRest ==
  ASSUME TypeOK, [Next]_vars,
         \A p \in Procs : ~Prepare(p) /\ ~Broadcast(p) /\ ~SubmitLease(p) /\ ~UnknownLease(p)
  PROVE  /\ lease' = lease
         /\ \A q \in Procs : pc'[q] = "submitLease" => pc[q] = "submitLease" /\ loc'[q] = loc[q]
<1> USE DEF TypeOK
<1>1. ASSUME NEW p \in Procs, NEW point, Goto(p, point), point # "submitLease"
      PROVE  \A q \in Procs : pc'[q] = "submitLease" => pc[q] = "submitLease" /\ loc'[q] = loc[q]
  BY <1>1 DEF Goto
<1>2. ASSUME NEW p \in Procs, NEW point, NEW memory, GotoWith(p, point, memory), point # "submitLease"
      PROVE  \A q \in Procs : pc'[q] = "submitLease" => pc[q] = "submitLease" /\ loc'[q] = loc[q]
  BY <1>2 DEF GotoWith
<1>3. /\ \A row : ReplayPoint(row) # "submitLease"
      /\ \A e : EvidencePoint(e) # "submitLease" /\ FreshPoint(e) # "submitLease"
  BY DEF ReplayPoint, EvidencePoint, FreshPoint
<1>4. ASSUME NEW p \in Procs, Step(p)
      PROVE  /\ lease' = lease
             /\ \/ \E point : Goto(p, point) /\ point # "submitLease"
                \/ \E point, memory : GotoWith(p, point, memory) /\ point # "submitLease"
  <2>1. CASE Claiming(p)
    BY <1>3, <2>1 DEF Claiming, Resolve, ClaimNew, ClaimReclaimed, ClaimRefused, ClaimReplay, ProjectZero,
       SaveOp, ClaimedPoint
  <2>2. CASE Submission(p)
    BY <2>2 DEF Submission, SubmissionStep, PrepareRefused, PreflightFailed, Submit, SaveOp
  <2>3. CASE Projection(p)
    BY <1>3, <2>3 DEF Projection, EvidenceStep, Verify, VerifyFresh, StillUnknown, RejectEvidence, Confirm,
       ProjectionError, Record, Complete, SaveOp
  <2> QED
    BY <1>4, <2>1, <2>2, <2>3 DEF Step
<1>5. ASSUME NEW p \in Procs, NEW k \in Keys, RecoverProjected(p, k)
      PROVE  UNCHANGED <<lease, pc, loc>>
  BY <1>5 DEF RecoverProjected
<1>6. ASSUME NEW p \in Procs, NEW k \in Keys, Recover(p, k) \/ \E c \in Intents : Lookup(p, k, c)
      PROVE  /\ lease' = lease
             /\ \E point, memory : GotoWith(p, point, memory) /\ point # "submitLease"
  <2>1. CASE Recover(p, k)
    BY <2>1 DEF Recover
  <2>2. ASSUME NEW c \in Intents, Lookup(p, k, c)
        PROVE  /\ lease' = lease
               /\ \E point, memory : GotoWith(p, point, memory) /\ point # "submitLease"
    BY <1>3, <2>2 DEF Lookup
  <2> QED
    BY <1>6, <2>1, <2>2
<1>7. ASSUME NEW p \in Procs, Crash(p)
      PROVE  lease' = lease /\ Goto(p, "idle")
  BY <1>7 DEF Crash
<1>8. Environment => UNCHANGED <<lease, pc, loc>>
  BY DEF Environment, MineNext, EvictOne, EditRules, Relink
<1>9. UNCHANGED vars => UNCHANGED <<lease, pc, loc>>
  BY DEF vars
<1> QED
  BY <1>1, <1>2, <1>4, <1>5, <1>6, <1>7, <1>8, <1>9 DEF Next, Start

\* prepare takes the first nonce above every one that the endpoint reports or
\* a lease holds; a lease above the reported nonce can only be a submitted
\* one, for the others refuse the preparation.
LEMMA PrepareFollows ==
  ASSUME IInv, NInv, NEW p \in Procs, Prepare(p), NothingEvicted
  PROVE  /\ \A l \in Keys \ {loc[p].key} : lease'[l] = lease[l]
         /\ lease'[loc[p].key].status # "submitted" /\ GaplessBelow(lease'[loc[p].key].tx.nonce, Known)
<1> DEFINE k == loc[p].key
<1>0. k \in Keys /\ TypeOK /\ lease \in [Keys -> Lease \cup {None}]
  BY DEF IInv, TypeOK, LeaseTypeOK, Locals, Prepare
<1>a. PICK pending \in ReportedNonces :
        /\ ~Unresolved(pending)
        /\ \E n \in NextNonces(pending) : lease' = PreparedLease(k, Transfer(p, n))
  BY DEF Prepare
<1>b. PICK n \in NextNonces(pending) : lease' = PreparedLease(k, Transfer(p, n))
  BY <1>a
<1>1. ~Unresolved(pending) /\ lease' = PreparedLease(k, Transfer(p, n))
  BY <1>a, <1>b
<1>2. lease'[k] = [tx |-> Transfer(p, n), status |-> "prepared"] /\ \A l \in Keys \ {k} : lease'[l] = lease[l]
  BY <1>0, <1>1 DEF PreparedLease
<1>3. \A u \in Known : u.nonce \in Nat
  BY <1>0 DEF TypeOK, ChainTypeOK, Known, Mined, Tx
<1>4. pending \in Nat /\ GaplessBelow(pending, Known)
  <2>1. pending \in Nat
    BY <1>3 DEF ReportedNonces
  <2>2. \A m \in 0..pending : m < pending => \E u \in Known : u.nonce = m
    BY DEF ReportedNonces
  <2> QED
    BY <2>1, <2>2 DEF GaplessBelow
<1>5. CASE n = pending
  BY <1>2, <1>4, <1>5 DEF Transfer
<1>6. CASE n # pending
  <2>1. PICK l \in Keys : lease[l] # None /\ n = lease[l].tx.nonce + 1 /\ n >= pending
    BY <1>1, <1>6 DEF NextNonces, Holding, Leased
  <2>2. lease[l] \in Lease /\ lease[l].tx.nonce \in Nat /\ lease[l].tx.nonce >= pending
    BY <1>0, <1>4, <1>6, <2>1 DEF Lease, Tx
  <2>3. lease[l].status = "submitted"
    BY <1>1, <2>1, <2>2 DEF Unresolved, Leased, Lease, LeaseStatuses
  <2>4. lease[l].tx \in Known /\ GaplessBelow(lease[l].tx.nonce, Known)
    BY <2>1, <2>3 DEF NInv
  <2>5. GaplessBelow(n, Known)
    BY <2>1, <2>2, <2>4 DEF GaplessBelow
  <2> QED
    BY <1>2, <2>5 DEF Transfer
<1> QED
  BY <1>2, <1>5, <1>6

\* Every step keeps the nonces gapless.
LEMMA StepNInv == IInv /\ NInv /\ [Next]_vars => NInv'
<1> SUFFICES ASSUME IInv, NInv, [Next]_vars PROVE NInv'
  OBVIOUS
<1>0. /\ TypeOK /\ BudgetsFall' /\ lease \in [Keys -> Lease \cup {None}]
      /\ NothingEvicted' => NothingEvicted /\ Known \subseteq Known'
      /\ pc \in [Procs -> Points] /\ loc \in [Procs -> Locals \cup {None}]
  BY BoundsTell DEF IInv, NInv, TypeOK, LeaseTypeOK
<1> SUFFICES ASSUME NothingEvicted'
             PROVE  /\ \A k \in Keys : lease'[k] # None => GaplessBelow(lease'[k].tx.nonce, Known')
                    /\ \A k \in Keys : lease'[k] # None /\ lease'[k].status = "submitted"
                                         => lease'[k].tx \in Known'
                    /\ \A p \in Procs : pc'[p] = "submitLease" => loc'[p].tx \in Known'
  BY <1>0 DEF NInv
<1>1. \A n : GaplessBelow(n, Known) => GaplessBelow(n, Known')
  BY <1>0 DEF GaplessBelow
<1>2. /\ \A k \in Keys : lease[k] # None => GaplessBelow(lease[k].tx.nonce, Known')
      /\ \A k \in Keys : lease[k] # None /\ lease[k].status = "submitted" => lease[k].tx \in Known'
      /\ \A p \in Procs : pc[p] = "submitLease" => loc[p].tx \in Known'
  BY <1>0, <1>1 DEF NInv
<1>3. CASE \A p \in Procs : ~Prepare(p) /\ ~Broadcast(p) /\ ~SubmitLease(p) /\ ~UnknownLease(p)
  BY <1>0, <1>2, <1>3, LeasesRest
<1>4. ASSUME NEW p \in Procs, Prepare(p) PROVE NInv'
  <2>1. \A q \in Procs : pc'[q] = "submitLease" => pc[q] = "submitLease" /\ loc'[q] = loc[q]
    BY <1>0, <1>4 DEF Prepare, Goto, GotoWith
  <2> QED
    BY <1>0, <1>1, <1>2, <1>4, <2>1, PrepareFollows DEF NInv
<1>5. ASSUME NEW p \in Procs, Broadcast(p) PROVE NInv'
  <2> DEFINE k == loc[p].key
  <2> DEFINE t == loc[p].tx
  <2>1. k \in Keys /\ lease[k] # None /\ lease[k].tx = t
    BY <1>0, <1>5 DEF IInv, HoldersMatch, LeaseMatchesRow, Broadcast, HashPoints, Points, TypeOK, Locals
  <2>2. \A u \in Known : u.nonce = t.nonce => u = t
    BY <2>1 DEF IInv, ChainIsLeased, NonceNeverReused, Leased, Known, Mined, TypeOK, ChainTypeOK, Tx
  <2>3. Accept(t) => t \in Known'
    BY <1>0, <2>2 DEF Accept, Known, Mined
  <2>4. /\ lease' = lease
        /\ \A q \in Procs : pc'[q] = "submitLease" =>
             (pc[q] = "submitLease" /\ loc'[q] = loc[q]) \/ (loc'[q].tx = t /\ Accept(t))
    BY <1>0, <1>5 DEF Broadcast, Goto
  <2> QED
    BY <1>0, <1>2, <2>3, <2>4 DEF NInv
<1>6. ASSUME NEW p \in Procs, SubmitLease(p) \/ UnknownLease(p) PROVE NInv'
  <2> DEFINE k == loc[p].key
  <2>1. /\ k \in Keys /\ op[k] # None /\ op[k].hash # None /\ op[k].hash = loc[p].tx
        /\ lease[k] # None /\ lease[k].tx = loc[p].tx
    BY <1>0, <1>6 DEF IInv, HoldersMatch, LeaseMatchesRow, SubmitLease, UnknownLease, HashPoints, Points,
       TypeOK, Locals
  <2>2. \A q \in Procs : pc'[q] = "submitLease" => pc[q] = "submitLease" /\ loc'[q] = loc[q]
    BY <1>0, <1>6 DEF SubmitLease, UnknownLease, Goto
  <2>3. \/ lease' = lease
        \/ SubmitLease(p) /\ lease' = LeaseMarked(k, "submitted")
        \/ lease' = LeaseMarked(k, "unknown")
    BY <1>6 DEF SubmitLease, UnknownLease
  <2>4. /\ \A l \in Keys \ {k} : lease'[l] = lease[l]
        /\ lease'[k].tx = lease[k].tx
        /\ lease'[k] = lease[k] \/ SubmitLease(p) \/ lease'[k].status # "submitted"
    BY <1>0, <2>1, <2>3 DEF LeaseMarked, Lease
  <2>5. SubmitLease(p) => loc[p].tx \in Known'
    BY <1>2 DEF SubmitLease
  <2> QED
    BY <1>0, <1>2, <2>1, <2>2, <2>4, <2>5 DEF NInv
<1> QED
  BY <1>3, <1>4, <1>5, <1>6 DEF NInv

\* As long as no node has dropped a transfer it had accepted, none reaches the
\* chain above a nonce the chain has not seen: treasuryTransactions.prepare
\* refuses to sign on top of a transfer that may not have arrived, so it never
\* blocks the later ones.
THEOREM NoncesWithoutGap == Spec => []NoNonceGap
<1>1. Init => NInv
  <2> SUFFICES ASSUME Init PROVE NInv
    OBVIOUS
  <2> QED
    BY BoundsAssumption DEF Init, LeaseInit, NInv, BudgetsFall
<1>2. IInv /\ NInv => NoNonceGap
  <2> SUFFICES ASSUME IInv, NInv, NothingEvicted, NEW t \in Known, NEW n \in 0..t.nonce
               PROVE  \E u \in Known : u.nonce = n
    BY DEF NoNonceGap, NothingEvicted
  <2>1. t.nonce \in Nat /\ t.key \in Keys /\ lease[t.key] # None /\ lease[t.key].tx = t
    BY DEF IInv, ChainIsLeased, TypeOK, ChainTypeOK, Known, Mined, Tx
  <2>2. GaplessBelow(t.nonce, Known)
    BY <2>1 DEF NInv
  <2> QED
    BY <2>1, <2>2 DEF GaplessBelow
<1> QED
  BY <1>1, <1>2, InductiveInvariant, StepNInv, PTL DEF Spec
-----------------------------------------------------------------------------
(* Amounts.                                                                *)

\* What a reading step leaves its run with: the memory it had, the intent and
\* amount of the row it found, or, without a row, those of the request.
Remembers(p) ==
  \/ pc'[p] = "idle"
  \/ /\ pc'[p] = "resolve" /\ loc'[p].amount = policy[loc'[p].intent]
  \/ /\ pc[p] = "resolve" /\ pc'[p] = "claim"
     /\ loc'[p].amount = loc[p].amount /\ loc'[p].intent = loc[p].intent
  \/ /\ op[loc'[p].key] # None /\ loc'[p].intent = op[loc'[p].key].intent
     /\ loc'[p].amount = op[loc'[p].key].amount /\ pc'[p] # "failReview"
  \/ /\ loc'[p] = loc[p] /\ pc[p] \notin {"idle", "resolve", "claim"}
     /\ pc'[p] \in HashPoints => pc[p] \in HashPoints
     /\ pc'[p] = "failReview" => loc[p].tx.amount # op[loc[p].key].amount

\* A mismatch can only be one of amounts, the wallet being that of the row.
LEMMA QuietRemembers ==
  ASSUME IInv, WInv, AInv, NEW p \in Procs, QuietStep(p)
  PROVE  Remembers(p) \/ (pc'[p] = pc[p] /\ loc'[p] = loc[p])
<1> USE DEF HashPoints, Points
<1>0. /\ pc \in [Procs -> Points] /\ loc \in [Procs -> Locals \cup {None}]
      /\ pc[p] # "idle" => loc[p] \in Locals
  BY DEF IInv, TypeOK
<1>1. CASE Resolve(p)
  BY <1>0, <1>1 DEF Resolve, GotoWith, Locals, Remembers
<1>2. CASE ClaimRefused(p) \/ Crash(p)
  BY <1>0, <1>2 DEF ClaimRefused, Crash, Goto, Remembers
<1>3. CASE ClaimReplay(p)
  <2> DEFINE k == loc[p].key
  <2> DEFINE memory == [loc[p] EXCEPT !.amount = op[k].amount, !.tx = op[k].hash]
  <2>1. op[k] # None /\ op[k].intent = loc[p].intent
    BY <1>3 DEF ClaimReplay, SameIntent
  <2>2. memory.key = k /\ memory.intent = loc[p].intent /\ memory.amount = op[k].amount
    BY <1>0, <1>3 DEF ClaimReplay, Locals
  <2>3. pc'[p] = ReplayPoint(op[k]) /\ (pc'[p] # "idle" => loc'[p] = memory)
    BY <1>0, <1>3 DEF ClaimReplay, GotoWith
  <2>4. ReplayPoint(op[k]) # "failReview"
    BY DEF ReplayPoint
  <2> QED
    BY <2>1, <2>2, <2>3, <2>4 DEF Remembers
<1>4. CASE PrepareRefused(p) \/ Record(p)
  BY <1>0, <1>4 DEF PrepareRefused, Record, Goto, Remembers
<1>5. CASE Verify(p)
  <2> DEFINE e == Evidence(loc[p].tx, loc[p].wallet, loc[p].amount)
  <2>1. \A x : /\ EvidencePoint(x) \in {"confirm", "failNoMovement", "failReview", "unknown"}
               /\ EvidencePoint(x) = "failReview" => x = "mismatch"
    BY DEF EvidencePoint
  <2>a. pc[p] = "verify"
    BY <1>5 DEF Verify
  <2>b. pc[p] \in HashPoints
    BY <2>a
  <2>2. loc' = loc /\ (pc'[p] = EvidencePoint(e) \/ \E x \in DegradedEvidence : pc'[p] = EvidencePoint(x))
    BY <1>0, <1>5, <2>1 DEF Verify, Goto
  <2>3. pc'[p] = "failReview" => e = "mismatch"
    BY <2>1, <2>2 DEF DegradedEvidence
  <2>4. e = "mismatch" => loc[p].tx.wallet # loc[p].wallet \/ loc[p].tx.amount # loc[p].amount
    BY DEF Evidence
  <2>5. loc[p].tx.wallet = loc[p].wallet
    BY <2>b, HashIsSigned
  <2>6. loc[p].amount \in {op[loc[p].key].amount, loc[p].tx.amount}
    BY <2>b DEF AInv, AmountsKnown
  <2> HIDE DEF e
  <2> QED
    BY <2>a, <2>b, <2>2, <2>3, <2>4, <2>5, <2>6 DEF Remembers
<1>6. CASE VerifyFresh(p)
  <2>1. \A x : FreshPoint(x) \in {"confirm", "unknown", "idle"}
    BY DEF FreshPoint
  <2> QED
    BY <1>0, <1>6, <2>1 DEF VerifyFresh, Goto, Remembers
<1>7. ASSUME NEW k \in Keys, Recover(p, k) PROVE Remembers(p)
  BY <1>0, <1>7 DEF Recover, GotoWith, Remembers
<1>8. ASSUME NEW k \in Keys, RecoverProjected(p, k) PROVE pc'[p] = pc[p] /\ loc'[p] = loc[p]
  BY <1>8 DEF RecoverProjected
<1>9. ASSUME NEW k \in Keys, NEW c \in Intents, Lookup(p, k, c) PROVE Remembers(p)
  <2>1. ReplayPoint(op[k]) # "failReview"
    BY DEF ReplayPoint
  <2>2. CASE op[k] = None
    BY <1>0, <1>9, <2>2 DEF Lookup, GotoWith, Remembers
  <2>3. CASE op[k] # None
    <3>1. PICK point \in {"claim", ReplayPoint(op[k])} :
            /\ op[k].intent = c
            /\ GotoWith(p, point, [key |-> k, intent |-> c, wallet |-> op[k].wallet,
                                   amount |-> op[k].amount, tx |-> None])
      BY <1>9, <2>3 DEF Lookup
    <3>2. pc'[p] = point /\ (point # "idle" => /\ loc'[p].key = k /\ loc'[p].intent = c
                                              /\ loc'[p].amount = op[k].amount)
      BY <1>0, <3>1 DEF GotoWith
    <3> QED
      BY <2>1, <2>3, <3>1, <3>2 DEF Remembers
  <2> QED
    BY <2>2, <2>3
<1> QED
  BY <1>1, <1>2, <1>3, <1>4, <1>5, <1>6, <1>7, <1>8, <1>9 DEF QuietStep, Start

\* Reading steps preserve AInv.
LEMMA QuietAmounts ==
  ASSUME IInv, WInv, AInv, NEW p \in Procs, QuietStep(p), [Next]_vars
  PROVE  AInv'
<1>1. QuietMove(p) /\ UNCHANGED <<op, chainVars, lease>>
  BY QuietMoves
<1>2. Remembers(p) \/ (pc'[p] = pc[p] /\ loc'[p] = loc[p])
  BY QuietRemembers
<1>3. BudgetsFall' /\ (RulesUnedited' => RulesUnedited /\ policy' = policy)
  BY BoundsTell DEF IInv, AInv
<1>4. \A q \in Procs \ {p} : pc'[q] = pc[q] /\ loc'[q] = loc[q]
  BY <1>1 DEF QuietMove
<1>5. \A q \in Procs : pc'[q] \notin {"idle", "resolve", "claim"} => KnowsIntent(q)'
  BY <1>1, <1>2, <1>4 DEF AInv, KnowsIntent, Remembers
<1>6. AmountsKnown'
  <2> SUFFICES ASSUME NEW q \in Procs
               PROVE  /\ pc'[q] \in HashPoints => loc'[q].amount \in {op[loc'[q].key].amount, loc'[q].tx.amount}
                      /\ pc'[q] = "failReview" => loc'[q].tx.amount # op[loc'[q].key].amount
    BY <1>1 DEF AmountsKnown
  <2>1. CASE pc'[q] = pc[q] /\ loc'[q] = loc[q]
    BY <2>1 DEF AInv, AmountsKnown
  <2>2. CASE q = p /\ Remembers(p)
    BY <2>2 DEF AInv, AmountsKnown, Remembers, HashPoints
  <2> QED
    BY <1>2, <1>4, <2>1, <2>2
<1>7. FailuresExplained'
  BY <1>1 DEF AInv, FailuresExplained, chainVars
<1>8. RulesUnedited' => RulesRule'
  <2> SUFFICES ASSUME RulesUnedited' PROVE RulesRule'
    OBVIOUS
  <2>1. RulesRule /\ policy' = policy
    BY <1>3 DEF AInv
  <2>2. ASSUME NEW q \in Procs, pc'[q] # "idle" PROVE loc'[q].amount = policy[loc'[q].intent]
    <3>1. CASE pc'[q] = pc[q] /\ loc'[q] = loc[q]
      BY <2>1, <2>2, <3>1 DEF RulesRule
    <3>2. CASE q = p /\ Remembers(p)
      <4>2. /\ \A k \in Keys : op[k] # None => op[k].amount = policy[op[k].intent]
            /\ pc[p] # "idle" => loc[p].amount = policy[loc[p].intent]
        BY <2>1 DEF RulesRule
      <4>3. CASE loc'[p] = loc[p] /\ pc[p] \notin {"idle", "resolve", "claim"}
        BY <3>2, <4>2, <4>3
      <4>4. CASE op[loc'[p].key] # None /\ loc'[p].intent = op[loc'[p].key].intent
                 /\ loc'[p].amount = op[loc'[p].key].amount /\ loc'[p].key \in Keys
        BY <3>2, <4>2, <4>4
      <4>5. CASE pc[p] = "resolve" /\ loc'[p].amount = loc[p].amount /\ loc'[p].intent = loc[p].intent
        BY <3>2, <4>2, <4>5
      <4>6. loc'[p] \in Locals /\ loc'[p].key \in Keys
        <5>1. loc'[p] \in Locals
          BY <2>2, <3>2, TypeStep DEF IInv, TypeOK
        <5> QED
          BY <5>1 DEF Locals
      <4> QED
        BY <2>2, <3>2, <4>3, <4>4, <4>5, <4>6 DEF Remembers
    <3> QED
      BY <1>2, <1>4, <3>1, <3>2
  <2> QED
    BY <1>1, <2>1, <2>2 DEF RulesRule
<1> QED
  BY <1>3, <1>5, <1>6, <1>7, <1>8 DEF AInv

\* Only a run with proof of a failed receipt, or with a mismatch, fails a row
\* that carries a hash.
LEMMA MarksThatFail ==
  ASSUME IInv, NEW p \in Procs, MarkStep(p), op[loc[p].key] # None, op[loc[p].key].hash # None,
         op[loc[p].key].status # "failed", op'[loc[p].key].status = "failed"
  PROVE  pc[p] \in {"failNoMovement", "failReview"}
<1> DEFINE k == loc[p].key
<1> DEFINE r == op[k]
<1>0. k \in Keys /\ op \in [Keys -> Row \cup {None}] /\ r \in Row
  BY DEF IInv, TypeOK, OperationsTypeOK, MarkStep, ProjectZero, PreflightFailed, SubmitLease,
     UnknownLease, Submit, StillUnknown, RejectEvidence, Confirm, ProjectionError, Complete, Locals
<1>1. ASSUME NEW s \in Statuses \ {"failed"}, NEW o, NEW h,
             \/ op'[k] = r \/ op'[k] = [r EXCEPT !.status = s]
             \/ op'[k] = [r EXCEPT !.hash = h, !.status = s]
             \/ op'[k] = [r EXCEPT !.status = s, !.outcome = o]
      PROVE  FALSE
  BY <1>0, <1>1 DEF Row
<1>2. CASE ProjectZero(p) \/ Complete(p)
  <2>1. op' \in {op, MarkProjected(k)}
    BY <1>2 DEF ProjectZero, Complete
  <2>2. op'[k] = r \/ op'[k].status = "projected"
    <3> DEFINE o == IF r.amount = 0 THEN "no_movement" ELSE "confirmed"
    <3>1. op'[k] = r \/ op'[k] = [r EXCEPT !.status = "projected", !.outcome = o]
      BY <1>0, <2>1 DEF MarkProjected, UpdateWhere
    <3> HIDE DEF o
    <3> QED
      BY <1>0, <3>1 DEF Row
  <2> QED
    BY <2>2
<1>3. CASE PreflightFailed(p)
  BY <1>0, <1>3 DEF PreflightFailed, SaveOp, MarkPreflightFailed, UpdateWhere
<1>4. CASE Submit(p)
  <2>1. op'[k] = r \/ op'[k] = [r EXCEPT !.hash = loc[p].tx, !.status = "submitted"]
    BY <1>0, <1>4 DEF Submit, SaveOp, MarkSubmitted, UpdateWhere
  <2> QED
    BY <1>1, <2>1 DEF Statuses, OpenStatuses
<1>5. CASE StillUnknown(p)
  BY <1>0, <1>1, <1>5 DEF StillUnknown, SaveOp, MarkUnknown, UpdateWhere, Statuses, OpenStatuses
<1>6. CASE RejectEvidence(p)
  BY <1>6 DEF RejectEvidence
<1>7. CASE Confirm(p)
  <2>1. op'[k] = r \/ op'[k] = [r EXCEPT !.status = "confirmed", !.outcome = "confirmed"]
    BY <1>0, <1>7 DEF Confirm, SaveOp, MarkConfirmed, UpdateWhere
  <2> QED
    BY <1>1, <2>1 DEF Statuses
<1>8. CASE ProjectionError(p)
  BY <1>0, <1>1, <1>8 DEF ProjectionError, SaveOp, MarkProjectionError, UpdateWhere, Statuses
<1>9. CASE SubmitLease(p) \/ UnknownLease(p)
  <2>1. \E s \in {"submitted", "unknown"} : op' \in {op, TargetMarked(k, s)}
    BY <1>9 DEF SubmitLease, UnknownLease
  <2> QED
    BY <1>0, <1>1, <2>1 DEF TargetMarked, UpdateWhere, Statuses, OpenStatuses
<1> QED
  BY <1>2, <1>3, <1>4, <1>5, <1>6, <1>7, <1>8, <1>9 DEF MarkStep

\* Marks preserve AInv.
LEMMA MarkAmounts ==
  ASSUME IInv, AInv, NEW p \in Procs, MarkStep(p), [Next]_vars
  PROVE  AInv'
<1> DEFINE k == loc[p].key
<1>0. k \in Keys /\ TypeOK
  BY DEF IInv, TypeOK, MarkStep, ProjectZero, PreflightFailed, SubmitLease, UnknownLease, Submit,
     StillUnknown, RejectEvidence, Confirm, ProjectionError, Complete, Locals
<1>1. Kept(k)
  BY MarksKeep
<1>2. BudgetsFall' /\ (RulesUnedited' => RulesUnedited /\ policy' = policy)
  BY BoundsTell DEF IInv, AInv
<1>3. ASSUME NEW q \in Procs, pc'[q] # "idle"
      PROVE  /\ loc'[q] = loc[q] /\ pc[q] # "idle" /\ loc[q].key \in Keys
             /\ pc'[q] \notin {"resolve", "claim"} => pc[q] \notin {"resolve", "claim"}
             /\ pc'[q] \in HashPoints => pc[q] \in HashPoints
             /\ pc'[q] = "failReview" => pc[q] = "failReview"
  <2>1. pc[q] # "idle" => loc[q] \in Locals
    BY <1>0 DEF TypeOK
  <2> QED
    BY <1>3, <2>1, MarksMove DEF HashPoints, Locals
<1>4. \A q \in Procs : pc'[q] \notin {"idle", "resolve", "claim"} => KnowsIntent(q)'
  BY <1>1, <1>3 DEF AInv, KnowsIntent, Kept, SameRow
<1>5. AmountsKnown'
  <2> SUFFICES ASSUME NEW q \in Procs
               PROVE  /\ pc'[q] \in HashPoints => loc'[q].amount \in {op'[loc'[q].key].amount, loc'[q].tx.amount}
                      /\ pc'[q] = "failReview" => loc'[q].tx.amount # op'[loc'[q].key].amount
    BY DEF AmountsKnown
  <2>1. pc'[q] \in HashPoints => pc'[q] # "idle" /\ pc'[q] \notin {"resolve", "claim"}
    BY DEF HashPoints
  <2>2. pc[q] \in HashPoints \/ pc[q] = "failReview" => op[loc[q].key] # None
    BY DEF IInv, HoldersMatch, HashPoints, Points
  <2> QED
    BY <1>1, <1>3, <2>1, <2>2 DEF AInv, AmountsKnown, Kept, SameRow
<1>6. FailuresExplained'
  <2> SUFFICES ASSUME NEW l \in Keys, op'[l] # None, op'[l].hash # None, op'[l].status = "failed"
               PROVE  op'[l].hash \in reverted' \/ op'[l].hash.amount # op'[l].amount
    BY DEF FailuresExplained
  <2>1. /\ op[l] # None /\ op'[l].hash = op[l].hash /\ op'[l].amount = op[l].amount
        /\ reverted' = reverted /\ (l # k => op'[l] = op[l])
    BY <1>1 DEF Kept, SameRow
  <2>2. CASE op[l].status = "failed"
    BY <2>1, <2>2 DEF AInv, FailuresExplained
  <2>3. CASE op[l].status # "failed"
    <3>1. l = k /\ pc[p] \in {"failNoMovement", "failReview"}
      BY <2>1, <2>3, MarksThatFail
    <3>2. op[l].hash = loc[p].tx
      BY <3>1 DEF IInv, HoldersMatch, HashPoints, Points
    <3> QED
      BY <2>1, <3>1, <3>2 DEF IInv, RejectionsAreProven, AInv, AmountsKnown
  <2> QED
    BY <2>2, <2>3
<1>7. RulesUnedited' => RulesRule'
  <2> SUFFICES ASSUME RulesUnedited' PROVE RulesRule'
    OBVIOUS
  <2>1. RulesRule /\ policy' = policy
    BY <1>2 DEF AInv
  <2> QED
    BY <1>1, <1>3, <2>1 DEF RulesRule, Kept, SameRow
<1> QED
  BY <1>2, <1>4, <1>5, <1>6, <1>7 DEF AInv

\* A claim inserts the row of its request, or takes over the one with the same
\* intent and whatever amount.
LEMMA ClaimedRow ==
  ASSUME IInv, NEW p \in Procs, ClaimNew(p) \/ ClaimReclaimed(p)
  PROVE  LET k == loc[p].key IN
         /\ k \in Keys /\ \A l \in Keys \ {k} : op'[l] = op[l]
         /\ op[k] # None => op[k].hash = None /\ op[k].status = "failed" /\ op[k].intent = loc[p].intent
                            /\ op'[k] # None /\ SameRow(op'[k], op[k])
         /\ op'[k] # None => op'[k].hash = None /\ op'[k].status \in {"submitting", "failed"}
         /\ op[k] = None /\ op'[k] # None
              => op'[k].intent = loc[p].intent /\ op'[k].amount = loc[p].amount
         /\ pc'[p] # "idle" => op'[k] # None
         /\ \A q \in Procs \ {p} : pc'[q] = pc[q] /\ loc'[q] = loc[q]
         /\ pc'[p] \in {"idle", "zero", "prepare"} /\ (pc'[p] # "idle" => loc'[p] = loc[p] /\ pc[p] # "idle")
         /\ pc'[p] = "zero" => loc[p].amount = 0
         /\ UNCHANGED <<chainVars, lease>>
<1> DEFINE k == loc[p].key
<1>0. /\ k \in Keys /\ loc[p] \in Locals /\ loc[p].wallet \in Wallets
      /\ op \in [Keys -> Row \cup {None}]
      /\ pc \in [Procs -> Points] /\ loc \in [Procs -> Locals \cup {None}]
  BY DEF IInv, TypeOK, OperationsTypeOK, Locals, ClaimNew, ClaimReclaimed
<1>1. /\ \A q \in Procs \ {p} : pc'[q] = pc[q] /\ loc'[q] = loc[q]
      /\ pc'[p] \in {"idle", "zero", "prepare"}
      /\ pc'[p] # "idle" => loc'[p] = loc[p] /\ pc[p] # "idle"
      /\ pc'[p] = "zero" => loc[p].amount = 0
      /\ UNCHANGED <<chainVars, lease>>
  BY <1>0 DEF ClaimNew, ClaimReclaimed, SaveOp, Goto, ClaimedPoint
<1>2. CASE ClaimNew(p)
  <2> DEFINE row == NewRow(loc[p].intent, loc[p].wallet, loc[p].amount)
  <2>1. row \in Row /\ row # None
    BY <1>0, NoneNotLocal DEF NewRow, Row, Statuses, OpenStatuses, Outcomes, Locals
  <2>2. /\ op[k] = None /\ op' \in {op, [op EXCEPT ![k] = row]}
        /\ pc'[p] # "idle" => op' = [op EXCEPT ![k] = row]
    BY <1>0, <1>2 DEF ClaimNew, SaveOp, Inserted, Goto
  <2>3. /\ row.hash = None /\ row.status = "submitting" /\ row.intent = loc[p].intent
        /\ row.amount = loc[p].amount
    BY DEF NewRow
  <2>4. op'[k] \in {None, row} /\ (pc'[p] # "idle" => op'[k] = row)
    BY <1>0, <2>2
  <2>5. \A l \in Keys \ {k} : op'[l] = op[l]
    BY <1>0, <2>2
  <2> HIDE DEF row
  <2> QED
    BY <1>0, <1>1, <2>1, <2>2, <2>3, <2>4, <2>5
<1>3. CASE ClaimReclaimed(p)
  <2> DEFINE row == [op[k] EXCEPT !.status = "submitting", !.outcome = "unknown"]
  <2>1. /\ op[k] # None /\ op[k] \in Row /\ op[k].hash = None /\ op[k].status = "failed"
        /\ op[k].intent = loc[p].intent
    BY <1>0, <1>3 DEF ClaimReclaimed, Reclaimable, SameIntent
  <2>2. row \in Row /\ row # None /\ row.status = "submitting" /\ SameRow(row, op[k])
    BY <2>1, NoneNotLocal DEF SameRow, Row, Statuses, OpenStatuses, Outcomes
  <2>3. op' \in {op, [op EXCEPT ![k] = row]}
    BY <1>0, <1>3, <2>1 DEF ClaimReclaimed, SaveOp, Reclaimed, Row
  <2>4. op'[k] \in {op[k], row} /\ \A l \in Keys \ {k} : op'[l] = op[l]
    BY <1>0, <2>3
  <2> HIDE DEF row
  <2> QED
    BY <1>0, <1>1, <2>1, <2>2, <2>4 DEF SameRow
<1> QED
  BY <1>2, <1>3

\* Claims preserve AInv.
LEMMA ClaimAmounts ==
  ASSUME IInv, AInv, NEW p \in Procs, ClaimNew(p) \/ ClaimReclaimed(p), [Next]_vars
  PROVE  AInv'
<1> DEFINE k == loc[p].key
<1>1. /\ k \in Keys /\ \A l \in Keys \ {k} : op'[l] = op[l]
      /\ op[k] # None => op[k].hash = None /\ op[k].intent = loc[p].intent
                         /\ op'[k] # None /\ SameRow(op'[k], op[k])
      /\ op'[k] # None => op'[k].hash = None
      /\ op[k] = None /\ op'[k] # None => op'[k].intent = loc[p].intent /\ op'[k].amount = loc[p].amount
      /\ pc'[p] # "idle" => op'[k] # None
      /\ \A q \in Procs \ {p} : pc'[q] = pc[q] /\ loc'[q] = loc[q]
      /\ pc'[p] \in {"idle", "zero", "prepare"} /\ (pc'[p] # "idle" => loc'[p] = loc[p] /\ pc[p] # "idle")
      /\ pc[p] = "claim" /\ reverted' = reverted
  BY ClaimedRow DEF ClaimNew, ClaimReclaimed, chainVars
<1>2. BudgetsFall' /\ (RulesUnedited' => RulesUnedited /\ policy' = policy)
  BY BoundsTell DEF IInv, AInv
<1>3. \A q \in Procs : pc[q] # "idle" => loc[q].key \in Keys
  BY DEF IInv, TypeOK, Locals
<1>4. ASSUME NEW q \in Procs, pc'[q] \notin {"idle", "resolve", "claim"}
      PROVE  KnowsIntent(q)'
  <2>1. CASE q = p
    BY <1>1, <1>4, <2>1 DEF KnowsIntent, SameRow
  <2>2. CASE q # p
    BY <1>1, <1>3, <1>4, <2>2 DEF AInv, KnowsIntent, SameRow
  <2> QED
    BY <2>1, <2>2
<1>5. AmountsKnown'
  <2>1. ASSUME NEW q \in Procs, pc'[q] \in HashPoints
        PROVE  q # p /\ loc[q].key \in Keys \ {k} /\ pc[q] \in HashPoints
    BY <1>1, <1>3, <2>1 DEF IInv, HoldersMatch, HashPoints
  <2>2. \A q \in Procs : pc'[q] = "failReview" => pc'[q] \in HashPoints
    BY DEF HashPoints, Points
  <2> QED
    BY <1>1, <2>1, <2>2 DEF AInv, AmountsKnown
<1>6. FailuresExplained'
  BY <1>1 DEF AInv, FailuresExplained
<1>7. RulesUnedited' => RulesRule'
  <2> SUFFICES ASSUME RulesUnedited' PROVE RulesRule'
    OBVIOUS
  <2>1. RulesRule /\ policy' = policy
    BY <1>2 DEF AInv
  <2>2. \A q \in Procs : pc'[q] # "idle" => loc'[q] = loc[q] /\ pc[q] # "idle"
    BY <1>1
  <2>3. op'[k] # None => op'[k].amount = policy[op'[k].intent]
    BY <1>1, <2>1 DEF RulesRule, SameRow
  <2> QED
    BY <1>1, <2>1, <2>2, <2>3 DEF RulesRule
<1> QED
  BY <1>2, <1>4, <1>5, <1>6, <1>7 DEF AInv

\* The signed amount is the one its run works with.
LEMMA PrepareAmounts ==
  ASSUME IInv, AInv, NEW p \in Procs, Prepare(p), [Next]_vars
  PROVE  AInv'
<1> DEFINE k == loc[p].key
<1>0. k \in Keys /\ loc[p] \in Locals /\ pc[p] = "prepare" /\ TypeOK
  BY DEF IInv, TypeOK, Locals, Prepare
<1>1. PICK n : /\ op' = PreparedTarget(k, Transfer(p, n))
               /\ \/ GotoWith(p, "broadcast", [loc[p] EXCEPT !.tx = Transfer(p, n)])
                  \/ Goto(p, "preflight")
  BY DEF Prepare
<1> DEFINE t == Transfer(p, n)
<1>2. /\ op[k] # None /\ op[k] \in Row /\ op[k].hash = None /\ op'[k] # None /\ op'[k].hash # None
      /\ op \in [Keys -> Row \cup {None}]
  <2>1. op[k] # None /\ op[k].hash = None
    BY <1>0 DEF IInv, OwnersMatch, Untouched
  <2> QED
    BY <1>0, <2>1, PreparePreserves DEF TypeOK, OperationsTypeOK
<1>3. /\ op'[k].hash = t /\ op'[k].amount = op[k].amount /\ op'[k].intent = op[k].intent
      /\ op'[k].status = "submitting" /\ \A l \in Keys \ {k} : op'[l] = op[l]
  BY <1>0, <1>1, <1>2 DEF PreparedTarget, Row
<1>4. /\ \A q \in Procs \ {p} : pc'[q] = pc[q] /\ loc'[q] = loc[q]
      /\ pc'[p] \in {"broadcast", "preflight"}
      /\ loc'[p].key = k /\ loc'[p].amount = loc[p].amount /\ loc'[p].intent = loc[p].intent
      /\ pc'[p] = "broadcast" => loc'[p].tx = t
  BY <1>0, <1>1 DEF GotoWith, Goto, TypeOK, Locals
<1>5. t.amount = loc[p].amount
  BY DEF Transfer
<1> HIDE DEF t
<1>6. \A q \in Procs : pc[q] # "idle" => loc[q].key \in Keys
  BY <1>0 DEF TypeOK, Locals
<1>7. BudgetsFall' /\ (RulesUnedited' => RulesUnedited /\ policy' = policy) /\ reverted' = reverted
  BY BoundsTell DEF IInv, AInv, Prepare, chainVars
<1>8. KnowsIntent(p)
  BY <1>0 DEF AInv
<1>9. ASSUME NEW q \in Procs, pc'[q] \notin {"idle", "resolve", "claim"}
      PROVE  KnowsIntent(q)'
  BY <1>2, <1>3, <1>4, <1>6, <1>8, <1>9 DEF AInv, KnowsIntent
<1>10. AmountsKnown'
  <2>1. ASSUME NEW q \in Procs \ {p}, pc'[q] \in HashPoints
        PROVE  loc[q].key \in Keys \ {k} /\ pc[q] \in HashPoints
    BY <1>2, <1>4, <1>6, <2>1 DEF IInv, HoldersMatch, HashPoints
  <2>2. \A q \in Procs : pc'[q] = "failReview" => pc'[q] \in HashPoints /\ q # p
    BY <1>4 DEF HashPoints, Points
  <2>3. pc'[p] \in HashPoints => pc'[p] = "broadcast"
    BY <1>4 DEF HashPoints
  <2> QED
    BY <1>3, <1>4, <1>5, <2>1, <2>2, <2>3 DEF AInv, AmountsKnown
<1>11. FailuresExplained'
  BY <1>3, <1>7 DEF AInv, FailuresExplained
<1>12. RulesUnedited' => RulesRule'
  <2> SUFFICES ASSUME RulesUnedited' PROVE RulesRule'
    OBVIOUS
  <2>1. RulesRule /\ policy' = policy
    BY <1>7 DEF AInv
  <2>2. t.amount = op[k].amount
    BY <1>0, <1>5, <1>8, <2>1 DEF RulesRule, KnowsIntent
  <2>3. ASSUME NEW q \in Procs, pc'[q] # "idle" PROVE loc'[q].amount = policy[loc'[q].intent]
    BY <1>0, <1>4, <2>1, <2>3 DEF RulesRule
  <2> QED
    BY <1>2, <1>3, <2>1, <2>2, <2>3 DEF RulesRule
<1> QED
  BY <1>7, <1>9, <1>10, <1>11, <1>12 DEF AInv

\* Every step preserves AInv.
LEMMA StepAInv == IInv /\ WInv /\ AInv /\ [Next]_vars => AInv'
<1> SUFFICES ASSUME IInv, WInv, AInv, [Next]_vars PROVE AInv'
  OBVIOUS
<1>0. BudgetsFall' /\ (RulesUnedited' => RulesUnedited /\ policy' = policy)
  BY BoundsTell DEF IInv, AInv
<1>1. ASSUME op' = op, loc' = loc, reverted \subseteq reverted',
             \A q \in Procs : pc'[q] \notin {"idle", "resolve", "claim"} => pc[q] \notin {"idle", "resolve", "claim"},
             \A q \in Procs : pc'[q] # "idle" => pc[q] # "idle",
             \A q \in Procs : pc'[q] \in HashPoints => pc[q] \in HashPoints,
             \A q \in Procs : pc'[q] = "failReview" => pc[q] = "failReview"
      PROVE  AInv'
  <2>1. FailuresExplained'
    BY <1>1 DEF AInv, FailuresExplained
  <2>2. AmountsKnown'
    <3> SUFFICES ASSUME NEW q \in Procs
                 PROVE  /\ pc'[q] \in HashPoints => loc[q].amount \in {op[loc[q].key].amount, loc[q].tx.amount}
                        /\ pc'[q] = "failReview" => loc[q].tx.amount # op[loc[q].key].amount
      BY <1>1 DEF AmountsKnown
    <3> QED
      BY <1>1 DEF AInv, AmountsKnown
  <2>3. ASSUME NEW q \in Procs, pc'[q] \notin {"idle", "resolve", "claim"} PROVE KnowsIntent(q)'
    <3>1. KnowsIntent(q)
      BY <1>1, <2>3 DEF AInv
    <3> QED
      BY <1>1, <3>1 DEF KnowsIntent
  <2>4. RulesUnedited' => RulesRule'
    <3> SUFFICES ASSUME RulesUnedited' PROVE RulesRule'
      OBVIOUS
    <3>1. RulesRule /\ policy' = policy
      BY <1>0 DEF AInv
    <3>2. ASSUME NEW q \in Procs, pc'[q] # "idle" PROVE loc'[q].amount = policy'[loc'[q].intent]
      BY <1>1, <3>1, <3>2 DEF RulesRule
    <3> QED
      BY <1>1, <3>1, <3>2 DEF RulesRule
  <2> QED
    BY <1>0, <2>1, <2>2, <2>3, <2>4 DEF AInv
<1>2. CASE UNCHANGED vars
  BY <1>1, <1>2 DEF vars
<1>3. CASE Environment
  <2>1. UNCHANGED <<op, loc, pc>> /\ reverted \subseteq reverted'
    BY <1>3 DEF Environment, MineNext, Mine, EvictOne, Evict, EditRules, Relink, chainVars
  <2> QED
    BY <1>1, <2>1
<1>4. ASSUME NEW p \in Procs, Broadcast(p) PROVE AInv'
  <2>1. /\ UNCHANGED <<op, loc, reverted>> /\ pc[p] = "broadcast"
        /\ pc'[p] \in {"submitLease", "unknownLease"}
        /\ \A q \in Procs \ {p} : pc'[q] = pc[q]
    BY <1>4 DEF Broadcast, Goto, IInv, TypeOK
  <2> QED
    BY <1>1, <2>1 DEF HashPoints, Points
<1>5. CASE Next
  BY <1>3, <1>4, <1>5, StepKinds, QuietAmounts, MarkAmounts, ClaimAmounts, PrepareAmounts
<1> QED
  BY <1>2, <1>5

\* Nothing is claimed, failed or priced at the start.
LEMMA InitAInv == Init => AInv
<1> SUFFICES ASSUME Init PROVE AInv
  OBVIOUS
<1>1. /\ \A k \in Keys : op[k] = None
      /\ \A p \in Procs : pc[p] = "idle"
      /\ budget.edits = MaxRuleEdits /\ budget.evictions = MaxEvictions
  BY DEF Init, OperationsInit
<1>2. BudgetsFall
  BY <1>1, BoundsAssumption DEF BudgetsFall
<1>3. AmountsKnown /\ FailuresExplained /\ RulesRule
  BY <1>1 DEF AmountsKnown, FailuresExplained, RulesRule, HashPoints
<1> QED
  BY <1>1, <1>2, <1>3 DEF AInv

\* Runs, rows and transfers agree on amounts as far as the rules allow.
LEMMA AmountInvariant == Spec => [](IInv /\ WInv /\ AInv)
BY InductiveInvariant, InitImplements, StepWInv, InitAInv, StepAInv, PTL DEF Spec

\* A failed row with a hash carries a reverted transfer, or one that is not
\* what the row says: markFailed is reached with proof only, whatever the
\* rules did in the meantime.
FailedWithReason ==
  \A t \in paid : op[t.key].status = "failed" => op[t.key].amount # t.amount

THEOREM FailuresHaveReasons == Spec => []FailedWithReason
<1>1. IInv /\ AInv => FailedWithReason
  <2> SUFFICES ASSUME IInv, AInv, NEW t \in paid, op[t.key].status = "failed"
               PROVE  op[t.key].amount # t.amount
    BY DEF FailedWithReason
  <2>1. t \in Tx /\ t.key \in Keys /\ lease[t.key] # None /\ lease[t.key].tx = t /\ t \notin reverted
    BY DEF IInv, ChainIsLeased, TypeOK, ChainTypeOK, Tx
  <2>2. op[t.key] # None /\ op[t.key].hash = t /\ op[t.key].hash # None
    BY <2>1, NoneAssumption DEF IInv, LeaseMatchesRow
  <2> QED
    BY <2>1, <2>2 DEF AInv, FailuresExplained
<1> QED
  BY <1>1, AmountInvariant, PTL

\* As long as nobody edits the award rules, a transfer that was paid is never
\* written off as failed, however reads of the chain fail or lag.
THEOREM PaidNeverRejected == Spec => [](RulesUnedited => PaidIsNotRejected)
<1>1. IInv /\ AInv => (RulesUnedited => PaidIsNotRejected)
  <2> SUFFICES ASSUME IInv, AInv, RulesUnedited, NEW t \in paid
               PROVE  op[t.key].status # "failed"
    BY DEF PaidIsNotRejected
  <2>1. t \in Tx /\ t.key \in Keys /\ lease[t.key] # None /\ lease[t.key].tx = t /\ t \notin reverted
    BY DEF IInv, ChainIsLeased, TypeOK, ChainTypeOK, Tx
  <2>2. op[t.key] # None /\ op[t.key].hash = t /\ op[t.key].hash # None
    BY <2>1, NoneAssumption DEF IInv, LeaseMatchesRow
  <2>3. t.amount = op[t.key].amount
    BY <2>1, <2>2 DEF AInv, RulesRule
  <2> QED
    BY <2>1, <2>2, <2>3 DEF AInv, FailuresExplained
<1> QED
  BY <1>1, AmountInvariant, PTL
-----------------------------------------------------------------------------
(* Records and answers.                                                    *)

\* Rows, their amounts, owners and hashes, reverted transfers and recorded
\* awards stay once they are there, and so does a projected row.
LEMMA RowsEndure ==
  ASSUME IInv, [Next]_vars
  PROVE  /\ \A k \in Keys : op[k] # None =>
              /\ op'[k] # None /\ op'[k].amount = op[k].amount /\ op'[k].wallet = op[k].wallet
              /\ op[k].hash # None => op'[k].hash = op[k].hash
              /\ op[k].status = "projected" => op'[k].status = "projected"
         /\ reverted \subseteq reverted' /\ awards \subseteq awards'
<1>1. CASE UNCHANGED vars
  BY <1>1 DEF vars
<1>2. CASE Environment
  <2>1. op' = op /\ reverted \subseteq reverted' /\ awards' = awards
    BY <1>2 DEF Environment, MineNext, Mine, EvictOne, Evict, EditRules, Relink, chainVars, awardVars
  <2> QED
    BY <2>1
<1>3. ASSUME NEW p \in Procs, QuietStep(p) \/ Broadcast(p)
      PROVE  op' = op /\ reverted' = reverted
  BY <1>3, QuietMoves DEF Broadcast, chainVars
<1>4. ASSUME NEW p \in Procs, MarkStep(p)
      PROVE  /\ \A k \in Keys : op[k] # None =>
                  /\ op'[k] # None /\ op'[k].amount = op[k].amount /\ op'[k].wallet = op[k].wallet
                  /\ op[k].hash # None => op'[k].hash = op[k].hash
                  /\ op[k].status = "projected" => op'[k].status = "projected"
             /\ reverted' = reverted
  <2>1. Kept(loc[p].key) /\ (op[loc[p].key] # None => RowChange(p, op[loc[p].key], op'[loc[p].key]))
    BY <1>4, MarksKeep, MarkedRow
  <2> QED
    BY <2>1 DEF Kept, SameRow, RowChange, MovedOn, Rejected, Released, Completed, Untouched, OpenStatuses
<1>5. ASSUME NEW p \in Procs, ClaimNew(p) \/ ClaimReclaimed(p)
      PROVE  /\ \A k \in Keys : op[k] # None =>
                  /\ op'[k] # None /\ op'[k].amount = op[k].amount /\ op'[k].wallet = op[k].wallet
                  /\ op[k].hash # None => op'[k].hash = op[k].hash
                  /\ op[k].status = "projected" => op'[k].status = "projected"
             /\ reverted' = reverted
  <2> DEFINE k == loc[p].key
  <2>1. /\ k \in Keys /\ \A l \in Keys \ {k} : op'[l] = op[l]
        /\ op[k] # None => op[k].hash = None /\ op[k].status = "failed"
                           /\ op'[k] # None /\ SameRow(op'[k], op[k])
        /\ reverted' = reverted
    BY <1>5, ClaimedRow DEF chainVars
  <2> QED
    BY <2>1 DEF SameRow
<1>6. ASSUME NEW p \in Procs, Prepare(p)
      PROVE  /\ \A k \in Keys : op[k] # None =>
                  /\ op'[k] # None /\ op'[k].amount = op[k].amount /\ op'[k].wallet = op[k].wallet
                  /\ op[k].hash # None => op'[k].hash = op[k].hash
                  /\ op[k].status = "projected" => op'[k].status = "projected"
             /\ reverted' = reverted
  <2> DEFINE k == loc[p].key
  <2>1. /\ k \in Keys /\ op \in [Keys -> Row \cup {None}]
        /\ op[k] # None /\ op[k].hash = None /\ op[k].status = "submitting"
    BY <1>6 DEF IInv, TypeOK, OperationsTypeOK, Locals, Prepare, OwnersMatch, Untouched
  <2>2. PICK n : op' = PreparedTarget(k, Transfer(p, n))
    BY <1>6 DEF Prepare
  <2>3. op'[k].amount = op[k].amount /\ op'[k].wallet = op[k].wallet /\ \A l \in Keys \ {k} : op'[l] = op[l]
    BY <2>1, <2>2 DEF PreparedTarget, Row
  <2>4. op'[k] # None /\ reverted' = reverted
    BY <1>6, PreparePreserves DEF Prepare, chainVars
  <2> QED
    BY <2>1, <2>3, <2>4
<1>7. CASE Next
  <2>1. awards \subseteq awards'
    BY <1>7, LedgerSteps DEF Record, Recorded
  <2> QED
    BY <1>2, <1>3, <1>4, <1>5, <1>6, <1>7, <2>1, StepKinds
<1> QED
  BY <1>1, <1>7

\* A row is projected by a run that completes it.
LEMMA NewlyProjected ==
  ASSUME IInv, [Next]_vars, NEW k \in Keys, op'[k] # None, op'[k].status = "projected",
         op[k] = None \/ op[k].status # "projected"
  PROVE  op[k] # None /\ \E p \in Procs : (ProjectZero(p) \/ Complete(p)) /\ loc[p].key = k
<1>1. op' # op
  OBVIOUS
<1>2. ~Environment /\ ~UNCHANGED vars
  BY <1>1 DEF Environment, MineNext, EvictOne, EditRules, Relink, vars
<1>3. ASSUME NEW p \in Procs, QuietStep(p) \/ Broadcast(p) PROVE FALSE
  BY <1>1, <1>3, QuietMoves DEF Broadcast
<1>4. ASSUME NEW p \in Procs, ClaimNew(p) \/ ClaimReclaimed(p) PROVE FALSE
  <2>1. /\ \A l \in Keys \ {loc[p].key} : op'[l] = op[l]
        /\ op'[loc[p].key] # None => op'[loc[p].key].status \in {"submitting", "failed"}
    BY <1>4, ClaimedRow
  <2> QED
    BY <2>1
<1>5. ASSUME NEW p \in Procs, Prepare(p) PROVE FALSE
  <2> DEFINE l == loc[p].key
  <2>1. l \in Keys /\ op \in [Keys -> Row \cup {None}] /\ op[l] # None
    BY <1>5 DEF IInv, TypeOK, OperationsTypeOK, Locals, Prepare, OwnersMatch, Untouched
  <2>2. PICK n : op' = PreparedTarget(l, Transfer(p, n))
    BY <1>5 DEF Prepare
  <2>3. op'[l].status = "submitting" /\ \A m \in Keys \ {l} : op'[m] = op[m]
    BY <2>1, <2>2 DEF PreparedTarget, Row
  <2> QED
    BY <2>3
<1>6. PICK p \in Procs : MarkStep(p)
  BY <1>2, <1>3, <1>4, <1>5, StepKinds
<1>7. k = loc[p].key /\ op[k] # None
  BY <1>6, MarksKeep DEF Kept
<1>8. ASSUME ~ProjectZero(p), ~Complete(p) PROVE FALSE
  <2>1. op \in [Keys -> Row \cup {None}] /\ op[k] \in Row
    BY <1>7 DEF IInv, TypeOK, OperationsTypeOK
  <2>2. op'[k] = op[k] \/ op'[k].status # "projected"
    <3>1. CASE PreflightFailed(p)
      <4>1. op'[k] \in {op[k], [op[k] EXCEPT !.status = "failed", !.outcome = "no_movement"]}
        BY <1>7, <2>1, <3>1 DEF PreflightFailed, SaveOp, MarkPreflightFailed, UpdateWhere
      <4> QED
        BY <2>1, <4>1 DEF Row
    <3>2. CASE Submit(p)
      <4>1. op'[k] \in {op[k], [op[k] EXCEPT !.hash = loc[p].tx, !.status = "submitted"]}
        BY <1>7, <2>1, <3>2 DEF Submit, SaveOp, MarkSubmitted, UpdateWhere
      <4> QED
        BY <2>1, <4>1 DEF Row
    <3>3. CASE StillUnknown(p)
      <4>1. op'[k] \in {op[k], [op[k] EXCEPT !.status = "unknown"]}
        BY <1>7, <2>1, <3>3 DEF StillUnknown, SaveOp, MarkUnknown, UpdateWhere
      <4> QED
        BY <2>1, <4>1 DEF Row
    <3>4. CASE RejectEvidence(p)
      <4>1. PICK o : op' \in {op, MarkFailed(k, o)}
        BY <1>7, <3>4 DEF RejectEvidence, SaveOp
      <4>2. op'[k] \in {op[k], [op[k] EXCEPT !.status = "failed", !.outcome = o]}
        BY <2>1, <4>1 DEF MarkFailed, UpdateWhere
      <4> QED
        BY <2>1, <4>2 DEF Row
    <3>5. CASE Confirm(p)
      <4>1. op'[k] \in {op[k], [op[k] EXCEPT !.status = "confirmed", !.outcome = "confirmed"]}
        BY <1>7, <2>1, <3>5 DEF Confirm, SaveOp, MarkConfirmed, UpdateWhere
      <4> QED
        BY <2>1, <4>1 DEF Row
    <3>6. CASE ProjectionError(p)
      <4>1. op'[k] \in {op[k], [op[k] EXCEPT !.status = "confirmed"]}
        BY <1>7, <2>1, <3>6 DEF ProjectionError, SaveOp, MarkProjectionError, UpdateWhere
      <4> QED
        BY <2>1, <4>1 DEF Row
    <3>7. CASE SubmitLease(p) \/ UnknownLease(p)
      <4>1. PICK s \in {"submitted", "unknown"} : op' \in {op, TargetMarked(k, s)}
        BY <1>7, <3>7 DEF SubmitLease, UnknownLease
      <4>2. op'[k] \in {op[k], [op[k] EXCEPT !.status = s]}
        BY <2>1, <4>1 DEF TargetMarked, UpdateWhere
      <4> QED
        BY <2>1, <4>2 DEF Row
    <3> QED
      BY <1>6, <1>8, <3>1, <3>2, <3>3, <3>4, <3>5, <3>6, <3>7 DEF MarkStep
  <2> QED
    BY <1>7, <2>2
<1> QED
  BY <1>7, <1>8

\* A run completes what it has just found or put in the awards table, and
\* takes the zero-award branch with the amount 0.
LEMMA Arrivals ==
  ASSUME IInv, RInv, [Next]_vars, NEW q \in Procs
  PROVE  /\ pc'[q] = "complete" => \E x \in awards' : x.key = loc'[q].key /\ x.amount = loc'[q].amount
         /\ pc'[q] = "zero" => loc'[q].amount = 0
<1> DEFINE Arrived == /\ pc'[q] = "complete" => \E x \in awards' : x.key = loc'[q].key /\ x.amount = loc'[q].amount
                      /\ pc'[q] = "zero" => loc'[q].amount = 0
<1>0. /\ pc \in [Procs -> Points] /\ loc \in [Procs -> Locals \cup {None}]
      /\ \A p \in Procs : pc[p] # "idle" => loc[p] \in Locals
  BY DEF IInv, TypeOK
<1>1. CASE pc'[q] = pc[q] /\ loc'[q] = loc[q]
  BY <1>1, RowsEndure DEF RInv, HasAward
<1>2. ASSUME NEW p \in Procs, Record(p) PROVE Arrived
  <2>1. CASE p # q
    BY <1>0, <1>1, <1>2, <2>1 DEF Record, Goto
  <2>2. CASE p = q /\ pc'[q] = "projectionError"
    BY <2>2
  <2>3. CASE p = q /\ pc'[q] # "projectionError"
    <3>1. /\ \A a \in Clashing(q) : SameAward(a, q)
          /\ awards' = Recorded(q) /\ pc'[q] = "complete" /\ loc'[q] = loc[q]
      BY <1>0, <1>2, <2>3 DEF Record, Goto
    <3>2. CASE Clashing(q) = {}
      <4> DEFINE row == [key |-> loc[q].key, wallet |-> loc[q].wallet, amount |-> loc[q].amount, tx |-> loc[q].tx]
      <4>1. row \in awards' /\ row.key = loc[q].key /\ row.amount = loc[q].amount
        BY <3>1, <3>2 DEF Recorded
      <4> QED
        BY <3>1, <4>1
    <3>3. CASE Clashing(q) # {}
      <4>1. PICK a \in awards : SameAward(a, q)
        BY <3>1, <3>3 DEF Clashing
      <4> QED
        BY <3>1, <3>3, <4>1 DEF SameAward, Recorded
    <3> QED
      BY <3>2, <3>3
  <2> QED
    BY <2>1, <2>2, <2>3
<1>3. ASSUME NEW p \in Procs, QuietStep(p) PROVE Arrived
  <2>1. CASE p # q
    BY <1>1, <1>3, <2>1, QuietMoves DEF QuietMove
  <2>2. CASE p = q
    <3>1. CASE Resolve(p) \/ ClaimRefused(p) \/ Crash(p) \/ PrepareRefused(p)
      BY <1>0, <2>2, <3>1 DEF Resolve, ClaimRefused, Crash, PrepareRefused, Goto, GotoWith
    <3>2. CASE Verify(p) \/ VerifyFresh(p)
      <4>1. \A e : /\ EvidencePoint(e) \notin {"complete", "zero"}
                  /\ FreshPoint(e) \notin {"complete", "zero"}
        BY DEF EvidencePoint, FreshPoint
      <4> QED
        BY <1>0, <2>2, <3>2, <4>1 DEF Verify, VerifyFresh, Goto
    <3>3. CASE ClaimReplay(p)
      <4> DEFINE k == loc[p].key
      <4> DEFINE memory == [loc[p] EXCEPT !.amount = op[k].amount, !.tx = op[k].hash]
      <4>1. /\ ReplayPoint(op[k]) # "complete"
            /\ ReplayPoint(op[k]) = "zero" => op[k].amount = 0
        BY DEF ReplayPoint
      <4>2. /\ pc'[p] = ReplayPoint(op[k]) /\ (pc'[p] # "idle" => loc'[p] = memory)
            /\ memory.amount = op[k].amount
        BY <1>0, <3>3 DEF ClaimReplay, GotoWith, Locals
      <4> QED
        BY <2>2, <4>1, <4>2
    <3>4. ASSUME NEW k \in Keys, Recover(p, k) \/ RecoverProjected(p, k) PROVE Arrived
      BY <1>0, <1>1, <2>2, <3>4 DEF Recover, RecoverProjected, GotoWith
    <3>5. ASSUME NEW k \in Keys, NEW c \in Intents, Lookup(p, k, c) PROVE Arrived
      <4>1. ReplayPoint(op[k]) # "complete"
        BY DEF ReplayPoint
      <4>2. CASE op[k] = None
        BY <1>0, <2>2, <3>5, <4>2 DEF Lookup, GotoWith
      <4>3. CASE op[k] # None
        <5>1. PICK point \in {"claim", ReplayPoint(op[k])} :
                /\ point # "claim" => op[k].amount = 0
                /\ GotoWith(p, point, [key |-> k, intent |-> c, wallet |-> op[k].wallet,
                                       amount |-> op[k].amount, tx |-> None])
          BY <3>5, <4>3 DEF Lookup
        <5>2. pc'[p] = point /\ (point # "idle" => loc'[p].amount = op[k].amount)
          BY <1>0, <5>1 DEF GotoWith
        <5> QED
          BY <2>2, <4>1, <5>1, <5>2
      <4> QED
        BY <4>2, <4>3
    <3> QED
      BY <1>2, <1>3, <3>1, <3>2, <3>3, <3>4, <3>5 DEF QuietStep, Start
  <2> QED
    BY <2>1, <2>2
<1>4. ASSUME NEW p \in Procs, MarkStep(p) PROVE Arrived
  BY <1>1, <1>4, MarksMove
<1>5. ASSUME NEW p \in Procs, ClaimNew(p) \/ ClaimReclaimed(p) PROVE Arrived
  <2>1. /\ \A r \in Procs \ {p} : pc'[r] = pc[r] /\ loc'[r] = loc[r]
        /\ pc'[p] \in {"idle", "zero", "prepare"} /\ (pc'[p] # "idle" => loc'[p] = loc[p])
        /\ pc'[p] = "zero" => loc[p].amount = 0
    BY <1>5, ClaimedRow
  <2> QED
    BY <1>1, <2>1
<1>6. ASSUME NEW p \in Procs, Prepare(p) \/ Broadcast(p) PROVE Arrived
  <2>1. /\ \A r \in Procs \ {p} : pc'[r] = pc[r] /\ loc'[r] = loc[r]
        /\ pc'[p] \in {"broadcast", "preflight", "submitLease", "unknownLease"}
    BY <1>0, <1>6 DEF Prepare, Broadcast, Goto, GotoWith
  <2> QED
    BY <1>1, <2>1
<1>7. CASE Environment \/ UNCHANGED vars
  <2>1. UNCHANGED <<pc, loc>>
    BY <1>7 DEF Environment, MineNext, EvictOne, EditRules, Relink, vars
  <2> QED
    BY <1>1, <2>1
<1> QED
  BY <1>3, <1>4, <1>5, <1>6, <1>7, StepKinds

\* recordAward adds nothing but what the operation of its run did.
LEMMA RecordsTell ==
  ASSUME IInv, WInv, AInv, RInv, [Next]_vars
  PROVE  AwardsTell' /\ DedupUnique(awards')
<1>1. ASSUME NEW a \in awards
      PROVE  a \in LegacyAwards
             \/ /\ op'[a.key] # None /\ op'[a.key].hash # None /\ op'[a.key].hash = a.tx
                /\ a.wallet = op'[a.key].wallet
                /\ RulesUnedited' => a.amount = op'[a.key].amount
  <2>1. a.key \in Keys
    BY DEF IInv, TypeOK, AwardRow
  <2> QED
    BY <2>1, RowsEndure, BoundsTell DEF RInv, AwardsTell, IInv, AInv
<1>2. CASE awards' = awards
  BY <1>1, <1>2 DEF AwardsTell, RInv
<1>3. ASSUME NEW p \in Procs, Record(p), awards' # awards
      PROVE  AwardsTell' /\ DedupUnique(awards')
  <2> DEFINE k == loc[p].key
  <2> DEFINE row == [key |-> k, wallet |-> loc[p].wallet, amount |-> loc[p].amount, tx |-> loc[p].tx]
  <2>1. Clashing(p) = {} /\ awards' = awards \cup {row} /\ op' = op /\ pc[p] = "record"
    BY <1>3 DEF Record, Recorded
  <2>2. /\ k \in Keys /\ op[k] # None /\ op[k].hash # None /\ op[k].hash = loc[p].tx
        /\ loc[p].wallet = op[k].wallet /\ op[k].intent = loc[p].intent
    BY <2>1 DEF IInv, TypeOK, Locals, HoldersMatch, HashPoints, Points, WInv, RunsKnowWallet,
       KnowsWallet, AInv, KnowsIntent
  <2>3. RulesUnedited' => loc[p].amount = op[k].amount
    BY <2>1, <2>2, BoundsTell DEF AInv, RulesRule, IInv
  <2>4. row.key = k /\ row.wallet = loc[p].wallet /\ row.amount = loc[p].amount /\ row.tx = loc[p].tx
    OBVIOUS
  <2>5. \A a \in awards : DedupOf[a.key] # DedupOf[k]
    BY <2>1 DEF Clashing
  <2> HIDE DEF row
  <2>6. AwardsTell'
    BY <1>1, <2>1, <2>2, <2>3, <2>4 DEF AwardsTell
  <2>7. DedupUnique(awards')
    BY <2>1, <2>4, <2>5 DEF DedupUnique, RInv
  <2> QED
    BY <2>6, <2>7
<1>4. UNCHANGED vars => awards' = awards
  BY DEF vars
<1> QED
  BY <1>2, <1>3, <1>4, LedgerSteps

\* Under the rules nobody edits, a run works with the amount of its row.
LEMMA RunsAgree ==
  ASSUME IInv, AInv, RulesUnedited, NEW p \in Procs, pc[p] \in {"zero", "complete"}
  PROVE  /\ loc[p].key \in Keys /\ op[loc[p].key] # None
         /\ op[loc[p].key].amount = loc[p].amount
BY DEF IInv, TypeOK, Locals, AInv, KnowsIntent, RulesRule

\* A positive award is projected only when it is in the table.
LEMMA ProjectedRows ==
  ASSUME IInv, WInv, AInv, RInv, [Next]_vars, RulesUnedited', NEW k \in Keys,
         op'[k] # None, op'[k].status = "projected", op'[k].amount # 0
  PROVE  \E x \in awards' : x.key = k /\ x.amount = op'[k].amount
<1>0. RulesUnedited
  BY BoundsTell DEF IInv, AInv
<1>1. CASE op[k] # None /\ op[k].status = "projected"
  BY <1>0, <1>1, RowsEndure DEF RInv, HasAward
<1>2. CASE op[k] = None \/ op[k].status # "projected"
  <2>1. PICK p \in Procs : op[k] # None /\ (ProjectZero(p) \/ Complete(p)) /\ loc[p].key = k
    BY <1>2, NewlyProjected
  <2>2. pc[p] \in {"zero", "complete"}
    BY <2>1 DEF ProjectZero, Complete
  <2>3. op[k].amount = loc[p].amount /\ op'[k].amount = op[k].amount /\ awards \subseteq awards'
    BY <1>0, <2>1, <2>2, RunsAgree, RowsEndure
  <2> QED
    BY <2>1, <2>2, <2>3 DEF RInv, HasAward
<1> QED
  BY <1>1, <1>2

\* What a durable answer for amount a to key k rests on.
Durable(k, a) ==
  \/ \E x \in awards \cap LegacyAwards : x.key = k /\ x.amount = a
  \/ /\ op[k] # None /\ op[k].amount = a
     /\ op[k].status = "projected" \/ op[k].hash \in reverted
     /\ a > 0 => \E x \in awards : x.key = k /\ x.amount = a

\* An answer that was durable stays so.
LEMMA DurableStays ==
  ASSUME IInv, [Next]_vars, NEW k \in Keys, NEW a, Durable(k, a)
  PROVE  Durable(k, a)'
<1>1. CASE \E x \in awards \cap LegacyAwards : x.key = k /\ x.amount = a
  BY <1>1, RowsEndure DEF Durable
<1>2. CASE /\ op[k] # None /\ op[k].amount = a
           /\ op[k].status = "projected" \/ op[k].hash \in reverted
           /\ a > 0 => \E x \in awards : x.key = k /\ x.amount = a
  <2>1. op[k].hash \in reverted => op[k].hash # None
    BY NoneAssumption DEF IInv, TypeOK, ChainTypeOK
  <2> QED
    BY <1>2, <2>1, RowsEndure DEF Durable
<1> QED
  BY <1>1, <1>2 DEF Durable

\* A projected row may be answered.
LEMMA ProjectedIsDurable ==
  ASSUME IInv, RInv, RulesUnedited, NEW k \in Keys, op[k] # None, op[k].status = "projected"
  PROVE  Durable(k, op[k].amount)
<1>1. op[k].amount \in Nat
  BY AmountsAssumption DEF IInv, TypeOK, OperationsTypeOK, Row
<1> QED
  BY <1>1 DEF Durable, RInv, HasAward

\* Each new answer rests on a row that is projected, or on an older award.
LEMMA NewAnswers ==
  ASSUME IInv, WInv, AInv, RInv, Next, RulesUnedited', NEW x \in answers', x \notin answers
  PROVE  Durable(x.key, x.amount)'
<1>0. RulesUnedited /\ [Next]_vars
  BY BoundsTell DEF IInv, AInv
<1>a. ASSUME NEW k \in Keys, NEW a, Answer(k, a) PROVE x.key = k /\ x.amount = a
  BY <1>a DEF Answer
<1>b. ASSUME NEW k \in Keys, op[k] # None, op[k].status = "projected", Answer(k, op[k].amount)
      PROVE  Durable(x.key, x.amount)'
  BY <1>0, <1>a, <1>b, ProjectedIsDurable, DurableStays
<1>1. ASSUME NEW p \in Procs, NEW k \in Keys, NEW c \in Intents, Lookup(p, k, c)
      PROVE  Durable(x.key, x.amount)'
  <2>1. op[k] # None /\ op[k].amount = 0 /\ op[k].status = "projected" /\ Answer(k, 0)
    BY <1>1 DEF Lookup
  <2> QED
    BY <1>b, <2>1
<1>2. ASSUME NEW p \in Procs, ClaimRefused(p) PROVE Durable(x.key, x.amount)'
  <2> DEFINE k == loc[p].key
  <2>1. PICK a \in awards : op[k] = None /\ a.key = k /\ Answer(k, a.amount)
    BY <1>2 DEF ClaimRefused, LegacyMatches
  <2>2. a \in LegacyAwards /\ k \in Keys
    BY <1>2, <2>1 DEF RInv, AwardsTell, IInv, TypeOK, Locals, ClaimRefused
  <2>3. Durable(k, a.amount)
    BY <2>1, <2>2 DEF Durable
  <2> QED
    BY <1>0, <1>a, <2>1, <2>2, <2>3, DurableStays
<1>3. ASSUME NEW p \in Procs, ClaimReplay(p) PROVE Durable(x.key, x.amount)'
  <2> DEFINE k == loc[p].key
  <2>1. k \in Keys /\ op[k] # None /\ op[k].status = "projected" /\ Answer(k, op[k].amount)
    BY <1>3 DEF ClaimReplay, IInv, TypeOK, Locals
  <2> QED
    BY <1>b, <2>1
<1>4. ASSUME NEW p \in Procs, ProjectZero(p) PROVE Durable(x.key, x.amount)'
  <2> DEFINE k == loc[p].key
  <2>1. op' = MarkProjected(k) /\ Answer(k, 0) /\ pc[p] = "zero"
    BY <1>4 DEF ProjectZero
  <2>2. k \in Keys /\ op[k] # None /\ op[k].amount = 0
    BY <1>0, <2>1, RunsAgree DEF RInv
  <2>3. op[k] \in Row /\ op \in [Keys -> Row \cup {None}] /\ op[k].status # "failed"
    BY <2>2 DEF IInv, TypeOK, OperationsTypeOK, RowsAreSound
  <2>4. op'[k].status = "projected"
    BY <2>1, <2>2, <2>3 DEF MarkProjected, UpdateWhere, Row
  <2>5. op'[k] # None /\ op'[k].amount = 0
    BY <1>0, <2>2, RowsEndure
  <2> QED
    BY <1>a, <2>1, <2>2, <2>4, <2>5 DEF Durable
<1>5. ASSUME NEW p \in Procs, Complete(p) PROVE Durable(x.key, x.amount)'
  <2> DEFINE k == loc[p].key
  <2>1. op' = MarkProjected(k) /\ Answer(k, loc[p].amount) /\ pc[p] = "complete"
    BY <1>5 DEF Complete
  <2>2. k \in Keys /\ op[k] # None /\ op[k].amount = loc[p].amount /\ HasAward(k, loc[p].amount)
    BY <1>0, <2>1, RunsAgree DEF RInv
  <2>3. op[k] \in Row /\ op \in [Keys -> Row \cup {None}] /\ op[k].hash # None
    BY <2>1, <2>2 DEF IInv, TypeOK, OperationsTypeOK, HoldersMatch, HashPoints, Points
  <2>4. op'[k].status = "projected" \/ op'[k].hash \in reverted'
    <3>1. CASE op[k].status = "failed"
      <4>1. op[k].hash \in reverted
        BY <1>0, <2>2, <2>3, <3>1 DEF AInv, FailuresExplained, RulesRule
      <4> QED
        BY <1>0, <2>2, <2>3, <4>1, RowsEndure
    <3>2. CASE op[k].status # "failed"
      BY <2>1, <2>2, <2>3, <3>2 DEF MarkProjected, UpdateWhere, Row
    <3> QED
      BY <3>1, <3>2
  <2>5. op'[k] # None /\ op'[k].amount = loc[p].amount /\ awards \subseteq awards'
    BY <1>0, <2>2, RowsEndure
  <2> QED
    BY <1>a, <2>1, <2>2, <2>4, <2>5 DEF Durable, HasAward
<1>6. ASSUME NEW p \in Procs, NEW k \in Keys, RecoverProjected(p, k) PROVE Durable(x.key, x.amount)'
  BY <1>b, <1>6 DEF RecoverProjected
<1>7. answers' # answers
  OBVIOUS
<1>8. ~Environment /\ \A p \in Procs : ~Submission(p)
  <2>1. ~Environment
    BY <1>7 DEF Environment, MineNext, EvictOne, EditRules, Relink, awardVars
  <2> QED
    BY <1>7, <2>1 DEF Submission, awardVars
<1> QED
  BY <1>1, <1>2, <1>3, <1>4, <1>5, <1>6, <1>7, <1>8 DEF Next, Step, Start, Claiming, Projection, Resolve,
     ClaimNew, ClaimReclaimed, Record, Recover, awardVars

\* Every step preserves RInv.
LEMMA StepRInv == IInv /\ WInv /\ AInv /\ RInv /\ [Next]_vars => RInv'
<1> SUFFICES ASSUME IInv, WInv, AInv, RInv, [Next]_vars PROVE RInv'
  OBVIOUS
<1>1. AwardsTell' /\ DedupUnique(awards')
  BY RecordsTell
<1>2. \A q \in Procs : /\ pc'[q] = "complete" => \E x \in awards' : x.key = loc'[q].key /\ x.amount = loc'[q].amount
                       /\ pc'[q] = "zero" => loc'[q].amount = 0
  BY Arrivals
<1>3. ASSUME RulesUnedited' PROVE AnswersAreDurable'
  <2>1. RulesUnedited
    BY <1>3, BoundsTell DEF IInv, AInv
  <2>2. ASSUME NEW x \in answers' PROVE Durable(x.key, x.amount)'
    <3>1. CASE x \in answers
      <4>1. x.key \in Keys /\ Durable(x.key, x.amount)
        BY <2>1, <3>1 DEF IInv, TypeOK, RInv, AnswersAreDurable, Durable
      <4> QED
        BY <4>1, DurableStays
    <3>2. CASE x \notin answers /\ Next
      BY <1>3, <3>2, NewAnswers
    <3> QED
      BY <3>1, <3>2 DEF vars
  <2> QED
    BY <2>2 DEF AnswersAreDurable, Durable
<1>4. ASSUME RulesUnedited', NEW k \in Keys, op'[k] # None, op'[k].status = "projected", op'[k].amount # 0
      PROVE  \E x \in awards' : x.key = k /\ x.amount = op'[k].amount
  BY <1>4, ProjectedRows
<1> QED
  BY <1>1, <1>2, <1>3, <1>4 DEF RInv, HasAward, DedupUnique

\* The awards table of the start holds older awards only.
LEMMA InitRInv == Init => RInv
BY DEF Init, OperationsInit, RInv, AwardsTell, AnswersAreDurable

\* Awards and answers tell the truth in every reachable state.
LEMMA RecordInvariant == Spec => [](IInv /\ WInv /\ AInv /\ RInv)
BY AmountInvariant, InitRInv, StepRInv, PTL DEF Spec

\* Each award is recorded once, and names the key and the owner of the transfer
\* whose hash it carries, whatever happens to rules, wallets and runs.
RecordsNameTransfers ==
  /\ \A a \in awards : a.tx # None => a.tx.key = a.key /\ a.tx.wallet = a.wallet
  /\ DedupUnique(awards)

THEOREM RecordsAreNamed == Spec => []RecordsNameTransfers
<1>1. IInv /\ WInv /\ RInv => RecordsNameTransfers
  <2> SUFFICES ASSUME IInv, WInv, RInv, NEW a \in awards, a.tx # None
               PROVE  a.tx.key = a.key /\ a.tx.wallet = a.wallet
    BY DEF RecordsNameTransfers, RInv
  <2>1. a.key \in Keys /\ a \notin LegacyAwards
    BY LegacyAssumption DEF IInv, TypeOK, AwardRow
  <2>2. op[a.key] # None /\ op[a.key].hash # None /\ op[a.key].hash = a.tx /\ a.wallet = op[a.key].wallet
    BY <2>1 DEF RInv, AwardsTell
  <2> QED
    BY <2>1, <2>2 DEF IInv, LeaseMatchesRow, WInv, HashNamesWallet
<1> QED
  BY <1>1, RecordInvariant, PTL

\* Each recorded award is the transfer whose hash it carries, amount included,
\* as long as nobody edits the award rules.
THEOREM AwardsTruthful == Spec => [](RulesUnedited => AwardsMatchTransfers)
<1>1. IInv /\ WInv /\ AInv /\ RInv => (RulesUnedited => AwardsMatchTransfers)
  <2> SUFFICES ASSUME IInv, WInv, AInv, RInv, RulesUnedited, NEW a \in awards, a.tx # None
               PROVE  a.tx.key = a.key /\ a.tx.wallet = a.wallet /\ a.tx.amount = a.amount
    BY DEF AwardsMatchTransfers, RInv
  <2>1. a.key \in Keys /\ a \notin LegacyAwards
    BY LegacyAssumption DEF IInv, TypeOK, AwardRow
  <2>2. /\ op[a.key] # None /\ op[a.key].hash # None /\ op[a.key].hash = a.tx
        /\ a.wallet = op[a.key].wallet /\ a.amount = op[a.key].amount
    BY <2>1 DEF RInv, AwardsTell
  <2>3. a.tx.amount = a.amount
    BY <2>1, <2>2 DEF AInv, RulesRule
  <2> QED
    BY <2>1, <2>2, <2>3 DEF IInv, LeaseMatchesRow, WInv, HashNamesWallet
<1> QED
  BY <1>1, RecordInvariant, PTL

\* A successful answer stays true: its row is projected with the answered
\* amount, or its transfer was reverted after an answer without evidence, and
\* a positive award is in the table.
THEOREM AnswersDurable == Spec => [](RulesUnedited => AnswersAreDurable)
BY RecordInvariant, PTL DEF RInv
-----------------------------------------------------------------------------
(* The ledger keeps its promise. With AwardsImplementLedger this says that *)
(* the program pays each award at most once, from the ledger alone.        *)

\* Of one award, one transfer is signed; what moved or was entered is signed.
SignedOnce == \A t, u \in signed : <<t.key, u.key>> \in Rivals => t = u
LInv ==
  /\ SignedOnce /\ moved \subseteq signed
  /\ \A e \in entered \ Opening : \E t \in signed : e = [key |-> t.key, wallet |-> t.wallet, tx |-> t]

\* Signing is refused for an award that has a transfer, and nothing else signs.
LEMMA LedgerStep == LInv /\ [LedgerNext]_ledgerVars => LInv'
<1> SUFFICES ASSUME LInv, [LedgerNext]_ledgerVars PROVE LInv'
  OBVIOUS
<1>1. CASE UNCHANGED ledgerVars
  BY <1>1 DEF ledgerVars, LInv, SignedOnce
<1>2. ASSUME NEW t, Sign(t) \/ Move(t) \/ Enter(t) PROVE LInv'
  BY <1>2 DEF Sign, Move, Enter, LInv, SignedOnce
<1> QED
  BY <1>1, <1>2 DEF LedgerNext

\* Every behaviour of the ledger signs one transfer for an award.
LEMMA LedgerInvariant == LedgerSpec => []LInv
<1>1. LedgerInit => LInv
  BY DEF LedgerInit, LInv, SignedOnce
<1> QED
  BY <1>1, LedgerStep, PTL DEF LedgerSpec

\* Tokens move at most once for an award (recordAward, claim and prepare are
\* what keeps a second transfer of it from being signed).
THEOREM LedgerMovesOnce == LedgerSpec => []MovedOnce
<1>1. LInv => MovedOnce
  BY DEF LInv, SignedOnce, MovedOnce
<1> QED
  BY <1>1, LedgerInvariant, PTL

\* A row of the awards table that was not there from the start names a
\* transfer that was signed, under its own key and for its own recipient.
THEOREM EntriesAreSigned ==
  LedgerSpec => [](\A e \in entered \ Opening : e.tx \in signed /\ e.tx.key = e.key /\ e.tx.wallet = e.wallet)
<1>1. LInv => \A e \in entered \ Opening : e.tx \in signed /\ e.tx.key = e.key /\ e.tx.wallet = e.wallet
  BY DEF LInv
<1> QED
  BY <1>1, LedgerInvariant, PTL
=============================================================================
