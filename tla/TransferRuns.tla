---------------------------- MODULE TransferRuns ----------------------------
(***************************************************************************)
(* The part of a run that awards and spends share: prepare, broadcast and  *)
(* mark one treasury transaction, read evidence of it, and mark the row    *)
(* accordingly. A run is a process with a control point and the values it  *)
(* read; every await of the code is a boundary between two actions, so     *)
(* runs interleave, crash and act on stale reads exactly there. A database *)
(* call may be applied, lost, or applied with its answer lost; an RPC call *)
(* may fail or reach a lagging endpoint. Those faults are bounded.         *)
(*                                                                         *)
(* The module leaves the variables of its users alone: AwardExecutor and   *)
(* SpendExecutor add what a step does to theirs.                           *)
(***************************************************************************)
EXTENDS TreasuryTransactions

CONSTANT Procs   \* concurrently running requests

VARIABLES
  pc,       \* control point of each run
  loc,      \* memory of each run: key, wallet, amount, tx and more
  budget    \* how many of each bounded event are still allowed

Fault == budget.faults > 0 /\ budget' = [budget EXCEPT !.faults = @ - 1]
NoFault == UNCHANGED budget
Goto(p, point) ==
  /\ pc' = [pc EXCEPT ![p] = point]
  /\ loc' = IF point = "idle" THEN [loc EXCEPT ![p] = None] ELSE loc

GotoWith(p, point, memory) ==
  /\ pc' = [pc EXCEPT ![p] = point]
  /\ loc' = [loc EXCEPT ![p] = IF point = "idle" THEN None ELSE memory]

\* A database call that leaves the table at new when it is applied.
SaveOp(p, new, done, failed) ==
  \/ op' = new /\ Goto(p, done) /\ NoFault
  \/ op' \in {op, new} /\ Goto(p, failed) /\ Fault

-----------------------------------------------------------------------------
(* prepareAndBroadcastTransaction and what the executors do around it.     *)

Transfer(p, n) ==
  [key |-> loc[p].key, nonce |-> n, wallet |-> loc[p].wallet, amount |-> loc[p].amount]

\* The lease and the hash are committed; the answer of the commit may be lost.
Prepare(p) ==
  LET k == loc[p].key IN
  /\ pc[p] = "prepare" /\ lease[k] = None
  /\ \E pending \in ReportedNonces :
       /\ ~Unresolved(pending)
       /\ \E n \in NextNonces(pending) :
            /\ TargetOpen(k, Transfer(p, n))
            /\ lease' = PreparedLease(k, Transfer(p, n))
            /\ op' = PreparedTarget(k, Transfer(p, n))
            /\ \/ /\ pending \in CurrentNonces /\ NoFault
                  /\ GotoWith(p, "broadcast", [loc[p] EXCEPT !.tx = Transfer(p, n)])
               \/ /\ pending \notin CurrentNonces /\ Fault
                  /\ GotoWith(p, "broadcast", [loc[p] EXCEPT !.tx = Transfer(p, n)])
               \/ Goto(p, "preflight") /\ Fault
  /\ UNCHANGED chainVars

\* An unresolved lease, an unavailable read or a rejected estimate: no hash
\* was saved.
PrepareRefused(p) ==
  /\ pc[p] = "prepare"
  /\ \/ (\E pending \in CurrentNonces : Unresolved(pending)) /\ NoFault
     \/ Fault
  /\ Goto(p, "preflight")
  /\ UNCHANGED <<op, chainVars, lease>>

\* markPreflightFailed; its own failure is swallowed.
PreflightFailed(p) ==
  /\ pc[p] = "preflight"
  /\ SaveOp(p, MarkPreflightFailed(loc[p].key), "idle", "idle")
  /\ UNCHANGED <<chainVars, lease>>

\* broadcastTransaction: the bytes reach an endpoint or not, and the answer
\* arrives or not.
Broadcast(p) ==
  /\ pc[p] = "broadcast"
  /\ \/ Accept(loc[p].tx) /\ Goto(p, "submitLease") /\ NoFault
     \/ Accept(loc[p].tx) /\ Goto(p, "unknownLease") /\ Fault
     \/ UNCHANGED pool /\ Goto(p, "unknownLease") /\ Fault
  /\ UNCHANGED <<op, paid, reverted, lease>>

\* TreasuryTransactions.markSubmitted; a failure is treated as an unknown
\* broadcast.
SubmitLease(p) ==
  LET k == loc[p].key IN
  /\ pc[p] = "submitLease"
  /\ \/ /\ op' = TargetMarked(k, "submitted") /\ lease' = LeaseMarked(k, "submitted")
        /\ Goto(p, "submit") /\ NoFault
     \/ /\ op' = TargetMarked(k, "submitted") /\ lease' = LeaseMarked(k, "submitted")
        /\ Goto(p, "unknownLease") /\ Fault
     \/ UNCHANGED <<op, lease>> /\ Goto(p, "unknownLease") /\ Fault
  /\ UNCHANGED chainVars

\* TreasuryTransactions.markUnknown, its failure swallowed; the saved hash is
\* then reconciled once by reading evidence.
UnknownLease(p) ==
  LET k == loc[p].key IN
  /\ pc[p] = "unknownLease"
  /\ \/ op' = TargetMarked(k, "unknown") /\ lease' = LeaseMarked(k, "unknown") /\ NoFault
     \/ UNCHANGED <<op, lease>> /\ Fault
  /\ Goto(p, "verify")
  /\ UNCHANGED chainVars

\* TokenOperations.markSubmitted after a clean broadcast.
Submit(p) ==
  /\ pc[p] = "submit"
  /\ SaveOp(p, MarkSubmitted(loc[p].key, loc[p].tx), "verify", "unknown")
  /\ UNCHANGED <<chainVars, lease>>
-----------------------------------------------------------------------------
(* Evidence of the saved hash, and the marks that follow from it.          *)

\* Mutant: a transfer no endpoint finds is taken for a failed one.
EvidencePointMissingFails(e) ==
  CASE e = "valid" -> "confirm"
    [] e \in {"reverted", "not_found"} -> "failNoMovement"
    [] e = "mismatch" -> "failReview"
    [] OTHER -> "unknown"

EvidencePoint(e) ==
  CASE e = "valid" -> "confirm"
    [] e = "reverted" -> "failNoMovement"
    [] e = "mismatch" -> "failReview"
    [] OTHER -> "unknown"

Verify(p) ==
  /\ pc[p] = "verify"
  /\ \/ Goto(p, EvidencePoint(Evidence(loc[p].tx, loc[p].wallet, loc[p].amount))) /\ NoFault
     \/ \E e \in DegradedEvidence : Goto(p, EvidencePoint(e)) /\ Fault
  /\ UNCHANGED <<op, chainVars, lease>>

\* markUnknown, its failure swallowed.
StillUnknown(p) ==
  /\ pc[p] = "unknown"
  /\ SaveOp(p, MarkUnknown(loc[p].key), "idle", "idle")
  /\ UNCHANGED <<chainVars, lease>>

RejectEvidence(p) ==
  /\ \/ pc[p] = "failNoMovement" /\ SaveOp(p, MarkFailed(loc[p].key, "no_movement"), "idle", "idle")
     \/ pc[p] = "failReview" /\ SaveOp(p, MarkFailed(loc[p].key, "review"), "idle", "idle")
  /\ UNCHANGED <<chainVars, lease>>

Confirm(p) ==
  /\ pc[p] = "confirm"
  /\ SaveOp(p, MarkConfirmed(loc[p].key), "record", "idle")
  /\ UNCHANGED <<chainVars, lease>>

\* markProjectionError, its failure swallowed.
ProjectionError(p) ==
  /\ pc[p] = "projectionError"
  /\ SaveOp(p, MarkProjectionError(loc[p].key), "idle", "idle")
  /\ UNCHANGED <<chainVars, lease>>

\* Missing, reverted or mismatching transfers are left to the operator.
FreshPoint(e) ==
  CASE e = "valid" -> "confirm"
    [] e \in {"pending", "provider_error"} -> "unknown"
    [] OTHER -> "idle"

VerifyFresh(p) ==
  /\ pc[p] = "fresh"
  /\ \/ Goto(p, FreshPoint(Evidence(loc[p].tx, loc[p].wallet, loc[p].amount))) /\ NoFault
     \/ \E e \in DegradedEvidence : Goto(p, FreshPoint(e)) /\ Fault
  /\ UNCHANGED <<op, chainVars, lease>>
-----------------------------------------------------------------------------
(* The environment.                                                        *)

\* The process dies at any point; its memory, signed bytes included, is gone.
Crash(p) ==
  /\ pc[p] # "idle" /\ Fault /\ Goto(p, "idle")
  /\ UNCHANGED <<op, chainVars, lease>>

EvictOne ==
  /\ budget.evictions > 0 /\ budget' = [budget EXCEPT !.evictions = @ - 1]
  /\ \E t \in pool : Evict(t)
  /\ UNCHANGED <<op, lease, pc, loc>>

SubmissionStep(p) ==
  \/ Prepare(p) \/ PrepareRefused(p) \/ PreflightFailed(p) \/ Broadcast(p)
  \/ SubmitLease(p) \/ UnknownLease(p) \/ Submit(p)
EvidenceStep(p) ==
  \/ Verify(p) \/ VerifyFresh(p) \/ StillUnknown(p) \/ RejectEvidence(p)
  \/ Confirm(p) \/ ProjectionError(p)
-----------------------------------------------------------------------------
(* Properties of the shared state.                                         *)

\* Every transfer the chain knows is saved as the hash of its operation row
\* and of its lease: a crash never leaves a movement nobody can look up.
MovementIsTraceable ==
  \A t \in Known : /\ op[t.key] # None /\ op[t.key].hash = t
                   /\ lease[t.key] # None /\ lease[t.key].tx = t

\* No two leases hold one nonce, so no treasury transfer replaces another.
NonceNeverReused ==
  \A k, l \in Leased : lease[k].tx.nonce = lease[l].tx.nonce => k = l

\* A row that says no tokens moved is right, and stays right while it says
\* so: no transfer of its key was paid or can still be mined.
NoMovementIsTrue ==
  \A k \in Keys : op[k] # None /\ op[k].outcome = "no_movement"
                   => \A t \in pool \cup paid : t.key # k

\* A preparation never finds a lease of its own key: the branch for an
\* already prepared transaction is dead code, and signed bytes
\* are never signed again.
PrepareFindsNoLease ==
  \A p \in Procs : pc[p] = "prepare" => lease[loc[p].key] = None
=============================================================================
