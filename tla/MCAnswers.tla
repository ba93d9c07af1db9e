----------------------------- MODULE MCAnswers -----------------------------
(***************************************************************************)
(* What callers and operators are told: of a spend, of the treasury's      *)
(* transactions for a managed wallet, and of the ledgers by the evidence   *)
(* report. The three models share no state, so every reachable state of    *)
(* them is made of a reachable state of each: it is enough to explore each *)
(* one while the others rest.                                              *)
(***************************************************************************)
EXTENDS SpendAnswers, ManagedWallets, AdminEvidence, TLC

CONSTANTS q1, q2
CONSTANTS w1, x1, i1, t1, r1, m1, p1, p2
CONSTANTS k0, h0, h1, o1, o2, polygon, amoy, n1, n2, admin

\* One managed wallet; a first funding, a top-up, a revocation and a move.
ManagedKeys == (Managed \X Shortfalls) \cup {t1, r1, m1}
OneOwner == [k \in {r1, m1} |-> w1]
OneToken == [w \in Managed |-> 1]

\* The two runs are served by different server processes.
TwoHosts == [p \in Procs |-> p]

MCPlan == k0 :> [dir |-> "award", owner |-> o2, amount |-> 1, asset |-> polygon]

\* An old operation that is projected, or one that is prepared, and a row of its hash that agrees with it, differs in
\* its amount or owner, or belongs to the other table.
OldOp(asset, status, confirmed) ==
  [dir |-> "award", owner |-> o1, amount |-> 1, asset |-> asset, status |-> status, outcome |-> Absent, hash |-> h0,
   created |-> 0, updated |-> 0, confirmed |-> confirmed]
OldTables(old, award, spend) ==
  [ops |-> k0 :> old, awards |-> h0 :> award @@ h1 :> Absent, spends |-> h0 :> spend @@ h1 :> Absent]
OldRow(owner, amount) == [owner |-> owner, amount |-> amount, date |-> 0]
MCRetained ==
  LET old == {Absent, OldOp(Absent, "projected", 0), OldOp(polygon, "submitting", Absent)}
      rows == {OldRow(o1, 2), OldRow(o2, 1)}
  IN  {OldTables(o, r, Absent) : o \in old, r \in rows \cup {Absent}}
      \cup {OldTables(Absent, r, OldRow(o1, 1)) : r \in rows}

\* Both periods or one of them, and some filters.
Asking(from, to, owner, dir, status, unresolved) ==
  [from |-> from, to |-> to, owner |-> owner, dir |-> dir, status |-> status, unresolved |-> unresolved]
MCQueries ==
  { Asking(0, 1, Absent, Absent, Absent, FALSE), Asking(0, 0, Absent, Absent, Absent, FALSE),
    Asking(0, 1, o2, Absent, Absent, FALSE),
    Asking(0, 1, Absent, "spend", "confirmed", TRUE) }

\* One request, its repetition with another reason, and one about another row.
Body(key, subject, ref, reason) == [actor |-> admin, key |-> key, subject |-> subject, ref |-> ref, reason |-> reason]
MCBodies ==
  { Body(1, [src |-> "op", id |-> k0], h0, 1), Body(1, [src |-> "op", id |-> k0], h0, 2),
    Body(2, [src |-> "award", id |-> h0], h1, 1) }

\* One initial state of each.
SpendsRest ==
  /\ kind = "manual" /\ row = NoValue /\ ~allowance /\ ~covered
  /\ left = [failures |-> MaxFailures, starts |-> MaxStarts]
ManagedRests ==
  /\ pc = [p \in Procs |-> "idle"] /\ prep[w1] = None /\ moved = {} /\ Len(wallet[w1]) = 0
  /\ budget = [faults |-> MaxFaults, reverts |-> MaxReverts, evictions |-> MaxEvictions,
               deposits |-> MaxDeposits, requests |-> MaxRequests]
EvidenceRests ==
  /\ period = 0 /\ writes = 0 /\ report = NoReport /\ annotations = {} /\ faults = 0 /\ \A n \in Annotators : asks[n].at = "idle"
  /\ \A k \in Ops : ops[k] = Absent
  /\ \A h \in Hashes : awards[h] = Absent /\ spends[h] = Absent

\* Reports and annotations read the tables, and not each other.
Apart == report = NoReport \/ (annotations = {} /\ \A n \in Annotators : asks[n].at = "idle")

SpendTurn == ManagedRests /\ EvidenceRests
ManagedTurn == SpendsRest /\ EvidenceRests
EvidenceTurn == SpendsRest /\ ManagedRests

MCInit ==
  /\ AnswersInit /\ Init /\ EvidenceInit
  /\ SpendTurn \/ ManagedTurn \/ EvidenceTurn

MCNext ==
  \/ SpendTurn /\ AnswersNext /\ UNCHANGED <<vars, evidenceVars>>
  \/ ManagedTurn /\ Next /\ UNCHANGED <<requestVars, evidenceVars>>
  \/ EvidenceTurn /\ EvidenceNext /\ Apart' /\ UNCHANGED <<requestVars, vars>>

MCSpec == MCInit /\ [][MCNext]_<<requestVars, vars, evidenceVars>>

Symmetric == Permutations(Requests) \cup Permutations(Procs) \cup Permutations(Annotators)
=============================================================================
