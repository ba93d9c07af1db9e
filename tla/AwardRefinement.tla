-------------------------- MODULE AwardRefinement --------------------------
(***************************************************************************)
(* How the award executor keeps the promise of AwardLedger: a transfer is  *)
(* signed when its lease is committed, it has moved tokens when the chain  *)
(* has mined it, and it is entered when recordAward has inserted its row.  *)
(* The amount of a row is that of the operation; AwardsMatchTransfers says *)
(* when it is the transfer's.                                              *)
(***************************************************************************)
EXTENDS AwardExecutor

\* What a row of the awards table says, apart from its amount.
Entry(a) == [key |-> a.key, wallet |-> a.wallet, tx |-> a.tx]

Signed == {lease[k].tx : k \in Leased}
Entered == {Entry(a) : a \in awards}

Ledger == INSTANCE AwardLedger WITH
  Transfers  <- Tx,
  Rivals     <- {r \in Keys \X Keys : SameAwardKeys(r[1], r[2])},
  Duplicates <- {r \in Keys \X Keys : DedupOf[r[1]] = DedupOf[r[2]]},
  Opening    <- {Entry(a) : a \in LegacyAwards},
  signed     <- Signed,
  moved      <- paid,
  entered    <- Entered

\* Whatever interleaves, crashes, is lost or is replayed, every step of the
\* executor is a step of the ledger or leaves it alone.
ImplementsLedger == Ledger!LedgerSpec
=============================================================================
