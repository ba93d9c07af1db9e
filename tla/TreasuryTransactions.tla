------------------------ MODULE TreasuryTransactions ------------------------
(***************************************************************************)
(* treasury_transaction_leases: the durable nonce coordination shared by   *)
(* everything the treasury signs. A lease and the hash of its target row   *)
(* are written by one transaction, before the signed bytes are broadcast;  *)
(* the bytes themselves are never stored.                                  *)
(***************************************************************************)
EXTENDS TreasuryChain

VARIABLE lease   \* lease[k]: the lease of operation key k, or None

\* Only a fund move's lease can also be "failed" (ManagedWallets).
LeaseStatuses == {"prepared", "submitted", "unknown"}
Lease == [tx: Tx, status: LeaseStatuses]

Leased == {k \in Keys : lease[k] # None}

\* Mutant: an unknown lease no longer blocks preparations.
UnresolvedPreparedOnly(pending) ==
  \E k \in Leased : lease[k].status = "prepared" /\ lease[k].tx.nonce >= pending

\* A lease that may or may not have reached the chain, at a nonce the chain
\* has not passed, refuses every further preparation.
Unresolved(pending) ==
  \E k \in Leased : /\ lease[k].status \in {"prepared", "unknown"}
                    /\ lease[k].tx.nonce >= pending

\* Mutant: the endpoint's pending nonce is used as it is.
NextNoncesPending(pending) == {pending}

\* Leases that hold their nonce: a failed one gives it up.
Holding == {k \in Leased : lease[k].status # "failed"}

\* max(pending nonce, highest held nonce + 1)
NextNonces(pending) ==
  {n \in {pending} \cup {lease[k].tx.nonce + 1 : k \in Holding} :
     n >= pending /\ \A k \in Holding : n > lease[k].tx.nonce}


\* prepare commits the lease and its target row together; the target must
\* still be open and hold no other hash.
TargetOpen(k, t) ==
  op[k] # None /\ op[k].status \in OpenStatuses /\ op[k].hash \in {None, t}
PreparedLease(k, t) == [lease EXCEPT ![k] = [tx |-> t, status |-> "prepared"]]
\* Mutant: the hash is not saved before the broadcast.
PreparedTargetNoHash(k, t) == [op EXCEPT ![k].status = "submitting"]

PreparedTarget(k, t) ==
  [op EXCEPT ![k].hash = t, ![k].status = "submitting"]

\* markSubmitted and markUnknown move the lease and its target together;
\* markFailed, which only fund moves use, has no target. A failed lease stays.
LeaseMarked(k, status) ==
  IF lease[k] # None /\ lease[k].status # "failed"
  THEN [lease EXCEPT ![k].status = status] ELSE lease
TargetMarked(k, status) ==
  UpdateWhere(k, lease[k] # None /\ op[k].status \in OpenStatuses,
              [op[k] EXCEPT !.status = status])

LeaseInit == lease = [k \in Keys |-> None]
LeaseTypeOK == lease \in [Keys -> Lease \cup {None}]
=============================================================================
