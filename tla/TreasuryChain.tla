---------------------------- MODULE TreasuryChain ----------------------------
(***************************************************************************)
(* The chain as the service sees it: the treasury signer's transfers that  *)
(* an RPC endpoint accepted, and the ones mined with a success or a failed *)
(* receipt. External to the repository; the reads of it are the code's.    *)
(***************************************************************************)
EXTENDS TokenOperations

VARIABLES
  pool,      \* accepted, not yet mined
  paid,      \* mined with receipt status 1: the tokens moved
  reverted   \* mined with receipt status 0: no movement

chainVars == <<pool, paid, reverted>>

Mined == paid \cup reverted
Known == pool \cup Mined

\* An endpoint accepts signed bytes unless their nonce is already used up.
Accept(t) ==
  pool' = IF \E u \in Known : u.nonce = t.nonce THEN pool ELSE pool \cup {t}

\* Transfers of one signer are mined in nonce order, with either receipt.
Mine(t, ok) ==
  /\ t \in pool
  /\ \A n \in 0..t.nonce : (\E u \in Mined : u.nonce = n) <=> n < t.nonce
  /\ pool' = pool \ {t}
  /\ paid' = IF ok THEN paid \cup {t} ELSE paid
  /\ reverted' = IF ok THEN reverted ELSE reverted \cup {t}

\* A node may evict a pending transfer.
Evict(t) ==
  /\ t \in pool
  /\ pool' = pool \ {t}
  /\ UNCHANGED <<paid, reverted>>

\* The pending nonces an endpoint may report: the length of some gapless
\* prefix of the signer's transfers. An up-to-date endpoint reports the
\* longest one, whose nonce is still free.
ReportedNonces ==
  {n \in {0} \cup {u.nonce + 1 : u \in Known} :
     \A m \in 0..n : m < n => \E u \in Known : u.nonce = m}
CurrentNonces == ReportedNonces \ {u.nonce : u \in Known}

\* verifySpendEvidence of hash t against the expected wallet and amount.
Evidence(t, wallet, amount) ==
  IF t \notin Known THEN "not_found"
  ELSE IF t \in pool THEN "pending"
  ELSE IF t \in reverted THEN "reverted"
  ELSE IF t.wallet = wallet /\ t.amount = amount THEN "valid"
  ELSE "mismatch"

\* What a read that fails or reaches a lagging endpoint may answer instead.
DegradedEvidence == {"provider_error", "not_found", "pending"}

ChainInit == pool = {} /\ paid = {} /\ reverted = {}
ChainTypeOK == pool \subseteq Tx /\ paid \subseteq Tx /\ reverted \subseteq Tx
=============================================================================
