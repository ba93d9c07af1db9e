---------------------------- MODULE AwardLedger ----------------------------
(***************************************************************************)
(* What the award service promises, without rows, leases, runs or faults:  *)
(* a transfer is signed for an award once and for good, tokens move only   *)
(* by signed transfers, and the awards table gains one row for each award, *)
(* which names the transfer signed for it and the wallet it went to.       *)
(***************************************************************************)
CONSTANTS
  Transfers,  \* transfers the treasury may sign: [key, wallet, ...]
  Rivals,     \* pairs of keys that stand for one award
  Duplicates, \* pairs of keys whose rows would be one row of the table
  Opening     \* rows the table may hold from the start: [key, wallet, tx]

VARIABLES
  signed,   \* transfers the treasury has signed
  moved,    \* those that moved tokens
  entered   \* the awards table: [key, wallet, tx]

ledgerVars == <<signed, moved, entered>>

LedgerInit == signed = {} /\ moved = {} /\ entered \in SUBSET Opening

\* One transfer is signed for an award, whatever became of the last one.
Sign(t) ==
  /\ t \in Transfers
  /\ \A u \in signed : <<t.key, u.key>> \notin Rivals /\ <<u.key, t.key>> \notin Rivals
  /\ signed' = signed \cup {t}
  /\ UNCHANGED <<moved, entered>>

Move(t) == t \in signed /\ moved' = moved \cup {t} /\ UNCHANGED <<signed, entered>>

Enter(t) ==
  /\ t \in signed
  /\ \A e \in entered : e.tx # t /\ <<e.key, t.key>> \notin Duplicates
  /\ entered' = entered \cup {[key |-> t.key, wallet |-> t.wallet, tx |-> t]}
  /\ UNCHANGED <<signed, moved>>

LedgerNext ==
  \/ \E t \in signed' : Sign(t)
  \/ \E t \in signed : Move(t) \/ Enter(t)
LedgerSpec == LedgerInit /\ [][LedgerNext]_ledgerVars
-----------------------------------------------------------------------------
\* Tokens moved at most once for an award.
MovedOnce == \A t, u \in moved : <<t.key, u.key>> \in Rivals => t = u
=============================================================================
