--------------------------- MODULE CustodialSpends ---------------------------
(***************************************************************************)
(* Spends that a user's own wallet sends to the treasury: POST             *)
(* /spend/custodial-intent and /spend/custodial-failure only read, the     *)
(* wallet sends the transfer, and /spend/custodial-record proves it and    *)
(* stores a signed receipt and then the spend, over the users and links of *)
(* WalletSelection. A claim's context (amount, charging session, provider) *)
(* is one value: two claims of a hash agree on it or do not.               *)
(***************************************************************************)
EXTENDS WalletSelection

CONSTANTS
  Transfers,  \* hashes of custodial transfers; the others are awards
  SenderOf    \* the wallet that signed a custodial transfer

ASSUME TransfersAssumption == Transfers \subseteq Txs /\ SenderOf \in [Transfers -> Externals]

VARIABLES
  mined,      \* the custodial transfers with a successful receipt
  receipts,   \* receipts[t]: the signed receipt stored for t
  answered    \* claims answered with success

custodialVars == <<mined, receipts, answered>>
vars == <<selectionVars, custodialVars>>

Claim(p) == Recording(p)
-----------------------------------------------------------------------------
\* The user signs the intent in their wallet and the chain executes it.
Send(t) ==
  /\ t \notin mined /\ mined' = mined \cup {t}
  /\ UNCHANGED <<selectionVars, receipts, answered>>

\* validateCustodialSpendIntentInput and the route's own check: the wallet
\* must be linked to the uid that claims the transfer.
StartClaim(p, u, a, t, s) ==
  /\ pc[p] = "idle" /\ a \in linked[u]
  /\ GotoWith(p, "evidence", [Memory(u, a) EXCEPT !.tx = t, !.session = s])
  /\ UNCHANGED <<row, linked, ledger, lock, faults, custodialVars>>

\* Mutant: the sender is not compared.
ProvenMined(t, a) == t \in mined

\* verifySpendEvidence: mined, and sent by the claimed wallet.
Proven(t, a) == t \in mined /\ SenderOf[t] = a

VerifyClaim(p) ==
  /\ pc[p] = "evidence"
  /\ \/ Proven(loc[p].tx, loc[p].wallet) /\ Goto(p, "lookup") /\ NoFault
     \/ ~Proven(loc[p].tx, loc[p].wallet) /\ End(p) /\ NoFault
     \/ End(p) /\ Fault
  /\ UNCHANGED <<row, linked, ledger, lock, custodialVars>>

\* The spend of the hash, if any. One that differs in its context or belongs
\* to another uid's row is answered 409.
LookupSpend(p) ==
  LET found == Recorded(loc[p].tx) IN
  /\ pc[p] = "lookup"
  /\ \/ ~found /\ Goto(p, "receipt") /\ NoFault
     \/ /\ found /\ Claim(p) \in ledger /\ loc[p].wallet \in Rows(loc[p].uid)
        /\ Goto(p, "duplicate") /\ NoFault
     \/ found /\ Claim(p) \notin ledger /\ End(p) /\ NoFault
     \/ End(p) /\ Fault
  /\ UNCHANGED <<row, linked, ledger, lock, custodialVars>>

Answer(p) == answered' = answered \cup {Claim(p)}

\* A recorded spend is a success only with its receipt; without one it is
\* left to an operator.
AnswerDuplicate(p) ==
  /\ pc[p] = "duplicate" /\ End(p)
  /\ \/ receipts[loc[p].tx] = Claim(p) /\ Answer(p) /\ NoFault
     \/ receipts[loc[p].tx] # Claim(p) /\ UNCHANGED answered /\ NoFault
     \/ UNCHANGED answered /\ Fault
  /\ UNCHANGED <<row, linked, ledger, lock, mined, receipts>>

\* Mutants: success is answered before the spend is recorded; a stored
\* receipt is taken for a recorded spend.
StoreReceiptAnswers(p) ==
  /\ pc[p] = "receipt" /\ receipts[loc[p].tx] \in {None, Claim(p)}
  /\ receipts' = [receipts EXCEPT ![loc[p].tx] = Claim(p)] /\ Goto(p, "answer") /\ NoFault
  /\ UNCHANGED <<row, linked, ledger, lock, mined, answered>>
StoreReceiptOnce(p) ==
  /\ pc[p] = "receipt"
  /\ \/ receipts[loc[p].tx] # None /\ UNCHANGED receipts /\ End(p) /\ NoFault
     \/ /\ receipts[loc[p].tx] = None /\ receipts' = [receipts EXCEPT ![loc[p].tx] = Claim(p)]
        /\ ((Goto(p, "record") /\ NoFault) \/ (End(p) /\ Fault))
  /\ UNCHANGED <<row, linked, ledger, lock, mined, answered>>

\* createAndStoreSpendReceipt: the stored receipt of the hash must be this
\* claim's; there is one per hash.
StoreReceipt(p) ==
  LET t == loc[p].tx
      stored == IF receipts[t] = None THEN [receipts EXCEPT ![t] = Claim(p)] ELSE receipts
  IN
  /\ pc[p] = "receipt"
  /\ \/ receipts' = stored /\ stored[t] = Claim(p) /\ Goto(p, "record") /\ NoFault
     \/ receipts' = stored /\ stored[t] # Claim(p) /\ End(p) /\ NoFault
     \/ receipts' \in {receipts, stored} /\ End(p) /\ Fault
  /\ UNCHANGED <<row, linked, ledger, lock, mined, answered>>

\* recordSpend under the uid's lock; a refusal or a failure leaves the receipt
\* for an exact retry.
RecordClaim(p) ==
  /\ loc[p] # None => loc[p].tx \in Transfers
  /\ CommitRecord(p, "answer", "idle") /\ UNCHANGED custodialVars

AnswerRecorded(p) ==
  /\ pc[p] = "answer" /\ Answer(p) /\ End(p)
  /\ UNCHANGED <<row, linked, ledger, lock, faults, mined, receipts>>

\* An award is resolved, sent and recorded by its own executor.
RecordAward(p) ==
  /\ loc[p] # None => loc[p].tx \notin Transfers
  /\ CommitRecord(p, "idle", "idle") /\ UNCHANGED custodialVars
-----------------------------------------------------------------------------
Init ==
  /\ SelectionInit
  /\ mined = {} /\ receipts = [t \in Transfers |-> None] /\ answered = {}

ClaimStep(p) ==
  \/ VerifyClaim(p) \/ LookupSpend(p) \/ AnswerDuplicate(p) \/ StoreReceipt(p)
  \/ RecordClaim(p) \/ AnswerRecorded(p) \/ RecordAward(p)

Selecting(p) == (Select(p) \/ \E u \in Uids : Serve(p, u)) /\ UNCHANGED custodialVars

Next ==
  \/ \E p \in Procs : Selecting(p) \/ ClaimStep(p)
  \/ \E p \in Procs, u \in Uids, t \in Txs \ Transfers : ResolveActive(p, u, t) /\ UNCHANGED custodialVars
  \/ \E p \in Procs, u \in Uids, a \in Externals, t \in Transfers, s \in Sessions :
       StartClaim(p, u, a, t, s)
  \/ \E t \in Transfers : Send(t)
  \/ \E p \in Procs : Crash(p) /\ UNCHANGED custodialVars

Spec == Init /\ [][Next]_vars

\* A request that was accepted is carried on, and the owner of a transfer
\* whose receipt is stored repeats the exact request, as the answer asks.
Retry(p) == \E t \in Transfers :
  /\ receipts[t] # None
  /\ StartClaim(p, receipts[t].uid, receipts[t].wallet, t, receipts[t].session)
FairSpec ==
  /\ Spec
  /\ \A p \in Procs : WF_vars(Select(p) /\ UNCHANGED custodialVars) /\ WF_vars(ClaimStep(p))
                      /\ SF_vars(Retry(p))
-----------------------------------------------------------------------------
TypeOK ==
  /\ row \in [Uids -> [Addresses -> {"absent", "inactive", "active"}]]
  /\ linked \in [Uids -> SUBSET Externals]
  /\ ledger \subseteq Entry
  /\ lock \in [Uids -> Procs \cup {None}]
  /\ faults \in 0..MaxFaults
  /\ mined \subseteq Transfers
  /\ receipts \in [Transfers -> Entry \cup {None}]
  /\ answered \subseteq Entry
  /\ \A p \in Procs :
       /\ pc[p] = "idle" <=> loc[p] = None
       /\ pc[p] \in {"unlink", "insert"} <=> \E u \in Uids : lock[u] = p
       /\ pc[p] \in {"unlink", "insert"} => lock[loc[p].uid] = p
       /\ pc[p] \in {"evidence", "lookup", "duplicate", "receipt", "answer"} => loc[p].tx \in Transfers

\* A uid that has rows has exactly one selected wallet, whatever was linked,
\* named, selected or removed, and in whichever order the requests finished.
OneSelection == \A u \in Uids : Rows(u) # {} => Cardinality(Active(u)) = 1

\* Recorded awards and spends are never lost: no request deletes the users row
\* they hang on, not even one recorded while an unlink was being decided
\* (hasActivityInTransaction).
LedgerKept == [][ledger \subseteq ledger']_vars

\* p's request ends in this step and it was about u's selection: a mode
\* request selects the wallet it named, an unlink of the selection itself
\* passes it to the managed wallet.
Chooses(p, u) ==
  /\ pc[p] \in {"activate", "unlink"} /\ pc'[p] = "idle" /\ loc[p].uid = u
  /\ \/ pc[p] = "activate" /\ Active(u)' = {loc[p].wallet}
     \/ pc[p] = "unlink" /\ Active(u) = {loc[p].wallet} /\ Active(u)' = {ManagedOf[u]}

\* Once a uid has a row, nothing selects or deselects a wallet of it but these
\* two: a late link, naming, contract id, recording or unlink of another
\* wallet does neither, and nor does a crash. A mode request counts whenever
\* it began, so one that began before the unlink of the wallet it names still
\* brings that wallet back.
SelectionByRequest ==
  [][\A u \in Uids :
       Active(u)' # Active(u) => Rows(u) = {} \/ \E p \in Procs : Chooses(p, u)]_vars

\* A recorded custodial spend was really paid by its wallet, has its signed
\* receipt for the same uid, wallet and context, and is recorded once.
RecordedIsPaid ==
  \A e \in ledger : e.tx \in Transfers =>
    /\ e.tx \in mined /\ e.wallet = SenderOf[e.tx] /\ receipts[e.tx] = e
    /\ \A f \in ledger : f.tx = e.tx => f = e

\* A claim answered with success stays recorded, with its receipt, for the uid
\* that was told so.
AnsweredIsRecorded == \A e \in answered : e \in ledger /\ receipts[e.tx] = e

\* A transfer with a stored receipt is eventually recorded by the retries of
\* its owner, unless the owner unlinks the wallet meanwhile.
ReceiptIsEventuallyRecorded ==
  \A t \in Transfers :
    receipts[t] # None ~>
      \/ Recorded(t)
      \/ receipts[t] # None /\ receipts[t].wallet \notin linked[receipts[t].uid]

\* What the ledger and the answers say of custodial transfers is true.
ClaimsAreTrue == TypeOK /\ RecordedIsPaid /\ AnsweredIsRecorded

\* A recorded movement is lost to no request, and a wallet is selected or
\* deselected by no request other than its owner's mode request or unlink.
ChoicesLast == LedgerKept /\ SelectionByRequest
=============================================================================
