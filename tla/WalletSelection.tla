--------------------------- MODULE WalletSelection ---------------------------
(***************************************************************************)
(* Which wallet a contract id (uid) uses: the users table with one row per *)
(* uid and wallet, one of them active, the linked_wallet_links table and   *)
(* the ledger of awards and spends whose rows hang on a users row. The     *)
(* in-memory registry of a server is written on every read and decides     *)
(* nothing: all callers of recordAward name the wallet.                    *)
(*                                                                         *)
(* Every transaction on users takes the uid's advisory lock. The two that  *)
(* read before they write (unlink, record) are two steps each, so that the *)
(* lock is what keeps them apart; the others are one step.                 *)
(***************************************************************************)
EXTENDS Integers, FiniteSets, FiniteSetsExt

CONSTANTS
  Uids,        \* contract ids
  Externals,   \* addresses of wallets the service does not hold keys of
  ManagedOf,   \* the managed address derived from a uid
  Txs,         \* transaction hashes
  Sessions,    \* charging sessions, None for a request without one
  Procs,       \* requests in progress
  None,
  MaxLinked,   \* MAX_LINKED_WALLETS_PER_UID
  MaxFaults    \* failed statements and lost answers

Addresses == Externals \cup {ManagedOf[u] : u \in Uids}

ASSUME ManagedAssumption ==
  /\ ManagedOf \in [Uids -> Addresses]
  /\ \A u, v \in Uids : ManagedOf[u] \notin Externals /\ (ManagedOf[u] = ManagedOf[v] => u = v)
ASSUME SizesAssumption == MaxLinked \in Nat /\ MaxFaults \in Nat
ASSUME NoneAssumption == None \notin Addresses \cup Uids \cup Procs \cup Txs

VARIABLES
  row,       \* row[u][a]: the users row of uid u and wallet a
  linked,    \* linked[u]: the wallets linked to u
  ledger,    \* awards and spends, each with the users row it hangs on
  lock,      \* lock[u]: the request whose transaction holds u's lock
  faults,    \* faults that may still happen
  pc, loc    \* where each request is, and what it has read

selectionVars == <<row, linked, ledger, lock, faults, pc, loc>>

\* A movement recorded for the row (uid, wallet). An award has no session here.
Entry == [uid: Uids, wallet: Addresses, tx: Txs, session: Sessions]

\* What a request remembers between its steps.
Memories == [uid: Uids, wallet: Addresses, tx: Txs \cup {None}, session: Sessions, seen: BOOLEAN]

Memory(u, a) == [uid |-> u, wallet |-> a, tx |-> None, session |-> None, seen |-> FALSE]

ASSUME RequestsAssumption == None \in Sessions /\ None \notin Entry \cup Memories

Goto(p, point) == pc' = [pc EXCEPT ![p] = point] /\ UNCHANGED loc
GotoWith(p, point, m) == pc' = [pc EXCEPT ![p] = point] /\ loc' = [loc EXCEPT ![p] = m]
End(p) == GotoWith(p, "idle", None)
NoFault == UNCHANGED faults
Fault == faults > 0 /\ faults' = faults - 1
-----------------------------------------------------------------------------
(* The users table.                                                        *)

Rows(u) == {a \in Addresses : row[u][a] # "absent"}
Active(u) == {a \in Addresses : row[u][a] = "active"}

\* The selected wallet of a registered uid, else its managed wallet.
SelectedWallet(u) == IF Active(u) # {} THEN CHOOSE a \in Active(u) : TRUE ELSE ManagedOf[u]

\* users_uid_active_unique: a transaction that breaks it is rolled back.
Commits(new) == \A u \in Uids : Cardinality({a \in Addresses : new[u][a] = "active"}) <= 1

\* Mutant: the row created last is the selected one.
CreatedActive(u, a) ==
  IF a \in Rows(u) THEN row
  ELSE [row EXCEPT ![u] = [b \in Addresses |->
          IF b = a THEN "active" ELSE IF row[u][b] = "active" THEN "inactive" ELSE row[u][b]]]

\* create: the first row of a uid is active, the others are not. An existing
\* row is left as it is.
Created(u, a) ==
  IF a \in Rows(u) THEN row
  ELSE [row EXCEPT ![u][a] = IF Rows(u) = {} THEN "active" ELSE "inactive"]

Deactivated(u) == [a \in Addresses |-> IF row[u][a] = "active" THEN "inactive" ELSE row[u][a]]

\* activateWallet: the wallet is selected, linked or not, and every other one
\* is deselected.
Activated(u, a) == [row EXCEPT ![u] = [Deactivated(u) EXCEPT ![a] = "active"]]

\* Mutant: nothing replaces a removed selection.
RemovedOnly(u, a, hasActivity) ==
  [row EXCEPT ![u][a] = IF hasActivity THEN "inactive" ELSE "absent"]

\* unlinkLinkedWallet on the row of a: kept when it has activity, else
\* deleted; a removed selection is replaced by the managed wallet.
Removed(u, a, hasActivity) ==
  LET kept == [Deactivated(u) EXCEPT ![a] = IF hasActivity THEN "inactive" ELSE "absent"]
  IN  [row EXCEPT ![u] =
         IF row[u][a] = "active" THEN [kept EXCEPT ![ManagedOf[u]] = "active"]
         ELSE [row[u] EXCEPT ![a] = IF hasActivity THEN @ ELSE "absent"]]

\* Deleting a users row deletes its awards, spends and balance (CASCADE).
Cascaded(new) == {e \in ledger : new[e.uid][e.wallet] # "absent"}

\* A transaction on u's rows that needs no earlier read.
Transact(p, u, new) ==
  /\ lock[u] = None /\ End(p)
  /\ \/ row' = (IF Commits(new) THEN new ELSE row) /\ NoFault
     \/ UNCHANGED row /\ Fault
-----------------------------------------------------------------------------
(* Wallet mode.                                                            *)

\* POST /wallet/:uid/mode: the current configuration is read, and unless the
\* caller allows a split the source wallet must be empty (or the request
\* ends). Custodial mode takes any address.
ReadMode(p, u, a) ==
  /\ pc[p] = "idle"
  /\ GotoWith(p, "activate", Memory(u, a)) \/ UNCHANGED <<pc, loc>>
  /\ UNCHANGED <<row, linked, ledger, lock, faults>>

\* setUserWalletMode.
Activate(p) ==
  LET u == loc[p].uid  a == loc[p].wallet IN
  /\ pc[p] = "activate"
  /\ Transact(p, u, Activated(u, a))
  /\ UNCHANGED <<linked, ledger, lock>>
-----------------------------------------------------------------------------
(* Naming, contract ids and links.                                         *)

\* PATCH /wallet/:uid/profile and POST /wallet/:uid/contract-ids, first part:
\* the address is the one given or u's selected one; the row is created for
\* u itself, or for the contract id v that is added.
ReadProfile(p, u, v, given) ==
  /\ pc[p] = "idle"
  /\ GotoWith(p, "create", Memory(v, IF given = None THEN SelectedWallet(u) ELSE given))
  /\ UNCHANGED <<row, linked, ledger, lock, faults>>

\* PATCH /wallet/:uid/linked-wallets/:walletAddress/profile, first part: a
\* wallet that is not linked is answered 404.
NameLinked(p, u, a) ==
  /\ pc[p] = "idle" /\ a \in linked[u]
  /\ GotoWith(p, "create", Memory(u, a))
  /\ UNCHANGED <<row, linked, ledger, lock, faults>>

\* linkContractId. The names and the answer's payload change no selection.
Create(p) ==
  LET u == loc[p].uid  a == loc[p].wallet IN
  /\ pc[p] = "create"
  /\ Transact(p, u, Created(u, a))
  /\ UNCHANGED <<linked, ledger, lock>>

\* A new link is refused when another uid has the address or the uid has its
\* maximum of links.
Linkable(u, a) ==
  a \notin linked[u] =>
    /\ \A v \in Uids : a \notin linked[v]
    /\ Cardinality(linked[u]) < MaxLinked

\* POST /wallet/:uid/linked-wallets, signed by the wallet: linkLinkedWallet
\* adds the link and the row in one transaction.
Link(p, u, a) ==
  /\ pc[p] = "idle" /\ lock[u] = None /\ Linkable(u, a)
  /\ row' = Created(u, a) /\ linked' = [linked EXCEPT ![u] = @ \cup {a}]
  /\ UNCHANGED <<ledger, lock, faults, pc, loc>>

-----------------------------------------------------------------------------
(* Unlinking.                                                              *)

HasActivity(u, a) == \E e \in ledger : e.uid = u /\ e.wallet = a

\* DELETE /wallet/:uid/linked-wallets/:walletAddress, signed by the wallet.
\* A row that is neither linked nor an active external selection is left
\* alone. The lock is held until the transaction ends.
BeginUnlink(p, u, a) ==
  /\ pc[p] = "idle" /\ lock[u] = None
  /\ a \in Rows(u) /\ (a \in linked[u] \/ (a \in Active(u) /\ a # ManagedOf[u]))
  /\ lock' = [lock EXCEPT ![u] = p]
  /\ GotoWith(p, "unlink", [Memory(u, a) EXCEPT !.seen = HasActivity(u, a)])
  /\ UNCHANGED <<row, linked, ledger, faults>>

CommitUnlink(p) ==
  LET u == loc[p].uid  a == loc[p].wallet  new == Removed(u, a, loc[p].seen) IN
  /\ pc[p] = "unlink"
  /\ lock' = [lock EXCEPT ![u] = None]
  /\ End(p)
  /\ \/ /\ row' = new /\ ledger' = Cascaded(new)
        /\ linked' = [linked EXCEPT ![u] = @ \ {a}] /\ NoFault
     \/ UNCHANGED <<row, ledger, linked>> /\ Fault
-----------------------------------------------------------------------------
(* Recording a movement for the wallet it was sent to or from.             *)

\* resolveActiveUidAddress: the database decides, never the registry.
ResolveActive(p, u, t) ==
  /\ pc[p] = "idle" /\ \A e \in ledger : e.tx # t
  /\ GotoWith(p, "record", [Memory(u, SelectedWallet(u)) EXCEPT !.tx = t])
  /\ UNCHANGED <<row, linked, ledger, lock, faults>>

Recording(p) ==
  [uid |-> loc[p].uid, wallet |-> loc[p].wallet, tx |-> loc[p].tx, session |-> loc[p].session]

\* Mutant: a recording does not wait for the lock.
LockIgnored(u) == TRUE

LockFree(u) == lock[u] = None

\* recordAward and recordSpend take the uid's lock, then look for the hash
\* and for the users row.
BeginRecord(p) ==
  LET u == loc[p].uid IN
  /\ pc[p] = "record" /\ LockFree(u)
  /\ lock' = [lock EXCEPT ![u] = p]
  /\ GotoWith(p, "insert", [loc[p] EXCEPT !.seen = loc[p].wallet \in Rows(u)])
  /\ UNCHANGED <<row, linked, ledger, faults>>

\* The hash is already recorded, for this or for another intent.
Recorded(t) == \E e \in ledger : e.tx = t

\* The insert fails when the row it hangs on has gone.
CanInsert(p) == loc[p].seen => loc[p].wallet \in Rows(loc[p].uid)

Inserted(p) ==
  /\ row' = Created(loc[p].uid, loc[p].wallet)
  /\ ledger' = IF Recorded(loc[p].tx) THEN ledger ELSE ledger \cup {Recording(p)}

Unlock(p) == lock' = [u \in Uids |-> IF lock[u] = p THEN None ELSE lock[u]]

\* What recording leads to: ok after a commit, failed after a refusal or a
\* fault.
CommitRecord(p, ok, failed) ==
  LET refused == ~CanInsert(p) \/ (Recorded(loc[p].tx) /\ Recording(p) \notin ledger) IN
  /\ pc[p] = "insert" /\ Unlock(p)
  /\ \/ ~refused /\ Inserted(p) /\ GotoWith(p, ok, IF ok = "idle" THEN None ELSE loc[p]) /\ NoFault
     \/ refused /\ UNCHANGED <<row, ledger>> /\ GotoWith(p, failed, None) /\ NoFault
     \/ ~refused /\ Inserted(p) /\ GotoWith(p, failed, None) /\ Fault
     \/ UNCHANGED <<row, ledger>> /\ GotoWith(p, failed, None) /\ Fault
  /\ UNCHANGED linked
-----------------------------------------------------------------------------
\* The server dies: the request is gone, and a transaction it had open is
\* rolled back.
Crash(p) ==
  /\ pc[p] # "idle" /\ Fault /\ End(p) /\ Unlock(p)
  /\ UNCHANGED <<row, linked, ledger>>

SelectionInit ==
  /\ row = [u \in Uids |-> [a \in Addresses |-> "absent"]]
  /\ linked = [u \in Uids |-> {}]
  /\ ledger = {}
  /\ lock = [u \in Uids |-> None]
  /\ faults = MaxFaults
  /\ pc = [p \in Procs |-> "idle"] /\ loc = [p \in Procs |-> None]

Select(p) == Activate(p) \/ Create(p) \/ CommitUnlink(p) \/ BeginRecord(p)

Serve(p, u) ==
  \/ \E a \in Externals \cup {ManagedOf[u]} : ReadMode(p, u, a)
  \/ \E v \in Uids, a \in Externals \cup {None} : ReadProfile(p, u, v, a)
  \/ \E a \in Externals : NameLinked(p, u, a) \/ Link(p, u, a) \/ BeginUnlink(p, u, a)
=============================================================================
