----------------------- MODULE CustodialSpendsProofs -----------------------
(***************************************************************************)
(* Wallet selection and custodial spends: the selection is always one row, *)
(* what the ledger and the answers say of custodial transfers is true, and *)
(* only a mode request or an unlink changes a choice that was made.        *)
(*                                                                         *)
(* Every step is one request's (or the chain's), so the invariant has a    *)
(* part about the tables and a part about each request. A step is shown to *)
(* keep the tables and its own request's part, and to leave alone whatever *)
(* the others rely on (StepOf): that is enough for theirs.                 *)
(***************************************************************************)
EXTENDS CustodialSpends, FiniteSetTheorems, TLAPS

Holding == {"unlink", "insert"}
Claiming == {"evidence", "lookup", "duplicate", "receipt", "answer"}
Verified == {"lookup", "duplicate", "receipt", "record", "insert", "answer"}
Points == {"idle", "activate", "create", "record"} \cup Holding \cup Claiming
-----------------------------------------------------------------------------
(* The tables.                                                             *)

TablesTyped ==
  /\ row \in [Uids -> [Addresses -> {"absent", "inactive", "active"}]]
  /\ linked \in [Uids -> SUBSET Externals]
  /\ ledger \subseteq Entry
  /\ lock \in [Uids -> Procs \cup {None}]
  /\ faults \in 0..MaxFaults
  /\ mined \subseteq Transfers
  /\ receipts \in [Transfers -> Entry \cup {None}]
  /\ answered \subseteq Entry
  /\ pc \in [Procs -> Points]
  /\ loc \in [Procs -> Memories \cup {None}]

\* OneSelection without a cardinality.
Selected == \A u \in Uids : Rows(u) = {} \/ \E a \in Addresses : Active(u) = {a}

\* A recorded movement hangs on a users row that exists.
HangsOnRow == \A e \in ledger : row[e.uid][e.wallet] # "absent"

\* A recorded custodial spend was mined from its wallet and has its receipt.
RecordedHasReceipt ==
  \A e \in ledger : e.tx \in Transfers => Proven(e.tx, e.wallet) /\ receipts[e.tx] = e

Tables ==
  TablesTyped /\ Selected /\ HangsOnRow /\ RecordedHasReceipt /\ answered \subseteq ledger
  /\ \A e \in answered : e.tx \in Transfers
-----------------------------------------------------------------------------
(* A request.                                                              *)

Request(p) ==
  /\ pc[p] = "idle" <=> loc[p] = None
  /\ \A u \in Uids : lock[u] = p <=> pc[p] \in Holding /\ loc[p].uid = u
  /\ pc[p] = "unlink" => (loc[p].seen <=> HasActivity(loc[p].uid, loc[p].wallet))
  /\ pc[p] \in {"record", "insert"} => loc[p].tx \in Txs
  /\ pc[p] \in Claiming => loc[p].tx \in Transfers
  /\ pc[p] \in Verified /\ loc[p].tx \in Transfers => Proven(loc[p].tx, loc[p].wallet)
  /\ pc[p] \in {"record", "insert", "answer"} /\ loc[p].tx \in Transfers =>
       receipts[loc[p].tx] = Claim(p)
  /\ pc[p] \in {"duplicate", "answer"} => Claim(p) \in ledger

CInv == Tables /\ \A p \in Procs : Request(p)
-----------------------------------------------------------------------------
(* What a step may do.                                                     *)

\* Nothing recorded, mined or receipted is taken back.
Grow ==
  /\ ledger \subseteq ledger' /\ mined \subseteq mined'
  /\ \A t \in Transfers : receipts[t] # None => receipts'[t] = receipts[t]

\* A choice that was made changes by a mode request or an unlink.
Chosen ==
  \A u \in Uids :
    Active(u)' # Active(u) => Rows(u) = {} \/ \E p \in Procs : Chooses(p, u)

\* The step is p's: other requests keep their place and their locks, and a
\* movement is recorded under p's lock on its uid.
StepOf(p) ==
  /\ \A q \in Procs : q # p => pc'[q] = pc[q] /\ loc'[q] = loc[q]
  /\ \A u \in Uids, q \in Procs : q # p => (lock'[u] = q <=> lock[u] = q)
  /\ \A e \in ledger' : e \in ledger \/ lock[e.uid] = p

Moves(p) == Grow /\ Chosen /\ StepOf(p) /\ Tables' /\ Request(p)'

\* Whatever a request relies on, the steps of the others leave alone.
LEMMA OthersRely ==
  ASSUME CInv, NEW p \in Procs, NEW q \in Procs, q # p, Grow, StepOf(p)
  PROVE  Request(q)'
<1>0. None \notin Procs /\ None \notin Memories /\ None \notin Entry
  BY NoneAssumption, RequestsAssumption
<1>1. pc'[q] = pc[q] /\ loc'[q] = loc[q] /\ pc[q] \in Points
  BY DEF StepOf, CInv, Tables, TablesTyped
<1>2. \A u \in Uids : lock'[u] = q <=> lock[u] = q
  BY DEF StepOf
<1>3. ASSUME loc[q] # None
      PROVE  loc[q] \in Memories /\ loc[q].uid \in Uids
  BY <1>3 DEF CInv, Tables, TablesTyped, Memories
<1>4. ASSUME pc[q] # "idle"
      PROVE  loc[q].uid \in Uids
  BY <1>3, <1>4 DEF CInv, Request
<1>5. ASSUME pc[q] = "unlink"
      PROVE  loc[q].seen <=> HasActivity(loc[q].uid, loc[q].wallet)'
  <2>1. lock[loc[q].uid] = q
    BY <1>4, <1>5 DEF CInv, Request, Holding
  <2>2. \A e : e.uid = loc[q].uid => (e \in ledger' <=> e \in ledger)
    BY <2>1 DEF StepOf, Grow
  <2>3. loc[q].seen <=> HasActivity(loc[q].uid, loc[q].wallet)
    BY <1>5 DEF CInv, Request
  <2> QED
    BY <1>1, <2>2, <2>3 DEF HasActivity
<1>6. Claim(q)' = Claim(q)
  BY <1>1 DEF Claim, Recording
<1>7. ASSUME pc[q] \in {"record", "insert", "answer"}, loc[q].tx \in Transfers
      PROVE  receipts'[loc[q].tx] = Claim(q)
  <2>1. receipts[loc[q].tx] = Claim(q)
    BY <1>7 DEF CInv, Request
  <2>2. receipts[loc[q].tx] # None
    <3>1. loc[q] # None
      BY <1>7 DEF CInv, Request
    <3>2. loc[q] \in Memories /\ loc[q].tx \in Txs
      BY <1>3, <1>7, <3>1, TransfersAssumption
    <3>3. Claim(q) \in Entry
      BY <3>2 DEF Claim, Recording, Entry, Memories
    <3> QED
      BY <1>0, <2>1, <3>3
  <2> QED
    BY <1>7, <2>1, <2>2 DEF Grow
<1>8. \A t, a : Proven(t, a) => Proven(t, a)'
  BY DEF Proven, Grow
<1>9. Request(q)
  BY DEF CInv
<1> QED
  BY <1>1, <1>2, <1>5, <1>6, <1>7, <1>8, <1>9 DEF Request, Grow

\* So a request's step keeps the invariant.
LEMMA MovesGoOn ==
  ASSUME CInv, NEW p \in Procs, Moves(p)
  PROVE  CInv'
BY OthersRely DEF CInv, Moves
-----------------------------------------------------------------------------
(* The users table.                                                        *)

RowsTyped == row \in [Uids -> [Addresses -> {"absent", "inactive", "active"}]]

\* Rows stay, but for those named.
RowsStay == \A v \in Uids, b \in Addresses : row[v][b] # "absent" => row'[v][b] # "absent"

\* Selections are kept by any step that leaves other uids alone and leaves u
\* with one active row, or changes no active row and adds none to an empty uid.
LEMMA SelectedByUid ==
  ASSUME Selected, NEW u \in Uids,
         \A v \in Uids : v # u => row'[v] = row[v],
         Rows(u)' = {} \/ \E a \in Addresses : Active(u)' = {a}
  PROVE  Selected'
<1> SUFFICES ASSUME NEW v \in Uids, v # u
             PROVE  Rows(v)' = {} \/ \E a \in Addresses : Active(v)' = {a}
  BY DEF Selected
<1>1. Rows(v)' = Rows(v) /\ Active(v)' = Active(v)
  BY DEF Rows, Active
<1> QED
  BY <1>1 DEF Selected

\* create: the row is there and only a first one is selected.
LEMMA CreatedSelects ==
  ASSUME RowsTyped, Selected, NEW u \in Uids, NEW a \in Addresses, row' = Created(u, a)
  PROVE  RowsTyped' /\ Selected' /\ RowsStay /\ row'[u][a] # "absent" /\ Chosen
<1>1. CASE a \in Rows(u)
  <2>1. row' = row
    BY <1>1 DEF Created
  <2> QED
    BY <1>1, <2>1 DEF RowsTyped, Selected, Rows, Active, RowsStay, Chosen
<1>2. CASE a \notin Rows(u) /\ Rows(u) = {}
  <2>1. row' = [row EXCEPT ![u][a] = "active"]
    BY <1>2 DEF Created
  <2>2. \A b \in Addresses : row[u][b] = "absent"
    BY <1>2 DEF Rows
  <2>3. /\ row'[u][a] = "active"
        /\ \A b \in Addresses : b # a => row'[u][b] = "absent"
        /\ \A v \in Uids : v # u => row'[v] = row[v]
    BY <2>1, <2>2 DEF RowsTyped
  <2>4. Active(u)' = {a}
    BY <2>3 DEF Active
  <2>5. Selected'
    BY <2>3, <2>4, SelectedByUid
  <2>6. RowsTyped'
    BY <2>1 DEF RowsTyped
  <2>7. RowsStay
    BY <2>2, <2>3 DEF RowsStay
  <2>8. Chosen
    BY <1>2, <2>3 DEF Chosen, Active
  <2> QED
    BY <2>3, <2>5, <2>6, <2>7, <2>8
<1>3. CASE a \notin Rows(u) /\ Rows(u) # {}
  <2>1. row' = [row EXCEPT ![u][a] = "inactive"]
    BY <1>3 DEF Created
  <2>2. /\ row'[u][a] = "inactive" /\ row[u][a] = "absent"
        /\ \A b \in Addresses : b # a => row'[u][b] = row[u][b]
        /\ \A v \in Uids : v # u => row'[v] = row[v]
    BY <1>3, <2>1 DEF RowsTyped, Rows
  <2>3. Active(u)' = Active(u)
    BY <2>2 DEF Active
  <2>4. Selected'
    BY <1>3, <2>2, <2>3, SelectedByUid DEF Selected
  <2>5. RowsTyped'
    BY <2>1 DEF RowsTyped
  <2>6. RowsStay
    BY <2>2 DEF RowsStay
  <2>7. Chosen
    BY <2>2, <2>3 DEF Chosen, Active
  <2> QED
    BY <2>2, <2>4, <2>5, <2>6, <2>7
<1> QED
  BY <1>1, <1>2, <1>3

\* activateWallet: the wallet that the request named, and no other.
LEMMA ActivatedSelects ==
  ASSUME RowsTyped, Selected, NEW u \in Uids, NEW a \in Addresses, row' = Activated(u, a)
  PROVE  /\ RowsTyped' /\ Selected' /\ RowsStay /\ Active(u)' = {a}
         /\ \A v \in Uids : v # u => Active(v)' = Active(v)
<1>1. row' = [row EXCEPT ![u] = [Deactivated(u) EXCEPT ![a] = "active"]]
  BY DEF Activated
<1>2. Deactivated(u) \in [Addresses -> {"absent", "inactive", "active"}]
  BY DEF Deactivated, RowsTyped
<1>3. /\ row'[u][a] = "active"
      /\ \A b \in Addresses : b # a => row'[u][b] = Deactivated(u)[b]
      /\ \A v \in Uids : v # u => row'[v] = row[v]
  BY <1>1, <1>2 DEF RowsTyped
<1>4. \A b \in Addresses :
        Deactivated(u)[b] # "active" /\ (Deactivated(u)[b] = "absent" <=> row[u][b] = "absent")
  BY DEF Deactivated, RowsTyped
<1>5. Active(u)' = {a}
  BY <1>3, <1>4 DEF Active
<1>6. Selected'
  BY <1>3, <1>5, SelectedByUid
<1>7. RowsTyped'
  BY <1>1, <1>2 DEF RowsTyped
<1>8. RowsStay
  BY <1>3, <1>4 DEF RowsStay
<1>9. \A v \in Uids : v # u => Active(v)' = Active(v)
  BY <1>3 DEF Active
<1> QED
  BY <1>5, <1>6, <1>7, <1>8, <1>9

\* unlink: only the row of the wallet may go, and only without activity; a
\* removed selection passes to the managed wallet.
LEMMA RemovedSelects ==
  ASSUME RowsTyped, Selected, NEW u \in Uids, NEW a \in Addresses, NEW seen \in BOOLEAN,
         row' = Removed(u, a, seen)
  PROVE  /\ RowsTyped' /\ Selected'
         /\ \A v \in Uids : v # u => Active(v)' = Active(v)
         /\ Active(u)' # Active(u) => Active(u) = {a} /\ Active(u)' = {ManagedOf[u]}
         /\ \A v \in Uids, b \in Addresses :
              row[v][b] # "absent" /\ row'[v][b] = "absent" => v = u /\ b = a /\ ~seen
<1> DEFINE m == ManagedOf[u]
           left == IF seen THEN "inactive" ELSE "absent"
           kept == [Deactivated(u) EXCEPT ![a] = left]
<1>1. m \in Addresses /\ m \notin Externals
  BY ManagedAssumption
<1>2. /\ Deactivated(u) \in [Addresses -> {"absent", "inactive", "active"}]
      /\ \A b \in Addresses :
           Deactivated(u)[b] # "active" /\ (Deactivated(u)[b] = "absent" <=> row[u][b] = "absent")
  BY DEF Deactivated, RowsTyped
<1>3. CASE row[u][a] = "active"
  <2>1. row' = [row EXCEPT ![u] = [kept EXCEPT ![m] = "active"]]
    BY <1>3 DEF Removed
  <2>2. /\ kept \in [Addresses -> {"absent", "inactive", "active"}] /\ kept[a] = left
        /\ \A b \in Addresses : b # a => kept[b] = Deactivated(u)[b]
    BY <1>2
  <2>3. /\ row'[u][m] = "active"
        /\ \A b \in Addresses : b # m => row'[u][b] = kept[b]
        /\ \A v \in Uids : v # u => row'[v] = row[v]
    <3> HIDE DEF m, kept
    <3> QED
      BY <1>1, <2>1, <2>2 DEF RowsTyped
  <2>4. Active(u)' = {m}
    BY <1>1, <1>2, <2>2, <2>3 DEF Active
  <2>5. Selected'
    BY <1>1, <2>3, <2>4, SelectedByUid
  <2>6. RowsTyped'
    <3> HIDE DEF m, kept
    <3> QED
      BY <1>1, <2>1, <2>2 DEF RowsTyped
  <2>7. /\ \A v \in Uids : v # u => Active(v)' = Active(v)
        /\ Active(u) = {a}
    BY <1>3, <2>3 DEF Active, Selected, Rows
  <2>8. ASSUME NEW v \in Uids, NEW b \in Addresses, row[v][b] # "absent", row'[v][b] = "absent"
        PROVE  v = u /\ b = a /\ ~seen
    <3>1. v = u /\ b # m /\ kept[b] = "absent"
      BY <2>3, <2>8
    <3>2. b = a
      BY <1>2, <2>2, <2>8, <3>1
    <3> QED
      BY <2>2, <3>1, <3>2
  <2> QED
    BY <2>4, <2>5, <2>6, <2>7, <2>8
<1>4. CASE row[u][a] # "active"
  <2>1. row' = [row EXCEPT ![u] = [row[u] EXCEPT ![a] = IF seen THEN @ ELSE "absent"]]
    BY <1>4 DEF Removed
  <2>2. /\ row'[u][a] = (IF seen THEN row[u][a] ELSE "absent")
        /\ \A b \in Addresses : b # a => row'[u][b] = row[u][b]
        /\ \A v \in Uids : v # u => row'[v] = row[v]
    BY <2>1 DEF RowsTyped
  <2>3. Active(u)' = Active(u) /\ Rows(u)' \subseteq Rows(u)
    BY <1>4, <2>2 DEF Active, Rows
  <2>4. Rows(u)' = {} \/ \E b \in Addresses : Active(u)' = {b}
    BY <2>3 DEF Selected
  <2>5. Selected'
    BY <2>2, <2>4, SelectedByUid
  <2>6. RowsTyped'
    BY <2>1 DEF RowsTyped
  <2>7. \A v \in Uids : v # u => Active(v)' = Active(v)
    BY <2>2 DEF Active
  <2>8. ASSUME NEW v \in Uids, NEW b \in Addresses, row[v][b] # "absent", row'[v][b] = "absent"
        PROVE  v = u /\ b = a /\ ~seen
    BY <2>2, <2>8
  <2> QED
    BY <2>3, <2>5, <2>6, <2>7, <2>8
<1> QED
  BY <1>3, <1>4
-----------------------------------------------------------------------------
(* Requests that only read.                                                *)

\* What is claimed by a request that remembers m.
ClaimIn(m) == [uid |-> m.uid, wallet |-> m.wallet, tx |-> m.tx, session |-> m.session]

\* The facts a request needs to be at a point outside a transaction.
Entitled(point, m) ==
  /\ point = "idle" <=> m = None
  /\ point = "record" => m.tx \in Txs
  /\ point \in Claiming => m.tx \in Transfers
  /\ point \in Verified /\ m.tx \in Transfers => Proven(m.tx, m.wallet)
  /\ point \in {"record", "answer"} /\ m.tx \in Transfers => receipts[m.tx] = ClaimIn(m)
  /\ point \in {"duplicate", "answer"} => ClaimIn(m) \in ledger

\* At most one fault less.
LEMMA FaultsTyped ==
  ASSUME TablesTyped, Fault \/ NoFault
  PROVE  faults' \in 0..MaxFaults
BY SizesAssumption DEF TablesTyped, Fault, NoFault

\* A step outside a transaction that only moves its request on.
LEMMA PlaceMoves ==
  ASSUME CInv, NEW p \in Procs, NEW point \in Points \ Holding, NEW m \in Memories \cup {None},
         pc[p] \notin Holding, Fault \/ NoFault,
         UNCHANGED <<row, linked, ledger, lock, custodialVars>>,
         pc' = [pc EXCEPT ![p] = point], loc' = [loc EXCEPT ![p] = m],
         Entitled(point, m)
  PROVE  Moves(p)
<1>1. /\ UNCHANGED <<row, linked, ledger, lock, mined, receipts, answered>>
      /\ pc'[p] = point /\ loc'[p] = m
      /\ \A q \in Procs : q # p => pc'[q] = pc[q] /\ loc'[q] = loc[q]
      /\ pc' \in [Procs -> Points] /\ loc' \in [Procs -> Memories \cup {None}]
  BY DEF custodialVars, CInv, Tables, TablesTyped
<1>2. Grow /\ Chosen
  BY <1>1 DEF Grow, Chosen, Active
<1>3. StepOf(p)
  BY <1>1 DEF StepOf
<1>4. Tables'
  <2>1. TablesTyped'
    BY <1>1, FaultsTyped DEF TablesTyped, CInv, Tables
  <2> QED
    BY <1>1, <2>1
       DEF CInv, Tables, Selected, Rows, Active, HangsOnRow, RecordedHasReceipt, Proven
<1>5. \A u \in Uids : lock'[u] # p
  BY <1>1 DEF CInv, Request
<1>6. Claim(p)' = ClaimIn(m)
  BY <1>1 DEF Claim, Recording, ClaimIn
<1>7. Request(p)'
  BY <1>1, <1>5, <1>6 DEF Request, Entitled, Holding, Proven
<1> QED
  BY <1>2, <1>3, <1>4, <1>7 DEF Moves

\* A request that ends outside a transaction.
LEMMA EndMoves ==
  ASSUME CInv, NEW p \in Procs, pc[p] \notin Holding, Fault \/ NoFault, End(p),
         UNCHANGED <<row, linked, ledger, lock, custodialVars>>
  PROVE  Moves(p)
<1>1. "idle" \in Points \ Holding /\ Entitled("idle", None)
  BY DEF Points, Holding, Entitled, Claiming, Verified
<1> QED
  BY <1>1, PlaceMoves DEF End, GotoWith

\* The remembered request is typed.
LEMMA MemoryTyped ==
  ASSUME CInv, NEW p \in Procs, pc[p] # "idle"
  PROVE  /\ loc[p] \in Memories
         /\ loc[p].uid \in Uids /\ loc[p].wallet \in Addresses /\ loc[p].session \in Sessions
<1>1. loc[p] \in Memories
  BY DEF CInv, Tables, TablesTyped, Request
<1> QED
  BY <1>1 DEF Memories

\* A fresh memory is typed, with a transfer and a session too.
LEMMA FreshMemory ==
  ASSUME NEW u \in Uids, NEW a \in Addresses, NEW t \in Txs, NEW s \in Sessions
  PROVE  /\ Memory(u, a) \in Memories
         /\ [Memory(u, a) EXCEPT !.tx = t] \in Memories
         /\ [Memory(u, a) EXCEPT !.tx = t, !.session = s] \in Memories
BY RequestsAssumption DEF Memory, Memories

\* The selected wallet is an address.
LEMMA SelectedTyped ==
  ASSUME NEW u \in Uids
  PROVE  SelectedWallet(u) \in Addresses
BY ManagedAssumption DEF SelectedWallet, Active

LEMMA ReadersMove ==
  ASSUME CInv, NEW p \in Procs, UNCHANGED custodialVars,
         \/ \E u \in Uids, a \in Addresses : ReadMode(p, u, a) \/ NameLinked(p, u, a)
         \/ \E u \in Uids, v \in Uids, a \in Externals \cup {None} : ReadProfile(p, u, v, a)
         \/ \E u \in Uids, t \in Txs \ Transfers : ResolveActive(p, u, t)
  PROVE  Moves(p) \/ UNCHANGED vars
<1>0. None \notin Memories
  BY RequestsAssumption
<1>1. ASSUME NEW point \in {"activate", "create"}, NEW u \in Uids, NEW a \in Addresses,
             pc[p] = "idle", GotoWith(p, point, Memory(u, a)),
             UNCHANGED <<row, linked, ledger, lock, faults>>
      PROVE  Moves(p)
  <2>1. Memory(u, a) \in Memories
    BY RequestsAssumption DEF Memory, Memories
  <2>2. Entitled(point, Memory(u, a))
    BY <1>0, <1>1, <2>1 DEF Entitled, Claiming, Verified
  <2>3. point \in Points \ Holding /\ pc[p] \notin Holding
    BY <1>1 DEF Points, Holding
  <2>4. NoFault
    BY <1>1 DEF NoFault
  <2> QED
    BY <1>1, <2>1, <2>2, <2>3, <2>4, PlaceMoves DEF GotoWith
<1>2. ASSUME NEW u \in Uids, NEW a \in Addresses, ReadMode(p, u, a)
      PROVE  Moves(p) \/ UNCHANGED vars
  BY <1>1, <1>2 DEF ReadMode, vars, selectionVars
<1>3. ASSUME NEW u \in Uids, NEW a \in Addresses, NameLinked(p, u, a)
      PROVE  Moves(p)
  BY <1>1, <1>3 DEF NameLinked
<1>4. ASSUME NEW u \in Uids, NEW v \in Uids, NEW a \in Externals \cup {None},
             ReadProfile(p, u, v, a)
      PROVE  Moves(p)
  <2> DEFINE b == IF a = None THEN SelectedWallet(u) ELSE a
  <2>1. b \in Addresses
    BY SelectedTyped DEF Addresses
  <2>2. pc[p] = "idle" /\ GotoWith(p, "create", Memory(v, b))
        /\ UNCHANGED <<row, linked, ledger, lock, faults>>
    BY <1>4 DEF ReadProfile
  <2> HIDE DEF b
  <2> QED
    BY <1>1, <2>1, <2>2
<1>5. ASSUME NEW u \in Uids, NEW t \in Txs \ Transfers, ResolveActive(p, u, t)
      PROVE  Moves(p)
  <2> DEFINE m == [Memory(u, SelectedWallet(u)) EXCEPT !.tx = t]
  <2>1. m \in Memories /\ m.tx = t
    BY SelectedTyped, RequestsAssumption, FreshMemory DEF Memory
  <2>2. /\ pc[p] = "idle" /\ pc' = [pc EXCEPT ![p] = "record"] /\ loc' = [loc EXCEPT ![p] = m]
        /\ UNCHANGED <<row, linked, ledger, lock, faults>>
    BY <1>5 DEF ResolveActive, GotoWith
  <2> HIDE DEF m
  <2>3. Entitled("record", m)
    BY <1>0, <2>1 DEF Entitled, Claiming, Verified
  <2>4. "record" \in Points \ Holding /\ pc[p] \notin Holding /\ NoFault
    BY <2>2 DEF Points, Holding, NoFault
  <2> QED
    BY <2>1, <2>2, <2>3, <2>4, PlaceMoves
<1> QED
  BY <1>2, <1>3, <1>4, <1>5
-----------------------------------------------------------------------------
(* A claim of a custodial transfer.                                        *)

LEMMA StartMoves ==
  ASSUME CInv, NEW p \in Procs, NEW u \in Uids, NEW a \in Externals, NEW t \in Transfers,
         NEW s \in Sessions, StartClaim(p, u, a, t, s)
  PROVE  Moves(p)
<1> DEFINE m == [Memory(u, a) EXCEPT !.tx = t, !.session = s]
<1>1. m \in Memories /\ m.tx = t
  BY FreshMemory, TransfersAssumption DEF Addresses, Memory
<1>2. /\ pc[p] = "idle" /\ pc' = [pc EXCEPT ![p] = "evidence"] /\ loc' = [loc EXCEPT ![p] = m]
      /\ UNCHANGED <<row, linked, ledger, lock, faults, custodialVars>>
  BY DEF StartClaim, GotoWith
<1> HIDE DEF m
<1>3. Entitled("evidence", m)
  BY <1>1, RequestsAssumption DEF Entitled, Claiming, Verified
<1>4. "evidence" \in Points \ Holding /\ pc[p] \notin Holding /\ NoFault
  BY <1>2 DEF Points, Holding, Claiming, NoFault
<1> QED
  BY <1>1, <1>2, <1>3, <1>4, PlaceMoves

\* A request that goes on with what it remembers.
LEMMA GotoMoves ==
  ASSUME CInv, NEW p \in Procs, NEW point \in Points \ Holding, pc[p] \notin Holding,
         pc[p] # "idle", Fault \/ NoFault, Goto(p, point), Entitled(point, loc[p]),
         UNCHANGED <<row, linked, ledger, lock, custodialVars>>
  PROVE  Moves(p)
<1>1. loc[p] \in Memories /\ loc' = [loc EXCEPT ![p] = loc[p]]
  BY MemoryTyped DEF Goto, CInv, Tables, TablesTyped
<1> QED
  BY <1>1, PlaceMoves DEF Goto

LEMMA VerifyMoves ==
  ASSUME CInv, NEW p \in Procs, VerifyClaim(p)
  PROVE  Moves(p)
<1>1. /\ pc[p] = "evidence" /\ pc[p] \notin Holding
      /\ UNCHANGED <<row, linked, ledger, lock, custodialVars>>
  BY DEF VerifyClaim, Holding
<1>2. CASE Proven(loc[p].tx, loc[p].wallet) /\ Goto(p, "lookup") /\ NoFault
  <2>1. Entitled("lookup", loc[p])
    BY <1>1, <1>2, MemoryTyped, RequestsAssumption
       DEF Entitled, Claiming, Verified, CInv, Request
  <2>2. "lookup" \in Points \ Holding
    BY DEF Points, Holding, Claiming
  <2> QED
    BY <1>1, <1>2, <2>1, <2>2, GotoMoves
<1>3. CASE End(p) /\ (Fault \/ NoFault)
  BY <1>1, <1>3, EndMoves
<1> QED
  BY <1>2, <1>3 DEF VerifyClaim

LEMMA LookupMoves ==
  ASSUME CInv, NEW p \in Procs, LookupSpend(p)
  PROVE  Moves(p)
<1>1. /\ pc[p] = "lookup" /\ pc[p] \notin Holding
      /\ UNCHANGED <<row, linked, ledger, lock, custodialVars>>
  BY DEF LookupSpend, Holding
<1>2. loc[p] # None /\ loc[p].tx \in Transfers /\ Proven(loc[p].tx, loc[p].wallet)
  BY <1>1, MemoryTyped, RequestsAssumption DEF CInv, Request, Claiming, Verified
<1>3. CASE Goto(p, "receipt") /\ NoFault
  <2>1. Entitled("receipt", loc[p]) /\ "receipt" \in Points \ Holding
    BY <1>2 DEF Entitled, Points, Holding, Claiming, Verified
  <2> QED
    BY <1>1, <1>3, <2>1, GotoMoves
<1>4. CASE Claim(p) \in ledger /\ Goto(p, "duplicate") /\ NoFault
  <2>1. Claim(p) = ClaimIn(loc[p])
    BY DEF Claim, Recording, ClaimIn
  <2>2. Entitled("duplicate", loc[p]) /\ "duplicate" \in Points \ Holding
    BY <1>2, <1>4, <2>1 DEF Entitled, Points, Holding, Claiming, Verified
  <2> QED
    BY <1>1, <1>4, <2>2, GotoMoves
<1>5. CASE End(p) /\ (Fault \/ NoFault)
  BY <1>1, <1>5, EndMoves
<1> QED
  BY <1>3, <1>4, <1>5 DEF LookupSpend

\* Success is answered for a recorded claim that has its receipt.
LEMMA SuccessMoves ==
  ASSUME CInv, NEW p \in Procs, pc[p] \in {"duplicate", "answer"}, Answer(p), End(p),
         Fault \/ NoFault, UNCHANGED <<row, linked, ledger, lock, mined, receipts>>
  PROVE  Moves(p)
<1>1. /\ pc'[p] = "idle" /\ loc'[p] = None
      /\ \A q \in Procs : q # p => pc'[q] = pc[q] /\ loc'[q] = loc[q]
      /\ pc' \in [Procs -> Points] /\ loc' \in [Procs -> Memories \cup {None}]
  BY DEF End, GotoWith, CInv, Tables, TablesTyped, Points
<1>2. Grow /\ Chosen /\ StepOf(p)
  BY <1>1 DEF Grow, Chosen, Active, StepOf
<1>3. Claim(p) \in ledger /\ Claim(p).tx \in Transfers
  BY DEF CInv, Request, Claim, Recording, Claiming
<1>4. TablesTyped'
  BY <1>1, <1>3, FaultsTyped DEF TablesTyped, CInv, Tables, Answer
<1>5. answered' \subseteq ledger' /\ \A e \in answered' : e.tx \in Transfers
  BY <1>3 DEF CInv, Tables, Answer
<1>6. Selected' /\ HangsOnRow' /\ RecordedHasReceipt'
  BY DEF CInv, Tables, Selected, Rows, Active, HangsOnRow, RecordedHasReceipt, Proven
<1>7. \A u \in Uids : lock'[u] # p
  BY DEF CInv, Request, Holding
<1>8. Request(p)'
  BY <1>1, <1>7 DEF Request, Holding, Claiming, Verified
<1> QED
  BY <1>2, <1>4, <1>5, <1>6, <1>8 DEF Moves, Tables

LEMMA DuplicateMoves ==
  ASSUME CInv, NEW p \in Procs, AnswerDuplicate(p)
  PROVE  Moves(p)
<1>1. /\ pc[p] = "duplicate" /\ pc[p] \notin Holding /\ End(p)
      /\ UNCHANGED <<row, linked, ledger, lock, mined, receipts>>
  BY DEF AnswerDuplicate, Holding
<1>2. CASE Answer(p) /\ NoFault
  BY <1>1, <1>2, SuccessMoves
<1>3. CASE UNCHANGED answered /\ (Fault \/ NoFault)
  BY <1>1, <1>3, EndMoves DEF custodialVars
<1> QED
  BY <1>2, <1>3 DEF AnswerDuplicate

LEMMA AnswerMoves ==
  ASSUME CInv, NEW p \in Procs, AnswerRecorded(p)
  PROVE  Moves(p)
BY SuccessMoves DEF AnswerRecorded, NoFault

\* A receipt is stored for a proven claim, and never another's in its place.
LEMMA ReceiptMoves ==
  ASSUME CInv, NEW p \in Procs, StoreReceipt(p)
  PROVE  Moves(p)
<1> DEFINE t == loc[p].tx
           stored == IF receipts[t] = None THEN [receipts EXCEPT ![t] = Claim(p)] ELSE receipts
<1>1. pc[p] = "receipt" /\ UNCHANGED <<row, linked, ledger, lock, mined, answered>>
  BY DEF StoreReceipt
<1>2. /\ receipts' \in {receipts, stored}
      /\ \/ Goto(p, "record") /\ receipts' = stored /\ stored[t] = Claim(p)
         \/ End(p)
      /\ Fault \/ NoFault
  BY DEF StoreReceipt
<1>3. /\ t \in Transfers /\ t \in Txs /\ Proven(t, loc[p].wallet)
      /\ loc[p] \in Memories /\ loc[p] # None
  BY <1>1, MemoryTyped, TransfersAssumption, RequestsAssumption
     DEF CInv, Request, Claiming, Verified
<1>4. Claim(p) \in Entry
  BY <1>3 DEF Claim, Recording, Entry, Memories
<1>5. receipts \in [Transfers -> Entry \cup {None}]
  BY DEF CInv, Tables, TablesTyped
<1>6. /\ receipts' \in [Transfers -> Entry \cup {None}]
      /\ \A x \in Transfers : receipts[x] # None => receipts'[x] = receipts[x]
  BY <1>2, <1>3, <1>4, <1>5
<1>7. /\ pc'[p] \in {"record", "idle"} /\ (pc'[p] = "record" => receipts'[t] = Claim(p))
      /\ loc'[p] = IF pc'[p] = "record" THEN loc[p] ELSE None
      /\ \A q \in Procs : q # p => pc'[q] = pc[q] /\ loc'[q] = loc[q]
      /\ pc' \in [Procs -> Points] /\ loc' \in [Procs -> Memories \cup {None}]
  BY <1>2 DEF Goto, End, GotoWith, CInv, Tables, TablesTyped, Points
<1>8. Grow /\ Chosen /\ StepOf(p)
  BY <1>1, <1>6, <1>7 DEF Grow, Chosen, Active, StepOf
<1>9. TablesTyped'
  BY <1>1, <1>2, <1>6, <1>7, FaultsTyped DEF TablesTyped, CInv, Tables
<1>10. RecordedHasReceipt'
  <2> SUFFICES ASSUME NEW e \in ledger, e.tx \in Transfers
               PROVE  Proven(e.tx, e.wallet)' /\ receipts'[e.tx] = e
    BY <1>1 DEF RecordedHasReceipt
  <2>1. Proven(e.tx, e.wallet) /\ receipts[e.tx] = e /\ e \in Entry
    BY DEF CInv, Tables, RecordedHasReceipt, TablesTyped
  <2> QED
    BY <1>1, <1>6, <2>1, RequestsAssumption DEF Proven
<1>11. Selected' /\ HangsOnRow' /\ (answered \subseteq ledger)' /\ \A e \in answered' : e.tx \in Transfers
  BY <1>1 DEF CInv, Tables, Selected, Rows, Active, HangsOnRow
<1>12. \A u \in Uids : lock'[u] # p
  BY <1>1 DEF CInv, Request, Holding
<1>13. Request(p)'
  <2>1. CASE pc'[p] = "idle"
    BY <1>7, <1>12, <2>1 DEF Request, Holding, Claiming, Verified
  <2>2. CASE pc'[p] = "record"
    <3>1. Claim(p)' = Claim(p) /\ loc'[p] = loc[p]
      BY <1>7, <2>2 DEF Claim, Recording
    <3> HIDE DEF stored
    <3> QED
      BY <1>1, <1>3, <1>7, <1>12, <2>2, <3>1
         DEF Request, Holding, Claiming, Verified, Proven
  <2> QED
    BY <1>7, <2>1, <2>2
<1> QED
  BY <1>8, <1>9, <1>10, <1>11, <1>13 DEF Moves, Tables

\* A transfer is mined.
LEMMA SendGoesOn ==
  ASSUME CInv, NEW t \in Transfers, Send(t)
  PROVE  CInv' /\ Grow /\ Chosen
<1>1. mined' = mined \cup {t} /\ UNCHANGED <<selectionVars, receipts, answered>>
  BY DEF Send
<1>2. UNCHANGED <<row, linked, ledger, lock, faults, pc, loc, receipts, answered>>
  BY <1>1 DEF selectionVars
<1>3. Grow /\ Chosen
  BY <1>1, <1>2 DEF Grow, Chosen, Active
<1>4. \A x, a : Proven(x, a) => Proven(x, a)'
  BY <1>1 DEF Proven
<1>7. TablesTyped'
  BY <1>1, <1>2 DEF CInv, Tables, TablesTyped
<1>8. Selected' /\ HangsOnRow' /\ (answered \subseteq ledger)' /\ \A e \in answered' : e.tx \in Transfers
  BY <1>2 DEF CInv, Tables, Selected, Rows, Active, HangsOnRow
<1>9. RecordedHasReceipt'
  BY <1>2, <1>4 DEF CInv, Tables, RecordedHasReceipt
<1>5. Tables'
  BY <1>7, <1>8, <1>9 DEF Tables
<1>6. ASSUME NEW p \in Procs
      PROVE  Request(p)'
  BY <1>2, <1>4 DEF CInv, Request, HasActivity, Claim, Recording
<1> QED
  BY <1>3, <1>5, <1>6 DEF CInv
-----------------------------------------------------------------------------
(* Transactions on the users table.                                        *)

\* A transaction of one step, that leaves the ledger alone.
LEMMA RowsMove ==
  ASSUME CInv, NEW p \in Procs, pc[p] \notin Holding, RowsTyped', Selected', RowsStay, Chosen,
         linked' \in [Uids -> SUBSET Externals], Fault \/ NoFault,
         End(p) \/ UNCHANGED <<pc, loc>>, UNCHANGED <<ledger, lock, custodialVars>>
  PROVE  Moves(p)
<1>1. /\ UNCHANGED <<ledger, lock, mined, receipts, answered>>
      /\ \/ pc'[p] = "idle" /\ loc'[p] = None
         \/ pc'[p] = pc[p] /\ loc'[p] = loc[p]
      /\ \A q \in Procs : q # p => pc'[q] = pc[q] /\ loc'[q] = loc[q]
      /\ pc' \in [Procs -> Points] /\ loc' \in [Procs -> Memories \cup {None}]
  BY DEF custodialVars, End, GotoWith, CInv, Tables, TablesTyped, Points
<1>2. Grow /\ StepOf(p)
  BY <1>1 DEF Grow, StepOf
<1>3. TablesTyped'
  BY <1>1, FaultsTyped DEF TablesTyped, RowsTyped, CInv, Tables
<1>4. HangsOnRow'
  BY <1>1 DEF HangsOnRow, RowsStay, CInv, Tables, TablesTyped, Entry
<1>5. RecordedHasReceipt' /\ (answered \subseteq ledger)' /\ \A e \in answered' : e.tx \in Transfers
  BY <1>1 DEF CInv, Tables, RecordedHasReceipt, Proven
<1>6. \A u \in Uids : lock'[u] # p
  BY <1>1 DEF CInv, Request
<1>7. Request(p)'
  <2>1. CASE pc'[p] = "idle" /\ loc'[p] = None
    BY <1>6, <2>1 DEF Request, Holding, Claiming, Verified
  <2>2. CASE pc'[p] = pc[p] /\ loc'[p] = loc[p]
    <3>1. Claim(p)' = Claim(p)
      BY <2>2 DEF Claim, Recording
    <3>2. Request(p)
      BY DEF CInv
    <3> QED
      BY <1>1, <1>6, <2>2, <3>1, <3>2 DEF Request, Holding, Proven
  <2> QED
    BY <1>1, <2>1, <2>2
<1> QED
  BY <1>2, <1>3, <1>4, <1>5, <1>7 DEF Moves, Tables

LEMMA ActivateMoves ==
  ASSUME CInv, NEW p \in Procs, Activate(p), UNCHANGED custodialVars
  PROVE  Moves(p)
<1>0. pc[p] = "activate"
  BY DEF Activate
<1>2. PICK u \in Uids, a \in Addresses : u = loc[p].uid /\ a = loc[p].wallet
  BY <1>0, MemoryTyped
<1>1. /\ pc[p] = "activate" /\ Transact(p, u, Activated(u, a))
      /\ UNCHANGED <<linked, ledger, lock>>
  BY <1>2 DEF Activate
<1>3. RowsTyped /\ Selected /\ linked \in [Uids -> SUBSET Externals] /\ pc[p] \notin Holding
  BY <1>1 DEF CInv, Tables, TablesTyped, RowsTyped, Holding
<1>4. (row' = Activated(u, a) \/ row' = row) /\ End(p) /\ (Fault \/ NoFault)
  BY <1>1 DEF Transact
<1>6. pc'[p] = "idle"
  BY <1>4 DEF End, GotoWith, CInv, Tables, TablesTyped
<1>5. RowsTyped' /\ Selected' /\ RowsStay /\ Chosen
  <2>1. CASE row' = row
    BY <1>3, <2>1 DEF RowsTyped, Selected, Rows, Active, RowsStay, Chosen
  <2>2. CASE row' = Activated(u, a)
    <3>1. /\ RowsTyped' /\ Selected' /\ RowsStay
          /\ Active(u)' = {a} /\ \A v \in Uids : v # u => Active(v)' = Active(v)
      BY <1>2, <1>3, <2>2, ActivatedSelects
    <3>2. Chooses(p, u)
      BY <1>1, <1>2, <1>6, <3>1 DEF Chooses
    <3> QED
      BY <3>1, <3>2 DEF Chosen
  <2> QED
    BY <1>4, <2>1, <2>2
<1> QED
  BY <1>1, <1>3, <1>4, <1>5, RowsMove

LEMMA CreateMoves ==
  ASSUME CInv, NEW p \in Procs, Create(p), UNCHANGED custodialVars
  PROVE  Moves(p)
<1> DEFINE u == loc[p].uid
           a == loc[p].wallet
<1>1. /\ pc[p] = "create" /\ Transact(p, u, Created(u, a))
      /\ UNCHANGED <<linked, ledger, lock>>
  BY DEF Create
<1>2. u \in Uids /\ a \in Addresses
  BY <1>1, MemoryTyped
<1>3. RowsTyped /\ Selected /\ linked \in [Uids -> SUBSET Externals] /\ pc[p] \notin Holding
  BY <1>1 DEF CInv, Tables, TablesTyped, RowsTyped, Holding
<1>4. (row' = Created(u, a) \/ row' = row) /\ End(p) /\ (Fault \/ NoFault)
  BY <1>1 DEF Transact
<1>5. RowsTyped' /\ Selected' /\ RowsStay /\ Chosen
  <2>1. CASE row' = row
    BY <1>3, <2>1 DEF RowsTyped, Selected, Rows, Active, RowsStay, Chosen
  <2>2. CASE row' = Created(u, a)
    BY <1>2, <1>3, <2>2, CreatedSelects
  <2> QED
    BY <1>4, <2>1, <2>2
<1> QED
  BY <1>1, <1>3, <1>4, <1>5, RowsMove

LEMMA LinkMoves ==
  ASSUME CInv, NEW p \in Procs, NEW u \in Uids, NEW a \in Externals, Link(p, u, a),
         UNCHANGED custodialVars
  PROVE  Moves(p)
<1>1. /\ pc[p] = "idle" /\ row' = Created(u, a)
      /\ linked' = [linked EXCEPT ![u] = linked[u] \cup {a}]
      /\ UNCHANGED <<ledger, lock, faults, pc, loc>>
  BY DEF Link
<1>2. /\ RowsTyped /\ Selected /\ linked \in [Uids -> SUBSET Externals]
      /\ pc[p] \notin Holding /\ a \in Addresses /\ NoFault
  BY <1>1 DEF CInv, Tables, TablesTyped, RowsTyped, Holding, Addresses, NoFault
<1>3. linked' \in [Uids -> SUBSET Externals]
  BY <1>1, <1>2
<1>4. RowsTyped' /\ Selected' /\ RowsStay /\ Chosen
  BY <1>1, <1>2, CreatedSelects
<1> QED
  BY <1>1, <1>2, <1>3, <1>4, RowsMove
-----------------------------------------------------------------------------
(* Transactions that read before they write.                               *)

\* The lock is taken, and what was read is remembered.
LEMMA BeginMoves ==
  ASSUME CInv, NEW p \in Procs, NEW point \in Holding, NEW m \in Memories,
         pc[p] \notin Holding, lock[m.uid] = None,
         UNCHANGED <<row, linked, ledger, faults, custodialVars>>,
         pc' = [pc EXCEPT ![p] = point], loc' = [loc EXCEPT ![p] = m],
         lock' = [lock EXCEPT ![m.uid] = p],
         point = "unlink" => (m.seen <=> HasActivity(m.uid, m.wallet)),
         point = "insert" => /\ m.tx \in Txs
                             /\ m.tx \in Transfers => /\ Proven(m.tx, m.wallet)
                                                      /\ receipts[m.tx] = ClaimIn(m)
  PROVE  Moves(p)
<1>0. m.uid \in Uids /\ m # None /\ p # None
  BY RequestsAssumption, NoneAssumption DEF Memories
<1>1. /\ UNCHANGED <<row, linked, ledger, faults, mined, receipts, answered>>
      /\ pc'[p] = point /\ loc'[p] = m
      /\ \A q \in Procs : q # p => pc'[q] = pc[q] /\ loc'[q] = loc[q]
      /\ pc' \in [Procs -> Points] /\ loc' \in [Procs -> Memories \cup {None}]
  BY DEF custodialVars, CInv, Tables, TablesTyped, Points
<1>2. /\ lock' \in [Uids -> Procs \cup {None}] /\ lock'[m.uid] = p
      /\ \A u \in Uids : u # m.uid => lock'[u] = lock[u]
  BY <1>0 DEF CInv, Tables, TablesTyped
<1>3. \A u \in Uids : lock[u] # p
  BY DEF CInv, Request
<1>4. Grow /\ Chosen
  BY <1>1 DEF Grow, Chosen, Active
<1>5. StepOf(p)
  <2>1. \A u \in Uids, q \in Procs : q # p => (lock'[u] = q <=> lock[u] = q)
    BY <1>2, NoneAssumption
  <2> QED
    BY <1>1, <2>1 DEF StepOf
<1>6. Tables'
  <2>1. TablesTyped'
    BY <1>1, <1>2 DEF TablesTyped, CInv, Tables
  <2> QED
    BY <1>1, <2>1
       DEF CInv, Tables, Selected, Rows, Active, HangsOnRow, RecordedHasReceipt, Proven
<1>7. \A u \in Uids : lock'[u] = p <=> u = m.uid
  BY <1>2, <1>3
<1>8. Claim(p)' = ClaimIn(m)
  BY <1>1 DEF Claim, Recording, ClaimIn
<1>9. HasActivity(m.uid, m.wallet)' <=> HasActivity(m.uid, m.wallet)
  BY <1>1 DEF HasActivity
<1>10. Request(p)'
  <2>1. CASE point = "unlink"
    BY <1>0, <1>1, <1>7, <1>9, <2>1 DEF Request, Holding, Claiming, Verified, HasActivity
  <2>2. CASE point = "insert"
    BY <1>0, <1>1, <1>7, <1>8, <2>2 DEF Request, Holding, Claiming, Verified, Proven
  <2> QED
    BY <2>1, <2>2 DEF Holding
<1> QED
  BY <1>4, <1>5, <1>6, <1>10 DEF Moves

LEMMA BeginUnlinkMoves ==
  ASSUME CInv, NEW p \in Procs, NEW u \in Uids, NEW a \in Externals, BeginUnlink(p, u, a),
         UNCHANGED custodialVars
  PROVE  Moves(p)
<1> DEFINE m == [Memory(u, a) EXCEPT !.seen = HasActivity(u, a)]
<1>1. m \in Memories /\ m.uid = u /\ m.wallet = a /\ (m.seen <=> HasActivity(u, a))
  <2>1. HasActivity(u, a) \in BOOLEAN
    BY DEF HasActivity
  <2> QED
    BY <2>1, RequestsAssumption DEF Memory, Memories, Addresses
<1>2. /\ pc[p] = "idle" /\ lock[u] = None /\ lock' = [lock EXCEPT ![u] = p]
      /\ pc' = [pc EXCEPT ![p] = "unlink"] /\ loc' = [loc EXCEPT ![p] = m]
      /\ UNCHANGED <<row, linked, ledger, faults, custodialVars>>
  BY DEF BeginUnlink, GotoWith
<1> HIDE DEF m
<1>3. "unlink" \in Holding /\ pc[p] \notin Holding
  BY <1>2 DEF Holding
<1> QED
  BY <1>1, <1>2, <1>3, BeginMoves

LEMMA BeginRecordMoves ==
  ASSUME CInv, NEW p \in Procs, BeginRecord(p), UNCHANGED custodialVars
  PROVE  Moves(p)
<1> DEFINE u == loc[p].uid
           m == [loc[p] EXCEPT !.seen = loc[p].wallet \in Rows(u)]
<1>1. /\ pc[p] = "record" /\ lock[u] = None /\ lock' = [lock EXCEPT ![u] = p]
      /\ pc' = [pc EXCEPT ![p] = "insert"] /\ loc' = [loc EXCEPT ![p] = m]
      /\ UNCHANGED <<row, linked, ledger, faults, custodialVars>>
  BY DEF BeginRecord, LockFree, GotoWith
<1>2. loc[p] \in Memories
  BY <1>1, MemoryTyped
<1>3. /\ m \in Memories /\ m.uid = u /\ m.wallet = loc[p].wallet /\ m.tx = loc[p].tx
      /\ m.session = loc[p].session
  <2> DEFINE there == loc[p].wallet \in Rows(u)
  <2>1. there \in BOOLEAN
    OBVIOUS
  <2>2. m = [loc[p] EXCEPT !.seen = there]
    OBVIOUS
  <2> HIDE DEF there, m
  <2> QED
    BY <1>2, <2>1, <2>2 DEF Memories
<1>4. /\ m.tx \in Txs
      /\ m.tx \in Transfers => Proven(m.tx, m.wallet) /\ receipts[m.tx] = Claim(p)
  BY <1>1, <1>3 DEF CInv, Request, Verified
<1>5. Claim(p) = ClaimIn(m)
  BY <1>3 DEF Claim, Recording, ClaimIn
<1>6. "insert" \in Holding /\ pc[p] \notin Holding
  BY <1>1 DEF Holding
<1> HIDE DEF m
<1> QED
  BY <1>1, <1>3, <1>4, <1>5, <1>6, BeginMoves

\* Giving the lock back.
LEMMA UnlockKept ==
  ASSUME CInv, NEW p \in Procs, Unlock(p)
  PROVE  /\ lock' \in [Uids -> Procs \cup {None}]
         /\ \A u \in Uids : lock'[u] # p
         /\ \A u \in Uids, q \in Procs : q # p => (lock'[u] = q <=> lock[u] = q)
BY NoneAssumption DEF Unlock, CInv, Tables, TablesTyped

\* A request that goes off, or dies, and gives its lock back.
LEMMA CrashMoves ==
  ASSUME CInv, NEW p \in Procs, End(p), Unlock(p), Fault \/ NoFault,
         UNCHANGED <<row, linked, ledger, custodialVars>>
  PROVE  Moves(p)
<1>1. /\ UNCHANGED <<row, linked, ledger, mined, receipts, answered>>
      /\ pc'[p] = "idle" /\ loc'[p] = None
      /\ \A q \in Procs : q # p => pc'[q] = pc[q] /\ loc'[q] = loc[q]
      /\ pc' \in [Procs -> Points] /\ loc' \in [Procs -> Memories \cup {None}]
  BY DEF custodialVars, End, GotoWith, CInv, Tables, TablesTyped, Points
<1>2. Grow /\ Chosen /\ StepOf(p)
  BY <1>1, UnlockKept DEF Grow, Chosen, Active, StepOf
<1>3. TablesTyped'
  BY <1>1, UnlockKept, FaultsTyped DEF TablesTyped, CInv, Tables
<1>4. Tables'
  BY <1>1, <1>3
     DEF CInv, Tables, Selected, Rows, Active, HangsOnRow, RecordedHasReceipt, Proven
<1>5. Request(p)'
  BY <1>1, UnlockKept DEF Request, Holding, Claiming, Verified
<1> QED
  BY <1>2, <1>4, <1>5 DEF Moves

\* An unlink deletes no row that a recorded movement hangs on: what it read
\* under the lock still holds when it commits.
LEMMA CommitUnlinkMoves ==
  ASSUME CInv, NEW p \in Procs, CommitUnlink(p), UNCHANGED custodialVars
  PROVE  Moves(p)
<1>0. pc[p] = "unlink" /\ loc[p].seen \in BOOLEAN
  BY MemoryTyped DEF CommitUnlink, Memories
<1>2. PICK u \in Uids, a \in Addresses, seen \in BOOLEAN :
        u = loc[p].uid /\ a = loc[p].wallet /\ seen = loc[p].seen
  BY <1>0, MemoryTyped
<1> DEFINE new == Removed(u, a, seen)
<1>1. /\ pc[p] = "unlink" /\ lock' = [lock EXCEPT ![u] = None] /\ End(p)
      /\ \/ /\ row' = new /\ ledger' = Cascaded(new)
            /\ linked' = [linked EXCEPT ![u] = linked[u] \ {a}] /\ NoFault
         \/ UNCHANGED <<row, ledger, linked>> /\ Fault
  BY <1>2 DEF CommitUnlink
<1>3. \A v \in Uids : lock[v] = p <=> v = u
  BY <1>1, <1>2 DEF CInv, Request, Holding
<1>4. Unlock(p)
  BY <1>1, <1>2, <1>3 DEF Unlock, CInv, Tables, TablesTyped
<1>5. CASE UNCHANGED <<row, ledger, linked>> /\ Fault
  BY <1>1, <1>4, <1>5, CrashMoves
<1>6. CASE /\ row' = new /\ ledger' = Cascaded(new)
           /\ linked' = [linked EXCEPT ![u] = linked[u] \ {a}] /\ NoFault
  <2>1. RowsTyped /\ Selected
    BY DEF CInv, Tables, TablesTyped, RowsTyped
  <2>2. /\ RowsTyped' /\ Selected'
        /\ \A v \in Uids : v # u => Active(v)' = Active(v)
        /\ Active(u)' # Active(u) => Active(u) = {a} /\ Active(u)' = {ManagedOf[u]}
        /\ \A v \in Uids, b \in Addresses :
             row[v][b] # "absent" /\ row'[v][b] = "absent" => v = u /\ b = a /\ ~seen
    BY <1>2, <1>6, <2>1, RemovedSelects
  <2>3. ledger' = {e \in ledger : row'[e.uid][e.wallet] # "absent"}
    <3> HIDE DEF new
    <3> QED
      BY <1>6 DEF Cascaded
  <2>4. ASSUME NEW e \in ledger
        PROVE  row'[e.uid][e.wallet] # "absent"
    <3>1. e.uid \in Uids /\ e.wallet \in Addresses /\ row[e.uid][e.wallet] # "absent"
      BY DEF CInv, Tables, TablesTyped, HangsOnRow, Entry
    <3>2. ~seen => ~(e.uid = u /\ e.wallet = a)
      BY <1>1, <1>2 DEF CInv, Request, HasActivity
    <3> QED
      BY <2>2, <3>1, <3>2
  <2>5. ledger' = ledger
    BY <2>3, <2>4
  <2>6. /\ UNCHANGED <<ledger, mined, receipts, answered>>
        /\ pc'[p] = "idle" /\ loc'[p] = None
        /\ \A q \in Procs : q # p => pc'[q] = pc[q] /\ loc'[q] = loc[q]
        /\ pc' \in [Procs -> Points] /\ loc' \in [Procs -> Memories \cup {None}]
    BY <1>1, <2>5 DEF custodialVars, End, GotoWith, CInv, Tables, TablesTyped, Points
  <2>7. Grow /\ StepOf(p)
    BY <1>4, <2>6, UnlockKept DEF Grow, StepOf
  <2>11. Chosen
    BY <1>1, <1>2, <2>2, <2>6 DEF Chosen, Chooses
  <2>8. TablesTyped'
    <3>1. linked' \in [Uids -> SUBSET Externals]
      BY <1>6 DEF CInv, Tables, TablesTyped
    <3> QED
      BY <1>4, <1>6, <2>2, <2>6, <3>1, UnlockKept, FaultsTyped
         DEF TablesTyped, RowsTyped, CInv, Tables
  <2>9. Tables'
    BY <2>2, <2>4, <2>6, <2>8 DEF CInv, Tables, HangsOnRow, RecordedHasReceipt, Proven
  <2>10. Request(p)'
    BY <1>4, <2>6, UnlockKept DEF Request, Holding, Claiming, Verified
  <2> QED
    BY <2>7, <2>9, <2>10, <2>11 DEF Moves
<1> QED
  BY <1>1, <1>5, <1>6

\* A recording commits the row, and the movement unless the hash is recorded
\* already; afterwards an intended success finds its movement recorded.
LEMMA InsertedMoves ==
  ASSUME CInv, NEW p \in Procs, pc[p] = "insert", Unlock(p), Inserted(p),
         NEW ok \in {"idle", "answer"}, ok = "answer" => loc[p].tx \in Transfers,
         GotoWith(p, ok, IF ok = "idle" THEN None ELSE loc[p]),
         ok = "answer" /\ Recorded(loc[p].tx) => Recording(p) \in ledger,
         Fault \/ NoFault, UNCHANGED <<linked, custodialVars>>
  PROVE  Moves(p)
<1> DEFINE u == loc[p].uid
           a == loc[p].wallet
           t == loc[p].tx
<1>1. /\ UNCHANGED <<linked, mined, receipts, answered>>
      /\ row' = Created(u, a)
      /\ ledger' = IF Recorded(t) THEN ledger ELSE ledger \cup {Recording(p)}
      /\ pc'[p] = ok /\ loc'[p] = IF ok = "idle" THEN None ELSE loc[p]
      /\ \A q \in Procs : q # p => pc'[q] = pc[q] /\ loc'[q] = loc[q]
  BY DEF custodialVars, Inserted, GotoWith, CInv, Tables, TablesTyped
<1>2. /\ loc[p] \in Memories /\ loc[p] # None /\ u \in Uids /\ a \in Addresses /\ t \in Txs
      /\ t \in Transfers => Proven(t, a) /\ receipts[t] = Recording(p)
      /\ lock[u] = p
  BY MemoryTyped, RequestsAssumption DEF CInv, Request, Verified, Holding, Claim
<1>3. Recording(p) \in Entry /\ Recording(p).uid = u /\ Recording(p).wallet = a
      /\ Recording(p).tx = t
  BY <1>2 DEF Recording, Entry, Memories
<1>4. RowsTyped' /\ Selected' /\ RowsStay /\ row'[u][a] # "absent" /\ Chosen
  BY <1>1, <1>2, CreatedSelects DEF CInv, Tables, TablesTyped, RowsTyped
<1>5. Grow /\ StepOf(p)
  BY <1>1, <1>2, <1>3, UnlockKept DEF Grow, StepOf
<1>6. TablesTyped'
  <2>1. pc' \in [Procs -> Points] /\ loc' \in [Procs -> Memories \cup {None}]
    BY <1>2 DEF GotoWith, CInv, Tables, TablesTyped, Points, Claiming
  <2>2. ledger' \subseteq Entry
    BY <1>1, <1>3 DEF CInv, Tables, TablesTyped
  <2> QED
    BY <1>1, <1>4, <2>1, <2>2, UnlockKept, FaultsTyped DEF TablesTyped, RowsTyped, CInv, Tables
<1>7. HangsOnRow'
  <2> SUFFICES ASSUME NEW e \in ledger'
               PROVE  row'[e.uid][e.wallet] # "absent"
    BY DEF HangsOnRow
  <2>1. CASE e \in ledger
    BY <1>4, <2>1 DEF CInv, Tables, TablesTyped, HangsOnRow, Entry, RowsStay
  <2>2. CASE e = Recording(p)
    BY <1>3, <1>4, <2>2
  <2> QED
    BY <1>1, <2>1, <2>2
<1>8. RecordedHasReceipt'
  BY <1>1, <1>2, <1>3 DEF RecordedHasReceipt, Proven, CInv, Tables
<1>9. (answered \subseteq ledger)' /\ \A e \in answered' : e.tx \in Transfers
  BY <1>1, <1>5 DEF CInv, Tables, Grow
<1>10. ok = "answer" => Recording(p) \in ledger'
  BY <1>1
<1>11. Request(p)'
  <2>1. CASE ok = "idle"
    BY <1>1, <2>1, UnlockKept DEF Request, Holding, Claiming, Verified
  <2>2. CASE ok = "answer"
    <3>1. Claim(p)' = Recording(p) /\ loc'[p] = loc[p] /\ pc'[p] = "answer"
      BY <1>1, <2>2 DEF Claim, Recording
    <3> QED
      BY <1>1, <1>2, <1>10, <2>2, <3>1, UnlockKept
         DEF Request, Holding, Claiming, Verified, Proven
  <2> QED
    BY <2>1, <2>2
<1> QED
  BY <1>4, <1>5, <1>6, <1>7, <1>8, <1>9, <1>11 DEF Moves, Tables

LEMMA CommitRecordMoves ==
  ASSUME CInv, NEW p \in Procs, NEW ok \in {"idle", "answer"},
         ok = "answer" => (loc[p] # None => loc[p].tx \in Transfers),
         CommitRecord(p, ok, "idle"), UNCHANGED custodialVars
  PROVE  Moves(p)
<1>1. pc[p] = "insert" /\ Unlock(p) /\ UNCHANGED <<linked, custodialVars>>
  BY DEF CommitRecord
<1>2. loc[p] # None
  BY <1>1 DEF CInv, Request
<1>3. CASE /\ ~(~CanInsert(p) \/ (Recorded(loc[p].tx) /\ Recording(p) \notin ledger))
           /\ Inserted(p) /\ GotoWith(p, ok, IF ok = "idle" THEN None ELSE loc[p]) /\ NoFault
  BY <1>1, <1>2, <1>3, InsertedMoves
<1>4. CASE UNCHANGED <<row, ledger>> /\ GotoWith(p, "idle", None) /\ (Fault \/ NoFault)
  BY <1>1, <1>4, CrashMoves DEF End
<1>5. CASE Inserted(p) /\ GotoWith(p, "idle", None) /\ Fault
  <2>1. "idle" \in {"idle", "answer"} /\ "idle" # "answer"
    OBVIOUS
  <2> QED
    BY <1>1, <1>5, <2>1, InsertedMoves
<1> QED
  BY <1>3, <1>4, <1>5 DEF CommitRecord
-----------------------------------------------------------------------------
(* The invariant.                                                          *)

LEMMA InitCInv ==
  ASSUME Init
  PROVE  CInv
<1>1. TablesTyped
  BY SizesAssumption DEF Init, SelectionInit, TablesTyped, Points
<1>2. Selected
  BY DEF Init, SelectionInit, Selected, Rows
<1>3. \A u \in Uids, p \in Procs : lock[u] # p
  BY NoneAssumption DEF Init, SelectionInit
<1>4. \A p \in Procs : Request(p)
  BY <1>3 DEF Init, SelectionInit, Request, Holding, Claiming, Verified
<1> QED
  BY <1>1, <1>2, <1>4 DEF CInv, Tables, HangsOnRow, RecordedHasReceipt, Init, SelectionInit

LEMMA StutterCInv ==
  ASSUME CInv, UNCHANGED vars
  PROVE  CInv' /\ Grow /\ Chosen
<1>1. UNCHANGED <<row, linked, ledger, lock, faults, pc, loc, mined, receipts, answered>>
  BY DEF vars, selectionVars, custodialVars
<1>2. Grow /\ Chosen
  BY <1>1 DEF Grow, Chosen, Active
<1>3. Tables'
  BY <1>1 DEF CInv, Tables, TablesTyped, Selected, Rows, Active, HangsOnRow,
              RecordedHasReceipt, Proven
<1>4. ASSUME NEW p \in Procs
      PROVE  Request(p)'
  BY <1>1 DEF CInv, Request, HasActivity, Claim, Recording, Proven
<1> QED
  BY <1>2, <1>3, <1>4 DEF CInv

LEMMA NextCInv ==
  ASSUME CInv, Next
  PROVE  CInv' /\ Grow /\ Chosen
<1>1. ASSUME NEW p \in Procs, Moves(p) \/ UNCHANGED vars
      PROVE  CInv' /\ Grow /\ Chosen
  BY <1>1, MovesGoOn, StutterCInv DEF Moves
<1>2. ASSUME NEW p \in Procs, Selecting(p)
      PROVE  CInv' /\ Grow /\ Chosen
  <2>1. CASE Select(p) /\ UNCHANGED custodialVars
    BY <1>1, <2>1, ActivateMoves, CreateMoves, CommitUnlinkMoves, BeginRecordMoves DEF Select
  <2>2. ASSUME NEW u \in Uids, Serve(p, u), UNCHANGED custodialVars
        PROVE  CInv' /\ Grow /\ Chosen
    <3>1. Externals \cup {ManagedOf[u]} \subseteq Addresses /\ Externals \subseteq Addresses
      BY DEF Addresses
    <3>2. CASE \E a \in Externals \cup {ManagedOf[u]} : ReadMode(p, u, a)
      BY <1>1, <2>2, <3>1, <3>2, ReadersMove
    <3>3. CASE \E v \in Uids, a \in Externals \cup {None} : ReadProfile(p, u, v, a)
      BY <1>1, <2>2, <3>3, ReadersMove
    <3>4. ASSUME NEW a \in Externals, NameLinked(p, u, a) \/ Link(p, u, a) \/ BeginUnlink(p, u, a)
          PROVE  CInv' /\ Grow /\ Chosen
      BY <1>1, <2>2, <3>1, <3>4, ReadersMove, LinkMoves, BeginUnlinkMoves
    <3> QED
      BY <2>2, <3>2, <3>3, <3>4 DEF Serve
  <2> QED
    BY <1>2, <2>1, <2>2 DEF Selecting
<1>3. ASSUME NEW p \in Procs, ClaimStep(p)
      PROVE  CInv' /\ Grow /\ Chosen
  <2>1. CASE RecordClaim(p)
    BY <1>1, <2>1, CommitRecordMoves DEF RecordClaim
  <2>2. CASE RecordAward(p)
    BY <1>1, <2>2, CommitRecordMoves DEF RecordAward
  <2> QED
    BY <1>1, <1>3, <2>1, <2>2, VerifyMoves, LookupMoves, DuplicateMoves, ReceiptMoves,
       AnswerMoves DEF ClaimStep
<1>4. ASSUME NEW p \in Procs, NEW u \in Uids, NEW t \in Txs \ Transfers, ResolveActive(p, u, t),
             UNCHANGED custodialVars
      PROVE  CInv' /\ Grow /\ Chosen
  BY <1>1, <1>4, ReadersMove
<1>5. ASSUME NEW p \in Procs, NEW u \in Uids, NEW a \in Externals, NEW t \in Transfers,
             NEW s \in Sessions, StartClaim(p, u, a, t, s)
      PROVE  CInv' /\ Grow /\ Chosen
  BY <1>1, <1>5, StartMoves
<1>6. ASSUME NEW p \in Procs, Crash(p), UNCHANGED custodialVars
      PROVE  CInv' /\ Grow /\ Chosen
  BY <1>1, <1>6, CrashMoves DEF Crash
<1> QED
  BY <1>2, <1>3, <1>4, <1>5, <1>6, SendGoesOn DEF Next

\* The invariant holds of every reachable state.
THEOREM SelectionInductive == Spec => []CInv
<1>1. CInv /\ [Next]_vars => CInv'
  BY NextCInv, StutterCInv
<1> QED
  BY <1>1, InitCInv, PTL DEF Spec

\* OneSelection: whatever requests linked, named, selected or removed
\* (linkLinkedWallet, linkContractId, setUserWalletMode, unlinkLinkedWallet),
\* a contract id that has rows has exactly one selected wallet.
THEOREM SelectionIsOne == Spec => []OneSelection
<1>1. CInv => OneSelection
  <2> SUFFICES ASSUME CInv, NEW u \in Uids, Rows(u) # {}
               PROVE  Cardinality(Active(u)) = 1
    BY DEF OneSelection
  <2>1. PICK a \in Addresses : Active(u) = {a}
    BY DEF CInv, Tables, Selected
  <2> QED
    BY <2>1, FS_Singleton
<1> QED
  BY <1>1, SelectionInductive, PTL

\* ClaimsAreTrue: a recorded custodial spend was mined from its wallet, has
\* its receipt and is the only one of its hash; an answered one is recorded
\* (spendEvidence, createAndStoreSpendReceipt, recordSpend).
THEOREM CustodialTruthful == Spec => []ClaimsAreTrue
<1>1. ASSUME CInv
      PROVE  TypeOK
  <2>1. ASSUME NEW p \in Procs
        PROVE  /\ pc[p] \in Holding <=> \E u \in Uids : lock[u] = p
               /\ pc[p] \in Holding => lock[loc[p].uid] = p
    <3>1. pc[p] \in Holding => loc[p].uid \in Uids
      BY <1>1, MemoryTyped DEF Holding
    <3>2. \A u \in Uids : lock[u] = p <=> pc[p] \in Holding /\ loc[p].uid = u
      BY <1>1 DEF CInv, Request
    <3> QED
      BY <3>1, <3>2
  <2>2. ASSUME NEW p \in Procs
        PROVE  /\ pc[p] = "idle" <=> loc[p] = None
               /\ pc[p] \in Claiming => loc[p].tx \in Transfers
    BY <1>1 DEF CInv, Request
  <2> QED
    BY <1>1, <2>1, <2>2 DEF TypeOK, CInv, Tables, TablesTyped, Holding, Claiming
<1>2. ASSUME CInv
      PROVE  RecordedIsPaid /\ AnsweredIsRecorded
  BY <1>2 DEF RecordedIsPaid, AnsweredIsRecorded, CInv, Tables, RecordedHasReceipt, Proven
<1> QED
  BY <1>1, <1>2, SelectionInductive, PTL DEF ClaimsAreTrue

\* ChoicesLast: no request loses a recorded movement with the users row it
\* hangs on, and once a contract id has a row its selection changes only when
\* a mode request ends with the wallet it named (setUserWalletMode) or an
\* unlink of the selected wallet with the managed one (unlinkLinkedWallet).
THEOREM ChoicesEndure == Spec => ChoicesLast
<1>1. ASSUME CInv, [Next]_vars
      PROVE  [ledger \subseteq ledger']_vars
  BY <1>1, NextCInv, StutterCInv DEF Grow
<1>2. ASSUME CInv, [Next]_vars
      PROVE  [\A u \in Uids :
                Active(u)' # Active(u) => Rows(u) = {} \/ \E p \in Procs : Chooses(p, u)]_vars
  BY <1>2, NextCInv, StutterCInv DEF Chosen
<1>3. Spec => LedgerKept
  BY <1>1, SelectionInductive, PTL DEF Spec, LedgerKept
<1>4. Spec => SelectionByRequest
  BY <1>2, SelectionInductive, PTL DEF Spec, SelectionByRequest
<1> QED
  BY <1>3, <1>4 DEF ChoicesLast
=============================================================================
