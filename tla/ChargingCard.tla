---------------------------- MODULE ChargingCard ----------------------------
(***************************************************************************)
(* The SparkzChargingCard component in a host page: it reserves a discount *)
(* for the charging session the host shows, first obtaining an approval    *)
(* from the user's wallet in custodial mode, and polls the reservation     *)
(* until its settlement can be delivered to the host.                      *)
(*                                                                         *)
(* The host may change the component's properties at any time. A render    *)
(* advances the generations at once; the effects that clear the state of a *)
(* former owner run later, so answers of old requests arrive in between.   *)
(* An owner stands for contract id and API endpoint, a session for session *)
(* and provider id. The wallet of an owner and the amount are fixed.       *)
(*                                                                         *)
(* A request captures the generations of owner and session and the number  *)
(* of the operation, and compares them later for equality only. So the     *)
(* model keeps with each request whether they are still the current ones.  *)
(***************************************************************************)
EXTENDS Integers, FiniteSets

CONSTANTS
  Owners, Sessions,
  Custodial,    \* owners whose wallet signs its own approval
  Ops,          \* spend operations in progress
  Hosts,        \* what the host may pass, see HostProps
  None,
  MaxRenders, MaxPrompts, MaxFaults

ASSUME BoundsAssumption == MaxRenders \in Nat /\ MaxPrompts \in Nat /\ MaxFaults \in Nat
ASSUME CustodialAssumption == Custodial \subseteq Owners

\* The properties a host passes: owner, session, plugged in or not, resumed
\* session. A plugged-in session is shown only with its id.
Props == [owner: Owners, session: Sessions \cup {None}, plugged: BOOLEAN, resume: Sessions \cup {None}]
HostProps == {q \in Props : q.plugged => q.session # None}

ASSUME HostsAssumption == Hosts \subseteq HostProps

Intents == Owners \X Sessions
Statuses == {"reserved", "settled", "receipted", "released"}

\* A spend operation in progress; the hash is that of its approval, or 0.
Operation ==
  [owner: Owners, session: Sessions, ownerNow: BOOLEAN, sessionNow: BOOLEAN, newest: BOOLEAN,
   point: {"await", "post", "reserved", "failed"}, hash: Nat]

\* The recorded attempt at an approval; its hash is 0 until it is sent.
Approval ==
  [status: {"fetching", "prompting", "submitted", "confirmed", "unknown"}, hash: Nat,
   owner: Owners, session: Sessions, ownerNow: BOOLEAN, sessionNow: BOOLEAN]

Context == [owner: Owners, session: Sessions, id: Intents]
PollState == [ctx: Context, ownerNow: BOOLEAN, sessionNow: BOOLEAN]
Settlement == [id: Intents, status: Statuses]

ASSUME NoneAssumption ==
  /\ None \notin Owners \cup Sessions /\ None \notin Intents /\ None \notin Statuses
  /\ None \notin Operation /\ None \notin Approval
  /\ None \notin Context /\ None \notin PollState /\ None \notin Settlement

VARIABLES
  props,      \* what the host passes
  uncleared,  \* the owner changed and the effects have not run yet
  loaded,     \* sessionContextKey: the session whose answer is loaded
  spending,   \* the spend button is disabled by an operation
  ops,        \* operations in progress
  approvals,  \* custodialApprovalEntriesRef
  track,      \* the reservation that is tracked, with its captured context
  settle,     \* the last settlement answer
  notified,   \* notifiedSettlementId
  poll,       \* the poll of the tracked reservation
  res,        \* the server's reservations
  open,       \* approvals the wallet sent that neither failed nor were used
  sent,       \* approval transactions sent so far; gives each its hash
  told,       \* told[i]: settlement callbacks for i since i was last taken up
  renders, faults

cardVars == <<props, uncleared, loaded, spending, track, settle, notified, poll, told>>
vars == <<cardVars, ops, approvals, res, open, sent, renders, faults>>

\* Mutant: a settlement without its receipt is taken for the end.
TerminalSettled(status) == status # "reserved"

\* isTerminalReservationSettlement
Terminal(status) == status \in {"receipted", "released"}

NoFault == UNCHANGED faults
Fault == faults > 0 /\ faults' = faults - 1

HasSession == props.session # None /\ props.plugged
Reservation(o, s) == <<o, s>>
-----------------------------------------------------------------------------
(* The host renders the card.                                              *)

\* A change of owner or scope advances its generation during the render, and
\* what was captured before is not current any more.
Stamped(x, new) ==
  IF x = None THEN None
  ELSE [x EXCEPT !.ownerNow = @ /\ new.owner = props.owner,
                 !.sessionNow = @ /\ new.session = props.session /\ new.owner = props.owner]

Render(new) ==
  /\ renders > 0 /\ renders' = renders - 1 /\ new # props
  /\ props' = new
  /\ ops' = [p \in Ops |-> Stamped(ops[p], new)]
  /\ approvals' = [i \in Intents |-> Stamped(approvals[i], new)]
  /\ poll' = Stamped(poll, new)
  /\ uncleared' = (uncleared \/ new.owner # props.owner)
  /\ UNCHANGED <<loaded, spending, track, settle, notified, told, res, open, sent, faults>>

\* The effects of a change of owner clear what the former owner loaded.
ClearOwner ==
  /\ uncleared /\ uncleared' = FALSE
  /\ track' = None /\ settle' = None /\ notified' = None /\ poll' = None
  /\ spending' = FALSE /\ loaded' = None
  /\ UNCHANGED <<props, told, ops, approvals, res, open, sent, renders, faults>>

\* loadSession, or its effect without a session. What was loaded for another
\* session stays, unseen, until then.
LoadSession ==
  LET now == IF HasSession THEN <<props.owner, props.session>> ELSE None IN
  /\ ~uncleared /\ loaded # now /\ loaded' = now
  /\ UNCHANGED <<props, uncleared, spending, track, settle, notified, poll, told,
                 ops, approvals, res, open, sent, renders, faults>>

Pending == track # None /\ (settle = None \/ settle.id # track.id \/ ~Terminal(settle.status))

StartTracking(ctx) ==
  /\ track' = ctx /\ settle' = None /\ notified' = None
  /\ told' = [told EXCEPT ![ctx.id] = 0]
  /\ poll' = [ctx |-> ctx, ownerNow |-> TRUE, sessionNow |-> TRUE]

\* A reservation id passed by the host resumes its poll, with the session the
\* host passes, unless another reservation is still settling.
Resume ==
  LET id == Reservation(props.owner, props.resume) IN
  /\ ~uncleared /\ props.resume # None /\ props.session # None
  /\ ~(track # None /\ track.id = id /\ track.owner = props.owner) /\ ~Pending
  /\ StartTracking([owner |-> props.owner, session |-> props.session, id |-> id])
  /\ UNCHANGED <<props, uncleared, loaded, spending, ops, approvals, res, open, sent, renders, faults>>
-----------------------------------------------------------------------------
(* Spend operations.                                                       *)

\* isSpendOwnerOperationCurrent
OwnerCurrent(op) == op.ownerNow /\ op.owner = props.owner /\ op.newest

\* isSessionGenerationCurrent and the session the host shows now.
SessionCurrent(x) ==
  HasSession /\ props.session = x.session /\ x.sessionNow

\* Mutant: the session may have changed.
RequestCurrentOwner(op) == OwnerCurrent(op)

\* isSpendRequestCurrent
RequestCurrent(op) == OwnerCurrent(op) /\ SessionCurrent(op)

\* assertApprovalContextCurrent: the token of the operation does not matter.
ApprovalCurrent(a) == a.ownerNow /\ a.owner = props.owner /\ SessionCurrent(a)

\* The operations in set failed or were stale: a current one frees the button.
Ended(set) ==
  /\ spending' = (spending /\ ~ \E p \in set : OwnerCurrent(ops[p]))
  /\ ops' = [p \in Ops |-> IF p \in set THEN None ELSE ops[p]]

\* The operations in set go on to POST /spend/me if they are still current.
Posted(set, hash) ==
  LET stale == {p \in set : ~RequestCurrent(ops[p])} IN
  /\ spending' = (spending /\ ~ \E p \in stale : OwnerCurrent(ops[p]))
  /\ ops' = [p \in Ops |-> IF p \in stale THEN None
                           ELSE IF p \in set THEN [ops[p] EXCEPT !.point = "post", !.hash = hash]
                           ELSE ops[p]]

\* Mutant: only the newest operation hears of the approval.
WaitingNewest(i) ==
  {p \in Ops : ops[p] # None /\ ops[p].point = "await" /\ <<ops[p].owner, ops[p].session>> = i
                /\ ops[p].newest}

\* The operations that await the approval promise of the intent.
Waiting(i) ==
  {p \in Ops : ops[p] # None /\ ops[p].point = "await" /\ <<ops[p].owner, ops[p].session>> = i}

\* applyDiscount: the entry of this intent decides whether the wallet is asked.
Apply(p) ==
  LET i == <<props.owner, props.session>>
      op == [owner |-> props.owner, session |-> props.session, ownerNow |-> TRUE,
             sessionNow |-> TRUE, newest |-> TRUE, point |-> "post", hash |-> 0]
      old == [q \in Ops |-> IF ops[q] = None THEN None ELSE [ops[q] EXCEPT !.newest = FALSE]]
      asks == props.owner \in Custodial
      entry == approvals[i]
  IN
  /\ ops[p] = None /\ ~uncleared /\ loaded = i /\ ~spending /\ ~Pending
  /\ \/ ~HasSession /\ ops' = old /\ UNCHANGED <<spending, approvals>>
     \/ /\ HasSession /\ ~asks /\ spending' = TRUE /\ ops' = [old EXCEPT ![p] = op] /\ UNCHANGED approvals
     \/ /\ HasSession /\ asks /\ entry = None /\ spending' = TRUE
        /\ ops' = [old EXCEPT ![p] = [op EXCEPT !.point = "await"]]
        /\ approvals' = [approvals EXCEPT ![i] =
             [status |-> "fetching", hash |-> 0, owner |-> props.owner, session |-> props.session,
              ownerNow |-> TRUE, sessionNow |-> TRUE]]
     \/ /\ HasSession /\ asks /\ entry # None /\ entry.status = "confirmed" /\ spending' = TRUE
        /\ ops' = [old EXCEPT ![p] = [op EXCEPT !.hash = entry.hash]] /\ UNCHANGED approvals
     \/ /\ HasSession /\ asks /\ entry # None /\ entry.status \in {"fetching", "prompting", "submitted"}
        /\ spending' = TRUE /\ ops' = [old EXCEPT ![p] = [op EXCEPT !.point = "await"]]
        /\ UNCHANGED approvals
     \/ /\ HasSession /\ asks /\ entry # None /\ entry.status = "unknown"
        /\ ops' = old /\ UNCHANGED <<spending, approvals>>
  /\ UNCHANGED <<props, uncleared, loaded, track, settle, notified, poll, told, res, open, sent, renders, faults>>

SetEntry(i, e) == approvals' = [approvals EXCEPT ![i] = e]

\* The approval intent is fetched, or the attempt is dropped.
FetchIntent(i) ==
  /\ approvals[i] # None /\ approvals[i].status = "fetching"
  /\ \/ /\ ApprovalCurrent(approvals[i]) /\ NoFault
        /\ SetEntry(i, [approvals[i] EXCEPT !.status = "prompting"]) /\ UNCHANGED <<ops, spending>>
     \/ ~ApprovalCurrent(approvals[i]) /\ NoFault /\ SetEntry(i, None) /\ Ended(Waiting(i))
     \/ Fault /\ SetEntry(i, None) /\ Ended(Waiting(i))
  /\ UNCHANGED <<props, uncleared, loaded, track, settle, notified, poll, told, res, open, sent, renders>>

\* Mutant: an approval of unknown outcome is forgotten.
Forgotten(e) == None

\* The attempt stays recorded, so that no second one is made.
Unknown(e) == [e EXCEPT !.status = "unknown"]

\* eth_sendTransaction: the user signs or declines; a failure tells nothing.
WalletAnswers(i) ==
  /\ approvals[i] # None /\ approvals[i].status = "prompting" /\ sent < MaxPrompts
  /\ \/ /\ sent' = sent + 1 /\ open' = [open EXCEPT ![i] = @ + 1] /\ NoFault
        /\ SetEntry(i, [approvals[i] EXCEPT !.status = "submitted", !.hash = sent + 1])
        /\ UNCHANGED <<ops, spending>>
     \/ /\ SetEntry(i, None) /\ Ended(Waiting(i)) /\ NoFault /\ UNCHANGED <<sent, open>>
     \/ /\ SetEntry(i, Unknown(approvals[i])) /\ Ended(Waiting(i)) /\ Fault
        /\ \/ sent' = sent + 1 /\ open' = [open EXCEPT ![i] = @ + 1]
           \/ UNCHANGED <<sent, open>>
  /\ UNCHANGED <<props, uncleared, loaded, track, settle, notified, poll, told, res, renders>>

\* waitForTransaction
ApprovalMined(i) ==
  /\ approvals[i] # None /\ approvals[i].status = "submitted"
  /\ \/ /\ SetEntry(i, [approvals[i] EXCEPT !.status = "confirmed"])
        /\ Posted(Waiting(i), approvals[i].hash) /\ NoFault /\ UNCHANGED open
     \/ /\ SetEntry(i, None) /\ open' = [open EXCEPT ![i] = @ - 1]
        /\ Ended(Waiting(i)) /\ NoFault
     \/ /\ SetEntry(i, Unknown(approvals[i]))
        /\ Ended(Waiting(i)) /\ Fault /\ UNCHANGED open
  /\ UNCHANGED <<props, uncleared, loaded, track, settle, notified, poll, told, res, sent, renders>>

\* The server finds or creates the session's reservation; its answer may be
\* lost, or tell of a failure.
Reserve(p) ==
  LET id == Reservation(ops[p].owner, ops[p].session)
      made == [res EXCEPT ![id] = IF @ = None THEN "reserved" ELSE @]
  IN
  /\ ops[p] # None /\ ops[p].point = "post"
  /\ \/ res' = made /\ ops' = [ops EXCEPT ![p].point = "reserved"] /\ NoFault
     \/ res' \in {res, made} /\ ops' = [ops EXCEPT ![p].point = "failed"] /\ Fault
  /\ UNCHANGED <<cardVars, approvals, open, sent, renders>>

\* The approval of this operation has served its purpose.
UsesApproval(op, entry) == entry # None /\ entry.hash = op.hash /\ entry.hash # 0

\* Mutant: every answer starts tracking.
RetainAlways(op) == TRUE

\* isReservationRetentionCurrent: a closed session does not matter.
Retained(op) == OwnerCurrent(op)

\* A reservation is tracked under the owner that is still shown.
Receive(p) ==
  LET op == ops[p]  i == <<op.owner, op.session>> IN
  /\ op # None /\ op.point = "reserved"
  /\ IF UsesApproval(op, approvals[i])
       THEN SetEntry(i, None) /\ open' = [open EXCEPT ![i] = IF op.hash = 0 THEN @ ELSE @ - 1]
       ELSE UNCHANGED <<approvals, open>>
  /\ IF Retained(op)
       THEN StartTracking([owner |-> op.owner, session |-> op.session, id |-> i])
       ELSE UNCHANGED <<track, settle, notified, poll, told>>
  /\ Ended({p})
  /\ UNCHANGED <<props, uncleared, loaded, res, sent, renders, faults>>

ReceiveFailure(p) ==
  /\ ops[p] # None /\ ops[p].point = "failed" /\ Ended({p})
  /\ UNCHANGED <<props, uncleared, loaded, track, settle, notified, poll, told,
                 approvals, res, open, sent, renders, faults>>
-----------------------------------------------------------------------------
(* Polling.                                                                *)

\* matchesReservationContext: the answer is for the captured session.
Matches(ctx) == ctx.id = Reservation(ctx.owner, ctx.session)


\* Mutant: an answer is taken whoever the owner is now.
PollAnyOwner == TRUE

\* isPollingCurrent: a session that closes does not matter.
PollCurrent == poll.ownerNow

\* An answer for a poll that is no longer current is ignored. A mismatch, or
\* a terminal answer, ends the poll; anything else is asked again. A resumed
\* id that the server does not know is answered with an error.
PollAnswer ==
  LET ctx == poll.ctx  status == res[ctx.id] IN
  /\ poll # None
  /\ IF ~PollCurrent THEN poll' = None /\ UNCHANGED <<settle, notified, told>>
     ELSE IF status = None THEN UNCHANGED <<poll, settle, notified, told>>
     ELSE IF ~Matches(ctx) THEN poll' = None /\ UNCHANGED <<settle, notified, told>>
     ELSE /\ settle' = [id |-> ctx.id, status |-> status]
          /\ poll' = IF Terminal(status) THEN None ELSE poll
          /\ IF Terminal(status) /\ notified # ctx.id
               THEN notified' = ctx.id /\ told' = [told EXCEPT ![ctx.id] = @ + 1]
               ELSE UNCHANGED <<notified, told>>
  /\ UNCHANGED <<props, uncleared, loaded, spending, track, ops, approvals, res, open, sent, renders, faults>>

\* The final CDR is processed at the server: released, or settled with its
\* receipt stored then or later.
Settle(id) ==
  /\ \/ res[id] = "reserved" /\ res' \in {[res EXCEPT ![id] = s] : s \in Statuses \ {"reserved"}}
     \/ res[id] = "settled" /\ res' = [res EXCEPT ![id] = "receipted"]
  /\ UNCHANGED <<cardVars, ops, approvals, open, sent, renders, faults>>
-----------------------------------------------------------------------------
Init ==
  /\ props \in Hosts
  /\ uncleared = FALSE /\ loaded = None /\ spending = FALSE
  /\ ops = [p \in Ops |-> None]
  /\ approvals = [i \in Intents |-> None]
  /\ track = None /\ settle = None /\ notified = None /\ poll = None
  /\ told = [i \in Intents |-> 0]
  /\ res = [i \in Intents |-> None]
  /\ open = [i \in Intents |-> 0] /\ sent = 0
  /\ renders = MaxRenders /\ faults = MaxFaults

Next ==
  \/ \E new \in Hosts : Render(new)
  \/ ClearOwner \/ LoadSession \/ Resume \/ PollAnswer
  \/ \E p \in Ops : Apply(p) \/ Reserve(p) \/ Receive(p) \/ ReceiveFailure(p)
  \/ \E i \in Intents : FetchIntent(i) \/ WalletAnswers(i) \/ ApprovalMined(i) \/ Settle(i)

Spec == Init /\ [][Next]_vars

\* Effects run, the poll's timer fires and the CDR of a session arrives.
FairSpec ==
  Spec /\ WF_vars(ClearOwner) /\ WF_vars(PollAnswer) /\ \A i \in Intents : WF_vars(Settle(i))
-----------------------------------------------------------------------------
TypeOK ==
  /\ props \in Hosts
  /\ uncleared \in BOOLEAN /\ loaded \in Intents \cup {None} /\ spending \in BOOLEAN
  /\ ops \in [Ops -> Operation \cup {None}]
  /\ \A p \in Ops : ops[p] # None =>
       /\ ops[p].hash <= sent
       /\ ops[p].point = "await" => approvals[<<ops[p].owner, ops[p].session>>] # None
  /\ approvals \in [Intents -> Approval \cup {None}]
  /\ track \in Context \cup {None} /\ notified \in Intents \cup {None}
  /\ settle \in Settlement \cup {None} /\ poll \in PollState \cup {None}
  /\ res \in [Intents -> Statuses \cup {None}]
  /\ open \in [Intents -> 0..MaxPrompts] /\ sent \in 0..MaxPrompts
  /\ renders \in 0..MaxRenders /\ faults \in 0..MaxFaults

\* The wallet is never asked for a second approval of an intent while an
\* earlier one is unanswered, unknown or unused, however often the card is
\* submitted or changes hands meanwhile.
OneOpenApproval == \A i \in Intents : open[i] <= 1

\* Once its effects have run, the card tracks and shows reservations of the
\* present owner only, whatever requests of a former owner are answered.
TrackingIsOwners ==
  ~uncleared => /\ track # None => track.owner = props.owner
                /\ settle # None => track # None /\ settle.id = track.id

\* The host is told of a settlement at most once for each time its
\* reservation is taken up, and only once it is released or has its receipt.
\* A reservation that is resumed or applied for again is told again.
ToldOnce ==
  \A i \in Intents : told[i] <= 1 /\ (told[i] = 1 => res[i] \in {"receipted", "released"})

\* The host hears only of reservations of the owner it shows at that moment,
\* also before the effects of a change of owner have run.
ToldTheOwner == [][\A i \in Intents : told'[i] > told[i] => i[1] = props.owner]_vars

\* A reservation is requested only for the session and owner the host shows at
\* that moment, even when the wallet's approval took its time.
RequestsAreCurrent ==
  [][\A p \in Ops :
       (ops'[p] # None /\ ops'[p].point = "post" /\ (ops[p] = None \/ ops[p].point = "await")) =>
         /\ ops'[p].owner = props.owner /\ ops'[p].session = props.session
         /\ HasSession]_vars

\* A reservation that is still settling is given up for a change of owner, or
\* for the reservation of an operation that was under way already; never for
\* one that the host resumes or the user applies for next.
SettlingIsKept ==
  [][(Pending /\ track' # track) =>
       \/ uncleared /\ track' = None
       \/ \E p \in Ops : /\ ops[p] # None /\ ops[p].point = "reserved" /\ ops'[p] = None
                         /\ track'.id = <<ops[p].owner, ops[p].session>>]_vars

\* A reservation that is tracked with its own session is eventually told to
\* the host itself, whatever sessions close and open meanwhile, unless it is
\* given up as above.
SettlementIsTold ==
  \A i \in Intents :
    (track # None /\ track.id = i /\ Matches(track) /\ res[i] # None /\ told[i] = 0) ~>
      (told[i] = 1 \/ track = None \/ track.id # i)

\* The card tracks the present owner's reservations, and tells the host of
\* these only, each once.
CardIsCurrent == [](TypeOK /\ TrackingIsOwners /\ ToldOnce) /\ ToldTheOwner

=============================================================================
