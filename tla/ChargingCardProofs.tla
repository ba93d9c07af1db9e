------------------------- MODULE ChargingCardProofs -------------------------
(***************************************************************************)
(* The charging card asks a wallet for one approval at a time, requests a  *)
(* reservation only for the owner and session on display, tracks the       *)
(* present owner's reservations and tells the host of these only.          *)
(*                                                                         *)
(* The approvals hold because the recorded attempt says what the wallet    *)
(* may have been asked (EntrySound), and because an operation relies on an *)
(* attempt only while it is alive and on its hash only once it is          *)
(* confirmed (OpSound). A settlement is told once for each time its        *)
(* reservation is taken up because the card knows whether it told what it  *)
(* tracks, and to its owner because a poll that is still current is the    *)
(* present owner's (Tracks).                                               *)
(*                                                                         *)
(* The second half is about the other thing that tells people what became  *)
(* of a payment, the admin alerts: the log says what the providers saw,    *)
(* messages go where the settings send them, and changes of the settings   *)
(* do not undo each other.                                                 *)
(***************************************************************************)
EXTENDS ChargingCard, AdminAlerts, SequenceTheorems, TLAPS

-----------------------------------------------------------------------------
(* The invariant.                                                          *)

Alive == {"fetching", "prompting", "submitted"}

\* How many approvals of an intent the wallet may have open, by its attempt.
MayBeOpen(e) ==
  IF e = None THEN {0}
  ELSE IF e.status \in {"fetching", "prompting"} THEN {0}
  ELSE IF e.status = "unknown" THEN {0, 1}
  ELSE {1}

EntrySound(e, n, s) ==
  /\ e # None => e \in Approval /\ e.hash <= s
  /\ n \in MayBeOpen(e) /\ n <= s

\* What an operation may rely on, given the attempt recorded for its intent.
OpSound(x, e, s) ==
  /\ x \in Operation /\ x.hash <= s
  /\ x.point = "await" => e # None /\ e.status \in Alive
  /\ x.hash # 0 /\ e # None /\ e.hash = x.hash => e.status = "confirmed"

Of(x) == <<x.owner, x.session>>

\* The tables are functions of the right domain.
TablesTyped ==
  /\ DOMAIN ops = Ops /\ ops = [p \in Ops |-> ops[p]]
  /\ approvals = [i \in Intents |-> approvals[i]]
  /\ open = [i \in Intents |-> open[i]]

Requests == \A p \in Ops : ops[p] # None => OpSound(ops[p], approvals[Of(ops[p])], sent)
Attempts == \A i \in Intents : EntrySound(approvals[i], open[i], sent)

Approving == TablesTyped /\ sent \in 0 .. MaxPrompts /\ Requests /\ Attempts

CardTyped ==
  /\ props \in Hosts
  /\ uncleared \in BOOLEAN /\ loaded \in Intents \cup {None} /\ spending \in BOOLEAN
  /\ track \in Context \cup {None} /\ notified \in Intents \cup {None}
  /\ settle \in Settlement \cup {None} /\ poll \in PollState \cup {None}
  /\ res \in [Intents -> Statuses \cup {None}]
  /\ renders \in 0 .. MaxRenders /\ faults \in 0 .. MaxFaults

\* The poll is for what is tracked, and while it is current for the present
\* owner; what was told of is settled for good, and if it is still tracked the
\* card knows.
Tracks ==
  /\ poll # None => poll.ctx = track /\ (poll.ownerNow => poll.ctx.owner = props.owner)
  /\ settle # None => track # None /\ settle.id = track.id
  /\ notified # None => track # None /\ notified = track.id
  /\ track # None /\ told[track.id] = 1 => notified = track.id
  /\ told \in [Intents -> {0, 1}]
  /\ \A i \in Intents : told[i] = 1 => res[i] \in {"receipted", "released"}

CInv == Approving /\ CardTyped /\ TrackingIsOwners /\ Tracks
-----------------------------------------------------------------------------
(* What the tables' steps do.                                              *)

\* No operation begins or moves; some may end.
OpsFollow ==
  /\ ops' = [p \in Ops |-> ops'[p]]
  /\ \A p \in Ops : ops'[p] # None =>
       /\ ops[p] # None /\ ops'[p] \in Operation
       /\ ops'[p].owner = ops[p].owner /\ ops'[p].session = ops[p].session
       /\ ops'[p].point = ops[p].point /\ ops'[p].hash = ops[p].hash

\* A render only marks what is not current any more.
LEMMA StampedOp ==
  ASSUME NEW x \in Operation, NEW new \in HostProps
  PROVE  LET y == Stamped(x, new) IN
         /\ y \in Operation /\ y # None
         /\ y.owner = x.owner /\ y.session = x.session /\ y.point = x.point /\ y.hash = x.hash
BY NoneAssumption DEF Stamped, Operation

LEMMA StampedEntry ==
  ASSUME NEW x \in Approval, NEW new \in HostProps
  PROVE  LET y == Stamped(x, new) IN
         y \in Approval /\ y # None /\ y.status = x.status /\ y.hash = x.hash
BY NoneAssumption DEF Stamped, Approval

LEMMA StampedPoll ==
  ASSUME NEW x \in PollState, NEW new \in HostProps
  PROVE  LET y == Stamped(x, new) IN
         /\ y \in PollState /\ y # None /\ y.ctx = x.ctx
         /\ y.ownerNow => x.ownerNow /\ new.owner = props.owner
BY NoneAssumption DEF Stamped, PollState

\* Operations that end leave the others as they were.
LEMMA EndedFollows ==
  ASSUME Approving, NEW set \in SUBSET Ops, Ended(set)
  PROVE  OpsFollow /\ \A p \in set : ops'[p] = None
BY DEF Approving, Requests, OpSound, Ended, OpsFollow

\* Where operations only follow, what they rely on must only stay recorded.
LEMMA RequestsFollow ==
  ASSUME Approving, OpsFollow, sent' >= sent, sent' \in Nat,
         \A p \in Ops : ops'[p] # None =>
            OpSound(ops[p], approvals'[Of(ops[p])], sent')
  PROVE  Requests'
<1> SUFFICES ASSUME NEW p \in Ops, ops'[p] # None
             PROVE  OpSound(ops'[p], approvals'[Of(ops'[p])], sent')
  BY DEF Requests
<1>1. Of(ops'[p]) = Of(ops[p])
  BY DEF OpsFollow, Of
<1> QED
  BY <1>1 DEF OpsFollow, OpSound

LEMMA OfIntent ==
  ASSUME NEW x \in Operation
  PROVE  Of(x) \in Intents
BY DEF Of, Operation, Intents

\* An attempt is recorded anew, and its intent's approvals with it.
LEMMA AttemptsSet ==
  ASSUME Approving, NEW i \in Intents, NEW e, SetEntry(i, e),
         NEW n \in Nat, open' = [open EXCEPT ![i] = n],
         sent' \in 0 .. MaxPrompts, sent' >= sent, EntrySound(e, n, sent')
  PROVE  Attempts' /\ approvals' = [j \in Intents |-> approvals'[j]] /\ open' = [j \in Intents |-> open'[j]]
<1>1. /\ approvals' = [j \in Intents |-> IF j = i THEN e ELSE approvals[j]]
      /\ open' = [j \in Intents |-> IF j = i THEN n ELSE open[j]]
  BY DEF Approving, TablesTyped, SetEntry
<1>2. ASSUME NEW j \in Intents
      PROVE  EntrySound(approvals'[j], open'[j], sent')
  <2>1. CASE j = i
    BY <1>1, <2>1
  <2>2. CASE j # i
    <3>1. EntrySound(approvals[j], open[j], sent) /\ approvals'[j] = approvals[j] /\ open'[j] = open[j]
      BY <1>1, <2>2 DEF Approving, Attempts
    <3>2. approvals[j] # None => approvals[j].hash \in Nat
      BY <3>1 DEF EntrySound, Approval
    <3>3. open[j] \in Nat
      BY <3>1 DEF EntrySound, MayBeOpen
    <3> QED
      BY <3>1, <3>2, <3>3, BoundsAssumption DEF EntrySound, MayBeOpen, Approving
  <2> QED
    BY <2>1, <2>2
<1> QED
  BY <1>1, <1>2 DEF Attempts

\* Operations follow while an attempt is recorded anew: those of its intent
\* that go on may rely on it.
LEMMA RequestsSet ==
  ASSUME Approving, NEW i \in Intents, NEW e, SetEntry(i, e), OpsFollow,
         sent' \in 0 .. MaxPrompts, sent' >= sent,
         \A p \in Ops : ops'[p] # None /\ Of(ops[p]) = i =>
           /\ ops[p].point = "await" => e # None /\ e.status \in Alive
           /\ ops[p].hash # 0 /\ e # None /\ e.hash = ops[p].hash => e.status = "confirmed"
  PROVE  Requests'
<1>1. ASSUME NEW p \in Ops, ops'[p] # None
      PROVE  OpSound(ops[p], approvals'[Of(ops[p])], sent')
  <2>1. OpSound(ops[p], approvals[Of(ops[p])], sent) /\ ops[p] \in Operation /\ ops[p].hash \in Nat
    BY <1>1 DEF OpsFollow, Approving, Requests, OpSound, Operation
  <2>2. Of(ops[p]) \in Intents
    BY <2>1, OfIntent
  <2>3. ops[p].hash <= sent'
    BY <2>1, BoundsAssumption DEF OpSound, Approving
  <2>4. CASE Of(ops[p]) = i
    <3>1. approvals'[i] = e
      BY DEF Approving, TablesTyped, SetEntry
    <3> QED
      BY <1>1, <2>1, <2>3, <2>4, <3>1 DEF OpSound
  <2>5. CASE Of(ops[p]) # i
    <3>1. approvals'[Of(ops[p])] = approvals[Of(ops[p])]
      BY <2>2, <2>5 DEF Approving, TablesTyped, SetEntry
    <3> QED
      BY <2>1, <2>3, <3>1 DEF OpSound
  <2> QED
    BY <2>4, <2>5
<1> QED
  BY <1>1, RequestsFollow, BoundsAssumption DEF Approving

\* What is recorded of a wallet, the requests' part of a step.
LEMMA Recorded ==
  ASSUME Requests', Attempts', OpsFollow, sent' \in 0 .. MaxPrompts,
         approvals' = [j \in Intents |-> approvals'[j]], open' = [j \in Intents |-> open'[j]]
  PROVE  Approving'
<1>1. DOMAIN ops' = Ops
  BY DEF OpsFollow
<1> QED
  BY <1>1 DEF Approving, TablesTyped, OpsFollow

\* Nothing the approvals depend on is written.
LEMMA NothingAsked ==
  ASSUME Approving, UNCHANGED <<approvals, open, sent>>, OpsFollow
  PROVE  Approving'
<1>1. sent' >= sent /\ sent' \in Nat
  BY BoundsAssumption DEF Approving
<1>2. Requests'
  BY <1>1, RequestsFollow DEF Approving, Requests, OpsFollow
<1>3. Attempts'
  BY DEF Approving, Attempts
<1> QED
  BY <1>2, <1>3, Recorded DEF Approving, TablesTyped
-----------------------------------------------------------------------------
(* The approvals, step by step.                                            *)

LEMMA RenderAsksNothing ==
  ASSUME Approving, NEW new \in Hosts, Render(new)
  PROVE  Approving'
<1>1. ops' = [p \in Ops |-> Stamped(ops[p], new)] /\ approvals' = [i \in Intents |-> Stamped(approvals[i], new)]
      /\ UNCHANGED <<open, sent>>
  BY DEF Render
<1>2. OpsFollow
  <2>1. ASSUME NEW p \in Ops, ops'[p] # None
        PROVE  /\ ops[p] # None /\ ops'[p] \in Operation
               /\ ops'[p].owner = ops[p].owner /\ ops'[p].session = ops[p].session
               /\ ops'[p].point = ops[p].point /\ ops'[p].hash = ops[p].hash
    <3>1. ops[p] # None
      BY <1>1, <2>1 DEF Stamped
    <3>2. ops[p] \in Operation
      BY <3>1 DEF Approving, Requests, OpSound
    <3> QED
      BY <1>1, <3>1, <3>2, StampedOp, HostsAssumption
  <2> QED
    BY <1>1, <2>1 DEF OpsFollow
<1>3. ASSUME NEW i \in Intents
      PROVE  IF approvals[i] = None THEN approvals'[i] = None
             ELSE /\ approvals'[i] # None /\ approvals'[i] \in Approval
                  /\ approvals'[i].status = approvals[i].status /\ approvals'[i].hash = approvals[i].hash
  <2>1. CASE approvals[i] = None
    BY <1>1, <2>1 DEF Stamped
  <2>2. CASE approvals[i] # None
    <3>1. approvals[i] \in Approval
      BY <2>2 DEF Approving, Attempts, EntrySound
    <3> QED
      BY <1>1, <2>2, <3>1, StampedEntry, HostsAssumption
  <2> QED
    BY <2>1, <2>2
<1>4. Attempts'
  BY <1>1, <1>3 DEF Approving, Attempts, EntrySound, MayBeOpen
<1>5. ASSUME NEW p \in Ops, ops'[p] # None
      PROVE  OpSound(ops[p], approvals'[Of(ops[p])], sent')
  <2>1. OpSound(ops[p], approvals[Of(ops[p])], sent) /\ ops[p] \in Operation
    BY <1>2, <1>5 DEF OpsFollow, Approving, Requests, OpSound
  <2>2. Of(ops[p]) \in Intents
    BY <2>1, OfIntent
  <2> QED
    BY <1>1, <1>3, <2>1, <2>2 DEF OpSound
<1>6. Requests'
  BY <1>1, <1>2, <1>5, RequestsFollow, BoundsAssumption DEF Approving
<1>7. approvals' = [j \in Intents |-> approvals'[j]]
  BY <1>1
<1>8. open' = [j \in Intents |-> open'[j]] /\ sent' \in 0 .. MaxPrompts
  BY <1>1 DEF Approving, TablesTyped
<1> QED
  BY <1>2, <1>4, <1>6, <1>7, <1>8, Recorded

\* The operations that go on when those that await an attempt end.
LEMMA WaitingEnd ==
  ASSUME Approving, NEW i \in Intents, Ended(Waiting(i))
  PROVE  OpsFollow /\ \A p \in Ops : ops'[p] # None /\ Of(ops[p]) = i => ops[p].point # "await"
<1>1. Waiting(i) \in SUBSET Ops
  BY DEF Waiting
<1>2. OpsFollow /\ \A p \in Waiting(i) : ops'[p] = None
  BY <1>1, EndedFollows
<1> QED
  BY <1>2 DEF OpsFollow, Waiting, Of

\* No operation has the hash of an attempt that is not confirmed.
LEMMA NotYetHeld ==
  ASSUME Approving, NEW i \in Intents, NEW p \in Ops, ops[p] # None, Of(ops[p]) = i,
         approvals[i] # None, approvals[i].status # "confirmed", ops[p].hash # 0
  PROVE  approvals[i].hash # ops[p].hash
BY DEF Approving, Requests, OpSound

\* The attempt is dropped, and those that await it end.
LEMMA AttemptDropped ==
  ASSUME Approving, NEW i \in Intents, SetEntry(i, None), Ended(Waiting(i)),
         UNCHANGED sent, open' = [open EXCEPT ![i] = 0]
  PROVE  Approving'
<1>1. OpsFollow /\ \A p \in Ops : ops'[p] # None /\ Of(ops[p]) = i => ops[p].point # "await"
  BY WaitingEnd
<1>2. sent' \in 0 .. MaxPrompts /\ sent' >= sent /\ EntrySound(None, 0, sent')
  BY BoundsAssumption DEF Approving, EntrySound, MayBeOpen
<1>3. Requests'
  BY <1>1, <1>2, RequestsSet
<1>4. Attempts' /\ approvals' = [j \in Intents |-> approvals'[j]] /\ open' = [j \in Intents |-> open'[j]]
  BY <1>2, AttemptsSet
<1> QED
  BY <1>1, <1>2, <1>3, <1>4, Recorded

LEMMA FetchIntentAsksNothing ==
  ASSUME Approving, NEW i \in Intents, FetchIntent(i)
  PROVE  Approving'
<1>1. approvals[i] \in Approval /\ approvals[i].status = "fetching" /\ approvals[i] # None
      /\ open[i] = 0 /\ sent \in Nat /\ EntrySound(approvals[i], 0, sent)
  BY BoundsAssumption DEF Approving, Attempts, EntrySound, FetchIntent, MayBeOpen
<1>2. open' = [open EXCEPT ![i] = 0] /\ UNCHANGED <<open, sent>>
  BY <1>1 DEF FetchIntent, Approving, TablesTyped
<1>3. CASE SetEntry(i, None) /\ Ended(Waiting(i))
  BY <1>2, <1>3, AttemptDropped
<1>4. CASE SetEntry(i, [approvals[i] EXCEPT !.status = "prompting"]) /\ UNCHANGED ops
  <2> DEFINE e == [approvals[i] EXCEPT !.status = "prompting"]
  <2>1. e \in Approval /\ e # None /\ e.status = "prompting" /\ e.hash = approvals[i].hash
    BY <1>1, NoneAssumption DEF Approval
  <2>2. EntrySound(e, 0, sent') /\ sent' \in 0 .. MaxPrompts /\ sent' >= sent
    BY <1>1, <1>2, <2>1, BoundsAssumption DEF EntrySound, MayBeOpen, Approving
  <2>3. OpsFollow
    BY <1>4 DEF OpsFollow, Approving, TablesTyped, Requests, OpSound
  <2>4. \A p \in Ops : ops'[p] # None /\ Of(ops[p]) = i =>
           /\ ops[p].point = "await" => e # None /\ e.status \in Alive
           /\ ops[p].hash # 0 /\ e # None /\ e.hash = ops[p].hash => e.status = "confirmed"
    BY <1>1, <1>4, <2>1, NotYetHeld DEF Alive
  <2>5. SetEntry(i, e)
    BY <1>4
  <2> HIDE DEF e
  <2>6. Requests'
    BY <2>2, <2>3, <2>4, <2>5, RequestsSet
  <2>7. Attempts' /\ approvals' = [j \in Intents |-> approvals'[j]] /\ open' = [j \in Intents |-> open'[j]]
    BY <1>2, <2>2, <2>5, AttemptsSet
  <2> QED
    BY <2>2, <2>3, <2>6, <2>7, Recorded
<1> QED
  BY <1>3, <1>4 DEF FetchIntent

\* An attempt of unknown outcome stays recorded; those that await it end.
LEMMA AttemptUnknown ==
  ASSUME Approving, NEW i \in Intents, approvals[i] # None, approvals[i].status \in {"prompting", "submitted"},
         SetEntry(i, Unknown(approvals[i])), Ended(Waiting(i)),
         NEW n \in {0, 1}, open' = [open EXCEPT ![i] = n], n <= sent',
         sent' \in 0 .. MaxPrompts, sent' >= sent
  PROVE  Approving'
<1> DEFINE e == Unknown(approvals[i])
<1>1. approvals[i] \in Approval /\ approvals[i].hash \in Nat /\ approvals[i].hash <= sent
  BY DEF Approving, Attempts, EntrySound, Approval
<1>2. e \in Approval /\ e # None /\ e.status = "unknown" /\ e.hash = approvals[i].hash
  BY <1>1, NoneAssumption DEF Approval, Unknown
<1>3. EntrySound(e, n, sent')
  BY <1>1, <1>2, BoundsAssumption DEF EntrySound, MayBeOpen, Approving
<1>4. OpsFollow /\ \A p \in Ops : ops'[p] # None /\ Of(ops[p]) = i => ops[p].point # "await"
  BY WaitingEnd
<1>5. \A p \in Ops : ops'[p] # None /\ Of(ops[p]) = i =>
         /\ ops[p].point = "await" => e # None /\ e.status \in Alive
         /\ ops[p].hash # 0 /\ e # None /\ e.hash = ops[p].hash => e.status = "confirmed"
  BY <1>2, <1>4, NotYetHeld DEF OpsFollow
<1>6. SetEntry(i, e)
  OBVIOUS
<1> HIDE DEF e
<1>7. Requests'
  BY <1>4, <1>5, <1>6, RequestsSet
<1>8. Attempts' /\ approvals' = [j \in Intents |-> approvals'[j]] /\ open' = [j \in Intents |-> open'[j]]
  BY <1>3, <1>6, AttemptsSet
<1> QED
  BY <1>4, <1>7, <1>8, Recorded

LEMMA WalletAsksOnce ==
  ASSUME Approving, NEW i \in Intents, WalletAnswers(i)
  PROVE  Approving'
<1>1. /\ approvals[i] # None /\ approvals[i] \in Approval /\ approvals[i].status = "prompting"
      /\ open[i] = 0 /\ sent \in Nat /\ sent < MaxPrompts /\ MaxPrompts \in Nat
      /\ approvals[i].hash \in Nat /\ approvals[i].hash <= sent
  BY BoundsAssumption DEF Approving, Attempts, EntrySound, WalletAnswers, MayBeOpen, Approval
<1>2. open = [open EXCEPT ![i] = 0] /\ [open EXCEPT ![i] = @ + 1] = [open EXCEPT ![i] = 1]
  BY <1>1 DEF Approving, TablesTyped
<1>3. CASE /\ sent' = sent + 1 /\ open' = [open EXCEPT ![i] = @ + 1]
           /\ SetEntry(i, [approvals[i] EXCEPT !.status = "submitted", !.hash = sent + 1])
           /\ UNCHANGED ops
  <2> DEFINE e == [approvals[i] EXCEPT !.status = "submitted", !.hash = sent + 1]
  <2>1. e \in Approval /\ e # None /\ e.status = "submitted" /\ e.hash = sent + 1
    <3>1. \A h \in Nat : LET x == [approvals[i] EXCEPT !.status = "submitted", !.hash = h] IN
            x \in Approval /\ x.status = "submitted" /\ x.hash = h
      BY <1>1 DEF Approval
    <3>2. sent + 1 \in Nat
      BY <1>1
    <3> QED
      BY <3>1, <3>2, NoneAssumption
  <2>2. EntrySound(e, 1, sent') /\ sent' \in 0 .. MaxPrompts /\ sent' >= sent
    BY <1>1, <1>3, <2>1 DEF EntrySound, MayBeOpen
  <2>3. OpsFollow
    BY <1>3 DEF OpsFollow, Approving, TablesTyped, Requests, OpSound
  <2>4. \A p \in Ops : ops'[p] # None /\ Of(ops[p]) = i =>
           /\ ops[p].point = "await" => e # None /\ e.status \in Alive
           /\ ops[p].hash # 0 /\ e # None /\ e.hash = ops[p].hash => e.status = "confirmed"
    <3>1. \A p \in Ops : ops'[p] # None => ops[p].hash \in Nat /\ ops[p].hash <= sent
      BY <1>3 DEF Approving, Requests, OpSound, Operation
    <3> QED
      BY <1>1, <2>1, <3>1 DEF Alive
  <2>5. SetEntry(i, e)
    BY <1>3
  <2> HIDE DEF e
  <2>6. Requests'
    BY <2>2, <2>3, <2>4, <2>5, RequestsSet
  <2>7. open' = [open EXCEPT ![i] = 1]
    BY <1>2, <1>3
  <2>8. Attempts' /\ approvals' = [j \in Intents |-> approvals'[j]] /\ open' = [j \in Intents |-> open'[j]]
    BY <2>2, <2>5, <2>7, AttemptsSet
  <2> QED
    BY <2>2, <2>3, <2>6, <2>8, Recorded
<1>4. CASE SetEntry(i, None) /\ Ended(Waiting(i)) /\ UNCHANGED <<sent, open>>
  BY <1>2, <1>4, AttemptDropped
<1>5. CASE /\ SetEntry(i, Unknown(approvals[i])) /\ Ended(Waiting(i))
           /\ \/ sent' = sent + 1 /\ open' = [open EXCEPT ![i] = @ + 1]
              \/ UNCHANGED <<sent, open>>
  <2>1. CASE sent' = sent + 1 /\ open' = [open EXCEPT ![i] = @ + 1]
    <3>1. open' = [open EXCEPT ![i] = 1] /\ 1 <= sent' /\ sent' \in 0 .. MaxPrompts /\ sent' >= sent
      BY <1>1, <1>2, <2>1
    <3> QED
      BY <1>1, <1>5, <3>1, AttemptUnknown
  <2>2. CASE UNCHANGED <<sent, open>>
    <3>1. open' = [open EXCEPT ![i] = 0] /\ 0 <= sent' /\ sent' \in 0 .. MaxPrompts /\ sent' >= sent
      BY <1>1, <1>2, <2>2
    <3> QED
      BY <1>1, <1>5, <3>1, AttemptUnknown
  <2> QED
    BY <1>5, <2>1, <2>2
<1> QED
  BY <1>3, <1>4, <1>5 DEF WalletAnswers

LEMMA MiningAsksNothing ==
  ASSUME Approving, NEW i \in Intents, ApprovalMined(i)
  PROVE  Approving'
<1>1. /\ approvals[i] # None /\ approvals[i] \in Approval /\ approvals[i].status = "submitted"
      /\ open[i] = 1 /\ 1 <= sent /\ sent \in 0 .. MaxPrompts /\ sent' = sent /\ sent \in Nat
      /\ approvals[i].hash \in Nat /\ approvals[i].hash <= sent
  BY BoundsAssumption DEF Approving, Attempts, EntrySound, ApprovalMined, MayBeOpen, Approval
<1>2. open = [open EXCEPT ![i] = 1] /\ [open EXCEPT ![i] = @ - 1] = [open EXCEPT ![i] = 0]
  BY <1>1 DEF Approving, TablesTyped
<1>3. CASE /\ SetEntry(i, [approvals[i] EXCEPT !.status = "confirmed"])
           /\ Posted(Waiting(i), approvals[i].hash) /\ UNCHANGED open
  <2> DEFINE e == [approvals[i] EXCEPT !.status = "confirmed"]
             h == approvals[i].hash
  <2>1. e \in Approval /\ e # None /\ e.status = "confirmed" /\ e.hash = h
    BY <1>1, NoneAssumption DEF Approval
  <2>2. EntrySound(e, 1, sent') /\ sent' >= sent
    BY <1>1, <2>1 DEF EntrySound, MayBeOpen
  <2>3. SetEntry(i, e) /\ open' = [open EXCEPT ![i] = 1]
    BY <1>2, <1>3
  <2>4. Attempts' /\ approvals' = [j \in Intents |-> approvals'[j]] /\ open' = [j \in Intents |-> open'[j]]
    BY <1>1, <2>2, <2>3, AttemptsSet
  <2>5. approvals'[i] = e /\ \A j \in Intents : j # i => approvals'[j] = approvals[j]
    BY <2>3 DEF SetEntry, Approving, TablesTyped
  <2>6. \A p \in Ops : ops'[p] # None =>
          /\ ops[p] # None
          /\ IF p \in Waiting(i) THEN ops'[p] = [ops[p] EXCEPT !.point = "post", !.hash = h]
                                 ELSE ops'[p] = ops[p]
    BY <1>3 DEF Posted, Waiting
  <2> HIDE DEF e
  <2>7. ASSUME NEW p \in Ops, ops'[p] # None
        PROVE  OpSound(ops'[p], approvals'[Of(ops'[p])], sent')
    <3>1. ops[p] \in Operation /\ OpSound(ops[p], approvals[Of(ops[p])], sent) /\ Of(ops[p]) \in Intents
      BY <2>6, <2>7, OfIntent DEF Approving, Requests, OpSound
    <3>2. CASE p \in Waiting(i)
      <4>1. ops'[p] = [ops[p] EXCEPT !.point = "post", !.hash = h] /\ Of(ops[p]) = i
        BY <2>6, <2>7, <3>2 DEF Waiting, Of
      <4>2. /\ ops'[p] \in Operation /\ ops'[p].point = "post" /\ ops'[p].hash = h /\ Of(ops'[p]) = i
        BY <1>1, <3>1, <4>1 DEF Operation, Of
      <4> QED
        BY <1>1, <2>1, <2>5, <4>2 DEF OpSound
    <3>3. CASE p \notin Waiting(i)
      <4>1. ops'[p] = ops[p]
        BY <2>6, <2>7, <3>3
      <4>2. CASE Of(ops[p]) = i
        <5>1. ops[p].point # "await"
          BY <2>6, <2>7, <3>3, <4>2 DEF Waiting, Of
        <5> QED
          BY <1>1, <2>1, <2>5, <3>1, <4>1, <4>2, <5>1 DEF OpSound
      <4>3. CASE Of(ops[p]) # i
        BY <1>1, <2>5, <3>1, <4>1, <4>3 DEF OpSound
      <4> QED
        BY <4>2, <4>3
    <3> QED
      BY <3>2, <3>3
  <2>8. DOMAIN ops' = Ops /\ ops' = [p \in Ops |-> ops'[p]]
    BY <1>3 DEF Posted
  <2> QED
    BY <1>1, <2>4, <2>7, <2>8 DEF Approving, TablesTyped, Requests
<1>4. CASE SetEntry(i, None) /\ open' = [open EXCEPT ![i] = @ - 1] /\ Ended(Waiting(i))
  BY <1>1, <1>2, <1>4, AttemptDropped
<1>5. CASE SetEntry(i, Unknown(approvals[i])) /\ Ended(Waiting(i)) /\ UNCHANGED open
  <2>1. open' = [open EXCEPT ![i] = 1] /\ 1 <= sent' /\ sent' \in 0 .. MaxPrompts /\ sent' >= sent
    BY <1>1, <1>2, <1>5
  <2> QED
    BY <1>1, <1>5, <2>1, AttemptUnknown
<1> QED
  BY <1>3, <1>4, <1>5 DEF ApprovalMined

\* A new operation begins; the others only stop being the newest.
Joined(p, x) ==
  ops' = [[q \in Ops |-> IF ops[q] = None THEN None ELSE [ops[q] EXCEPT !.newest = FALSE]] EXCEPT ![p] = x]

LEMMA OperationJoins ==
  ASSUME Approving, NEW p \in Ops, NEW x, Joined(p, x), UNCHANGED sent,
         OpSound(x, approvals'[Of(x)], sent),
         \A j \in Intents : approvals'[j] = approvals[j] \/ (approvals[j] = None /\ approvals'[j].hash = 0)
  PROVE  Requests' /\ DOMAIN ops' = Ops /\ ops' = [q \in Ops |-> ops'[q]]
<1>1. \A q \in Ops : ops'[q] = IF q = p THEN x
                               ELSE IF ops[q] = None THEN None ELSE [ops[q] EXCEPT !.newest = FALSE]
  BY DEF Joined
<1>2. ASSUME NEW q \in Ops, ops'[q] # None
      PROVE  OpSound(ops'[q], approvals'[Of(ops'[q])], sent')
  <2>1. CASE q = p
    BY <1>1, <2>1
  <2>2. CASE q # p
    <3>1. ops[q] \in Operation /\ OpSound(ops[q], approvals[Of(ops[q])], sent) /\ Of(ops[q]) \in Intents
      BY <1>1, <1>2, <2>2, OfIntent DEF Approving, Requests, OpSound
    <3>2. /\ ops'[q] \in Operation /\ Of(ops'[q]) = Of(ops[q])
          /\ ops'[q].point = ops[q].point /\ ops'[q].hash = ops[q].hash
      BY <1>1, <1>2, <2>2, <3>1 DEF Operation, Of
    <3>3. approvals[Of(ops[q])] = None => ops[q].point # "await"
      BY <3>1 DEF OpSound
    <3> QED
      BY <3>1, <3>2, <3>3 DEF OpSound
  <2> QED
    BY <2>1, <2>2
<1> QED
  BY <1>2 DEF Requests, Joined

LEMMA ApplyAsksNothing ==
  ASSUME Approving, CardTyped, NEW p \in Ops, Apply(p)
  PROVE  Approving'
<1> DEFINE i == <<props.owner, props.session>>
           entry == approvals[i]
           x == [owner |-> props.owner, session |-> props.session, ownerNow |-> TRUE,
                 sessionNow |-> TRUE, newest |-> TRUE, point |-> "post", hash |-> 0]
           first == [status |-> "fetching", hash |-> 0, owner |-> props.owner, session |-> props.session,
                     ownerNow |-> TRUE, sessionNow |-> TRUE]
           old == [q \in Ops |-> IF ops[q] = None THEN None ELSE [ops[q] EXCEPT !.newest = FALSE]]
<1>1. /\ UNCHANGED <<open, sent>> /\ sent \in 0 .. MaxPrompts /\ sent \in Nat
      /\ sent' \in 0 .. MaxPrompts /\ sent' >= sent
  BY BoundsAssumption DEF Apply, Approving
<1>2. props.owner \in Owners /\ props.session \in Sessions \cup {None}
  BY HostsAssumption DEF CardTyped, HostProps, Props
<1>3. CASE ops' = old /\ UNCHANGED approvals
  <2>1. OpsFollow
    <3>1. ASSUME NEW q \in Ops, ops'[q] # None
          PROVE  /\ ops[q] # None /\ ops'[q] \in Operation
                 /\ ops'[q].owner = ops[q].owner /\ ops'[q].session = ops[q].session
                 /\ ops'[q].point = ops[q].point /\ ops'[q].hash = ops[q].hash
      <4>1. ops[q] # None /\ ops'[q] = [ops[q] EXCEPT !.newest = FALSE]
        BY <1>3, <3>1
      <4>2. ops[q] \in Operation
        BY <4>1 DEF Approving, Requests, OpSound
      <4> QED
        BY <4>1, <4>2 DEF Operation
    <3> QED
      BY <1>3, <3>1 DEF OpsFollow
  <2> QED
    BY <1>1, <1>3, <2>1, NothingAsked
<1>4. CASE HasSession
  <2>1. i \in Intents /\ props.session \in Sessions
    BY <1>2, <1>4 DEF HasSession, Intents
  <2>2. \A h \in Nat : \A pt \in {"await", "post"} :
          LET y == [[x EXCEPT !.point = pt] EXCEPT !.hash = h] IN
          y \in Operation /\ Of(y) = i /\ y.point = pt /\ y.hash = h
    BY <1>2, <2>1 DEF Operation, Of
  <2>3. x \in Operation /\ Of(x) = i /\ x.point = "post" /\ x.hash = 0
    BY <1>2, <2>1 DEF Operation, Of
  <2>4. CASE UNCHANGED approvals /\ Joined(p, x)
    <3>1. OpSound(x, approvals'[Of(x)], sent)
      BY <1>1, <2>3 DEF OpSound
    <3> QED
      BY <1>1, <2>4, <3>1, OperationJoins DEF Approving, Attempts, TablesTyped
  <2>5. CASE /\ entry = None /\ Joined(p, [x EXCEPT !.point = "await"])
             /\ approvals' = [approvals EXCEPT ![i] = first]
    <3> DEFINE y == [x EXCEPT !.point = "await"]
    <3>1. y \in Operation /\ Of(y) = i /\ y.point = "await" /\ y.hash = 0
      BY <1>2, <2>1 DEF Operation, Of
    <3>2. first \in Approval /\ first # None /\ first.status = "fetching" /\ first.hash = 0
      <4>1. first \in Approval
        BY <1>2, <2>1 DEF Approval
      <4> QED
        BY <4>1, NoneAssumption
    <3>3. approvals'[i] = first /\ \A j \in Intents : j # i => approvals'[j] = approvals[j]
      BY <2>1, <2>5 DEF Approving, TablesTyped
    <3>4. OpSound(y, approvals'[Of(y)], sent)
      BY <1>1, <3>1, <3>2, <3>3 DEF OpSound, Alive
    <3>5. open[i] = 0
      BY <2>1, <2>5 DEF Approving, Attempts, EntrySound, MayBeOpen
    <3>6. open' = [open EXCEPT ![i] = 0] /\ EntrySound(first, 0, sent') /\ SetEntry(i, first)
      BY <1>1, <2>5, <3>2, <3>5 DEF EntrySound, MayBeOpen, SetEntry, Approving, TablesTyped
    <3>7. Joined(p, y)
      BY <2>5
    <3>8. \A j \in Intents : approvals'[j] = approvals[j] \/ (approvals[j] = None /\ approvals'[j].hash = 0)
      BY <2>5, <3>2, <3>3
    <3> HIDE DEF y, first
    <3>9. Requests' /\ DOMAIN ops' = Ops /\ ops' = [q \in Ops |-> ops'[q]]
      BY <1>1, <3>4, <3>7, <3>8, OperationJoins
    <3>10. Attempts' /\ approvals' = [j \in Intents |-> approvals'[j]] /\ open' = [j \in Intents |-> open'[j]]
      BY <1>1, <2>1, <3>6, AttemptsSet
    <3> QED
      BY <1>1, <3>9, <3>10 DEF Approving, TablesTyped
  <2>6. CASE /\ entry # None /\ entry.status = "confirmed" /\ UNCHANGED approvals
             /\ Joined(p, [x EXCEPT !.hash = entry.hash])
    <3> DEFINE y == [x EXCEPT !.hash = entry.hash]
    <3>1. entry.hash \in Nat /\ entry.hash <= sent
      BY <2>1, <2>6 DEF Approving, Attempts, EntrySound, Approval
    <3>2. y \in Operation /\ Of(y) = i /\ y.point = "post" /\ y.hash = entry.hash
      BY <1>2, <2>1, <3>1 DEF Operation, Of
    <3>3. OpSound(y, approvals'[Of(y)], sent) /\ Joined(p, y)
      BY <2>6, <3>1, <3>2 DEF OpSound
    <3> HIDE DEF y
    <3> QED
      BY <1>1, <2>6, <3>3, OperationJoins DEF Approving, Attempts, TablesTyped
  <2>7. CASE /\ entry # None /\ entry.status \in {"fetching", "prompting", "submitted"} /\ UNCHANGED approvals
             /\ Joined(p, [x EXCEPT !.point = "await"])
    <3> DEFINE y == [x EXCEPT !.point = "await"]
    <3>1. y \in Operation /\ Of(y) = i /\ y.point = "await" /\ y.hash = 0
      BY <1>2, <2>1 DEF Operation, Of
    <3>2. OpSound(y, approvals'[Of(y)], sent) /\ Joined(p, y)
      BY <1>1, <2>7, <3>1 DEF OpSound, Alive
    <3> HIDE DEF y
    <3> QED
      BY <1>1, <2>7, <3>2, OperationJoins DEF Approving, Attempts, TablesTyped
  <2> QED
    BY <1>3, <1>4, <2>4, <2>5, <2>6, <2>7 DEF Apply, Joined
<1> QED
  BY <1>3, <1>4 DEF Apply

\* One operation goes on; it does not await an approval.
LEMMA OperationGoesOn ==
  ASSUME Approving, NEW p \in Ops, ops[p] # None, NEW pt \in {"reserved", "failed"},
         ops' = [ops EXCEPT ![p].point = pt], UNCHANGED <<approvals, open, sent>>
  PROVE  Approving'
<1>1. ops' = [q \in Ops |-> IF q = p THEN [ops[p] EXCEPT !.point = pt] ELSE ops[q]]
  BY DEF Approving, TablesTyped
<1>2. ops[p] \in Operation
  BY DEF Approving, Requests, OpSound
<1>3. LET y == [ops[p] EXCEPT !.point = pt] IN
      y \in Operation /\ Of(y) = Of(ops[p]) /\ y.hash = ops[p].hash /\ y.point = pt
  BY <1>2 DEF Operation, Of
<1>4. ASSUME NEW q \in Ops, ops'[q] # None
      PROVE  OpSound(ops'[q], approvals'[Of(ops'[q])], sent')
  <2>1. CASE q = p
    BY <1>1, <1>3, <1>4, <2>1 DEF Approving, Requests, OpSound
  <2>2. CASE q # p
    BY <1>1, <1>4, <2>2 DEF Approving, Requests
  <2> QED
    BY <2>1, <2>2
<1> QED
  BY <1>1, <1>4 DEF Approving, TablesTyped, Requests, Attempts

LEMMA ReserveAsksNothing ==
  ASSUME Approving, NEW p \in Ops, Reserve(p)
  PROVE  Approving'
BY OperationGoesOn DEF Reserve

\* The answer of a reservation uses up its approval, which is confirmed.
LEMMA ReceiveAsksNothing ==
  ASSUME Approving, NEW p \in Ops, Receive(p)
  PROVE  Approving'
<1> DEFINE i == Of(ops[p])
<1>1. ops[p] \in Operation /\ ops[p] # None /\ i \in Intents /\ OpSound(ops[p], approvals[i], sent)
  BY OfIntent DEF Approving, Requests, OpSound, Receive
<1>2. Ended({p}) /\ UNCHANGED sent /\ sent' \in 0 .. MaxPrompts /\ sent' >= sent
  BY BoundsAssumption DEF Receive, Approving
<1>3. OpsFollow
  BY <1>2, EndedFollows
<1>4. CASE UsesApproval(ops[p], approvals[i])
  <2>1. approvals[i] # None /\ approvals[i].status = "confirmed" /\ ops[p].hash # 0
    BY <1>1, <1>4 DEF UsesApproval, OpSound
  <2>2. open[i] = 1
    BY <1>1, <2>1 DEF Approving, Attempts, EntrySound, MayBeOpen
  <2>3. SetEntry(i, None) /\ open' = [open EXCEPT ![i] = 0]
    BY <1>1, <1>4, <2>1, <2>2 DEF Receive, Of, UsesApproval
  <2>4. \A q \in Ops : ops'[q] # None /\ Of(ops[q]) = i => ops[q].point # "await"
    BY <1>3, <2>1 DEF Approving, Requests, OpSound, OpsFollow, Alive
  <2>5. Requests'
    BY <1>1, <1>2, <1>3, <2>3, <2>4, RequestsSet
  <2>6. EntrySound(None, 0, sent')
    BY <1>2, BoundsAssumption DEF EntrySound, MayBeOpen
  <2>7. Attempts' /\ approvals' = [j \in Intents |-> approvals'[j]] /\ open' = [j \in Intents |-> open'[j]]
    BY <1>1, <1>2, <2>3, <2>6, AttemptsSet
  <2> QED
    BY <1>2, <1>3, <2>5, <2>7, Recorded
<1>5. CASE ~UsesApproval(ops[p], approvals[i])
  <2>1. UNCHANGED <<approvals, open, sent>>
    BY <1>2, <1>5 DEF Receive, Of
  <2> QED
    BY <1>3, <2>1, NothingAsked
<1> QED
  BY <1>4, <1>5

LEMMA OthersAskNothing ==
  ASSUME Approving,
         \/ ClearOwner \/ LoadSession \/ Resume \/ PollAnswer \/ UNCHANGED vars
         \/ \E p \in Ops : ReceiveFailure(p)
         \/ \E id \in Intents : Settle(id)
  PROVE  Approving'
<1>1. CASE UNCHANGED ops
  <2>1. OpsFollow
    BY <1>1 DEF OpsFollow, Approving, TablesTyped, Requests, OpSound
  <2> QED
    BY <2>1, NothingAsked DEF ClearOwner, LoadSession, Resume, PollAnswer, vars, ReceiveFailure, Settle
<1>2. ASSUME NEW p \in Ops, ReceiveFailure(p)
      PROVE  Approving'
  <2>1. OpsFollow
    BY <1>2, EndedFollows DEF ReceiveFailure
  <2> QED
    BY <1>2, <2>1, NothingAsked DEF ReceiveFailure
<1> QED
  BY <1>1, <1>2 DEF ClearOwner, LoadSession, Resume, PollAnswer, vars, Settle

LEMMA NextApproving ==
  ASSUME Approving, CardTyped, [Next]_vars
  PROVE  Approving'
<1>1. ASSUME NEW new \in Hosts, Render(new)
      PROVE  Approving'
  BY <1>1, RenderAsksNothing
<1> QED
  BY <1>1, ApplyAsksNothing, ReserveAsksNothing, ReceiveAsksNothing, FetchIntentAsksNothing,
     WalletAsksOnce, MiningAsksNothing, OthersAskNothing DEF Next

LEMMA InitApproving ==
  ASSUME Init
  PROVE  Approving
BY BoundsAssumption
   DEF Init, Approving, TablesTyped, Requests, Attempts, EntrySound, MayBeOpen
-----------------------------------------------------------------------------
(* The reservation that is tracked, step by step.                          *)

Tracking == CardTyped /\ TrackingIsOwners /\ Tracks

\* Operations and approvals are not what is tracked.
LEMMA NothingTracked ==
  ASSUME Tracking,
         UNCHANGED <<props, uncleared, loaded, track, settle, notified, poll, told, res, renders>>,
         spending' \in BOOLEAN, Fault \/ NoFault
  PROVE  Tracking'
BY BoundsAssumption DEF Tracking, CardTyped, TrackingIsOwners, Tracks, Fault, NoFault

LEMMA RenderTracks ==
  ASSUME Tracking, NEW new \in Hosts, Render(new)
  PROVE  Tracking'
<1>1. /\ props' = new /\ uncleared' = (uncleared \/ new.owner # props.owner)
      /\ UNCHANGED <<loaded, spending, track, settle, notified, told, res, faults>>
      /\ poll' = Stamped(poll, new)
  BY DEF Render
<1>2. renders' \in 0 .. MaxRenders
  BY BoundsAssumption DEF Render, Tracking, CardTyped
<1>3. /\ poll' \in PollState \cup {None}
      /\ poll' # None => /\ poll # None /\ poll'.ctx = poll.ctx
                         /\ poll'.ownerNow => poll.ownerNow /\ new.owner = props.owner
  <2>1. CASE poll = None
    BY <1>1, <2>1 DEF Stamped
  <2>2. CASE poll # None
    BY <1>1, <2>2, StampedPoll, HostsAssumption DEF Tracking, CardTyped
  <2> QED
    BY <2>1, <2>2
<1>4. CardTyped'
  BY <1>1, <1>2, <1>3 DEF Tracking, CardTyped
<1>5. Tracks'
  BY <1>1, <1>3 DEF Tracking, Tracks
<1>6. TrackingIsOwners'
  BY <1>1 DEF Tracking, CardTyped, TrackingIsOwners
<1> QED
  BY <1>4, <1>5, <1>6 DEF Tracking

LEMMA ClearOwnerTracks ==
  ASSUME Tracking, ClearOwner
  PROVE  Tracking'
BY DEF Tracking, CardTyped, TrackingIsOwners, Tracks, ClearOwner

LEMMA LoadSessionTracks ==
  ASSUME Tracking, LoadSession
  PROVE  Tracking'
<1>1. loaded' \in Intents \cup {None}
  BY HostsAssumption DEF LoadSession, HasSession, Tracking, CardTyped, HostProps, Props, Intents
<1> QED
  BY <1>1 DEF Tracking, CardTyped, TrackingIsOwners, Tracks, LoadSession

\* Tracking begins with nothing shown and nothing told.
LEMMA TrackingStarts ==
  ASSUME Tracking, NEW ctx \in Context, StartTracking(ctx), ctx.owner = props.owner,
         UNCHANGED <<props, uncleared, loaded, res, renders, faults>>, spending' \in BOOLEAN
  PROVE  Tracking'
<1>1. poll' \in PollState /\ poll' # None /\ poll'.ctx = ctx /\ track' = ctx /\ track' # None
  <2>1. poll' \in PollState /\ poll'.ctx = ctx /\ track' = ctx
    BY DEF StartTracking, PollState
  <2> QED
    BY <2>1, NoneAssumption
<1>2. ctx.id \in Intents /\ notified' = None /\ settle' = None
      /\ told' = [told EXCEPT ![ctx.id] = 0]
  BY DEF StartTracking, Context
<1>3. /\ told' \in [Intents -> {0, 1}] /\ told'[ctx.id] = 0
      /\ \A i \in Intents : told'[i] = 1 => told[i] = 1
  BY <1>2 DEF Tracking, Tracks
<1>4. Tracks'
  BY <1>1, <1>2, <1>3 DEF Tracking, Tracks
<1> QED
  BY <1>1, <1>2, <1>4 DEF Tracking, CardTyped, TrackingIsOwners

LEMMA ResumeTracks ==
  ASSUME Tracking, Resume
  PROVE  Tracking'
<1> DEFINE ctx == [owner |-> props.owner, session |-> props.session,
                   id |-> Reservation(props.owner, props.resume)]
<1>1. ctx \in Context /\ ctx.owner = props.owner
  BY HostsAssumption
     DEF Resume, Tracking, CardTyped, HostProps, Props, Context, Intents, Reservation
<1>2. StartTracking(ctx) /\ spending' \in BOOLEAN
  BY DEF Resume, Tracking, CardTyped
<1> HIDE DEF ctx
<1> QED
  BY <1>1, <1>2, TrackingStarts DEF Resume

LEMMA ReceiveTracks ==
  ASSUME Approving, Tracking, NEW p \in Ops, Receive(p)
  PROVE  Tracking'
<1> DEFINE ctx == [owner |-> ops[p].owner, session |-> ops[p].session, id |-> Of(ops[p])]
<1>1. spending' \in BOOLEAN
  BY DEF Receive, Ended, Tracking, CardTyped
<1>2. CASE Retained(ops[p])
  <2>1. ops[p] \in Operation
    BY DEF Approving, Requests, OpSound, Receive
  <2>2. ctx \in Context /\ ctx.owner = props.owner
    BY <1>2, <2>1 DEF Retained, OwnerCurrent, Context, Operation, Intents, Of
  <2>3. StartTracking(ctx)
    BY <1>2 DEF Receive, Of
  <2> HIDE DEF ctx
  <2> QED
    BY <1>1, <2>2, <2>3, TrackingStarts DEF Receive
<1>3. CASE ~Retained(ops[p])
  BY <1>1, <1>3, NothingTracked DEF Receive, NoFault
<1> QED
  BY <1>2, <1>3

\* What was told is what is tracked, so that it is told once.
LEMMA PollAnswerTracks ==
  ASSUME Tracking, PollAnswer
  PROVE  Tracking'
<1> DEFINE id == poll.ctx.id
           status == res[id]
<1>1. poll \in PollState /\ poll # None /\ poll.ctx = track /\ track \in Context /\ id \in Intents
      /\ track # None /\ status \in Statuses \cup {None} /\ id = track.id
  BY NoneAssumption DEF PollAnswer, Tracking, CardTyped, Tracks, PollState, Context
<1>2. CASE poll' = None /\ UNCHANGED <<settle, notified, told>>
  BY <1>2 DEF Tracking, CardTyped, TrackingIsOwners, Tracks, PollAnswer
<1>3. CASE UNCHANGED <<poll, settle, notified, told>>
  BY <1>3 DEF Tracking, CardTyped, TrackingIsOwners, Tracks, PollAnswer
<1>4. CASE /\ status # None /\ settle' = [id |-> id, status |-> status]
           /\ poll' = IF Terminal(status) THEN None ELSE poll
           /\ IF Terminal(status) /\ notified # id
                THEN notified' = id /\ told' = [told EXCEPT ![id] = @ + 1]
                ELSE UNCHANGED <<notified, told>>
  <2>1. settle' \in Settlement /\ settle' # None /\ settle'.id = track.id
    <3>1. settle' \in Settlement
      BY <1>1, <1>4 DEF Settlement
    <3> QED
      BY <1>1, <1>4, <3>1, NoneAssumption
  <2>2. UNCHANGED <<props, uncleared, loaded, spending, track, res, renders, faults>>
    BY DEF PollAnswer
  <2>3. CASE Terminal(status) /\ notified # id
    <3>1. told[id] = 0 /\ told \in [Intents -> {0, 1}]
      BY <1>1, <2>3 DEF Tracking, Tracks
    <3>2. notified' = id /\ poll' = None /\ told' = [told EXCEPT ![id] = 1]
      BY <1>4, <2>3, <3>1
    <3>3. res[id] \in {"receipted", "released"}
      BY <2>3 DEF Terminal
    <3>4. /\ told' \in [Intents -> {0, 1}]
          /\ \A i \in Intents : told'[i] = 1 => i = id \/ told[i] = 1
      BY <3>1, <3>2
    <3>5. Tracks'
      BY <1>1, <2>1, <2>2, <3>2, <3>3, <3>4 DEF Tracking, Tracks
    <3> QED
      BY <1>1, <2>1, <2>2, <3>2, <3>5 DEF Tracking, CardTyped, TrackingIsOwners
  <2>4. CASE ~(Terminal(status) /\ notified # id)
    <3>1. UNCHANGED <<notified, told>> /\ poll' \in {None, poll}
      BY <1>4, <2>4
    <3> QED
      BY <1>1, <2>1, <2>2, <3>1 DEF Tracking, CardTyped, TrackingIsOwners, Tracks
  <2> QED
    BY <2>3, <2>4
<1> QED
  BY <1>2, <1>3, <1>4 DEF PollAnswer

\* What the server stores only moves towards its end, and stays there.
LEMMA ServerMoves ==
  ASSUME Tracking, UNCHANGED cardVars, UNCHANGED renders, Fault \/ NoFault,
         NEW id \in Intents, NEW s \in Statuses, res[id] \notin {"receipted", "released"},
         res' \in {res, [res EXCEPT ![id] = s]}
  PROVE  Tracking'
<1>1. res' \in [Intents -> Statuses \cup {None}]
  BY DEF Tracking, CardTyped
<1>3. \A i \in Intents : told[i] = 1 => res'[i] \in {"receipted", "released"}
  BY DEF Tracking, Tracks, CardTyped
<1> QED
  BY <1>1, <1>3, BoundsAssumption
     DEF Tracking, CardTyped, TrackingIsOwners, Tracks, cardVars, Fault, NoFault

LEMMA ReserveTracks ==
  ASSUME Approving, Tracking, NEW p \in Ops, Reserve(p)
  PROVE  Tracking'
<1> DEFINE id == Reservation(ops[p].owner, ops[p].session)
<1>1. id \in Intents
  BY DEF Reserve, Approving, Requests, OpSound, Operation, Reservation, Intents
<1>2. UNCHANGED cardVars /\ UNCHANGED renders /\ (Fault \/ NoFault)
  BY DEF Reserve
<1>3. res' = res \/ res' = [res EXCEPT ![id] = IF @ = None THEN "reserved" ELSE @]
  BY DEF Reserve
<1>4. CASE res[id] = None
  <2>1. res' \in {res, [res EXCEPT ![id] = "reserved"]} /\ res[id] \notin {"receipted", "released"}
    BY <1>3, <1>4, NoneAssumption DEF Statuses
  <2>2. "reserved" \in Statuses
    BY DEF Statuses
  <2> QED
    BY <1>1, <1>2, <2>1, <2>2, ServerMoves
<1>5. CASE res[id] # None
  <2>1. res' = res
    BY <1>1, <1>3, <1>5 DEF Tracking, CardTyped
  <2> QED
    BY <1>2, <2>1, NothingTracked DEF cardVars, Tracking, CardTyped
<1> QED
  BY <1>4, <1>5

LEMMA SettleTracks ==
  ASSUME Tracking, NEW id \in Intents, Settle(id)
  PROVE  Tracking'
<1>1. PICK s \in Statuses : res' = [res EXCEPT ![id] = s]
  BY DEF Settle, Statuses
<1> QED
  BY <1>1, ServerMoves DEF Settle, NoFault

LEMMA NextTracking ==
  ASSUME Approving, Tracking, [Next]_vars
  PROVE  Tracking'
<1>1. ASSUME NEW p \in Ops, Apply(p)
      PROVE  Tracking'
  <2>1. spending' \in BOOLEAN
    BY <1>1 DEF Apply, Tracking, CardTyped
  <2> QED
    BY <1>1, <2>1, NothingTracked DEF Apply, NoFault
<1>2. ASSUME NEW p \in Ops, ReceiveFailure(p)
      PROVE  Tracking'
  BY <1>2, NothingTracked DEF ReceiveFailure, Ended, NoFault, Tracking, CardTyped
<1>3. ASSUME NEW i \in Intents, FetchIntent(i) \/ WalletAnswers(i) \/ ApprovalMined(i)
      PROVE  Tracking'
  <2>1. spending' \in BOOLEAN
    BY <1>3 DEF FetchIntent, WalletAnswers, ApprovalMined, Ended, Posted, Tracking, CardTyped
  <2>2. UNCHANGED <<props, uncleared, loaded, track, settle, notified, poll, told, res, renders>>
        /\ (Fault \/ NoFault)
    BY <1>3 DEF FetchIntent, WalletAnswers, ApprovalMined
  <2> QED
    BY <2>1, <2>2, NothingTracked
<1>4. CASE UNCHANGED vars
  BY <1>4, NothingTracked DEF vars, cardVars, NoFault, Tracking, CardTyped
<1> QED
  BY <1>1, <1>2, <1>3, <1>4, RenderTracks, ClearOwnerTracks, LoadSessionTracks, ResumeTracks,
     PollAnswerTracks, ReserveTracks, ReceiveTracks, SettleTracks DEF Next

LEMMA InitTracking ==
  ASSUME Init
  PROVE  Tracking
<1>1. renders \in 0 .. MaxRenders /\ faults \in 0 .. MaxFaults
  BY BoundsAssumption DEF Init
<1>2. CardTyped
  BY <1>1 DEF Init, CardTyped
<1> QED
  BY <1>2, NoneAssumption DEF Init, Tracking, TrackingIsOwners, Tracks
-----------------------------------------------------------------------------
(* The theorems.                                                           *)

LEMMA CardInvariant == Spec => [](Approving /\ Tracking)
<1>1. Init => Approving /\ Tracking
  BY InitApproving, InitTracking
<1>2. Approving /\ Tracking /\ [Next]_vars => (Approving /\ Tracking)'
  BY NextApproving, NextTracking DEF Tracking
<1> QED
  BY <1>1, <1>2, PTL DEF Spec

\* Whatever the host shows and however often the button is used, the wallet
\* has at most one approval of an intent that is neither failed nor used: a
\* second one is asked only when the attempt (custodialApprovalEntriesRef) is
\* gone, and an attempt of unknown outcome is never dropped.
THEOREM WalletIsAskedOnce == Spec => []OneOpenApproval
<1>1. Approving => OneOpenApproval
  BY DEF Approving, Attempts, EntrySound, MayBeOpen, OneOpenApproval
<1> QED
  BY <1>1, CardInvariant, PTL

\* The host is told only by a poll that is current (isPollingCurrent), which
\* is the present owner's.
LEMMA OwnerIsTold ==
  ASSUME Tracking, [Next]_vars, NEW i \in Intents, told'[i] > told[i]
  PROVE  i[1] = props.owner
<1>1. told \in [Intents -> {0, 1}]
  BY DEF Tracking, Tracks
<1>2. ASSUME NEW ctx, StartTracking(ctx)
      PROVE  told'[i] \in {0, told[i]}
  BY <1>1, <1>2 DEF StartTracking
<1>3. told' # told
  BY <1>1
<1>4. PollAnswer \/ Resume \/ \E p \in Ops : Receive(p)
  BY <1>3 DEF Next, vars, cardVars, Render, ClearOwner, LoadSession, Apply, Reserve,
              ReceiveFailure, FetchIntent, WalletAnswers, ApprovalMined, Settle
<1>5. CASE Resume \/ \E p \in Ops : Receive(p)
  <2>1. (\E ctx : StartTracking(ctx)) \/ UNCHANGED told
    BY <1>5 DEF Resume, Receive
  <2>2. told'[i] \in {0, told[i]}
    BY <1>2, <2>1
  <2> QED
    BY <1>1, <2>2
<1>6. CASE PollAnswer
  <2>1. poll.ownerNow /\ Matches(poll.ctx) /\ poll # None /\ told' = [told EXCEPT ![poll.ctx.id] = @ + 1]
    BY <1>3, <1>6 DEF PollAnswer, PollCurrent
  <2>2. i = poll.ctx.id
    BY <1>1, <2>1
  <2>3. poll.ctx.owner = props.owner
    BY <2>1 DEF Tracking, Tracks
  <2> QED
    BY <2>1, <2>2, <2>3 DEF Matches, Reservation
<1> QED
  BY <1>4, <1>5, <1>6

\* Once the effects of a change of owner have run, what the card tracks and
\* shows is the present owner's. At any time, the host is told of the present
\* owner's reservations only, of each at most once for each time it is taken
\* up, and only once it is released or has its receipt.
THEOREM CardShowsThePresentOwner == Spec => CardIsCurrent
<1>1. Approving /\ Tracking => TypeOK
  <2> SUFFICES ASSUME Approving, Tracking
               PROVE  TypeOK
    OBVIOUS
  <2>1. ops \in [Ops -> Operation \cup {None}]
    BY DEF Approving, TablesTyped, Requests, OpSound
  <2>2. \A p \in Ops : ops[p] # None =>
          /\ ops[p].hash <= sent
          /\ ops[p].point = "await" => approvals[<<ops[p].owner, ops[p].session>>] # None
    BY DEF Approving, Requests, OpSound, Of
  <2>3. approvals \in [Intents -> Approval \cup {None}]
    BY DEF Approving, TablesTyped, Attempts, EntrySound
  <2>4. \A i \in Intents : open[i] \in 0 .. MaxPrompts
    BY BoundsAssumption DEF Approving, Attempts, EntrySound, MayBeOpen
  <2>5. open \in [Intents -> 0 .. MaxPrompts]
    BY <2>4 DEF Approving, TablesTyped
  <2> QED
    BY <2>1, <2>2, <2>3, <2>5 DEF TypeOK, Tracking, CardTyped, Approving
<1>2. Tracking => TrackingIsOwners
  BY DEF Tracking
<1>3. Tracking => ToldOnce
  BY DEF Tracking, Tracks, ToldOnce
<1>4. Tracking /\ [Next]_vars => [\A i \in Intents : told'[i] > told[i] => i[1] = props.owner]_vars
  BY OwnerIsTold
<1>5. Spec => ToldTheOwner
  BY <1>4, CardInvariant, PTL DEF Spec, ToldTheOwner
<1> QED
  BY <1>1, <1>2, <1>3, <1>5, CardInvariant, PTL DEF CardIsCurrent

\* An operation comes to POST /spend/me only from applyDiscount or from the
\* approval it awaited, and both times it is the shown owner's and session's
\* (isSpendRequestCurrent).
THEOREM RequestsFollowTheHost == Spec => RequestsAreCurrent
<1> DEFINE Asks(p) ==
      (ops'[p] # None /\ ops'[p].point = "post" /\ (ops[p] = None \/ ops[p].point = "await")) =>
         ops'[p].owner = props.owner /\ ops'[p].session = props.session /\ HasSession
<1>1. ASSUME Approving, CardTyped, [Next]_vars, NEW p \in Ops
      PROVE  Asks(p)
  <2>1. ops[p] # None => ops[p] \in Operation
    BY <1>1 DEF Approving, Requests, OpSound
  <2>2. CASE OpsFollow
    BY <2>2 DEF OpsFollow
  <2>3. ASSUME NEW q \in Ops, Apply(q)
        PROVE  Asks(p)
    <3>1. CASE q = p
      BY <2>3, <3>1 DEF Apply
    <3>2. CASE q # p
      <4>1. ops'[p] # None => ops[p] # None /\ ops'[p] = [ops[p] EXCEPT !.newest = FALSE]
        BY <2>3, <3>2 DEF Apply
      <4>2. ops'[p] # None => ops'[p].point = ops[p].point
        BY <2>1, <4>1 DEF Operation
      <4> QED
        BY <4>1, <4>2
    <3> QED
      BY <3>1, <3>2
  <2>4. ASSUME NEW i \in Intents, Posted(Waiting(i), approvals[i].hash)
        PROVE  Asks(p)
    BY <2>1, <2>4 DEF Posted, Waiting, RequestCurrent, OwnerCurrent, SessionCurrent, Operation
  <2>5. ASSUME NEW q \in Ops, ops[q] # None, NEW pt \in {"reserved", "failed"},
               ops' = [ops EXCEPT ![q].point = pt]
        PROVE  Asks(p)
    <3>1. ops[p] # None => IF q = p THEN ops'[p] = [ops[p] EXCEPT !.point = pt] ELSE ops'[p] = ops[p]
      BY <1>1, <2>5 DEF Approving, TablesTyped
    <3>2. ops[p] = None => ops'[p] = None
      BY <1>1, <2>5 DEF Approving, TablesTyped
    <3> QED
      BY <2>1, <3>1, <3>2 DEF Operation
  <2>6. CASE UNCHANGED ops
    BY <2>6
  <2>7. ASSUME NEW set \in SUBSET Ops, Ended(set)
        PROVE  Asks(p)
    BY <1>1, <2>2, <2>7, EndedFollows
  <2>8. ASSUME NEW new \in Hosts, Render(new)
        PROVE  Asks(p)
    <3>1. CASE ops[p] = None
      BY <2>8, <3>1 DEF Render, Stamped
    <3>2. CASE ops[p] # None
      <4>1. ops'[p] = Stamped(ops[p], new)
        BY <2>8 DEF Render
      <4> QED
        BY <2>1, <3>2, <4>1, StampedOp, HostsAssumption
    <3> QED
      BY <3>1, <3>2
  <2>9. ASSUME NEW i \in Intents, FetchIntent(i) \/ WalletAnswers(i) \/ ApprovalMined(i)
        PROVE  Asks(p)
    <3>1. Waiting(i) \in SUBSET Ops
      BY DEF Waiting
    <3> HIDE DEF Asks
    <3> QED
      BY <2>4, <2>6, <2>7, <2>9, <3>1 DEF FetchIntent, WalletAnswers, ApprovalMined
  <2>10. ASSUME NEW q \in Ops, Reserve(q) \/ Receive(q) \/ ReceiveFailure(q)
         PROVE  Asks(p)
    <3>1. {q} \in SUBSET Ops
      OBVIOUS
    <3> HIDE DEF Asks
    <3> QED
      BY <2>5, <2>7, <2>10, <3>1 DEF Reserve, Receive, ReceiveFailure
  <2>11. CASE ClearOwner \/ LoadSession \/ Resume \/ PollAnswer \/ (\E i \in Intents : Settle(i)) \/ UNCHANGED vars
    BY <2>6, <2>11 DEF ClearOwner, LoadSession, Resume, PollAnswer, Settle, vars
  <2> HIDE DEF Asks
  <2> QED
    BY <1>1, <2>3, <2>8, <2>9, <2>10, <2>11 DEF Next
<1>2. Approving /\ CardTyped /\ [Next]_vars =>
        [\A p \in Ops :
           (ops'[p] # None /\ ops'[p].point = "post" /\ (ops[p] = None \/ ops[p].point = "await")) =>
             /\ ops'[p].owner = props.owner /\ ops'[p].session = props.session
             /\ HasSession]_vars
  BY <1>1
<1>3. Spec => [](Approving /\ CardTyped)
  BY CardInvariant, PTL DEF Tracking
<1> QED
  BY <1>2, <1>3, PTL DEF Spec, RequestsAreCurrent
-----------------------------------------------------------------------------
(* The alerts.                                                             *)

Result == {Unset, "skipped", "accepted", "failed"}

Dispatch ==
  [at : {"idle", "load", "email", "webhook", "record", "done"}, settings : Settings \cup {Unset},
   email : Result, webhook : Result, started : {0, 1},
   answer : {Unset, "success", "error", "warning"}, seen : SUBSET (Settings \cup {Unset})]

Left(t, via) == \E m \in posted : m.task = t /\ m.via = via
Logged(t) == [task |-> t, what |-> "event"] \in audit

\* What was posted and what came of it.
SendsSound(t, x) ==
  /\ x.at \in {"idle", "load", "email"} => ~ Left(t, "email")
  /\ x.at \in {"idle", "load", "email", "webhook"} => ~ Left(t, "webhook")
  /\ x.at # "done" /\ Left(t, "email") => x.email \in {"accepted", "failed"}
  /\ x.at # "done" /\ Left(t, "webhook") => x.webhook \in {"accepted", "failed"}
  /\ x.email = "accepted" => <<t, "email">> \in accepted
  /\ x.webhook = "accepted" => <<t, "webhook">> \in accepted

\* A dispatch in progress: what it may rely on.
ProgressSound(t, x) ==
  /\ x.at \in Via => x.settings \in Settings \cap x.seen /\ x.at \in SelectedVia(x.settings.channel)
  /\ x.at \in Via \cup {"load"} => row \in x.seen
  /\ t \in Events /\ x.at \in Via \cup {"load"} => Logged(t)

AnswerSound(t, x) ==
  /\ x.at # "done" => x.answer = Unset
  /\ x.answer = "success" => \E via \in Via : <<t, via>> \in accepted
  /\ x.answer = "warning" => \A via \in Via : ~ Left(t, via)

DispatchSound(t, x) == x \in Dispatch /\ SendsSound(t, x) /\ ProgressSound(t, x) /\ AnswerSound(t, x)

\* A row of the log is about an end, and true.
EntryTrue(a) ==
  /\ a.task \in Tasks
  /\ a.what \in {"sent", "failed", "skipped"} => tasks[a.task].at = "done"
  /\ a.what = "sent" => /\ \E via \in Via : <<a.task, via>> \in accepted
                        /\ \A via \in Via : Left(a.task, via) => <<a.task, via>> \in accepted
  /\ a.what \in {"sent", "failed", "skipped"} /\ a.accepted => \E via \in Via : <<a.task, via>> \in accepted
  /\ a.what = "skipped" => \A via \in Via : ~ Left(a.task, via)

DispatchesSound ==
  /\ tasks = [t \in Tasks |-> tasks[t]]
  /\ \A t \in Tasks : DispatchSound(t, tasks[t])
  /\ \A a \in audit : EntryTrue(a)
  /\ posted \subseteq [task : Tasks, via : Via, to : Recipients] /\ accepted \subseteq Tasks \X Via
  /\ \A m \in posted : m.task \in Events => Logged(m.task)

\* A request is a record of these fields.
EditTyped(x) ==
  /\ x = [at |-> x.at, patch |-> x.patch, base |-> x.base]
  /\ x.at \in {"lock", "write", "over"}

\* Whoever writes the settings holds the row, as it was read.
EditsSound ==
  /\ edits = [p \in Editors |-> edits[p]]
  /\ row \in Settings \cup {Unset} /\ lock \in Editors \cup {Unset}
  /\ \A p \in Editors : edits[p] # Unset => EditTyped(edits[p])
  /\ \A p \in Editors : At(p, "lock") \/ At(p, "write") => Valid(edits[p].patch)
  /\ \A p \in Editors : At(p, "write") => lock = p /\ edits[p].base = row /\ row # Unset
  /\ alertFaults \in 0 .. MaxAlertFaults
  /\ merged = [i \in 1 .. Len(merged) |-> merged[i]] /\ Len(merged) \in Nat \ {0}
  /\ SettingsMerge

AlertsSound == DispatchesSound /\ EditsSound
-----------------------------------------------------------------------------
(* Steps of a dispatch.                                                    *)

\* One dispatch moves on: the others, and what the log says of the ended ones,
\* are not touched.
LEMMA DispatchMoves ==
  ASSUME DispatchesSound, NEW t \in Tasks, NEW X, tasks[t].at # "done",
         tasks' = [tasks EXCEPT ![t] = X], row' = row,
         posted \subseteq posted', accepted \subseteq accepted', audit \subseteq audit',
         \A m \in posted' \ posted : m \in [task : {t}, via : Via, to : Recipients],
         accepted' \subseteq Tasks \X Via,
         t \in Events /\ posted' # posted => Logged(t),
         \A a \in audit' \ audit : EntryTrue(a)',
         DispatchSound(t, X)'
  PROVE  DispatchesSound'
<1>1. tasks' = [u \in Tasks |-> tasks'[u]] /\ tasks'[t] = X
  BY DEF DispatchesSound
<1>2. DispatchSound(t, tasks[t])'
  BY <1>1 DEF DispatchSound, SendsSound, ProgressSound, AnswerSound, Left, Logged
<1>3. ASSUME NEW u \in Tasks, u # t
      PROVE  /\ tasks'[u] = tasks[u]
             /\ \A via : Left(u, via)' <=> Left(u, via)
  BY <1>3 DEF DispatchesSound, Left
<1>4. ASSUME NEW u \in Tasks, u # t PROVE DispatchSound(u, tasks[u])'
  <2>1. PICK x : x = tasks[u]
    OBVIOUS
  <2>2. DispatchSound(u, x)
    BY <2>1 DEF DispatchesSound
  <2>3. x \in Dispatch /\ SendsSound(u, x)'
    BY <1>3, <1>4, <2>2 DEF DispatchSound, SendsSound
  <2>4. ProgressSound(u, x)'
    BY <2>2 DEF DispatchSound, ProgressSound, Logged
  <2>5. AnswerSound(u, x)'
    BY <1>3, <1>4, <2>2 DEF DispatchSound, AnswerSound
  <2>6. tasks'[u] = x
    BY <1>3, <1>4, <2>1
  <2> QED
    BY <2>3, <2>4, <2>5, <2>6 DEF DispatchSound, SendsSound, ProgressSound, AnswerSound
<1>5. ASSUME NEW a \in audit PROVE EntryTrue(a)'
  <2>1. EntryTrue(a) /\ a.task \in Tasks
    BY DEF DispatchesSound, EntryTrue
  <2>2. CASE a.task = t
    <3>1. a.what \notin {"sent", "failed", "skipped"}
      BY <2>1, <2>2 DEF EntryTrue
    <3> QED
      BY <2>1, <3>1 DEF EntryTrue
  <2>3. CASE a.task # t
    <3>1. /\ tasks'[a.task] = tasks[a.task]
          /\ \A via : Left(a.task, via)' <=> Left(a.task, via)
      BY <1>3, <2>1, <2>3
    <3> QED
      BY <2>1, <3>1 DEF EntryTrue
  <2> QED
    BY <2>2, <2>3
<1>6. posted' \subseteq [task : Tasks, via : Via, to : Recipients]
  BY DEF DispatchesSound
<1>7. ASSUME NEW m \in posted', m.task \in Events PROVE Logged(m.task)'
  <2>1. CASE m \in posted
    BY <1>7, <2>1 DEF DispatchesSound, Logged
  <2>2. CASE m \notin posted
    <3>1. m.task = t /\ posted' # posted
      BY <2>2
    <3> QED
      BY <1>7, <3>1 DEF Logged
  <2> QED
    BY <2>1, <2>2
<1>8. \A a \in audit' : EntryTrue(a)'
  BY <1>5
<1>9. \A u \in Tasks : DispatchSound(u, tasks[u])'
  BY <1>2, <1>4
<1> QED
  BY <1>1, <1>6, <1>7, <1>8, <1>9 DEF DispatchesSound

LEMMA DispatchKnown ==
  ASSUME DispatchesSound, NEW t \in Tasks
  PROVE  /\ tasks[t] \in Dispatch /\ DispatchSound(t, tasks[t])
BY DEF DispatchesSound, DispatchSound

\* The settings do not change with a dispatch.
LEMMA SettingsStay ==
  ASSUME EditsSound, UNCHANGED <<row, lock, edits, merged>>, CallFails \/ CallSucceeds
  PROVE  EditsSound'
<1>1. alertFaults' \in 0 .. MaxAlertFaults
  BY AlertBoundsAssumption DEF EditsSound, CallFails, CallSucceeds
<1>2. SettingsMerge'
  BY DEF EditsSound, SettingsMerge, Latest
<1>3. \A p \in Editors : (At(p, "lock") \/ At(p, "write"))' => Valid(edits[p].patch)'
  BY DEF EditsSound, At, Valid
<1>4. \A p \in Editors : At(p, "write")' => lock' = p /\ edits'[p].base = row' /\ row' # Unset
  BY DEF EditsSound, At
<1> QED
  BY <1>1, <1>2, <1>3, <1>4 DEF EditsSound

LEMMA DoneIs ==
  ASSUME NEW n, NEW v, NEW X, X = Done(n, v)
  PROVE  /\ X.at = "done" /\ X.started = n /\ X.answer = v
         /\ X.email = Unset /\ X.webhook = Unset /\ X.settings = Unset /\ X.seen = {}
         /\ n \in {0, 1} /\ v \in {Unset, "success", "error", "warning"} => X \in Dispatch
BY DEF Done, Idle, Dispatch, Result

\* A dispatch that ends without an answer of success.
LEMMA EndsQuietly ==
  ASSUME NEW t, NEW X \in Dispatch, X.at = "done", X.email = Unset, X.webhook = Unset,
         X.answer \in {Unset, "error"}
  PROVE  DispatchSound(t, X)'
<1>1. SendsSound(t, X)'
  BY UnsetAssumption DEF SendsSound
<1>2. ProgressSound(t, X)'
  BY DEF ProgressSound, Via
<1>3. AnswerSound(t, X)'
  BY UnsetAssumption DEF AnswerSound
<1> QED
  BY <1>1, <1>2, <1>3 DEF DispatchSound

\* Nothing was posted before.
LEMMA NothingPosted ==
  ASSUME DispatchesSound, NEW t \in Tasks, tasks[t].at \in {"idle", "load"}
  PROVE  \A via \in Via : ~ Left(t, via)
<1>1. SendsSound(t, tasks[t])
  BY DEF DispatchesSound, DispatchSound
<1> QED
  BY <1>1 DEF SendsSound, Via

LEMMA RaiseKeeps ==
  ASSUME AlertsSound, NEW e \in Events, NEW kind \in Kinds, Raise(e, kind)
  PROVE  AlertsSound'
<1>1. PICK x : x = tasks[e]
  OBVIOUS
<1>2. /\ x.at = "idle" /\ x \in Dispatch /\ e \in Tasks /\ DispatchSound(e, x)
      /\ \A via \in Via : ~ Left(e, via)
  BY <1>1, DispatchKnown, NothingPosted DEF Raise, AlertsSound, Tasks
<1>3. EditsSound'
  BY SettingsStay DEF Raise, AlertsSound
<1>4. DispatchesSound /\ UNCHANGED <<row, posted, accepted>>
  BY DEF Raise, AlertsSound
<1>5. accepted' \subseteq Tasks \X Via
  BY <1>4 DEF DispatchesSound
<1>6. PICK r : r = [task |-> e, what |-> "event"]
  OBVIOUS
<1>7. EntryTrue(r)'
  BY <1>2, <1>6 DEF EntryTrue
<1>8. CASE /\ audit' = audit \cup {r}
           /\ Put(e, [tasks[e] EXCEPT !.started = 1, !.at = "load", !.seen = {row}])
  <2>1. PICK X : X = [x EXCEPT !.started = 1, !.at = "load", !.seen = {row}]
    OBVIOUS
  <2>2. /\ X \in Dispatch /\ X.at = "load" /\ X.seen = {row}
        /\ X.email = x.email /\ X.webhook = x.webhook /\ X.answer = x.answer
    BY <1>2, <2>1 DEF Dispatch, AlertsSound, EditsSound
  <2>3. SendsSound(e, X)'
    BY <1>2, <1>4, <2>2 DEF DispatchSound, SendsSound, Left, Via
  <2>4. ProgressSound(e, X)'
    BY <1>4, <1>6, <1>8, <2>2 DEF ProgressSound, Logged, Via
  <2>5. AnswerSound(e, X)'
    BY <1>2, <2>2, UnsetAssumption DEF DispatchSound, AnswerSound
  <2>6. tasks' = [tasks EXCEPT ![e] = X]
    BY <1>1, <1>8, <2>1 DEF Put
  <2>7. DispatchSound(e, X)'
    BY <2>2, <2>3, <2>4, <2>5 DEF DispatchSound
  <2>8. DispatchesSound'
    BY <1>1, <1>2, <1>4, <1>5, <1>7, <1>8, <2>6, <2>7, DispatchMoves
  <2> QED
    BY <1>3, <2>8 DEF AlertsSound
<1>9. CASE /\ audit' = audit \cup {r} \/ audit' = audit
           /\ Go(e, "done")
  <2>1. PICK X : X = [x EXCEPT !.at = "done"]
    OBVIOUS
  <2>2. /\ X \in Dispatch /\ X.at = "done"
        /\ X.email = x.email /\ X.webhook = x.webhook /\ X.answer = x.answer
    BY <1>2, <2>1 DEF Dispatch
  <2>3. SendsSound(e, X)'
    BY <1>2, <1>4, <2>2 DEF DispatchSound, SendsSound, Left
  <2>4. ProgressSound(e, X)'
    BY <2>2 DEF ProgressSound, Via
  <2>5. AnswerSound(e, X)'
    BY <1>2, <2>2, UnsetAssumption DEF DispatchSound, AnswerSound
  <2>6. tasks' = [tasks EXCEPT ![e] = X]
    BY <1>1, <1>9, <2>1 DEF Go, Put
  <2>7. DispatchSound(e, X)'
    BY <2>2, <2>3, <2>4, <2>5 DEF DispatchSound
  <2>8. DispatchesSound'
    BY <1>1, <1>2, <1>4, <1>5, <1>7, <1>9, <2>6, <2>7, DispatchMoves
  <2> QED
    BY <1>3, <2>8 DEF AlertsSound
<1> QED
  BY <1>6, <1>8, <1>9 DEF Raise

\* The first channel is one that was selected.
LEMMA FirstSelected ==
  \A channel \in Channels :
    /\ First(channel) \in Via \cup {"record"}
    /\ First(channel) \in Via => First(channel) \in SelectedVia(channel)
    /\ First(channel) = "webhook" => channel = "webhook"
BY DEF First, SelectedVia, Channels, Via

LEMMA LoadKeeps ==
  ASSUME AlertsSound, NEW t \in Tasks, Load(t)
  PROVE  AlertsSound'
<1>1. PICK x : x = tasks[t]
  OBVIOUS
<1>2. /\ x.at = "load" /\ x \in Dispatch /\ DispatchSound(t, x)
      /\ \A via \in Via : ~ Left(t, via)
  BY <1>1, DispatchKnown, NothingPosted DEF Load, AlertsSound
<1>3. EditsSound'
  BY SettingsStay DEF Load, AlertsSound
<1>4. DispatchesSound /\ UNCHANGED <<row, posted, accepted, audit>>
  BY DEF Load, AlertsSound
<1>5. accepted' \subseteq Tasks \X Via
  BY <1>4 DEF DispatchesSound
<1>6. CASE row # Unset /\ Put(t, [tasks[t] EXCEPT !.settings = row, !.at = First(row.channel)])
  <2>1. PICK X : X = [x EXCEPT !.settings = row, !.at = First(row.channel)]
    OBVIOUS
  <2>2. row \in Settings /\ row.channel \in Channels
    BY <1>6 DEF AlertsSound, EditsSound, Settings
  <2>3. /\ X.at = First(row.channel) /\ X.settings = row /\ X.seen = x.seen
        /\ X.email = x.email /\ X.webhook = x.webhook /\ X.answer = x.answer
    BY <1>2, <2>1 DEF Dispatch
  <2>4. X.at \in Via \cup {"record"} /\ (X.at \in Via => X.at \in SelectedVia(row.channel))
    BY <2>2, <2>3, FirstSelected
  <2>5. X \in Dispatch
    <3>1. First(row.channel) \in {"idle", "load", "email", "webhook", "record", "done"}
      BY <2>3, <2>4 DEF Via
    <3> QED
      BY <1>2, <2>1, <2>2, <3>1 DEF Dispatch
  <2>6. SendsSound(t, X)'
    BY <1>2, <1>4, <2>3, <2>4 DEF DispatchSound, SendsSound, Left, Via
  <2>7. ProgressSound(t, X)'
    <3>1. row \in x.seen /\ (t \in Events => Logged(t))
      BY <1>2 DEF DispatchSound, ProgressSound
    <3> QED
      BY <1>4, <2>2, <2>3, <2>4, <3>1 DEF ProgressSound, Logged, Via
  <2>8. AnswerSound(t, X)'
    BY <1>2, <2>3, UnsetAssumption DEF DispatchSound, AnswerSound
  <2>9. tasks' = [tasks EXCEPT ![t] = X]
    BY <1>1, <1>6, <2>1 DEF Put
  <2>10. DispatchSound(t, X)'
    BY <2>5, <2>6, <2>7, <2>8 DEF DispatchSound
  <2>11. DispatchesSound'
    BY <1>1, <1>2, <1>4, <1>5, <2>9, <2>10, DispatchMoves
  <2> QED
    BY <1>3, <2>11 DEF AlertsSound
<1>7. CASE Go(t, "record")
  <2>1. PICK X : X = [x EXCEPT !.at = "record"]
    OBVIOUS
  <2>2. /\ X \in Dispatch /\ X.at = "record"
        /\ X.email = x.email /\ X.webhook = x.webhook /\ X.answer = x.answer
    BY <1>2, <2>1 DEF Dispatch
  <2>3. SendsSound(t, X)'
    BY <1>2, <1>4, <2>2 DEF DispatchSound, SendsSound, Left, Via
  <2>4. ProgressSound(t, X)'
    BY <2>2 DEF ProgressSound, Via
  <2>5. AnswerSound(t, X)'
    BY <1>2, <2>2, UnsetAssumption DEF DispatchSound, AnswerSound
  <2>6. tasks' = [tasks EXCEPT ![t] = X]
    BY <1>1, <1>7, <2>1 DEF Go, Put
  <2>7. DispatchSound(t, X)'
    BY <2>2, <2>3, <2>4, <2>5 DEF DispatchSound
  <2>8. DispatchesSound'
    BY <1>1, <1>2, <1>4, <1>5, <2>6, <2>7, DispatchMoves
  <2> QED
    BY <1>3, <2>8 DEF AlertsSound
<1> QED
  BY <1>6, <1>7 DEF Load

\* A channel was used, with result o: what left is P.
LEMMA ChannelUsed ==
  ASSUME DispatchesSound, NEW t \in Tasks, NEW via \in Via, tasks[t].at = via,
         NEW o \in {"skipped", "accepted", "failed"}, NEW P,
         \A m \in P : m = [task |-> t, via |-> via, to |-> tasks[t].settings.recipient],
         P # {} => o # "skipped",
         posted' = posted \cup P,
         accepted' = accepted \/ accepted' = accepted \cup {<<t, via>>},
         o = "accepted" => accepted' = accepted \cup {<<t, via>>},
         Put(t, [tasks[t] EXCEPT ![via] = o, !.at = After(via, tasks[t].settings.channel)]),
         UNCHANGED <<row, audit>>
  PROVE  DispatchesSound'
<1>1. PICK x : x = tasks[t]
  OBVIOUS
<1>2. /\ x.at = via /\ x \in Dispatch /\ DispatchSound(t, x)
      /\ x.settings \in Settings \cap x.seen /\ x.settings.recipient \in Recipients
      /\ via \in SelectedVia(x.settings.channel)
      /\ row \in x.seen /\ (t \in Events => Logged(t)) /\ x.answer = Unset
  BY <1>1, DispatchKnown DEF DispatchSound, ProgressSound, AnswerSound, Settings, Via
<1>3. PICK next : next = After(via, x.settings.channel)
  OBVIOUS
<1>4. next \in {"record", "webhook"} /\ (next = "webhook" => via = "email" /\ x.settings.channel = "both")
  BY <1>3 DEF After
<1>5. PICK X : X = [x EXCEPT ![via] = o, !.at = next]
  OBVIOUS
<1>6. /\ X \in Dispatch /\ X.at = next /\ X.settings = x.settings /\ X.seen = x.seen /\ X.answer = x.answer
      /\ X.email = (IF via = "email" THEN o ELSE x.email)
      /\ X.webhook = (IF via = "webhook" THEN o ELSE x.webhook)
  <2>1. CASE via = "email"
    <3>1. X = [x EXCEPT !.email = o, !.at = next]
      BY <1>5, <2>1
    <3> QED
      BY <1>2, <1>4, <2>1, <3>1 DEF Dispatch, Result
  <2>2. CASE via = "webhook"
    <3>1. X = [x EXCEPT !.webhook = o, !.at = next]
      BY <1>5, <2>2
    <3> QED
      BY <1>2, <1>4, <2>2, <3>1 DEF Dispatch, Result
  <2> QED
    BY <2>1, <2>2 DEF Via
<1>7. /\ \A w \in Via : w # via => (Left(t, w)' <=> Left(t, w))
      /\ Left(t, via)' => Left(t, via) \/ o # "skipped"
      /\ ~ Left(t, "webhook")
      /\ via = "email" => ~ Left(t, "email")
  <2>1. ~ Left(t, "webhook") /\ (via = "email" => ~ Left(t, "email"))
    BY <1>2 DEF DispatchSound, SendsSound, Via
  <2>2. PICK q : q = [task |-> t, via |-> via, to |-> tasks[t].settings.recipient]
    OBVIOUS
  <2>3. q.task = t /\ q.via = via
    BY <2>2
  <2>4. \A m \in P : m.task = t /\ m.via = via
    BY <2>2, <2>3
  <2> QED
    BY <2>1, <2>4 DEF Left
<1>8. SendsSound(t, X)'
  <2>1. CASE via = "email"
    <3>1. ~ Left(t, "webhook")'
      BY <1>7, <2>1 DEF Via
    <3>2. Left(t, "email")' => o # "skipped"
      BY <1>7, <2>1
    <3>3. x.webhook = "accepted" => <<t, "webhook">> \in accepted
      BY <1>2 DEF DispatchSound, SendsSound
    <3> QED
      BY <1>4, <1>6, <2>1, <3>1, <3>2, <3>3 DEF SendsSound
  <2>2. CASE via = "webhook"
    <3>1. Left(t, "email")' <=> Left(t, "email")
      BY <1>7, <2>2 DEF Via
    <3>2. Left(t, "webhook")' => o # "skipped"
      BY <1>7, <2>2
    <3>3. /\ x.email = "accepted" => <<t, "email">> \in accepted
          /\ Left(t, "email") => x.email \in {"accepted", "failed"}
      BY <1>2, <2>2 DEF DispatchSound, SendsSound
    <3> QED
      BY <1>4, <1>6, <2>2, <3>1, <3>2, <3>3 DEF SendsSound
  <2> QED
    BY <2>1, <2>2 DEF Via
<1>9. ProgressSound(t, X)'
  <2>1. next = "webhook" => next \in SelectedVia(x.settings.channel)
    BY <1>4 DEF SelectedVia, Via
  <2> QED
    BY <1>2, <1>4, <1>6, <2>1 DEF ProgressSound, Logged, Via
<1>10. AnswerSound(t, X)'
  BY <1>2, <1>6, UnsetAssumption DEF AnswerSound
<1>11. DispatchSound(t, X)'
  BY <1>6, <1>8, <1>9, <1>10 DEF DispatchSound
<1>12. tasks' = [tasks EXCEPT ![t] = X]
  BY <1>1, <1>3, <1>5 DEF Put
<1>13. \A m \in posted' \ posted : m \in [task : {t}, via : Via, to : Recipients]
  <2>1. PICK m : m = [task |-> t, via |-> via, to |-> tasks[t].settings.recipient]
    OBVIOUS
  <2>2. m \in [task : {t}, via : Via, to : Recipients]
    BY <1>1, <1>2, <2>1
  <2>3. posted' \ posted \subseteq {m}
    BY <2>1
  <2> QED
    BY <2>2, <2>3
<1>14. accepted' \subseteq Tasks \X Via /\ accepted \subseteq accepted' /\ posted \subseteq posted'
  <2>1. <<t, via>> \in Tasks \X Via /\ accepted \subseteq Tasks \X Via
    BY DEF DispatchesSound
  <2> QED
    BY <2>1
<1>15. tasks[t].at # "done"
  BY DEF Via
<1> QED
  BY <1>2, <1>11, <1>12, <1>13, <1>14, <1>15, DispatchMoves

LEMMA SendKeeps ==
  ASSUME AlertsSound, NEW t \in Tasks, NEW via \in Via, Send(t, via)
  PROVE  AlertsSound'
<1>1. EditsSound'
  BY SettingsStay DEF Send, AlertsSound, CallSucceeds
<1>2. DispatchesSound /\ tasks[t].at = via /\ UNCHANGED <<row, audit>>
  BY DEF Send, AlertsSound
<1> DEFINE message == [task |-> t, via |-> via, to |-> tasks[t].settings.recipient]
           Used(o) == Put(t, [tasks[t] EXCEPT ![via] = o, !.at = After(via, tasks[t].settings.channel)])
<1>3. CASE Used("skipped") /\ UNCHANGED <<posted, accepted>>
  <2>1. PICK P, o : P = {} /\ o = "skipped"
    OBVIOUS
  <2>2. /\ o \in {"skipped", "accepted", "failed"} /\ posted' = posted \cup P
        /\ P # {} => o # "skipped"
        /\ accepted' = accepted \/ accepted' = accepted \cup {<<t, via>>}
        /\ o = "accepted" => accepted' = accepted \cup {<<t, via>>}
        /\ \A m \in P : m = message
    BY <1>3, <2>1
  <2> QED
    BY <1>1, <1>2, <1>3, <2>1, <2>2, ChannelUsed DEF AlertsSound
<1>4. CASE /\ posted' = posted \cup {message}
           /\ \E r \in Outcomes :
                Used(r[1]) /\ accepted' = IF r[2] THEN accepted \cup {<<t, via>>} ELSE accepted
  <2>1. PICK P : P = {message}
    OBVIOUS
  <2>2. PICK r \in Outcomes :
          Used(r[1]) /\ accepted' = IF r[2] THEN accepted \cup {<<t, via>>} ELSE accepted
    BY <1>4
  <2>3. PICK o : o = r[1]
    OBVIOUS
  <2>4. /\ o \in {"accepted", "failed"}
        /\ accepted' = accepted \/ accepted' = accepted \cup {<<t, via>>}
        /\ o = "accepted" => accepted' = accepted \cup {<<t, via>>}
    <3>1. r = <<"accepted", TRUE>> \/ r = <<"failed", TRUE>> \/ r = <<"failed", FALSE>>
      BY DEF Outcomes
    <3>2. CASE r = <<"accepted", TRUE>>
      <4>1. r[1] = "accepted" /\ r[2]
        BY <3>2
      <4> QED
        BY <2>2, <2>3, <4>1
    <3>3. CASE r = <<"failed", TRUE>>
      <4>1. r[1] = "failed" /\ r[2]
        BY <3>3
      <4> QED
        BY <2>2, <2>3, <4>1
    <3>4. CASE r = <<"failed", FALSE>>
      <4>1. r[1] = "failed" /\ ~ r[2]
        BY <3>4
      <4> QED
        BY <2>2, <2>3, <4>1
    <3> QED
      BY <3>1, <3>2, <3>3, <3>4
  <2> QED
    <3>1. /\ o \in {"skipped", "accepted", "failed"} /\ posted' = posted \cup P
          /\ P # {} => o # "skipped"
          /\ \A m \in P : m = message
          /\ Used(o)
      BY <1>4, <2>1, <2>2, <2>3, <2>4
    <3> QED
      BY <1>1, <1>2, <2>4, <3>1, ChannelUsed DEF AlertsSound
<1> QED
  BY <1>3, <1>4 DEF Send

\* What the results of the channels come to.
LEMMA StatusIs ==
  ASSUME NEW t, NEW x, x = tasks[t], x \in Dispatch
  PROVE  /\ Status(t) \in {"sent", "failed", "skipped"} /\ Accepted(t) \in BOOLEAN
         /\ Status(t) = "sent" => /\ x.email # "failed" /\ x.webhook # "failed"
                                  /\ x.email = "accepted" \/ x.webhook = "accepted"
         /\ Status(t) = "skipped" => x.email \notin {"accepted", "failed"} /\ x.webhook \notin {"accepted", "failed"}
         /\ Accepted(t) => x.email = "accepted" \/ x.webhook = "accepted"
<1>1. "accepted" \in Results(t) <=> x.email = "accepted" \/ x.webhook = "accepted"
  BY UnsetAssumption DEF Results
<1>2. "failed" \in Results(t) <=> x.email = "failed" \/ x.webhook = "failed"
  BY UnsetAssumption DEF Results
<1> QED
  BY <1>1, <1>2 DEF Status, Accepted

\* The end of a dispatch is what its channels saw.
LEMMA RecordKeeps ==
  ASSUME AlertsSound, NEW t \in Tasks, Record(t)
  PROVE  AlertsSound'
<1>1. PICK x, s, b, v :
        x = tasks[t] /\ s = Status(t) /\ b = Accepted(t) /\ v = (IF t \in Tests THEN Answer(t) ELSE Unset)
  OBVIOUS
<1>2. x.at = "record" /\ x \in Dispatch /\ SendsSound(t, x)
  BY <1>1, DispatchKnown DEF Record, AlertsSound, DispatchSound
<1>3. EditsSound'
  BY SettingsStay DEF Record, AlertsSound
<1>4. DispatchesSound /\ UNCHANGED <<row, posted, accepted>>
  BY DEF Record, AlertsSound
<1>5. /\ s \in {"sent", "failed", "skipped"}
      /\ s = "sent" => /\ x.email # "failed" /\ x.webhook # "failed"
                       /\ x.email = "accepted" \/ x.webhook = "accepted"
      /\ s = "skipped" => x.email \notin {"accepted", "failed"} /\ x.webhook \notin {"accepted", "failed"}
      /\ b => x.email = "accepted" \/ x.webhook = "accepted"
  BY <1>1, <1>2, StatusIs
<1>6. s = "sent" => /\ \E via \in Via : <<t, via>> \in accepted
                    /\ \A via \in Via : Left(t, via) => <<t, via>> \in accepted
  <2> SUFFICES ASSUME s = "sent"
               PROVE  /\ \E via \in Via : <<t, via>> \in accepted
                      /\ \A via \in Via : Left(t, via) => <<t, via>> \in accepted
    OBVIOUS
  <2>1. <<t, "email">> \in accepted \/ <<t, "webhook">> \in accepted
    BY <1>2, <1>5 DEF SendsSound
  <2>2. /\ Left(t, "email") => <<t, "email">> \in accepted
        /\ Left(t, "webhook") => <<t, "webhook">> \in accepted
    BY <1>2, <1>5 DEF SendsSound
  <2> QED
    BY <2>1, <2>2 DEF Via
<1>7. s = "skipped" => \A via \in Via : ~ Left(t, via)
  BY <1>2, <1>5 DEF SendsSound, Via
<1>8. b => \E via \in Via : <<t, via>> \in accepted
  BY <1>2, <1>5 DEF SendsSound, Via
<1>9. PICK X : X = Done(x.started, v)
  OBVIOUS
<1>10. /\ v \in {Unset, "success", "error", "warning"}
       /\ v = "success" => s = "sent"
       /\ v = "warning" => s = "skipped"
  BY <1>1, <1>5, UnsetAssumption DEF Answer
<1>11. /\ X.at = "done" /\ X.answer = v /\ X.email = Unset /\ X.webhook = Unset /\ X \in Dispatch
  <2>1. x.started \in {0, 1}
    BY <1>2 DEF Dispatch
  <2> QED
    BY <1>9, <1>10, <2>1, DoneIs
<1>12. DispatchSound(t, X)'
  <2>1. SendsSound(t, X)'
    BY <1>11, UnsetAssumption DEF SendsSound
  <2>2. ProgressSound(t, X)'
    BY <1>11 DEF ProgressSound, Via
  <2>3. v = "success" => \E via \in Via : <<t, via>> \in accepted
    BY <1>6, <1>10
  <2>4. v = "warning" => \A via \in Via : ~ Left(t, via)'
    BY <1>4, <1>7, <1>10 DEF Left
  <2>5. AnswerSound(t, X)'
    BY <1>4, <1>11, <2>3, <2>4 DEF AnswerSound
  <2> QED
    BY <1>11, <2>1, <2>2, <2>5 DEF DispatchSound
<1>13. tasks' = [tasks EXCEPT ![t] = X] /\ tasks'[t] = X
  BY <1>1, <1>4, <1>9 DEF Record, Put, DispatchesSound
<1>14. PICK r : r = [task |-> t, what |-> s, accepted |-> b]
  OBVIOUS
<1>15. r.task = t /\ r.what = s /\ r.accepted = b
  BY <1>14
<1>16. EntryTrue(r)'
  <2>1. \A via : Left(t, via)' <=> Left(t, via)
    BY <1>4 DEF Left
  <2> QED
    BY <1>4, <1>6, <1>7, <1>8, <1>11, <1>13, <1>15, <2>1 DEF EntryTrue
<1>17. audit' = audit \cup {r} \/ audit' = audit
  BY <1>1, <1>14 DEF Record
<1>18. \A a \in audit' \ audit : EntryTrue(a)'
  BY <1>16, <1>17
<1>19. accepted' \subseteq Tasks \X Via
  BY <1>4 DEF DispatchesSound
<1>20. DispatchesSound'
  BY <1>1, <1>2, <1>4, <1>12, <1>13, <1>17, <1>18, <1>19, DispatchMoves
<1> QED
  BY <1>3, <1>20 DEF AlertsSound

\* The rows that a test alert writes about itself raise no alert.
LEMMA OwnRowsRaiseNone == \A t, status : OwnRow(t, status) = 0
BY DEF OwnRow, ShouldAlert, TestKind

LEMMA TestKeeps ==
  ASSUME AlertsSound, NEW t \in Tests, Test(t)
  PROVE  AlertsSound'
<1>1. PICK x : x = tasks[t]
  OBVIOUS
<1>2. /\ x.at = "idle" /\ x \in Dispatch /\ t \in Tasks /\ DispatchSound(t, x) /\ t \notin Events
      /\ \A via \in Via : ~ Left(t, via)
  BY <1>1, DispatchKnown, NothingPosted, TasksAssumption DEF Test, AlertsSound, Tasks
<1>3. EditsSound'
  BY SettingsStay DEF Test, AlertsSound
<1>4. DispatchesSound /\ UNCHANGED <<row, posted, accepted>>
  BY DEF Test, AlertsSound
<1>5. accepted' \subseteq Tasks \X Via
  BY <1>4 DEF DispatchesSound
<1>6. PICK r, q : r = [task |-> t, what |-> "requested"]
                  /\ q = [task |-> t, what |-> "skipped", accepted |-> FALSE]
  OBVIOUS
<1>7. EntryTrue(r)'
  BY <1>2, <1>6 DEF EntryTrue
<1>8. CASE /\ audit' = audit \cup {r} \/ audit' = audit
           /\ Put(t, [tasks[t] EXCEPT !.at = "load", !.seen = {row}, !.started = 1])
  <2>1. PICK X : X = [x EXCEPT !.at = "load", !.seen = {row}, !.started = 1]
    OBVIOUS
  <2>2. /\ X \in Dispatch /\ X.at = "load" /\ X.seen = {row}
        /\ X.email = x.email /\ X.webhook = x.webhook /\ X.answer = x.answer
    BY <1>2, <2>1 DEF Dispatch, AlertsSound, EditsSound
  <2>3. SendsSound(t, X)'
    BY <1>2, <1>4, <2>2 DEF DispatchSound, SendsSound, Left, Via
  <2>4. ProgressSound(t, X)'
    BY <1>2, <1>4, <2>2 DEF ProgressSound, Via
  <2>5. AnswerSound(t, X)'
    BY <1>2, <2>2, UnsetAssumption DEF DispatchSound, AnswerSound
  <2>6. tasks' = [tasks EXCEPT ![t] = X]
    BY <1>1, <1>8, <2>1 DEF Put
  <2>7. DispatchSound(t, X)'
    BY <2>2, <2>3, <2>4, <2>5 DEF DispatchSound
  <2>8. DispatchesSound'
    BY <1>1, <1>2, <1>4, <1>5, <1>7, <1>8, <2>6, <2>7, DispatchMoves
  <2> QED
    BY <1>3, <2>8 DEF AlertsSound
<1>9. CASE /\ audit' = audit \cup {r, q}
           /\ Put(t, Done(0, "error"))
  <2>1. PICK X : X = Done(0, "error")
    OBVIOUS
  <2>2. X \in Dispatch /\ X.at = "done" /\ X.email = Unset /\ X.webhook = Unset /\ X.answer = "error"
    BY <2>1, DoneIs
  <2>3. DispatchSound(t, X)'
    BY <2>2, EndsQuietly
  <2>4. tasks' = [tasks EXCEPT ![t] = X] /\ tasks'[t] = X
    BY <1>2, <1>4, <1>9, <2>1 DEF Put, DispatchesSound
  <2>5. q.task = t /\ q.what = "skipped" /\ q.accepted = FALSE
    BY <1>6
  <2>6. \A via \in Via : ~ Left(t, via)'
    BY <1>2, <1>4 DEF Left
  <2>7. EntryTrue(q)'
    BY <1>2, <2>2, <2>4, <2>5, <2>6 DEF EntryTrue
  <2>8. DispatchesSound'
    BY <1>1, <1>2, <1>4, <1>5, <1>7, <1>9, <2>3, <2>4, <2>7, DispatchMoves
  <2> QED
    BY <1>3, <2>8 DEF AlertsSound
<1>10. OwnRow(t, "success") = 0 /\ OwnRow(t, "warning") = 0
  BY OwnRowsRaiseNone
<1>11. 1 + 0 = 1 /\ 0 + 0 = 0
  OBVIOUS
<1> QED
  BY <1>6, <1>8, <1>9, <1>10, <1>11 DEF Test
-----------------------------------------------------------------------------
(* Steps of a settings request.                                            *)

LEMMA DispatchesStay ==
  ASSUME DispatchesSound, UNCHANGED <<row, tasks, audit, posted, accepted>>
  PROVE  DispatchesSound'
BY DEF DispatchesSound, DispatchSound, SendsSound, ProgressSound, AnswerSound, EntryTrue, Left, Logged

\* One request moves on, and the row stays as it is.
LEMMA EditMoves ==
  ASSUME EditsSound, NEW p \in Editors, NEW E, edits' = [edits EXCEPT ![p] = E],
         UNCHANGED <<row, merged>>, alertFaults' \in 0 .. MaxAlertFaults,
         lock' \in Editors \cup {Unset},
         EditTyped(E),
         E.at \in {"lock", "write"} => Valid(E.patch),
         E.at = "write" => lock' = p /\ E.base = row /\ row # Unset,
         \A q \in Editors : q # p /\ At(q, "write") => lock' = q
  PROVE  EditsSound'
<1>1. edits' = [q \in Editors |-> edits'[q]] /\ edits'[p] = E
      /\ \A q \in Editors : q # p => edits'[q] = edits[q]
  BY DEF EditsSound
<1>2. SettingsMerge'
  BY DEF EditsSound, SettingsMerge, Latest
<1>3. ASSUME NEW q \in Editors
      PROVE  /\ edits'[q] # Unset => EditTyped(edits'[q])
             /\ (At(q, "lock") \/ At(q, "write"))' => Valid(edits'[q].patch)
             /\ At(q, "write")' => lock' = q /\ edits'[q].base = row' /\ row' # Unset
  <2>1. CASE q = p
    BY <1>1, <2>1 DEF At
  <2>2. CASE q # p
    <3>1. edits'[q] = edits[q]
      BY <1>1, <2>2
    <3>2. /\ edits[q] # Unset => EditTyped(edits[q])
          /\ At(q, "lock") \/ At(q, "write") => Valid(edits[q].patch)
          /\ At(q, "write") => edits[q].base = row /\ row # Unset
      BY DEF EditsSound
    <3> QED
      BY <2>2, <3>1, <3>2 DEF At
  <2> QED
    BY <2>1, <2>2
<1>4. \A q \in Editors : (At(q, "lock") \/ At(q, "write"))' => Valid(edits[q].patch)'
  BY <1>3 DEF Valid
<1>5. \A q \in Editors : edits'[q] # Unset => EditTyped(edits[q])'
  BY <1>3 DEF EditTyped
<1> QED
  BY <1>1, <1>2, <1>3, <1>4, <1>5 DEF EditsSound

LEMMA SubmitKeeps ==
  ASSUME AlertsSound, NEW p \in Editors, NEW patch, Submit(p, patch)
  PROVE  AlertsSound'
<1>1. PICK E : E = [at |-> "lock", patch |-> patch, base |-> Unset]
  OBVIOUS
<1>2. E.at = "lock" /\ Valid(E.patch) /\ EditTyped(E)
  BY <1>1 DEF Submit, EditTyped
<1>3. EditsSound /\ DispatchesSound /\ lock \in Editors \cup {Unset} /\ alertFaults \in 0 .. MaxAlertFaults
  BY DEF AlertsSound, EditsSound
<1>4. /\ edits' = [edits EXCEPT ![p] = E]
      /\ UNCHANGED <<row, lock, tasks, audit, posted, accepted, alertFaults, merged>>
  BY <1>1 DEF Submit
<1>5. \A q \in Editors : q # p /\ At(q, "write") => lock' = q
  BY <1>3, <1>4 DEF EditsSound
<1>6. EditsSound'
  BY <1>2, <1>3, <1>4, <1>5, EditMoves
<1>7. DispatchesSound'
  BY <1>3, <1>4, DispatchesStay
<1> QED
  BY <1>6, <1>7 DEF AlertsSound

LEMMA LockKeeps ==
  ASSUME AlertsSound, NEW p \in Editors, Lock(p)
  PROVE  AlertsSound'
<1>1. EditsSound /\ DispatchesSound /\ alertFaults \in 0 .. MaxAlertFaults
  BY DEF AlertsSound, EditsSound
<1>2. At(p, "lock") /\ lock = Unset /\ UNCHANGED <<row, tasks, audit, posted, accepted, alertFaults, merged>>
  BY DEF Lock
<1>3. \A q \in Editors : ~ At(q, "write")
  BY <1>1, <1>2, UnsetAssumption DEF EditsSound
<1>4. DispatchesSound'
  BY <1>1, <1>2, DispatchesStay
<1>5. CASE row # Unset /\ lock' = p /\ edits' = [edits EXCEPT ![p].at = "write", ![p].base = row]
  <2>1. PICK E : E = [edits[p] EXCEPT !.at = "write", !.base = row]
    OBVIOUS
  <2>2. edits' = [edits EXCEPT ![p] = E]
    BY <1>5, <2>1
  <2>3. EditTyped(edits[p]) /\ Valid(edits[p].patch)
    BY <1>1, <1>2 DEF EditsSound, At
  <2>4. E.at = "write" /\ E.base = row /\ E.patch = edits[p].patch /\ EditTyped(E)
    <3>1. E = [at |-> "write", patch |-> edits[p].patch, base |-> row]
      BY <2>1, <2>3 DEF EditTyped
    <3> QED
      BY <3>1 DEF EditTyped
  <2>5. EditsSound'
    BY <1>1, <1>2, <1>3, <1>5, <2>2, <2>3, <2>4, EditMoves
  <2> QED
    BY <1>4, <2>5 DEF AlertsSound
<1>6. CASE row = Unset /\ lock' = lock /\ edits' = [edits EXCEPT ![p] = Over]
  <2>1. PICK E : E = Over
    OBVIOUS
  <2>2. E.at = "over" /\ EditTyped(E)
    BY <2>1 DEF Over, EditTyped
  <2>3. EditsSound'
    BY <1>1, <1>2, <1>3, <1>6, <2>1, <2>2, EditMoves
  <2> QED
    BY <1>4, <2>3 DEF AlertsSound
<1> QED
  BY <1>5, <1>6 DEF Lock

\* g is f with u at its end.
Appends(g, f, n, u) ==
  /\ n \in Nat /\ DOMAIN f = 1 .. n /\ DOMAIN g = 1 .. n + 1
  /\ g[n + 1] = u /\ \A i \in 1 .. n : g[i] = f[i]

\* A change that is committed is the latest one of the fields that it sets.
LEMMA LatestAppends ==
  ASSUME NEW n, NEW f, NEW g, NEW u, NEW v, NEW w,
         Appends(g, f, n, u), Latest(v, f), w = IF u # Unset THEN u ELSE v
  PROVE  Latest(w, g)
<1>1. /\ n \in Nat /\ DOMAIN f = 1 .. n /\ DOMAIN g = 1 .. n + 1
      /\ g[n + 1] = u /\ \A i \in 1 .. n : g[i] = f[i]
  BY DEF Appends
<1>2. CASE u # Unset
  <2>1. n + 1 \in 1 .. n + 1 /\ g[n + 1] = w
    BY <1>1, <1>2
  <2>2. \A j \in 1 .. n + 1 : ~(j > n + 1)
    BY <1>1
  <2> QED
    BY <1>1, <2>1, <2>2 DEF Latest
<1>3. CASE u = Unset
  <2>1. PICK i \in 1 .. n : f[i] = v /\ \A j \in 1 .. n : j > i => f[j] = Unset
    BY <1>1 DEF Latest
  <2>2. ASSUME NEW j \in 1 .. n + 1, j > i PROVE g[j] = Unset
    BY <1>1, <1>3, <2>1, <2>2
  <2>3. i \in 1 .. n + 1 /\ g[i] = w
    BY <1>1, <1>3, <2>1
  <2> QED
    BY <1>1, <2>2, <2>3 DEF Latest
<1> QED
  BY <1>2, <1>3

LEMMA MergesLatest ==
  ASSUME EditsSound, NEW p \in Editors, At(p, "write"),
         row' = Merge(edits[p].base, edits[p].patch), merged' = Append(merged, edits[p].patch)
  PROVE  /\ row' \in Settings /\ SettingsMerge'
         /\ merged' = [i \in 1 .. Len(merged') |-> merged'[i]] /\ Len(merged') \in Nat \ {0}
<1>1. PICK m, n, patch : m = merged /\ n = Len(merged) /\ patch = edits[p].patch
  OBVIOUS
<1>2. /\ n \in Nat \ {0} /\ m = [i \in 1 .. n |-> m[i]]
      /\ edits[p].base = row /\ row \in Settings /\ Valid(patch) /\ SettingsMerge
  BY <1>1 DEF EditsSound
<1>3. PICK S : S = {m[i] : i \in 1 .. n} \cup {patch}
  OBVIOUS
<1>4. m \in Seq(S) /\ patch \in S
  BY <1>2, <1>3
<1>5. PICK t : t = Append(m, patch)
  OBVIOUS
<1>6. t \in Seq(S) /\ Len(t) = n + 1 /\ (\A i \in 1 .. n : t[i] = m[i]) /\ t[n + 1] = patch
  BY <1>1, <1>4, <1>5, AppendProperties
<1>7. t = [i \in 1 .. n + 1 |-> t[i]] /\ DOMAIN t = 1 .. n + 1
  BY <1>2, <1>6, LenProperties
<1>8. merged' = t
  BY <1>1, <1>5
<1>9. /\ row'.recipient = IF patch.recipient # Unset THEN patch.recipient ELSE row.recipient
      /\ row'.channel = IF patch.channel # Unset THEN patch.channel ELSE row.channel
  BY <1>1, <1>2 DEF Merge
<1>10. row' \in Settings
  <2>1. row'.recipient \in Recipients /\ row'.channel \in Channels
    BY <1>2, <1>9 DEF Valid, Settings
  <2>2. row' = [recipient |-> row'.recipient, channel |-> row'.channel]
    BY DEF Merge
  <2> QED
    BY <2>1, <2>2 DEF Settings
<1>11. DOMAIN m = 1 .. n
  BY <1>2
<1>12. /\ Latest(row.recipient, [i \in DOMAIN m |-> m[i].recipient])
       /\ Latest(row.channel, [i \in DOMAIN m |-> m[i].channel])
  BY <1>1, <1>2, UnsetAssumption DEF SettingsMerge
<1>13. Latest(row'.recipient, [i \in DOMAIN t |-> t[i].recipient])
  <2>1. PICK f, g, u, v, w : /\ f = [i \in DOMAIN m |-> m[i].recipient] /\ g = [i \in DOMAIN t |-> t[i].recipient]
                             /\ u = patch.recipient /\ v = row.recipient /\ w = row'.recipient
    OBVIOUS
  <2>2. f = [i \in 1 .. n |-> m[i].recipient] /\ g = [i \in 1 .. n + 1 |-> t[i].recipient]
    BY <1>7, <1>11, <2>1
  <2>3. DOMAIN f = 1 .. n /\ DOMAIN g = 1 .. n + 1
    BY <2>2
  <2>4. ASSUME NEW i \in 1 .. n PROVE g[i] = f[i]
    <3>1. i \in 1 .. n + 1
      BY <1>2
    <3> QED
      BY <1>6, <2>2, <3>1
  <2>5. g[n + 1] = u
    <3>1. n + 1 \in 1 .. n + 1
      BY <1>2
    <3> QED
      BY <1>6, <2>1, <2>2, <3>1
  <2>6. Latest(v, f) /\ w = IF u # Unset THEN u ELSE v
    BY <1>9, <1>12, <2>1
  <2>7. Appends(g, f, n, u)
    BY <1>2, <2>3, <2>4, <2>5 DEF Appends
  <2>8. Latest(w, g)
    BY <2>6, <2>7, LatestAppends
  <2> QED
    BY <2>1, <2>8
<1>14. Latest(row'.channel, [i \in DOMAIN t |-> t[i].channel])
  <2>1. PICK f, g, u, v, w : /\ f = [i \in DOMAIN m |-> m[i].channel] /\ g = [i \in DOMAIN t |-> t[i].channel]
                             /\ u = patch.channel /\ v = row.channel /\ w = row'.channel
    OBVIOUS
  <2>2. f = [i \in 1 .. n |-> m[i].channel] /\ g = [i \in 1 .. n + 1 |-> t[i].channel]
    BY <1>7, <1>11, <2>1
  <2>3. DOMAIN f = 1 .. n /\ DOMAIN g = 1 .. n + 1
    BY <2>2
  <2>4. ASSUME NEW i \in 1 .. n PROVE g[i] = f[i]
    <3>1. i \in 1 .. n + 1
      BY <1>2
    <3> QED
      BY <1>6, <2>2, <3>1
  <2>5. g[n + 1] = u
    <3>1. n + 1 \in 1 .. n + 1
      BY <1>2
    <3> QED
      BY <1>6, <2>1, <2>2, <3>1
  <2>6. Latest(v, f) /\ w = IF u # Unset THEN u ELSE v
    BY <1>9, <1>12, <2>1
  <2>7. Appends(g, f, n, u)
    BY <1>2, <2>3, <2>4, <2>5 DEF Appends
  <2>8. Latest(w, g)
    BY <2>6, <2>7, LatestAppends
  <2> QED
    BY <2>1, <2>8
<1>15. SettingsMerge'
  BY <1>8, <1>13, <1>14 DEF SettingsMerge, Latest
<1> QED
  BY <1>2, <1>6, <1>7, <1>8, <1>10, <1>15

LEMMA WriteKeeps ==
  ASSUME AlertsSound, NEW p \in Editors, Write(p)
  PROVE  AlertsSound'
<1>1. EditsSound /\ DispatchesSound /\ alertFaults \in 0 .. MaxAlertFaults /\ MaxAlertFaults \in Nat
  BY AlertBoundsAssumption DEF AlertsSound, EditsSound
<1>2. /\ At(p, "write") /\ lock = p /\ edits' = [edits EXCEPT ![p] = Over]
      /\ UNCHANGED <<env, audit, posted, accepted>>
      /\ lock' = Unset
  BY <1>1 DEF Write, EditsSound
<1>3. PICK E : E = Over
  OBVIOUS
<1>4. E.at = "over" /\ EditTyped(E)
  BY <1>3 DEF Over, EditTyped
<1>5. \A q \in Editors : q # p => ~ At(q, "write")
  BY <1>1, <1>2 DEF EditsSound
<1>6. CASE /\ CallSucceeds /\ row' = Merge(edits[p].base, edits[p].patch)
           /\ merged' = Append(merged, edits[p].patch)
           /\ tasks' = [t \in Tasks |-> IF Running(t) THEN [tasks[t] EXCEPT !.seen = @ \cup {row'}] ELSE tasks[t]]
  <2>1. /\ row' \in Settings /\ SettingsMerge'
        /\ merged' = [i \in 1 .. Len(merged') |-> merged'[i]] /\ Len(merged') \in Nat \ {0}
    BY <1>1, <1>2, <1>6, MergesLatest
  <2>2. edits' = [q \in Editors |-> edits'[q]] /\ edits'[p] = E
        /\ \A q \in Editors : q # p => edits'[q] = edits[q]
    BY <1>1, <1>2, <1>3 DEF EditsSound
  <2>3. ASSUME NEW q \in Editors
        PROVE  /\ edits'[q] # Unset => EditTyped(edits'[q])
               /\ (At(q, "lock") \/ At(q, "write"))' => Valid(edits'[q].patch)
               /\ ~ At(q, "write")'
    <3>1. CASE q = p
      BY <1>4, <2>2, <3>1 DEF At
    <3>2. CASE q # p
      <4>1. edits'[q] = edits[q]
        BY <2>2, <3>2
      <4>2. /\ edits[q] # Unset => EditTyped(edits[q])
            /\ At(q, "lock") \/ At(q, "write") => Valid(edits[q].patch)
        BY <1>1 DEF EditsSound
      <4> QED
        BY <1>5, <3>2, <4>1, <4>2 DEF At
    <3> QED
      BY <3>1, <3>2
  <2>4. /\ \A q \in Editors : (At(q, "lock") \/ At(q, "write"))' => Valid(edits[q].patch)'
        /\ \A q \in Editors : edits'[q] # Unset => EditTyped(edits[q])'
    BY <2>3 DEF Valid, EditTyped
  <2>5. EditsSound'
    BY <1>1, <1>2, <1>6, <2>1, <2>2, <2>3, <2>4 DEF EditsSound, CallSucceeds
  <2>6. ASSUME NEW t \in Tasks
        PROVE  DispatchSound(t, tasks[t])' /\ tasks'[t].at = tasks[t].at
    <3>1. PICK x : x = tasks[t]
      OBVIOUS
    <3>2. x \in Dispatch /\ DispatchSound(t, x)
      BY <1>1, <3>1, DispatchKnown
    <3>3. PICK X : X = tasks'[t]
      OBVIOUS
    <3>4. X = IF x.at \notin {"idle", "done"} THEN [x EXCEPT !.seen = @ \cup {row'}] ELSE x
      BY <1>6, <3>1, <3>3 DEF Running
    <3>5. /\ X \in Dispatch /\ X.at = x.at /\ X.settings = x.settings /\ X.email = x.email
          /\ X.webhook = x.webhook /\ X.answer = x.answer
      BY <2>1, <3>2, <3>4 DEF Dispatch
    <3>6. /\ x.seen \subseteq X.seen
          /\ x.at \notin {"idle", "done"} => row' \in X.seen
      BY <3>2, <3>4 DEF Dispatch
    <3>7. SendsSound(t, X)'
      BY <1>2, <3>2, <3>5 DEF DispatchSound, SendsSound, Left
    <3>8. ProgressSound(t, X)'
      BY <1>2, <3>2, <3>5, <3>6 DEF DispatchSound, ProgressSound, Logged, Via
    <3>9. AnswerSound(t, X)'
      BY <1>2, <3>2, <3>5 DEF DispatchSound, AnswerSound, Left
    <3>10. DispatchSound(t, X)'
      BY <3>5, <3>7, <3>8, <3>9 DEF DispatchSound
    <3> QED
      BY <3>1, <3>3, <3>5, <3>10 DEF DispatchSound, SendsSound, ProgressSound, AnswerSound
  <2>7. \A a \in audit : EntryTrue(a)'
    <3> SUFFICES ASSUME NEW a \in audit PROVE EntryTrue(a)'
      OBVIOUS
    <3>1. EntryTrue(a) /\ a.task \in Tasks
      BY <1>1 DEF DispatchesSound, EntryTrue
    <3>2. tasks'[a.task].at = tasks[a.task].at
      BY <2>6, <3>1
    <3> QED
      BY <1>2, <3>1, <3>2 DEF EntryTrue, Left
  <2>8. tasks' = [t \in Tasks |-> tasks'[t]]
    BY <1>6
  <2>9. DispatchesSound'
    BY <1>1, <1>2, <2>6, <2>7, <2>8 DEF DispatchesSound, Logged
  <2> QED
    BY <2>5, <2>9 DEF AlertsSound
<1>7. CASE CallFails /\ UNCHANGED <<row, tasks, merged>>
  <2>1. alertFaults' \in 0 .. MaxAlertFaults
    BY <1>1, <1>7 DEF CallFails
  <2>2. EditsSound'
    BY <1>1, <1>2, <1>3, <1>4, <1>5, <1>7, <2>1, EditMoves
  <2>3. DispatchesSound'
    BY <1>1, <1>2, <1>7, DispatchesStay
  <2> QED
    BY <2>2, <2>3 DEF AlertsSound
<1> QED
  BY <1>6, <1>7 DEF Write

LEMMA RestartKeeps ==
  ASSUME AlertsSound, Restart
  PROVE  AlertsSound'
<1>1. EditsSound /\ DispatchesSound /\ alertFaults \in 0 .. MaxAlertFaults /\ MaxAlertFaults \in Nat
  BY AlertBoundsAssumption DEF AlertsSound, EditsSound
<1>2. /\ UNCHANGED <<env, row, audit, posted, accepted, merged>> /\ lock' = Unset
      /\ tasks' = [t \in Tasks |-> IF Running(t) THEN Done(tasks[t].started, Unset) ELSE tasks[t]]
      /\ edits' = [p \in Editors |-> IF edits[p] = Unset THEN Unset ELSE Over]
  BY DEF Restart
<1>3. alertFaults' \in 0 .. MaxAlertFaults
  BY <1>1 DEF Restart, CallFails
<1>4. PICK E : E = Over
  OBVIOUS
<1>5. E.at = "over" /\ EditTyped(E)
  BY <1>4 DEF Over, EditTyped
<1>6. \A p \in Editors : edits'[p] # Unset => edits'[p] = E
  BY <1>2, <1>4
<1>7. /\ \A p \in Editors : ~ At(p, "lock")' /\ ~ At(p, "write")'
      /\ \A p \in Editors : edits'[p] # Unset => EditTyped(edits[p])'
  BY <1>5, <1>6 DEF At, EditTyped
<1>8. SettingsMerge'
  BY <1>1, <1>2 DEF EditsSound, SettingsMerge, Latest
<1>9. EditsSound'
  BY <1>1, <1>2, <1>3, <1>7, <1>8 DEF EditsSound
<1>10. ASSUME NEW t \in Tasks
       PROVE  DispatchSound(t, tasks[t])' /\ (tasks[t].at = "done" => tasks'[t].at = "done")
  <2>1. PICK x, X : x = tasks[t] /\ X = tasks'[t]
    OBVIOUS
  <2>2. x \in Dispatch /\ DispatchSound(t, x)
    BY <1>1, <2>1, DispatchKnown
  <2>3. CASE x.at \notin {"idle", "done"}
    <3>1. X = Done(x.started, Unset)
      BY <1>2, <2>1, <2>3 DEF Running
    <3>2. X \in Dispatch /\ X.at = "done" /\ X.email = Unset /\ X.webhook = Unset /\ X.answer = Unset
      <4>1. x.started \in {0, 1}
        BY <2>2 DEF Dispatch
      <4> QED
        BY <3>1, <4>1, DoneIs
    <3>3. DispatchSound(t, X)'
      BY <3>2, EndsQuietly
    <3> QED
      BY <2>1, <3>2, <3>3 DEF DispatchSound, SendsSound, ProgressSound, AnswerSound
  <2>4. CASE x.at \in {"idle", "done"}
    <3>1. X = x
      BY <1>2, <2>1, <2>4 DEF Running
    <3>2. DispatchSound(t, x)'
      BY <1>2, <2>2 DEF DispatchSound, SendsSound, ProgressSound, AnswerSound, Left, Logged
    <3> QED
      BY <2>1, <3>1, <3>2 DEF DispatchSound, SendsSound, ProgressSound, AnswerSound
  <2> QED
    BY <2>3, <2>4
<1>11. \A a \in audit : EntryTrue(a)'
  <2> SUFFICES ASSUME NEW a \in audit PROVE EntryTrue(a)'
    OBVIOUS
  <2>1. EntryTrue(a) /\ a.task \in Tasks
    BY <1>1 DEF DispatchesSound, EntryTrue
  <2>2. tasks[a.task].at = "done" => tasks'[a.task].at = "done"
    BY <1>10, <2>1
  <2> QED
    BY <1>2, <2>1, <2>2 DEF EntryTrue, Left
<1>12. tasks' = [t \in Tasks |-> tasks'[t]]
  BY <1>2
<1>13. DispatchesSound'
  BY <1>1, <1>2, <1>10, <1>11, <1>12 DEF DispatchesSound, Logged
<1> QED
  BY <1>9, <1>13 DEF AlertsSound
-----------------------------------------------------------------------------
LEMMA AlertsInitSound == AlertsInit => AlertsSound
<1> SUFFICES ASSUME AlertsInit PROVE AlertsSound
  OBVIOUS
<1>1. row \in Settings \cup {Unset}
  <2>1. (CHOOSE r \in Recipients : TRUE) \in Recipients /\ env.channel \in Channels
    BY SettingsAssumption DEF AlertsInit
  <2> QED
    BY <2>1 DEF AlertsInit, Settings
<1>2. PICK x : x = Idle
  OBVIOUS
<1>3. /\ x \in Dispatch /\ x.at = "idle" /\ x.email = Unset /\ x.webhook = Unset /\ x.answer = Unset
  BY <1>2 DEF Idle, Dispatch, Result
<1>4. \A t \in Tasks : tasks[t] = x
  BY <1>2 DEF AlertsInit
<1>5. \A t \in Tasks : DispatchSound(t, x)
  BY <1>3, UnsetAssumption DEF AlertsInit, DispatchSound, SendsSound, ProgressSound, AnswerSound, Left, Via
<1>6. DispatchesSound
  BY <1>4, <1>5 DEF AlertsInit, DispatchesSound
<1>7. merged = <<row>> /\ Len(merged) = 1 /\ merged[1] = row /\ merged = [i \in 1 .. 1 |-> merged[i]]
  BY DEF AlertsInit
<1>8. SettingsMerge
  <2>1. DOMAIN merged = 1 .. 1
    BY <1>7
  <2>2. \A j \in 1 .. 1 : ~(j > 1)
    OBVIOUS
  <2>3. 1 \in 1 .. 1
    OBVIOUS
  <2>4. /\ [i \in DOMAIN merged |-> merged[i].recipient][1] = row.recipient
        /\ [i \in DOMAIN merged |-> merged[i].channel][1] = row.channel
    BY <1>7, <2>1, <2>3
  <2> QED
    BY <2>1, <2>2, <2>3, <2>4 DEF SettingsMerge, Latest
<1>9. EditsSound
  BY <1>1, <1>7, <1>8, AlertBoundsAssumption DEF AlertsInit, EditsSound, At
<1> QED
  BY <1>6, <1>9 DEF AlertsSound

LEMMA AlertsStepsKeep == AlertsSound /\ [AlertsNext]_alertVars => AlertsSound'
<1> SUFFICES ASSUME AlertsSound, [AlertsNext]_alertVars PROVE AlertsSound'
  OBVIOUS
<1>1. ASSUME NEW e \in Events, NEW kind \in Kinds, Raise(e, kind) PROVE AlertsSound'
  BY <1>1, RaiseKeeps
<1>2. ASSUME NEW t \in Tests, Test(t) PROVE AlertsSound'
  BY <1>2, TestKeeps
<1>3. ASSUME NEW t \in Tasks, TaskStep(t) PROVE AlertsSound'
  BY <1>3, LoadKeeps, SendKeeps, RecordKeeps DEF TaskStep
<1>4. ASSUME NEW p \in Editors, Lock(p) \/ Write(p) PROVE AlertsSound'
  BY <1>4, LockKeeps, WriteKeeps
<1>5. ASSUME NEW p \in Editors, NEW patch \in Patches, Submit(p, patch) PROVE AlertsSound'
  BY <1>5, SubmitKeeps
<1>6. CASE UNCHANGED alertVars
  <2>1. DispatchesSound'
    BY <1>6, DispatchesStay DEF alertVars, AlertsSound
  <2>2. EditsSound'
    BY <1>6, SettingsStay DEF alertVars, AlertsSound, CallSucceeds
  <2> QED
    BY <2>1, <2>2 DEF AlertsSound
<1> QED
  BY <1>1, <1>2, <1>3, <1>4, <1>5, <1>6, RestartKeeps DEF AlertsNext

\* The log, the answers and the settings are true, and each row raises at most
\* one alert.
THEOREM AlertsAreTold ==
  AlertsSpec => [](AlertsTypeOK /\ SettingsMerge /\ AuditIsTruthful /\ OneAlertPerRow /\ TestAnswerIsTrue)
<1>1. ASSUME AlertsSound
      PROVE  AlertsTypeOK /\ SettingsMerge /\ AuditIsTruthful /\ OneAlertPerRow /\ TestAnswerIsTrue
  <2>1. DispatchesSound /\ EditsSound
    BY <1>1 DEF AlertsSound
  <2>2. \A t \in Tasks : tasks[t] \in Dispatch /\ DispatchSound(t, tasks[t])
    BY <2>1, DispatchKnown
  <2>3. \A m \in posted : m.via \in Via /\ m.task \in Tasks /\ Left(m.task, m.via)
    BY <2>1 DEF DispatchesSound, Left
  <2>4. \A p \in Editors : edits[p] # Unset => edits[p].at \in {"lock", "write", "over"}
    BY <2>1 DEF EditsSound, EditTyped
  <2>5. AlertsTypeOK
    BY <2>1, <2>2, <2>4 DEF AlertsTypeOK, DispatchesSound, EditsSound, Dispatch
  <2>6. SettingsMerge
    BY <2>1 DEF EditsSound
  <2>7. AuditIsTruthful
    <3> SUFFICES ASSUME NEW a \in audit
                 PROVE  /\ a.what = "sent" => /\ \E via \in Via : <<a.task, via>> \in accepted
                                              /\ \A m \in posted : m.task = a.task => <<m.task, m.via>> \in accepted
                        /\ a.what \in {"sent", "failed", "skipped"} /\ a.accepted =>
                             \E via \in Via : <<a.task, via>> \in accepted
                        /\ a.what = "skipped" => \A m \in posted : m.task # a.task
      BY DEF AuditIsTruthful
    <3>1. EntryTrue(a)
      BY <2>1 DEF DispatchesSound
    <3> QED
      BY <2>3, <3>1 DEF EntryTrue
  <2>8. OneAlertPerRow
    BY <2>1, <2>2 DEF OneAlertPerRow, DispatchesSound, Dispatch, Logged
  <2>9. TestAnswerIsTrue
    BY <2>2, <2>3 DEF TestAnswerIsTrue, DispatchSound, AnswerSound, Tasks
  <2> QED
    BY <2>5, <2>6, <2>7, <2>8, <2>9
<1> QED
  BY <1>1, AlertsInitSound, AlertsStepsKeep, PTL DEF AlertsSpec

\* A message leaves only for a recipient and by a channel of settings in force
\* since its event was raised.
THEOREM MessagesFollowTheSettings == AlertsSpec => SentToOwnersChoice
<1> DEFINE Chosen == \A m \in posted' \ posted : \E s \in tasks[m.task].seen :
                       s # Unset /\ s.recipient = m.to /\ m.via \in SelectedVia(s.channel)
<1>1. ASSUME AlertsSound, NEW t \in Tasks, NEW via \in Via, Send(t, via) PROVE Chosen
  <2>1. /\ tasks[t].at = via /\ tasks[t].settings \in Settings \cap tasks[t].seen
        /\ via \in SelectedVia(tasks[t].settings.channel)
    BY <1>1, DispatchKnown DEF Send, AlertsSound, DispatchSound, ProgressSound
  <2>2. PICK q : q = [task |-> t, via |-> via, to |-> tasks[t].settings.recipient]
    OBVIOUS
  <2>3. posted' \ posted \subseteq {q}
    BY <1>1, <2>2 DEF Send
  <2>4. q.task = t /\ q.via = via /\ q.to = tasks[t].settings.recipient
    BY <2>2
  <2>5. tasks[t].settings # Unset
    BY <2>1, UnsetAssumption
  <2> QED
    BY <2>1, <2>3, <2>4, <2>5
<1>2. ASSUME posted' = posted PROVE Chosen
  BY <1>2
<1>3. AlertsSound /\ [AlertsNext]_alertVars => [Chosen]_alertVars
  <2> SUFFICES ASSUME AlertsSound, AlertsNext PROVE Chosen
    OBVIOUS
  <2>1. ASSUME NEW e \in Events, NEW kind \in Kinds, Raise(e, kind) PROVE Chosen
    BY <1>2, <2>1 DEF Raise
  <2>2. ASSUME NEW t \in Tests, Test(t) PROVE Chosen
    BY <1>2, <2>2 DEF Test
  <2>3. ASSUME NEW t \in Tasks, TaskStep(t) PROVE Chosen
    <3>1. CASE Load(t)
      BY <1>2, <3>1 DEF Load
    <3>2. CASE Record(t)
      BY <1>2, <3>2 DEF Record
    <3> QED
      BY <1>1, <2>3, <3>1, <3>2 DEF TaskStep
  <2>4. ASSUME NEW p \in Editors, Lock(p) \/ Write(p) PROVE Chosen
    BY <1>2, <2>4 DEF Lock, Write
  <2>5. ASSUME NEW p \in Editors, NEW patch \in Patches, Submit(p, patch) PROVE Chosen
    BY <1>2, <2>5 DEF Submit
  <2>6. CASE Restart
    BY <1>2, <2>6 DEF Restart
  <2> HIDE DEF Chosen
  <2> QED
    BY <2>1, <2>2, <2>3, <2>4, <2>5, <2>6 DEF AlertsNext
<1> QED
  BY <1>3, AlertsInitSound, AlertsStepsKeep, PTL DEF AlertsSpec, SentToOwnersChoice
=============================================================================
