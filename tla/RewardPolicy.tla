---------------------------- MODULE RewardPolicy ----------------------------
(***************************************************************************)
(* The durable reward policy: the singleton reward_policy row, the admin   *)
(* routes that change it in a row-locking transaction, the dashboard       *)
(* panels that load and save it, and CDR ingestion, which prices a session *)
(* against one frozen snapshot of it. Of the award executor this module has *)
(* what decides amounts: its look-up, its claim and what it signs. The     *)
(* hash, the chain and the projection are AwardExecutor's.                 *)
(*                                                                         *)
(* A day has Day minutes (1440 in the code); an energy is a whole number   *)
(* of 1/EnergyUnit kWh and a rate a whole number of tokens per kWh.        *)
(***************************************************************************)
EXTENDS CdrNormaliser

CONSTANTS
  Panels,       \* dashboard panels with an admin session
  Scripts,      \* other callers of the admin routes
  Requests,     \* bound: deliveries that are answered
  Cdrs,         \* normalised CDRs that may arrive
  Countries,    \* ISO country codes
  DefaultZones, \* countries with a pilot time zone, and its offset in minutes
  Slots,        \* off-peak ranges an admin may enter
  Rates,        \* rates an admin may enter
  Edited,       \* bound: the rule fields a panel edits here
  Patched,      \* bound: the rule fields a script patches here
  Windows0,     \* the windows the migration seeds
  Day,          \* minutes of a day
  EnergyUnit,   \* energy units of a kWh
  Cap,          \* MAX_TOKENS_PER_OPERATION
  MaxRevision,  \* bound on the revisions
  MaxFaults     \* bound on failing transactions and lost answers

Clients == Panels \cup Scripts
Minutes == 0 .. Day - 1
Range2 == [start: Minutes, end: Minutes]
Fields == {"offPeakRate", "v2gRate", "offPeakOn", "v2gOn"}

\* The values a field may have; an enabled flag is 1 or 0.
Values(f) == IF f \in {"offPeakOn", "v2gOn"} THEN {0, 1} ELSE Rates
RuleSet == {r \in [Fields -> Rates \cup {0, 1}] : \A f \in Fields : r[f] \in Values(f)}

\* A CDR without a time zone of its own has zone None.
Cdr == [country: Countries, zone: Minutes \cup {None}, start: Minutes,
        energy: Nat, direction: {"CHARGE", "DISCHARGE"}]

\* A country without slots is absent from the document.
WindowSet == [Countries -> SUBSET Slots]
Policy == [revision: Nat, rules: RuleSet, windows: WindowSet]

\* What is kept of a claim: its tokens, the revision they were priced by,
\* whether its submission failed before signing, and the tokens signed for.
Award == [amount: Nat, revision: Nat, refused: BOOLEAN, sent: Nat \cup {None}]

ASSUME DayAssumption == {Day, EnergyUnit} \subseteq Nat \ {0} /\ Slots \subseteq Range2
ASSUME RatesAssumption ==
  Edited \cup Patched \subseteq Fields /\ Rates \subseteq Nat /\ 1 \in Rates /\ Cap \in Nat /\ Windows0 \in WindowSet
ASSUME CdrAssumption == Cdrs \subseteq Cdr
ASSUME ZonesAssumption ==
  /\ DOMAIN DefaultZones \subseteq Countries
  /\ \A country \in DOMAIN DefaultZones : DefaultZones[country] \in Minutes
ASSUME NoneAssumption ==
  {None} \cap (Award \cup Policy \cup Clients \cup Nat) = {} /\ MaxFaults \in Nat

VARIABLES
  policy,    \* the reward_policy row
  lock,      \* the client whose transaction holds the row, or None
  form,      \* form[c]: the policy client c last saw, or None
  req,       \* req[c]: the update in flight of client c, or None
  ingest,    \* ingest[i]: what ingestion request i holds, or None
  op,        \* op[d]: the award claimed for CDR d, or None
  committed, \* history: the update and the policy of every revision
  faults     \* bound: faults so far

vars == <<policy, lock, form, req, ingest, op, committed, faults>>

-----------------------------------------------------------------------------
(* The calculation: awardRules.ts and offPeakWindows.ts.                   *)

\* Mutant: an overnight range is tested like one within the day.
InRangeSameDay(range, m) == m >= range.start /\ m < range.end

\* A range that does not end after it starts runs over midnight; equal ends
\* are the whole day.
InRange(range, m) ==
  IF range.end > range.start THEN m >= range.start /\ m < range.end
                             ELSE m >= range.start \/ m < range.end

\* resolveTimeZone: the CDR's own zone, then the pilot country's.
resolveTimeZone(d) ==
  IF d.zone # None THEN d.zone
  ELSE IF d.country \in DOMAIN DefaultZones THEN DefaultZones[d.country] ELSE None

LocalMinute(d) == (d.start + resolveTimeZone(d)) % Day

\* Windows for a country without a zone cannot be evaluated: the calculation
\* throws, but only for a charge the rule is enabled for.
NeedsOffPeak(p, d) ==
  d.direction = "CHARGE" /\ p.rules["offPeakOn"] = 1 /\ p.windows[d.country] # {}
Calculable(p, d) == NeedsOffPeak(p, d) => resolveTimeZone(d) # None

isOffPeak(p, d) ==
  NeedsOffPeak(p, d) /\ \E range \in p.windows[d.country] : InRange(range, LocalMinute(d))

\* Math.floor of the energy times the rate.
calculateAwardTokens(p, d) ==
  IF isOffPeak(p, d) THEN (d.energy * p.rules["offPeakRate"]) \div EnergyUnit
  ELSE IF d.direction = "DISCHARGE" /\ p.rules["v2gOn"] = 1
       THEN (d.energy * p.rules["v2gRate"]) \div EnergyUnit
  ELSE 0

-----------------------------------------------------------------------------
(* The row and its transaction: createRewardPolicyRepository.              *)

Merge(patch, rules) == [f \in Fields |-> IF f \in DOMAIN patch THEN patch[f] ELSE rules[f]]

\* Mutant: the rules a client leaves out fall back to the seeded ones.
AppliedToDefaults(u, current) ==
  [revision |-> current.revision + 1,
   rules |-> IF u.kind = "rules" THEN Merge(u.rules, [f \in Fields |-> 1]) ELSE current.rules,
   windows |-> CASE u.kind = "windows" -> u.windows
                 [] u.kind = "remove" -> [current.windows EXCEPT ![u.country] = {}]
                 [] OTHER -> current.windows]

\* The next row: the callback of a partial update sees the locked row, a
\* plain patch replaces the document it names.
Applied(u, current) ==
  [revision |-> current.revision + 1,
   rules |-> IF u.kind = "rules" THEN Merge(u.rules, current.rules) ELSE current.rules,
   windows |-> CASE u.kind = "windows" -> u.windows
                 [] u.kind = "remove" -> [current.windows EXCEPT ![u.country] = {}]
                 [] OTHER -> current.windows]

\* DELETE of a country that is not configured throws in the callback.
Refused(u, current) == u.kind = "remove" /\ current.windows[u.country] = {}

\* Mutant: the row is read without FOR UPDATE.
GetUnlocked(c) ==
  /\ req[c] # None /\ req[c].phase = "sent"
  /\ lock' = c
  /\ req' = [req EXCEPT ![c].phase = "open", ![c].policy = policy]
  /\ UNCHANGED <<policy, form, ingest, op, committed, faults>>

\* getForUpdate: waits for the row, then reads it.
GetForUpdate(c) ==
  /\ req[c] # None /\ req[c].phase = "sent"
  /\ lock = None /\ lock' = c
  /\ req' = [req EXCEPT ![c].phase = "open", ![c].policy = policy]
  /\ UNCHANGED <<policy, form, ingest, op, committed, faults>>

\* save and commit; the answer carries the committed row.
CommitUpdate(c) ==
  /\ req[c] # None /\ req[c].phase = "open" /\ ~Refused(req[c].update, req[c].policy)
  /\ LET next == Applied(req[c].update, req[c].policy) IN
     /\ policy' = next
     /\ committed' = Append(committed, [update |-> req[c].update, policy |-> next])
     /\ req' = [req EXCEPT ![c].phase = "done", ![c].policy = next]
  /\ lock' = None
  /\ UNCHANGED <<form, ingest, op, faults>>

\* The callback throws, or the database fails: nothing is written and the
\* client is told so (404 or 503).
Rollback(c) ==
  /\ req[c] # None /\ req[c].phase = "open"
  /\ \/ Refused(req[c].update, req[c].policy) /\ UNCHANGED faults
     \/ faults < MaxFaults /\ faults' = faults + 1
  /\ req' = [req EXCEPT ![c].phase = "done", ![c].policy = None]
  /\ lock' = None
  /\ UNCHANGED <<policy, form, ingest, op, committed>>

-----------------------------------------------------------------------------
(* The clients.                                                            *)

\* loadRules, loadOffPeakWindows: a panel cannot save before its load.
Load(c) ==
  /\ req[c] = None
  /\ form' = [form EXCEPT ![c] = policy]
  /\ UNCHANGED <<policy, lock, req, ingest, op, committed, faults>>

Send(c, u) ==
  /\ req[c] = None /\ policy.revision < MaxRevision
  /\ Len(committed) + Cardinality({b \in Clients : req[b] # None}) < MaxRevision
  /\ req' = [req EXCEPT ![c] = [update |-> u, phase |-> "sent", policy |-> None]]
  /\ UNCHANGED <<policy, lock, form, ingest, op, committed, faults>>

\* saveRules sends all four fields of the form, one of them just edited.
SaveRules(c) ==
  /\ form[c] # None
  /\ \E f \in Edited : \E v \in Values(f) :
       Send(c, [kind |-> "rules", rules |-> [form[c].rules EXCEPT ![f] = v]])

Toggled(slots, slot) == IF slot \in slots THEN slots \ {slot} ELSE slots \cup {slot}

\* saveOffPeakWindows replaces the whole document by the form, in which one
\* slot, or with its only slot one country, was added or removed.
SaveWindows(c) ==
  /\ form[c] # None
  /\ \E country \in Countries, slot \in Slots :
       Send(c, [kind |-> "windows",
                windows |-> [form[c].windows EXCEPT ![country] = Toggled(@, slot)]])

\* A script names the fields it changes, or deletes a country.
PatchRules(c) ==
  \E f \in Patched : \E v \in Values(f) :
    Send(c, [kind |-> "rules", rules |-> [g \in {f} |-> v]])

RemoveCountry(c) ==
  \E country \in Countries : Send(c, [kind |-> "remove", country |-> country])

\* Mutant: a refusal is shown like a saved policy.
AnsweredPartly(c) ==
  /\ req[c] # None /\ req[c].phase = "done"
  /\ form' = [form EXCEPT ![c] = req[c]] /\ UNCHANGED faults
  /\ req' = [req EXCEPT ![c] = None]
  /\ UNCHANGED <<policy, lock, ingest, op, committed>>

\* The answer reaches the client, which shows the row it carries; a refusal
\* or an answer that is lost leaves the form as it was.
Answered(c) ==
  /\ req[c] # None /\ req[c].phase = "done"
  /\ \/ /\ req[c].policy # None
        /\ form' = [form EXCEPT ![c] = IF c \in Panels THEN req[c].policy ELSE @]
        /\ UNCHANGED faults
     \/ req[c].policy = None /\ UNCHANGED <<form, faults>>
     \/ req[c].policy # None /\ faults < MaxFaults /\ faults' = faults + 1 /\ UNCHANGED form
  /\ req' = [req EXCEPT ![c] = None]
  /\ UNCHANGED <<policy, lock, ingest, op, committed>>

-----------------------------------------------------------------------------
(* Ingestion: POST /ingest/cdr.                                            *)

Work(d, point, snapshot, amount) ==
  [cdr |-> d, point |-> point, policy |-> snapshot, amount |-> amount]

\* The durable operation is looked up first: a replay needs no policy. A
\* delivery that was answered is over; one that failed may be sent again.
LookUpOperation(i, d) ==
  /\ ingest[i] = None
  /\ ingest' = [ingest EXCEPT ![i] =
                  Work(d, IF op[d] = None THEN "price" ELSE "execute", None, None)]
  /\ UNCHANGED <<policy, lock, form, req, op, committed, faults>>

\* Mutant: the cap is not checked.
LoadPolicyUncapped(i) ==
  /\ ingest[i] # None /\ ingest[i].point = "price"
  /\ ingest' = [ingest EXCEPT ![i] =
       IF Calculable(policy, ingest[i].cdr)
       THEN [@ EXCEPT !.point = "execute", !.policy = policy] ELSE None]
  /\ UNCHANGED <<policy, lock, form, req, op, committed, faults>>

\* One snapshot for the cap and for the executor. A calculation that throws
\* and an amount over the cap end the request.
LoadPolicy(i) ==
  /\ ingest[i] # None /\ ingest[i].point = "price"
  /\ ingest' = [ingest EXCEPT ![i] =
       IF /\ Calculable(policy, ingest[i].cdr)
          /\ calculateAwardTokens(policy, ingest[i].cdr) <= Cap
       THEN [@ EXCEPT !.point = "execute", !.policy = policy] ELSE None]
  /\ UNCHANGED <<policy, lock, form, req, op, committed, faults>>

(* processAwardFromCDR runs under the snapshot; other requests run between *)
(* its look-up, its claim and its transfer.                                *)

At(i, point) == ingest[i] # None /\ ingest[i].point = point
Advance(i, point, amount) ==
  ingest' = [ingest EXCEPT ![i].point = point, ![i].amount = amount]

\* Mutant: the executor prices with the policy of the moment.
ExecutorLookupUnfrozen(i) ==
  /\ At(i, "execute")
  /\ LET d == ingest[i].cdr IN
     Advance(i, "claim", IF op[d] # None THEN op[d].amount
                         ELSE IF Calculable(policy, d) THEN calculateAwardTokens(policy, d) ELSE 0)
  /\ UNCHANGED <<policy, lock, form, req, op, committed, faults>>

\* The saved amount when a claim is there by now, otherwise the snapshot's.
ExecutorLookup(i) ==
  /\ At(i, "execute")
  /\ LET d == ingest[i].cdr IN
     Advance(i, "claim", IF op[d] # None THEN op[d].amount
                         ELSE calculateAwardTokens(ingest[i].policy, d))
  /\ UNCHANGED <<policy, lock, form, req, op, committed, faults>>

\* The row is marked as failed before signing; its amount is not compared.
MayTakeOver(d) == op[d] # None /\ op[d].refused

\* Mutant: a request that lost the claim answers with its own price.
ClaimAwardOwnPrice(i) ==
  /\ At(i, "claim")
  /\ LET d == ingest[i].cdr IN
     \/ /\ op[d] = None
        /\ op' = [op EXCEPT ![d] = [amount |-> ingest[i].amount, refused |-> FALSE, sent |-> None,
                                    revision |-> ingest[i].policy.revision]]
        /\ Advance(i, "submit", ingest[i].amount)
     \/ /\ MayTakeOver(d)
        /\ op' = [op EXCEPT ![d].refused = FALSE]
        /\ Advance(i, "submit", ingest[i].amount)
     \/ /\ op[d] # None /\ ~MayTakeOver(d)
        /\ Advance(i, "answered", ingest[i].amount)
        /\ UNCHANGED op
  /\ UNCHANGED <<policy, lock, form, req, committed, faults>>

\* The claim inserts the row, takes over one whose submission was refused, or
\* joins it: a joined request answers with the row's amount.
ClaimAward(i) ==
  /\ At(i, "claim")
  /\ LET d == ingest[i].cdr IN
     \/ /\ op[d] = None
        /\ op' = [op EXCEPT ![d] = [amount |-> ingest[i].amount, refused |-> FALSE, sent |-> None,
                                    revision |-> ingest[i].policy.revision]]
        /\ Advance(i, "submit", ingest[i].amount)
     \/ /\ MayTakeOver(d)
        /\ op' = [op EXCEPT ![d].refused = FALSE]
        /\ Advance(i, "submit", ingest[i].amount)
     \/ /\ op[d] # None /\ ~MayTakeOver(d)
        /\ Advance(i, "answered", op[d].amount)
        /\ UNCHANGED op
  /\ UNCHANGED <<policy, lock, form, req, committed, faults>>

\* The holder of the claim signs and answers its own amount; nothing is signed
\* for an award of nothing.
Submit(i) ==
  /\ At(i, "submit")
  /\ op' = IF ingest[i].amount > 0
           THEN [op EXCEPT ![ingest[i].cdr].sent = ingest[i].amount] ELSE op
  /\ Advance(i, "answered", ingest[i].amount)
  /\ UNCHANGED <<policy, lock, form, req, committed, faults>>

\* The submission fails before anything is signed; that the claim may be
\* taken over is saved with it, or the process stops first.
RefuseSubmission(i) ==
  /\ At(i, "submit") /\ ingest[i].amount > 0
  /\ faults < MaxFaults /\ faults' = faults + 1
  /\ \E saved \in BOOLEAN : op' = [op EXCEPT ![ingest[i].cdr].refused = saved]
  /\ ingest' = [ingest EXCEPT ![i] = None]
  /\ UNCHANGED <<policy, lock, form, req, committed>>

Execution(i) == ExecutorLookup(i) \/ ClaimAward(i) \/ Submit(i) \/ RefuseSubmission(i)
Ingestion(i) == LoadPolicy(i) \/ Execution(i) \/ \E d \in Cdrs : LookUpOperation(i, d)

-----------------------------------------------------------------------------
Init ==
  /\ policy = [revision |-> 1, windows |-> Windows0,
               rules |-> [f \in Fields |-> 1]]
  /\ lock = None
  /\ form = [c \in Clients |-> None]
  /\ req = [c \in Clients |-> None]
  /\ ingest = [i \in Requests |-> None]
  /\ op = [d \in Cdrs |-> None]
  /\ committed = <<[update |-> None, policy |-> policy]>>
  /\ faults = 0

Transaction(c) == GetForUpdate(c) \/ CommitUpdate(c) \/ Rollback(c)
Next ==
  \/ \E c \in Panels : Load(c) \/ SaveRules(c) \/ SaveWindows(c)
  \/ \E c \in Scripts : PatchRules(c) \/ RemoveCountry(c)
  \/ \E c \in Clients : Transaction(c) \/ Answered(c)
  \/ \E i \in Requests : Ingestion(i)

Spec == Init /\ [][Next]_vars

-----------------------------------------------------------------------------
TypeOK ==
  /\ policy \in Policy /\ lock \in Clients \cup {None}
  /\ form \in [Clients -> Policy \cup {None}]
  /\ \A c \in Clients : req[c] = None \/
       /\ req[c].phase \in {"sent", "open", "done"} /\ req[c].policy \in Policy \cup {None}
       /\ req[c].update.kind \in {"rules", "windows", "remove"}
  /\ \A i \in Requests : ingest[i] = None \/
       ingest[i] \in [cdr: Cdrs, point: {"price", "execute", "claim", "submit", "answered"},
                     policy: Policy \cup {None}, amount: Nat \cup {None}]
  /\ \A d \in Cdrs : op[d] = None \/ op[d] \in Award
  /\ faults \in 0 .. MaxFaults

\* Every revision is the one before it with exactly what one client asked
\* for changed: of two concurrent updates neither undoes what the other
\* wrote to a field, or a country, it does not name (update, a callback on
\* the locked row).
UpdatesAreSerial ==
  /\ policy = committed[Len(committed)].policy
  /\ \A r \in 2 .. Len(committed) :
       LET u == committed[r].update
           before == committed[r - 1].policy
           after == committed[r].policy
       IN /\ \A f \in Fields :
               after.rules[f] = IF u.kind = "rules" /\ f \in DOMAIN u.rules
                                THEN u.rules[f] ELSE before.rules[f]
          /\ \A country \in Countries :
               after.windows[country] =
                 CASE u.kind = "windows" -> u.windows[country]
                   [] u.kind = "remove" /\ u.country = country -> {}
                   [] OTHER -> before.windows[country]

\* A revision number stands for one policy whoever saw it: the row, the
\* dashboards that show it and the requests that price with it.
OnePolicyPerRevision ==
  LET seen == {policy} \cup {form[c] : c \in Clients}
                       \cup {ingest[i].policy : i \in {j \in Requests : ingest[j] # None}}
  IN \A p \in seen \ {None} :
       p.revision \in 1 .. Len(committed) /\ p = committed[p.revision].policy

\* An award is what the rules and windows of the revision saved with it give
\* its CDR, whatever an admin saved while the request ran.
PricedByOnePolicy ==
  \A d \in Cdrs : op[d] # None =>
    LET p == committed[op[d].revision].policy IN
    Calculable(p, d) /\ op[d].amount = calculateAwardTokens(p, d)

\* What is signed for a CDR is within the cap and what one revision of the
\* policy gives it, also after a take-over that priced it anew; it differs
\* from the claimed amount only after a submission was refused.
TransfersArePriced ==
  \A d \in Cdrs : op[d] # None /\ op[d].sent # None =>
    /\ op[d].sent \in 1 .. Cap
    /\ \E r \in 1 .. Len(committed) :
         /\ Calculable(committed[r].policy, d)
         /\ op[d].sent = calculateAwardTokens(committed[r].policy, d)
    /\ faults = 0 => op[d].sent = op[d].amount

\* Every answer for a CDR, first or replayed, before or after an edit of the
\* rules, names the amount claimed for it; only a request that took a claim
\* over may name the price of its own snapshot, and then signed just that.
AnswersNameTheAward ==
  \A i \in Requests : At(i, "answered") =>
    LET d == ingest[i].cdr
        p == ingest[i].policy
    IN /\ op[d] # None
       /\ \/ ingest[i].amount = op[d].amount
          \/ /\ p # None /\ faults > 0
             /\ Calculable(p, d) /\ ingest[i].amount = calculateAwardTokens(p, d)
             /\ ingest[i].amount \in {0, op[d].sent}

\* No edit of the policy between the cap check and the claim lets an award
\* over the cap through.
CapHolds == \A d \in Cdrs : op[d] # None => op[d].amount <= Cap

\* A range reaches a minute when walking the clock from its start does so
\* before its end, midnight passed or not; equal ends are the whole day.
Reaches(range, m) ==
  LET walk == (range.end - range.start) % Day
      length == IF walk = 0 THEN Day ELSE walk
  IN  \E k \in 0 .. length - 1 : (range.start + k) % Day = m

\* A charge earns the off-peak rate exactly when a window its country had at
\* that revision reaches the local minute it started in, and otherwise nothing.
OffPeakIsTheClock ==
  \A d \in Cdrs : op[d] # None /\ d.direction = "CHARGE" =>
    LET p == committed[op[d].revision].policy
        reached == /\ p.rules["offPeakOn"] = 1
                   /\ \E range \in p.windows[d.country] : Reaches(range, LocalMinute(d))
    IN  op[d].amount = IF reached THEN (d.energy * p.rules["offPeakRate"]) \div EnergyUnit ELSE 0

\* Concurrent edits make one history of policies, and every award, transfer
\* and answer follows from one policy of it.
AwardsFollowThePolicy ==
  /\ TypeOK /\ UpdatesAreSerial /\ OnePolicyPerRevision
  /\ PricedByOnePolicy /\ TransfersArePriced /\ AnswersNameTheAward
  /\ CapHolds /\ OffPeakIsTheClock
=============================================================================
