---------------------------- MODULE PolicyProofs ----------------------------
(***************************************************************************)
(* Safety of RewardPolicy and CdrNormaliser, for any calendar, any rules   *)
(* and any records that meet the assumptions, and of SchemaMigrations,     *)
(* which make the tables that policies and claims live in, for any number  *)
(* of containers and of interruptions.                                     *)
(*                                                                         *)
(* PInv: the saved revisions are one growing history, what an edit read is *)
(* a part of it, a revision is served only once it was committed, and what *)
(* was awarded is what one revision, current at some time between lookup   *)
(* and answer, gives; a claim has one holder, who signs and answers its    *)
(* amount or, after a refused submission, its own price. KInv: the claims  *)
(* are of records that pass every check, two claims have two keys and do   *)
(* not collide, and a record that was claimed is answered from its claim.  *)
(* MInv: what the migrations behind a process were to make is there, and   *)
(* lasts; a guarded hash does not repeat.                                  *)
(***************************************************************************)
EXTENDS RewardPolicy, SchemaMigrations, FiniteSetTheorems, SequenceTheorems,
        WellFoundedInduction, TLAPS

-----------------------------------------------------------------------------
(* The clock.                                                              *)

LEMMA Small == \A x \in 0 .. Day - 1 : x % Day = x
<1>1. Day \in Nat \ {0}
  BY DayAssumption
<1> QED
  BY <1>1, SMT

LEMMA Wrapped == \A x \in Day .. 2 * Day - 1 : x % Day = x - Day
<1>1. Day \in Nat \ {0}
  BY DayAssumption
<1> QED
  BY <1>1, SMT

LEMMA Below == \A x \in -Day .. -1 : x % Day = x + Day
<1>1. Day \in Nat \ {0}
  BY DayAssumption
<1> QED
  BY <1>1, SMT

LEMMA Division == \A x \in Nat : x \div EnergyUnit \in Nat
<1>1. EnergyUnit \in Nat \ {0}
  BY DayAssumption
<1> QED
  BY <1>1, SMT

\* Walking k minutes from a start ends before midnight or within the next day.
LEMMA Walked ==
  \A start \in Minutes : \A k \in Minutes :
    (start + k) % Day = IF start + k < Day THEN start + k ELSE (start + k) - Day
<1> TAKE start \in Minutes
<1> TAKE k \in Minutes
<1>1. Day \in Nat \ {0}
  BY DayAssumption
<1>2. CASE start + k < Day
  <2>1. start + k \in 0 .. Day - 1
    BY <1>1, <1>2 DEF Minutes
  <2> QED
    BY <1>2, <2>1, Small
<1>3. CASE start + k >= Day
  <2>1. start + k \in Day .. 2 * Day - 1
    BY <1>1, <1>3 DEF Minutes
  <2>2. ~(start + k < Day)
    BY <1>1, <1>3 DEF Minutes
  <2> DEFINE x == start + k
  <2>3. x \in Day .. 2 * Day - 1
    BY <2>1
  <2>4. x % Day = x - Day
    BY <2>3, Wrapped
  <2> QED
    BY <2>2, <2>4
<1> QED
  BY <1>1, <1>2, <1>3 DEF Minutes

\* The length of a range, as Reaches computes it.
Span(range) ==
  LET walk == (range.end - range.start) % Day IN IF walk = 0 THEN Day ELSE walk

LEMMA SpanOf ==
  \A range \in Range2 :
    Span(range) = IF range.end > range.start THEN range.end - range.start
                  ELSE range.end - range.start + Day
<1> TAKE range \in Range2
<1>1. Day \in Nat \ {0}
  BY DayAssumption
<1> DEFINE d == range.end - range.start
<1>2. range.start \in 0 .. Day - 1 /\ range.end \in 0 .. Day - 1
  BY DEF Range2, Minutes
<1>3. CASE range.end > range.start
  <2>1. d \in 0 .. Day - 1 /\ d # 0
    BY <1>1, <1>2, <1>3
  <2>2. d % Day = d
    BY <2>1, Small
  <2> QED
    BY <1>3, <2>1, <2>2 DEF Span
<1>4. CASE range.end = range.start
  <2>1. d = 0 /\ 0 \in 0 .. Day - 1
    BY <1>1, <1>2, <1>4
  <2>2. d % Day = 0
    BY <2>1, Small
  <2>3. ~(range.end > range.start) /\ d + Day = Day
    BY <1>1, <1>2, <1>4
  <2> QED
    BY <2>2, <2>3 DEF Span
<1>5. CASE range.end < range.start
  <2>1. d \in -Day .. -1 /\ d + Day # 0 /\ ~(range.end > range.start)
    BY <1>1, <1>2, <1>5
  <2>2. d % Day = d + Day
    BY <2>1, Below
  <2> QED
    BY <2>1, <2>2 DEF Span
<1> QED
  BY <1>2, <1>3, <1>4, <1>5

\* isOffPeak's test of a range is the clock's: for every day length, range and
\* minute, a range holds a minute exactly when walking from its start reaches
\* the minute before its end, over midnight or not.
THEOREM RangesAreTheClock ==
  \A range \in Range2 : \A m \in Minutes : InRange(range, m) <=> Reaches(range, m)
<1> TAKE range \in Range2
<1> TAKE m \in Minutes
<1>1. Day \in Nat \ {0}
  BY DayAssumption
<1>2. range.start \in 0 .. Day - 1 /\ range.end \in 0 .. Day - 1 /\ m \in 0 .. Day - 1
  BY DEF Range2, Minutes
<1>3. Reaches(range, m) <=> \E k \in 0 .. Span(range) - 1 : (range.start + k) % Day = m
  BY DEF Reaches, Span
<1>4. Span(range) \in 1 .. Day
  BY <1>1, <1>2, SpanOf
<1>5. ASSUME InRange(range, m) PROVE Reaches(range, m)
  <2>1. CASE m >= range.start
    <3>1. m - range.start \in 0 .. Span(range) - 1
      BY <1>1, <1>2, <1>5, <2>1, SpanOf DEF InRange
    <3>2. m - range.start \in Minutes /\ range.start \in Minutes
      BY <1>1, <1>2, <2>1 DEF Minutes
    <3>3. (range.start + (m - range.start)) % Day = m
      BY <1>1, <1>2, <3>2, Walked
    <3> QED
      BY <1>3, <3>1, <3>3
  <2>2. CASE ~(m >= range.start)
    <3>1. m - range.start + Day \in 0 .. Span(range) - 1
      BY <1>1, <1>2, <1>5, <2>2, SpanOf DEF InRange
    <3>2. m - range.start + Day \in Minutes /\ range.start \in Minutes
      BY <1>1, <1>2, <2>2 DEF Minutes
    <3>3. (range.start + (m - range.start + Day)) % Day = m
      BY <1>1, <1>2, <3>2, Walked
    <3> QED
      BY <1>3, <3>1, <3>3
  <2> QED
    BY <2>1, <2>2
<1>6. ASSUME Reaches(range, m) PROVE InRange(range, m)
  <2>1. PICK k \in 0 .. Span(range) - 1 : (range.start + k) % Day = m
    BY <1>3, <1>6
  <2>2. k \in Minutes /\ range.start \in Minutes /\ k \in Int
    BY <1>1, <1>2, <1>4 DEF Minutes
  <2>3. m = IF range.start + k < Day THEN range.start + k ELSE (range.start + k) - Day
    BY <2>1, <2>2, Walked
  <2>4. k <= Span(range) - 1 /\ k >= 0
    BY <1>4
  <2> QED
    BY <1>1, <1>2, <2>2, <2>3, <2>4, SpanOf DEF InRange
<1> QED
  BY <1>5, <1>6
-----------------------------------------------------------------------------
(* The invariant.                                                          *)

\* What a client may ask for.
Patches == {u \in UNION {[S -> Rates \cup {0, 1}] : S \in SUBSET Fields} :
              \A f \in DOMAIN u : u[f] \in Values(f)}
Updates ==
  [kind: {"rules"}, rules: Patches] \cup [kind: {"windows"}, windows: WindowSet]
  \cup [kind: {"remove"}, country: Countries]
Sent == [update: Updates, phase: {"sent", "open", "done"}, policy: Policy \cup {None}]
Working == [cdr: Cdrs, point: {"price", "execute", "claim", "submit", "answered"},
            policy: Policy \cup {None}, amount: Nat \cup {None}]

PolicyTypeOK ==
  /\ policy \in Policy /\ lock \in Clients \cup {None}
  /\ form \in [Clients -> Policy \cup {None}]
  /\ req \in [Clients -> Sent \cup {None}]
  /\ ingest \in [Requests -> Working \cup {None}]
  /\ op \in [Cdrs -> Award \cup {None}]
  /\ committed \in Seq([update: Updates \cup {None}, policy: Policy])
  /\ faults \in 0 .. MaxFaults

\* The revisions are numbered, each is the one before it under its update, and
\* the row is the last of them.
History ==
  /\ Len(committed) \in Nat \ {0}
  /\ policy = committed[Len(committed)].policy
  /\ \A r \in 1 .. Len(committed) : committed[r].policy.revision = r
  /\ \A r \in 2 .. Len(committed) :
       /\ committed[r].update \in Updates
       /\ committed[r].policy = Applied(committed[r].update, committed[r - 1].policy)

\* A policy of the history.
Known(p) ==
  /\ p \in Policy
  /\ p.revision \in 1 .. Len(committed) /\ p = committed[p.revision].policy

\* Only the client that holds the row has a transaction open, on the row as it
\* is; what an answer carries, or a form shows, was committed.
Transacted ==
  \A c \in Clients :
    /\ form[c] # None => Known(form[c])
    /\ req[c] # None /\ req[c].phase = "open" => lock = c /\ req[c].policy = policy
    /\ req[c] # None /\ req[c].phase = "done" => req[c].policy = None \/ Known(req[c].policy)

\* What a policy may give a CDR.
Priced(p, d) == Calculable(p, d) /\ calculateAwardTokens(p, d) <= Cap

\* A request names the price of its own snapshot.
OwnPrice(w) ==
  w.policy # None /\ Priced(w.policy, w.cdr) /\ w.amount = calculateAwardTokens(w.policy, w.cdr)

\* A request that is about to execute has a claim to replay or a policy of the
\* history that prices its CDR; one that holds the claim, and one that answered,
\* names the claimed amount or, after a refusal, its own price.
IngestSound(w) ==
  /\ w.policy = None \/ Known(w.policy)
  /\ w.point = "execute" =>
       op[w.cdr] # None \/ (w.policy # None /\ Priced(w.policy, w.cdr))
  /\ w.point = "claim" => OwnPrice(w) \/ (op[w.cdr] # None /\ w.amount = op[w.cdr].amount)
  /\ w.point = "submit" =>
       /\ op[w.cdr] # None /\ ~op[w.cdr].refused /\ op[w.cdr].sent = None
       /\ w.amount = op[w.cdr].amount \/ (OwnPrice(w) /\ faults > 0)
  /\ w.point = "answered" =>
       /\ op[w.cdr] # None
       /\ \/ w.amount = op[w.cdr].amount
          \/ /\ OwnPrice(w) /\ faults > 0
             /\ w.amount = 0 \/ (op[w.cdr].sent # None /\ w.amount = op[w.cdr].sent)

\* What one revision gives a CDR.
SomePrice(d, amount) ==
  \E r \in 1 .. Len(committed) :
    Priced(committed[r].policy, d) /\ amount = calculateAwardTokens(committed[r].policy, d)

AwardSound(d) ==
  LET p == committed[op[d].revision].policy IN
  /\ op[d].revision \in 1 .. Len(committed)
  /\ Priced(p, d) /\ op[d].amount = calculateAwardTokens(p, d)
  /\ op[d].refused => op[d].sent = None /\ faults > 0
  /\ op[d].sent # None =>
       /\ op[d].sent > 0 /\ SomePrice(d, op[d].sent)
       /\ faults = 0 => op[d].sent = op[d].amount

Ingested == \A i \in Requests : ingest[i] # None => IngestSound(ingest[i])
Awarded == \A d \in Cdrs : op[d] # None => AwardSound(d)

\* A claim has one holder.
OneHolder ==
  \A i, j \in Requests :
    At(i, "submit") /\ At(j, "submit") /\ ingest[i].cdr = ingest[j].cdr => i = j

\* The inductive invariant: one history, from which everything that is held
\* anywhere comes.
PInv == PolicyTypeOK /\ History /\ Transacted /\ Ingested /\ Awarded /\ OneHolder

-----------------------------------------------------------------------------
(* The operators.                                                          *)

LEMMA PricesAreNat ==
  \A p \in Policy : \A d \in Cdrs : calculateAwardTokens(p, d) \in Nat
<1> TAKE p \in Policy
<1> TAKE d \in Cdrs
<1>1. d.energy \in Nat
  BY CdrAssumption DEF Cdr
<1>2. p.rules["offPeakRate"] \in Nat /\ p.rules["v2gRate"] \in Nat
  <2>1. p.rules \in RuleSet
    BY DEF Policy
  <2>2. Rates \subseteq Nat
    BY RatesAssumption
  <2> QED
    BY <2>1, <2>2 DEF RuleSet, Fields, Values
<1>3. \A a, b \in Nat : a * b \in Nat
  OBVIOUS
<1> DEFINE x == d.energy * p.rules["offPeakRate"]
           y == d.energy * p.rules["v2gRate"]
<1>4. x \in Nat /\ y \in Nat
  BY <1>1, <1>2, <1>3
<1>5. x \div EnergyUnit \in Nat /\ y \div EnergyUnit \in Nat
  BY <1>4, Division
<1> QED
  BY <1>5 DEF calculateAwardTokens

LEMMA MergedRules ==
  \A patch \in Patches : \A rules \in RuleSet :
    /\ Merge(patch, rules) \in RuleSet
    /\ \A f \in Fields : Merge(patch, rules)[f] = IF f \in DOMAIN patch THEN patch[f] ELSE rules[f]
<1> TAKE patch \in Patches
<1> TAKE rules \in RuleSet
<1>1. \A f \in Fields : Merge(patch, rules)[f] = IF f \in DOMAIN patch THEN patch[f] ELSE rules[f]
  BY DEF Merge
<1>2. \A f \in DOMAIN patch : patch[f] \in Values(f) /\ Values(f) \subseteq Rates \cup {0, 1}
  BY DEF Patches, Values
<1>3. \A f \in Fields : rules[f] \in Values(f) /\ Values(f) \subseteq Rates \cup {0, 1}
  BY DEF RuleSet, Values
<1>4. \A f \in Fields : Merge(patch, rules)[f] \in Values(f) /\ Merge(patch, rules)[f] \in Rates \cup {0, 1}
  BY <1>1, <1>2, <1>3
<1>5. Merge(patch, rules) \in [Fields -> Rates \cup {0, 1}]
  <2>1. Merge(patch, rules) = [f \in Fields |-> Merge(patch, rules)[f]]
    BY DEF Merge
  <2> QED
    BY <1>4, <2>1
<1> QED
  BY <1>1, <1>4, <1>5 DEF RuleSet

\* The row an update makes, by the kind of update.
LEMMA AppliedIs ==
  \A u \in Updates : \A p \in Policy :
    /\ Applied(u, p) \in Policy
    /\ Applied(u, p).revision = p.revision + 1
<1> TAKE u \in Updates
<1> TAKE p \in Policy
<1>1. p.revision \in Nat /\ p.rules \in RuleSet /\ p.windows \in WindowSet
  BY DEF Policy
<1> DEFINE rules == IF u.kind = "rules" THEN Merge(u.rules, p.rules) ELSE p.rules
<1> DEFINE windows == CASE u.kind = "windows" -> u.windows
                        [] u.kind = "remove" -> [p.windows EXCEPT ![u.country] = {}]
                        [] OTHER -> p.windows
<1>2. rules \in RuleSet
  <2>1. u.kind = "rules" => u.rules \in Patches
    BY DEF Updates
  <2> QED
    BY <1>1, <2>1, MergedRules
<1>3. windows \in WindowSet
  <2>1. CASE u.kind = "windows"
    BY <2>1 DEF Updates
  <2>2. CASE u.kind = "remove"
    <3>1. [p.windows EXCEPT ![u.country] = {}] \in WindowSet
      BY <1>1 DEF WindowSet
    <3> QED
      BY <2>2, <3>1
  <2>3. CASE u.kind = "rules"
    BY <1>1, <2>3
  <2> QED
    BY <2>1, <2>2, <2>3 DEF Updates
<1>4. Applied(u, p) = [revision |-> p.revision + 1, rules |-> rules, windows |-> windows]
  BY DEF Applied
<1> HIDE DEF rules, windows
<1> QED
  BY <1>1, <1>2, <1>3, <1>4 DEF Policy

\* An update changes what it names and nothing else.
Changed(u, before, after) ==
  /\ \A f \in Fields :
       after.rules[f] = IF u.kind = "rules" /\ f \in DOMAIN u.rules THEN u.rules[f] ELSE before.rules[f]
  /\ \A country \in Countries :
       after.windows[country] = CASE u.kind = "windows" -> u.windows[country]
                                  [] u.kind = "remove" /\ u.country = country -> {}
                                  [] OTHER -> before.windows[country]

LEMMA AppliedChanges == \A u \in Updates : \A p \in Policy : Changed(u, p, Applied(u, p))
<1> TAKE u \in Updates
<1> TAKE p \in Policy
<1>1. p.rules \in RuleSet /\ p.windows \in WindowSet
  BY DEF Policy
<1>2. \A f \in Fields :
        Applied(u, p).rules[f] = IF u.kind = "rules" /\ f \in DOMAIN u.rules THEN u.rules[f] ELSE p.rules[f]
  <2>1. u.kind = "rules" => u.rules \in Patches
    BY DEF Updates
  <2>2. Applied(u, p).rules = IF u.kind = "rules" THEN Merge(u.rules, p.rules) ELSE p.rules
    BY DEF Applied
  <2> QED
    BY <1>1, <2>1, <2>2, MergedRules
<1>3. ASSUME NEW country \in Countries
      PROVE  Applied(u, p).windows[country] = CASE u.kind = "windows" -> u.windows[country]
                                                [] u.kind = "remove" /\ u.country = country -> {}
                                                [] OTHER -> p.windows[country]
  <2>1. CASE u.kind = "windows"
    BY <2>1 DEF Applied
  <2>2. CASE u.kind = "remove"
    <3>1. Applied(u, p).windows = [p.windows EXCEPT ![u.country] = {}]
      BY <2>2 DEF Applied
    <3>2. DOMAIN p.windows = Countries
      BY <1>1 DEF WindowSet
    <3> QED
      BY <2>2, <3>1, <3>2
  <2>3. CASE u.kind = "rules"
    BY <2>3 DEF Applied
  <2> QED
    BY <2>1, <2>2, <2>3 DEF Updates
<1> QED
  BY <1>2, <1>3 DEF Changed
-----------------------------------------------------------------------------
(* The history.                                                            *)

\* While it stays or grows at its end, what was known stays known.
Grows ==
  /\ committed \in Seq([update: Updates \cup {None}, policy: Policy])
  /\ committed' \in Seq([update: Updates \cup {None}, policy: Policy])
  /\ Len(committed) \in Nat /\ Len(committed') \in Nat /\ Len(committed) <= Len(committed')
  /\ \A r \in 1 .. Len(committed) : committed'[r] = committed[r]
  /\ faults \in Nat /\ faults' \in Nat /\ faults <= faults'

LEMMA StillKnown == Grows => \A p : Known(p) => Known(p)'
<1> SUFFICES ASSUME Grows, NEW p, Known(p) PROVE Known(p)'
  OBVIOUS
<1>1. p.revision \in 1 .. Len(committed) /\ p = committed[p.revision].policy /\ p \in Policy
  BY DEF Known
<1>2. p.revision \in 1 .. Len(committed') /\ committed'[p.revision] = committed[p.revision]
  BY <1>1 DEF Grows
<1> QED
  BY <1>1, <1>2 DEF Known

LEMMA GrowsOrStays ==
  PolicyTypeOK /\ PolicyTypeOK' /\ committed' = committed /\ faults <= faults' => Grows
<1> SUFFICES ASSUME PolicyTypeOK, PolicyTypeOK', committed' = committed, faults <= faults' PROVE Grows
  OBVIOUS
<1>1. committed \in Seq([update: Updates \cup {None}, policy: Policy])
  BY DEF PolicyTypeOK
<1>2. Len(committed) \in Nat
  BY <1>1
<1>3. faults \in Nat /\ faults' \in Nat
  BY NoneAssumption DEF PolicyTypeOK
<1> QED
  BY <1>1, <1>2, <1>3 DEF Grows

\* The row is the policy of the last revision.
LEMMA RowIsKnown == PolicyTypeOK /\ History => Known(policy)
<1> SUFFICES ASSUME PolicyTypeOK, History PROVE Known(policy)
  OBVIOUS
<1>1. Len(committed) \in 1 .. Len(committed)
  BY DEF History
<1>2. policy.revision = Len(committed)
  BY <1>1 DEF History
<1> QED
  BY <1>1, <1>2 DEF History, PolicyTypeOK, Known

\* What one revision gave, it gives.
LEMMA SomePriceStays == Grows => \A d, amount : SomePrice(d, amount) => SomePrice(d, amount)'
<1> SUFFICES ASSUME Grows, NEW d, NEW amount, SomePrice(d, amount) PROVE SomePrice(d, amount)'
  OBVIOUS
<1>1. PICK r \in 1 .. Len(committed) :
        Priced(committed[r].policy, d) /\ amount = calculateAwardTokens(committed[r].policy, d)
  BY DEF SomePrice
<1>2. r \in 1 .. Len(committed') /\ committed'[r] = committed[r]
  BY <1>1 DEF Grows
<1> QED
  BY <1>1, <1>2 DEF SomePrice, Priced

\* A claim stays what the history makes it.
LEMMA AwardStays ==
  ASSUME Grows, NEW d \in Cdrs, op[d] # None, AwardSound(d), op'[d] = op[d]
  PROVE  AwardSound(d)'
<1> DEFINE r == op[d].revision
<1>1. r \in 1 .. Len(committed)
  BY DEF AwardSound
<1>2. r \in 1 .. Len(committed') /\ committed'[r] = committed[r]
  BY <1>1 DEF Grows
<1>3. \A amount : SomePrice(d, amount) => SomePrice(d, amount)'
  BY SomePriceStays
<1>4. (faults > 0 => faults' > 0) /\ (faults' = 0 => faults = 0)
  BY DEF Grows
<1>5. SomePrice(d, op[d].sent) => SomePrice(d, op[d].sent)'
  <2>1. PICK x : x = op[d].sent
    OBVIOUS
  <2>2. SomePrice(d, x) => SomePrice(d, x)'
    BY <1>3
  <2>3. SomePrice(d, x)' = SomePrice(d, op[d].sent)'
    BY <2>1 DEF SomePrice
  <2> QED
    BY <2>1, <2>2, <2>3
<1> QED
  BY <1>2, <1>4, <1>5 DEF AwardSound

LEMMA AwardsStay ==
  Grows /\ Awarded /\ UNCHANGED op => Awarded'
<1> SUFFICES ASSUME Grows, Awarded, UNCHANGED op, NEW d \in Cdrs, op[d] # None PROVE AwardSound(d)'
  BY DEF Awarded
<1>1. AwardSound(d)
  BY DEF Awarded
<1> QED
  BY <1>1, AwardStays

LEMMA RequestsStay ==
  Grows /\ Ingested /\ OneHolder /\ UNCHANGED <<op, ingest>> => Ingested' /\ OneHolder'
<1> SUFFICES ASSUME Grows, Ingested, OneHolder, UNCHANGED <<op, ingest>> PROVE Ingested' /\ OneHolder'
  OBVIOUS
<1>1. \A p : Known(p) => Known(p)'
  BY StillKnown
<1>2. faults > 0 => faults' > 0
  BY DEF Grows
<1>3. ASSUME NEW i \in Requests, ingest[i] # None PROVE IngestSound(ingest[i])'
  <2>1. IngestSound(ingest[i])
    BY <1>3 DEF Ingested
  <2> QED
    BY <1>1, <1>2, <2>1 DEF IngestSound, OwnPrice, Priced
<1> QED
  BY <1>3 DEF Ingested, OneHolder, At

-----------------------------------------------------------------------------
(* The steps of a client.                                                  *)

LEMMA ReadSound == ASSUME PInv, NEW c \in Clients, GetForUpdate(c) PROVE PInv'
<1>1. PolicyTypeOK'
  <2>1. req[c] \in Sent /\ policy \in Policy
    BY DEF PInv, PolicyTypeOK, GetForUpdate
  <2>2. [[req[c] EXCEPT !.phase = "open"] EXCEPT !.policy = policy] \in Sent
    BY <2>1 DEF Sent
  <2>3. req' \in [Clients -> Sent \cup {None}]
    BY <2>1, <2>2 DEF PInv, PolicyTypeOK, GetForUpdate, Sent
  <2> QED
    BY <2>3 DEF PInv, PolicyTypeOK, GetForUpdate
<1>g. Grows
  <2>1. UNCHANGED <<committed, faults>> /\ faults \in Nat
    BY NoneAssumption DEF GetForUpdate, PInv, PolicyTypeOK
  <2> QED
    BY <1>1, <2>1, GrowsOrStays DEF PInv
<1>2. History' /\ Ingested' /\ Awarded' /\ OneHolder'
  BY <1>g, AwardsStay, RequestsStay DEF PInv, History, GetForUpdate
<1>3. Transacted'
  <2> SUFFICES ASSUME NEW b \in Clients
               PROVE  /\ form'[b] # None => Known(form[b])'
                      /\ req'[b] # None /\ req'[b].phase = "open" => lock' = b /\ req'[b].policy = policy'
                      /\ req'[b] # None /\ req'[b].phase = "done" => req'[b].policy = None \/ Known(req[b].policy)'
    BY DEF Transacted
  <2>1. UNCHANGED <<policy, form, committed>> /\ lock = None /\ lock' = c
    BY DEF GetForUpdate
  <2>2. \A p : Known(p) => Known(p)'
    BY <1>g, StillKnown
  <2>3. CASE b = c
    <3>1. req'[c].phase = "open" /\ req'[c].policy = policy
      BY DEF GetForUpdate, PInv, PolicyTypeOK, Sent
    <3> QED
      BY <2>1, <2>2, <2>3, <3>1 DEF PInv, Transacted
  <2>4. CASE b # c
    <3>1. req'[b] = req[b]
      BY <2>4 DEF GetForUpdate, PInv, PolicyTypeOK
    <3>2. None \notin Clients
      BY NoneAssumption
    <3> QED
      BY <2>1, <2>2, <2>4, <3>1, <3>2 DEF PInv, Transacted
  <2> QED
    BY <2>3, <2>4
<1> QED
  BY <1>1, <1>2, <1>3 DEF PInv

\* The revision a commit appends.
LEMMA CommitAppends ==
  ASSUME PInv, NEW c \in Clients, CommitUpdate(c)
  PROVE  /\ req[c].update \in Updates /\ lock = c /\ lock' = None
         /\ policy' = Applied(req[c].update, policy)
         /\ policy' \in Policy /\ policy'.revision = Len(committed) + 1
         /\ committed' = Append(committed, [update |-> req[c].update, policy |-> policy'])
         /\ Grows
         /\ Len(committed') = Len(committed) + 1
         /\ committed'[Len(committed) + 1] = [update |-> req[c].update, policy |-> policy']
         /\ req' = [req EXCEPT ![c].phase = "done", ![c].policy = policy']
<1>1. req[c] \in Sent /\ policy \in Policy
  BY DEF PInv, PolicyTypeOK, CommitUpdate
<1>2. req[c].policy = policy /\ lock = c
  BY DEF PInv, Transacted, CommitUpdate
<1>3. req[c].update \in Updates
  BY <1>1 DEF Sent
<1> DEFINE next == Applied(req[c].update, policy)
<1>4. policy' = next /\ lock' = None
  BY <1>2 DEF CommitUpdate
<1>5. committed' = Append(committed, [update |-> req[c].update, policy |-> policy'])
  BY <1>2 DEF CommitUpdate
<1>6. req' = [req EXCEPT ![c].phase = "done", ![c].policy = policy']
  BY <1>2 DEF CommitUpdate
<1>7. next \in Policy /\ next.revision = policy.revision + 1
  BY <1>1, <1>3, AppliedIs
<1>8. policy.revision = Len(committed) /\ Len(committed) \in Nat
  <2>1. Len(committed) \in 1 .. Len(committed) /\ policy = committed[Len(committed)].policy
    BY DEF PInv, History
  <2> QED
    BY <2>1 DEF PInv, History
<1> DEFINE Rows == [update: Updates \cup {None}, policy: Policy]
<1>9. [update |-> req[c].update, policy |-> policy'] \in Rows
  BY <1>3, <1>4, <1>7
<1>10. committed \in Seq(Rows)
  BY DEF PInv, PolicyTypeOK
<1> HIDE DEF Rows, next
<1> DEFINE row == [update |-> req[c].update, policy |-> policy']
<1>11. row \in Rows /\ committed' = Append(committed, row)
  BY <1>5, <1>9
<1> HIDE DEF row
<1>12. /\ committed' \in Seq(Rows) /\ Len(committed') = Len(committed) + 1
       /\ committed'[Len(committed) + 1] = row
       /\ \A r \in 1 .. Len(committed) : committed'[r] = committed[r]
  BY <1>10, <1>11
<1>f. faults' = faults /\ faults \in Nat
  BY NoneAssumption DEF CommitUpdate, PInv, PolicyTypeOK
<1>13. Grows
  BY <1>8, <1>10, <1>12, <1>f DEF Grows, Rows
<1> QED
  BY <1>2, <1>3, <1>4, <1>5, <1>6, <1>7, <1>8, <1>12, <1>13 DEF row, next

LEMMA CommitSound == ASSUME PInv, NEW c \in Clients, CommitUpdate(c) PROVE PInv'
<1>0. UNCHANGED <<form, ingest, op, faults>>
  BY DEF CommitUpdate
<1>00. req' = [req EXCEPT ![c].phase = "done", ![c].policy = policy']
  BY CommitAppends
<1>1. PolicyTypeOK'
  <2>1. req[c] \in Sent /\ policy' \in Policy /\ committed' \in Seq([update: Updates \cup {None}, policy: Policy])
    BY CommitAppends DEF PInv, PolicyTypeOK, CommitUpdate, Grows
  <2>2. [[req[c] EXCEPT !.phase = "done"] EXCEPT !.policy = policy'] \in Sent
    BY <2>1 DEF Sent
  <2>3. req' \in [Clients -> Sent \cup {None}]
    BY <1>00, <2>1, <2>2 DEF PInv, PolicyTypeOK, Sent
  <2>4. lock' = None
    BY CommitAppends
  <2> QED
    BY <1>0, <2>1, <2>3, <2>4 DEF PInv, PolicyTypeOK
<1>2. Grows
  BY CommitAppends
<1>3. History'
  <2> DEFINE n == Len(committed)
  <2>1. /\ n \in Nat \ {0} /\ Len(committed') = n + 1 /\ policy'.revision = n + 1
        /\ committed'[n + 1] = [update |-> req[c].update, policy |-> policy']
        /\ req[c].update \in Updates /\ policy' = Applied(req[c].update, policy)
        /\ policy = committed[n].policy
    BY CommitAppends DEF PInv, History
  <2>2. \A r \in 1 .. n : committed'[r] = committed[r] /\ committed[r].policy.revision = r
    BY <1>2 DEF Grows, PInv, History
  <2>3. \A r \in 2 .. n : /\ committed[r].update \in Updates
                          /\ committed[r].policy = Applied(committed[r].update, committed[r - 1].policy)
    BY DEF PInv, History
  <2> DEFINE added == committed'
  <2>a. added = committed'
    OBVIOUS
  <2> HIDE DEF added
  <2>4. ASSUME NEW r \in 1 .. n + 1 PROVE added[r].policy.revision = r
    BY <2>1, <2>2, <2>a
  <2>5. ASSUME NEW r \in 2 .. n + 1
        PROVE  added[r].update \in Updates /\ added[r].policy = Applied(added[r].update, added[r - 1].policy)
    <3>1. CASE r = n + 1
      <4>1. r - 1 = n /\ n \in 1 .. n
        BY <2>1, <3>1
      <4>2. added[r - 1] = committed[n]
        BY <4>1, <2>2, <2>a
      <4>3. added[r].update = req[c].update /\ added[r].policy = policy'
        BY <2>1, <2>a, <3>1
      <4> QED
        BY <2>1, <4>2, <4>3
    <3>2. CASE r # n + 1
      <4>1. r \in 2 .. n /\ r \in 1 .. n /\ r - 1 \in 1 .. n
        BY <2>1, <3>2
      <4>2. added[r] = committed[r] /\ added[r - 1] = committed[r - 1]
        BY <4>1, <2>2, <2>a
      <4> QED
        BY <2>3, <4>1, <4>2
    <3> QED
      BY <3>1, <3>2
  <2>6. policy' = added[n + 1].policy /\ n + 1 \in Nat \ {0}
    BY <2>1, <2>a
  <2> QED
    BY <2>1, <2>4, <2>5, <2>6, <2>a DEF History
<1>4. Ingested' /\ Awarded' /\ OneHolder'
  BY <1>0, <1>2, AwardsStay, RequestsStay DEF PInv
<1>5. Transacted'
  <2> SUFFICES ASSUME NEW b \in Clients
               PROVE  /\ form'[b] # None => Known(form[b])'
                      /\ req'[b] # None /\ req'[b].phase = "open" => lock' = b /\ req'[b].policy = policy'
                      /\ req'[b] # None /\ req'[b].phase = "done" => req'[b].policy = None \/ Known(req[b].policy)'
    BY DEF Transacted
  <2>1. \A p : Known(p) => Known(p)'
    BY <1>2, StillKnown
  <2>2. Known(policy)'
    BY <1>1, <1>3, RowIsKnown, PTL
  <2>3. CASE b = c
    <3>1. req'[c].phase = "done" /\ req'[c].policy = policy'
      BY <1>00 DEF PInv, PolicyTypeOK, Sent, CommitUpdate
    <3>2. Known(req[c].policy)'
      BY <2>2, <3>1 DEF Known
    <3> QED
      BY <1>0, <2>1, <2>3, <3>1, <3>2 DEF PInv, Transacted
  <2>4. CASE b # c
    <3>1. req'[b] = req[b]
      BY <2>4 DEF CommitUpdate, PInv, PolicyTypeOK
    <3>2. lock = c
      BY CommitAppends
    <3> QED
      BY <1>0, <2>1, <2>4, <3>1, <3>2 DEF PInv, Transacted
  <2> QED
    BY <2>3, <2>4
<1> QED
  BY <1>1, <1>3, <1>4, <1>5 DEF PInv

\* What no longer is open, or never was, needs only be known.
Settled(c) ==
  /\ req[c] # None => req[c].phase # "open"
  /\ req[c] # None /\ req[c].phase = "done" => req[c].policy = None \/ Known(req[c].policy)

\* A step of one client that leaves the history alone.
LEMMA ClientSound ==
  ASSUME PInv, NEW c \in Clients, UNCHANGED <<policy, ingest, op, committed>>,
         \A b \in Clients \ {c} : form'[b] = form[b] /\ req'[b] = req[b],
         form'[c] # None => Known(form'[c]), Settled(c)',
         lock' = lock \/ (lock = c /\ lock' = None),
         PolicyTypeOK', faults <= faults'
  PROVE  PInv'
<1>1. Grows
  BY GrowsOrStays DEF PInv
<1>2. Ingested' /\ Awarded' /\ OneHolder'
  BY <1>1, AwardsStay, RequestsStay DEF PInv
<1>3. History'
  BY DEF PInv, History
<1>4. \A p : Known(p) => Known(p)'
  BY <1>1, StillKnown
<1>5. Transacted'
  <2> SUFFICES ASSUME NEW b \in Clients
               PROVE  /\ form'[b] # None => Known(form[b])'
                      /\ req'[b] # None /\ req'[b].phase = "open" => lock' = b /\ req'[b].policy = policy'
                      /\ req'[b] # None /\ req'[b].phase = "done" => req'[b].policy = None \/ Known(req[b].policy)'
    BY DEF Transacted
  <2>1. CASE b = c
    <3>1. form'[c] # None => Known(form[c])'
      BY DEF Known
    <3> QED
      BY <2>1, <3>1 DEF Settled
  <2>2. CASE b # c
    <3>1. form'[b] = form[b] /\ req'[b] = req[b]
      BY <2>2
    <3> QED
      BY <1>4, <2>2, <3>1 DEF PInv, Transacted
  <2> QED
    BY <2>1, <2>2
<1> QED
  BY <1>2, <1>3, <1>5 DEF PInv

LEMMA RollbackSound == ASSUME PInv, NEW c \in Clients, Rollback(c) PROVE PInv'
<1>0. req[c] \in Sent /\ req[c].phase = "open" /\ req[c] # None
  BY DEF PInv, PolicyTypeOK, Rollback
<1>1. UNCHANGED <<policy, form, ingest, op, committed>> /\ lock' = None /\ lock = c
  BY <1>0 DEF Rollback, PInv, Transacted
<1>2. [[req[c] EXCEPT !.phase = "done"] EXCEPT !.policy = None] \in Sent
  BY <1>0 DEF Sent
<1>3. req' = [req EXCEPT ![c] = [[req[c] EXCEPT !.phase = "done"] EXCEPT !.policy = None]]
  BY <1>0 DEF Rollback, PInv, PolicyTypeOK, Sent
<1>4. PolicyTypeOK'
  <2>1. faults' \in 0 .. MaxFaults
    BY NoneAssumption DEF Rollback, PInv, PolicyTypeOK
  <2> QED
    BY <1>1, <1>2, <1>3, <2>1 DEF PInv, PolicyTypeOK
<1>8. faults <= faults'
  BY NoneAssumption DEF Rollback, PInv, PolicyTypeOK
<1>5. /\ req'[c].phase = "done" /\ req'[c].policy = None
      /\ \A b \in Clients \ {c} : req'[b] = req[b]
  BY <1>0, <1>3 DEF PInv, PolicyTypeOK, Sent
<1>6. Settled(c)'
  BY <1>5 DEF Settled
<1>7. form'[c] # None => Known(form'[c])
  BY <1>1 DEF PInv, Transacted
<1> QED
  BY <1>1, <1>4, <1>5, <1>6, <1>7, <1>8, ClientSound

LEMMA LoadSound == ASSUME PInv, NEW c \in Clients, Load(c) PROVE PInv'
<1>1. UNCHANGED <<policy, lock, req, ingest, op, committed, faults>> /\ req[c] = None
  BY DEF Load
<1>2. form' = [form EXCEPT ![c] = policy] /\ form \in [Clients -> Policy \cup {None}] /\ policy \in Policy
  BY DEF Load, PInv, PolicyTypeOK
<1>3. PolicyTypeOK'
  BY <1>1, <1>2 DEF PInv, PolicyTypeOK
<1>4. form'[c] = policy /\ \A b \in Clients \ {c} : form'[b] = form[b]
  BY <1>2
<1>5. Known(form'[c])
  BY <1>4, RowIsKnown DEF PInv
<1>6. Settled(c)'
  BY <1>1 DEF Settled
<1>7. faults <= faults'
  BY <1>1, NoneAssumption DEF PInv, PolicyTypeOK
<1> QED
  BY <1>1, <1>3, <1>4, <1>5, <1>6, <1>7, ClientSound

LEMMA SendSound ==
  ASSUME PInv, NEW c \in Clients, NEW u \in Updates, Send(c, u) PROVE PInv'
<1>1. UNCHANGED <<policy, lock, form, ingest, op, committed, faults>>
  BY DEF Send
<1>2. req' = [req EXCEPT ![c] = [update |-> u, phase |-> "sent", policy |-> None]]
  BY DEF Send
<1>3. [update |-> u, phase |-> "sent", policy |-> None] \in Sent
  BY DEF Sent
<1>4. PolicyTypeOK'
  BY <1>1, <1>2, <1>3 DEF PInv, PolicyTypeOK
<1>5. req'[c].phase = "sent" /\ \A b \in Clients \ {c} : req'[b] = req[b]
  BY <1>2 DEF PInv, PolicyTypeOK
<1>6. Settled(c)'
  BY <1>5 DEF Settled
<1>7. form'[c] # None => Known(form'[c])
  BY <1>1 DEF PInv, Transacted
<1>8. faults <= faults'
  BY <1>1, NoneAssumption DEF PInv, PolicyTypeOK
<1> QED
  BY <1>1, <1>4, <1>5, <1>6, <1>7, <1>8, ClientSound

LEMMA SavesSound ==
  ASSUME PInv, NEW c \in Clients, SaveRules(c) \/ SaveWindows(c) \/ PatchRules(c) \/ RemoveCountry(c)
  PROVE  PInv'
<1>0. form[c] # None => form[c].rules \in RuleSet /\ form[c].windows \in WindowSet
  BY DEF PInv, PolicyTypeOK, Policy
<1>e. Edited \subseteq Fields /\ Patched \subseteq Fields
  BY RatesAssumption
<1>1. CASE SaveRules(c)
  <2>1. PICK f \in Edited : \E v \in Values(f) :
          Send(c, [kind |-> "rules", rules |-> [form[c].rules EXCEPT ![f] = v]])
    BY <1>1 DEF SaveRules
  <2>2. PICK v \in Values(f) : Send(c, [kind |-> "rules", rules |-> [form[c].rules EXCEPT ![f] = v]])
    BY <2>1
  <2> DEFINE s == [form[c].rules EXCEPT ![f] = v]
  <2>3. form[c].rules \in RuleSet /\ v \in Rates \cup {0, 1} /\ f \in Fields
    BY <1>0, <1>1, <1>e DEF SaveRules, Values
  <2>4. s \in [Fields -> Rates \cup {0, 1}] /\ \A g \in DOMAIN s : s[g] \in Values(g)
    BY <2>2, <2>3 DEF RuleSet
  <2> HIDE DEF s
  <2>5. s \in Patches
    BY <2>4 DEF Patches
  <2>6. [kind |-> "rules", rules |-> s] \in Updates
    BY <2>5 DEF Updates
  <2> QED
    BY <2>2, <2>6, SendSound DEF s
<1>2. CASE SaveWindows(c)
  <2>1. PICK country \in Countries, slot \in Slots :
          Send(c, [kind |-> "windows",
                   windows |-> [form[c].windows EXCEPT ![country] = Toggled(@, slot)]])
    BY <1>2 DEF SaveWindows
  <2> DEFINE ws == [form[c].windows EXCEPT ![country] = Toggled(@, slot)]
  <2>2. form[c].windows \in [Countries -> SUBSET Slots]
    BY <1>0, <1>2 DEF SaveWindows, WindowSet
  <2>3. Toggled(form[c].windows[country], slot) \in SUBSET Slots
    BY <2>2 DEF Toggled
  <2>4. ws \in WindowSet
    BY <2>2, <2>3 DEF WindowSet
  <2> HIDE DEF ws
  <2>5. [kind |-> "windows", windows |-> ws] \in Updates
    BY <2>4 DEF Updates
  <2> QED
    BY <2>1, <2>5, SendSound DEF ws
<1>3. CASE PatchRules(c)
  <2>1. PICK f \in Patched : \E v \in Values(f) :
          Send(c, [kind |-> "rules", rules |-> [g \in {f} |-> v]])
    BY <1>3 DEF PatchRules
  <2>2. PICK v \in Values(f) : Send(c, [kind |-> "rules", rules |-> [g \in {f} |-> v]])
    BY <2>1
  <2> DEFINE s == [g \in {f} |-> v]
  <2>3. v \in Rates \cup {0, 1} /\ {f} \in SUBSET Fields
    BY <1>e DEF Values
  <2>4. s \in [{f} -> Rates \cup {0, 1}] /\ \A g \in DOMAIN s : s[g] \in Values(g)
    BY <2>2, <2>3
  <2> HIDE DEF s
  <2>5. s \in Patches
    BY <2>3, <2>4 DEF Patches
  <2>6. [kind |-> "rules", rules |-> s] \in Updates
    BY <2>5 DEF Updates
  <2> QED
    BY <2>2, <2>6, SendSound DEF s
<1>4. CASE RemoveCountry(c)
  <2>1. PICK country \in Countries : Send(c, [kind |-> "remove", country |-> country])
    BY <1>4 DEF RemoveCountry
  <2>2. [kind |-> "remove", country |-> country] \in Updates
    BY DEF Updates
  <2> QED
    BY <2>1, <2>2, SendSound
<1> QED
  BY <1>1, <1>2, <1>3, <1>4

LEMMA AnsweredSound == ASSUME PInv, NEW c \in Clients, Answered(c) PROVE PInv'
<1>0. req[c] \in Sent /\ req[c].phase = "done" /\ req[c] # None
  BY DEF PInv, PolicyTypeOK, Answered
<1>1. UNCHANGED <<policy, lock, ingest, op, committed>> /\ req' = [req EXCEPT ![c] = None]
  BY DEF Answered
<1>2. req[c].policy = None \/ Known(req[c].policy)
  BY <1>0 DEF PInv, Transacted
<1>3. \/ form' = form
      \/ form' = [form EXCEPT ![c] = req[c].policy] /\ Known(req[c].policy)
  <2>1. CASE UNCHANGED form
    BY <2>1
  <2>2. CASE req[c].policy # None /\ form' = [form EXCEPT ![c] = IF c \in Panels THEN req[c].policy ELSE @]
    <3>1. CASE c \in Panels
      BY <1>2, <2>2, <3>1
    <3>2. CASE c \notin Panels
      <4>1. form' = [form EXCEPT ![c] = form[c]]
        BY <2>2, <3>2
      <4> QED
        BY <4>1 DEF PInv, PolicyTypeOK
    <3> QED
      BY <3>1, <3>2
  <2> QED
    BY <2>1, <2>2 DEF Answered
<1>4. \A p : Known(p) => p \in Policy
  BY DEF Known
<1>5. PolicyTypeOK'
  <2>1. faults' \in 0 .. MaxFaults
    BY NoneAssumption DEF Answered, PInv, PolicyTypeOK
  <2>2. form' \in [Clients -> Policy \cup {None}]
    BY <1>3, <1>4 DEF PInv, PolicyTypeOK
  <2>3. req' \in [Clients -> Sent \cup {None}]
    BY <1>1 DEF PInv, PolicyTypeOK
  <2> QED
    BY <1>1, <2>1, <2>2, <2>3 DEF PInv, PolicyTypeOK
<1>6. req'[c] = None /\ \A b \in Clients \ {c} : req'[b] = req[b] /\ form'[b] = form[b]
  BY <1>1, <1>3 DEF PInv, PolicyTypeOK
<1>7. form'[c] # None => Known(form'[c])
  <2>1. form'[c] = form[c] \/ (form'[c] = req[c].policy /\ Known(req[c].policy))
    BY <1>3 DEF PInv, PolicyTypeOK
  <2> QED
    BY <2>1 DEF PInv, Transacted
<1>8. Settled(c)'
  BY <1>6 DEF Settled
<1>9. faults <= faults'
  BY NoneAssumption DEF Answered, PInv, PolicyTypeOK
<1> QED
  BY <1>1, <1>5, <1>6, <1>7, <1>8, <1>9, ClientSound

-----------------------------------------------------------------------------
(* The steps of a request.                                                 *)

\* A claim, once made, keeps its amount, and what was signed for it; nobody
\* touches the claim another request holds.
ClaimsKept ==
  \A d \in Cdrs : op[d] # None =>
    /\ op'[d] # None /\ op'[d].amount = op[d].amount
    /\ op[d].sent # None => op'[d].sent = op[d].sent
OthersHold(i) ==
  \A j \in Requests \ {i} : At(j, "submit") => op'[ingest[j].cdr] = op[ingest[j].cdr]

LEMMA RequestSound ==
  ASSUME PInv, NEW i \in Requests, UNCHANGED <<policy, lock, form, req, committed>>,
         faults <= faults',
         \A j \in Requests \ {i} : ingest'[j] = ingest[j],
         ingest'[i] # None => IngestSound(ingest[i])',
         ClaimsKept, OthersHold(i), OneHolder', Awarded', PolicyTypeOK'
  PROVE  PInv'
<1>1. History' /\ Transacted'
  BY DEF PInv, History, Transacted, Known
<1>2. Ingested'
  <2> SUFFICES ASSUME NEW j \in Requests, ingest'[j] # None PROVE IngestSound(ingest[j])'
    BY DEF Ingested
  <2>1. CASE j = i
    BY <2>1
  <2>2. CASE j # i
    <3>1. ingest'[j] = ingest[j] /\ IngestSound(ingest[j]) /\ ingest[j].cdr \in Cdrs
      BY <2>2 DEF PInv, PolicyTypeOK, Ingested, Working
    <3> DEFINE d == ingest[j].cdr
    <3>2. op[d] # None => /\ op'[d] # None /\ op'[d].amount = op[d].amount
                          /\ op[d].sent # None => op'[d].sent = op[d].sent
      BY <3>1 DEF ClaimsKept
    <3>3. \A p : Known(p)' = Known(p)
      BY DEF Known
    <3>4. ingest[j].point = "submit" => op'[d] = op[d]
      BY <2>2, <3>1 DEF OthersHold, At
    <3>5. faults > 0 => faults' > 0
      BY NoneAssumption DEF PInv, PolicyTypeOK
    <3> HIDE DEF d
    <3>6. OwnPrice(ingest[j]) => OwnPrice(ingest[j])'
      BY <3>1 DEF OwnPrice, Priced
    <3> QED
      BY <3>1, <3>2, <3>3, <3>4, <3>5, <3>6 DEF IngestSound, d
  <2> QED
    BY <2>1, <2>2
<1> QED
  BY <1>1, <1>2 DEF PInv

\* A step that leaves the claims alone and does not come to hold one.
LEMMA WaitingSound ==
  ASSUME PInv, NEW i \in Requests,
         UNCHANGED <<policy, lock, form, req, op, committed, faults>>,
         NEW w \in Working \cup {None}, ingest' = [ingest EXCEPT ![i] = w],
         w # None => w.point # "submit" /\ IngestSound(ingest[i])'
  PROVE  PInv'
<1>1. PolicyTypeOK'
  BY DEF PInv, PolicyTypeOK
<1>2. ingest'[i] = w /\ \A j \in Requests \ {i} : ingest'[j] = ingest[j]
  BY DEF PInv, PolicyTypeOK
<1>3. faults <= faults'
  BY NoneAssumption DEF PInv, PolicyTypeOK
<1>4. Awarded'
  BY <1>1, <1>3, GrowsOrStays, AwardsStay DEF PInv
<1>5. ClaimsKept /\ OthersHold(i)
  BY DEF ClaimsKept, OthersHold
<1>6. ~At(i, "submit")'
  BY <1>2 DEF At
<1>7. OneHolder'
  BY <1>2, <1>6 DEF PInv, OneHolder, At
<1> QED
  BY <1>1, <1>2, <1>3, <1>4, <1>5, <1>7, RequestSound

LEMMA LookUpSound ==
  ASSUME PInv, NEW i \in Requests, NEW d \in Cdrs, LookUpOperation(i, d) PROVE PInv'
<1>1. UNCHANGED <<policy, lock, form, req, op, committed, faults>>
  BY DEF LookUpOperation
<1> DEFINE w == Work(d, IF op[d] = None THEN "price" ELSE "execute", None, None)
<1>2. ingest' = [ingest EXCEPT ![i] = w]
  BY DEF LookUpOperation
<1>3. w \in Working /\ w.cdr = d /\ w.policy = None /\ w.point = IF op[d] = None THEN "price" ELSE "execute"
  BY DEF Work, Working
<1> HIDE DEF w
<1>5. ingest'[i] = w
  BY <1>2 DEF PInv, PolicyTypeOK
<1>6. IngestSound(ingest[i])'
  BY <1>1, <1>3, <1>5 DEF IngestSound
<1> QED
  BY <1>1, <1>2, <1>3, <1>6, WaitingSound

LEMMA LoadPolicySound == ASSUME PInv, NEW i \in Requests, LoadPolicy(i) PROVE PInv'
<1>1. UNCHANGED <<policy, lock, form, req, op, committed, faults>>
  BY DEF LoadPolicy
<1>0. ingest[i] \in Working /\ policy \in Policy
  BY DEF LoadPolicy, PInv, PolicyTypeOK
<1> DEFINE d == ingest[i].cdr
<1> DEFINE w == [[ingest[i] EXCEPT !.point = "execute"] EXCEPT !.policy = policy]
<1>3. w \in Working /\ w.cdr = d /\ w.policy = policy /\ w.point = "execute"
  BY <1>0 DEF Working
<1>2. ingest' = [ingest EXCEPT ![i] = IF Priced(policy, d) THEN w ELSE None]
  BY <1>0 DEF LoadPolicy, Priced, Working
<1> HIDE DEF w
<1>5. ingest'[i] = (IF Priced(policy, d) THEN w ELSE None)
  BY <1>2 DEF PInv, PolicyTypeOK
<1>6. Known(policy) /\ policy # None
  BY <1>0, RowIsKnown, NoneAssumption DEF PInv
<1>7. ingest'[i] # None => IngestSound(ingest[i])'
  <2>1. SUFFICES ASSUME ingest'[i] # None PROVE IngestSound(ingest[i])'
    OBVIOUS
  <2>2. ingest'[i] = w /\ Priced(policy, d)
    BY <1>5, <2>1
  <2>3. PICK v : v = w
    OBVIOUS
  <2>4. Known(v.policy)' /\ v.policy # None /\ Priced(v.policy, v.cdr) /\ v.point = "execute"
    BY <1>1, <1>3, <1>6, <2>2, <2>3 DEF Known
  <2>6. Priced(v.policy, v.cdr)'
    BY <2>4 DEF Priced
  <2> QED
    BY <2>2, <2>3, <2>4, <2>6 DEF IngestSound
<1> DEFINE x == IF Priced(policy, d) THEN w ELSE None
<1>8. x \in Working \cup {None} /\ x = ingest'[i] /\ (x # None => x.point # "submit")
  BY <1>3, <1>5
<1> QED
  BY <1>1, <1>2, <1>7, <1>8, WaitingSound

LEMMA ExecutorLookupSound == ASSUME PInv, NEW i \in Requests, ExecutorLookup(i) PROVE PInv'
<1>1. UNCHANGED <<policy, lock, form, req, op, committed, faults>>
  BY DEF ExecutorLookup
<1>0. ingest[i] \in Working /\ IngestSound(ingest[i]) /\ ingest[i].point = "execute"
  BY DEF ExecutorLookup, At, PInv, PolicyTypeOK, Ingested
<1>a. PICK d : d = ingest[i].cdr
  OBVIOUS
<1>b. PICK p : p = ingest[i].policy
  OBVIOUS
<1>c. PICK amount : amount = IF op[d] # None THEN op[d].amount ELSE calculateAwardTokens(p, d)
  OBVIOUS
<1> DEFINE w == [[ingest[i] EXCEPT !.point = "claim"] EXCEPT !.amount = amount]
<1>2. d \in Cdrs
  BY <1>0, <1>a DEF Working
<1>3. amount \in Nat
  <2>1. CASE op[d] # None
    BY <1>2, <1>c, <2>1 DEF PInv, PolicyTypeOK, Award
  <2>2. CASE op[d] = None
    <3>1. p \in Policy
      BY <1>0, <1>a, <1>b, <2>2 DEF IngestSound, Known
    <3> QED
      BY <1>2, <1>c, <2>2, <3>1, PricesAreNat
  <2> QED
    BY <2>1, <2>2
<1>4. ingest' = [ingest EXCEPT ![i] = w]
  BY <1>0, <1>a, <1>b, <1>c DEF ExecutorLookup, Advance, PInv, PolicyTypeOK
<1>5. op[d] # None => amount = op[d].amount
  BY <1>c
<1>6. op[d] = None => p # None /\ Priced(p, d) /\ amount = calculateAwardTokens(p, d)
  BY <1>0, <1>a, <1>b, <1>c DEF IngestSound
<1>7. w \in Working /\ w.cdr = d /\ w.policy = p /\ w.point = "claim" /\ w.amount = amount
  BY <1>0, <1>3, <1>a, <1>b DEF Working
<1> HIDE DEF w
<1>8. ingest'[i] = w
  BY <1>4 DEF PInv, PolicyTypeOK
<1>9. IngestSound(ingest[i])'
  <2>1. p = None \/ Known(p)'
    BY <1>0, <1>1, <1>b DEF IngestSound, Known
  <2>2. op' = op
    BY <1>1
  <2>3. PICK v : v = w
    OBVIOUS
  <2>4. v.cdr = d /\ v.policy = p /\ v.point = "claim" /\ v.amount = amount /\ ingest'[i] = v
    BY <1>7, <1>8, <2>3
  <2>5. op[d] = None => OwnPrice(v)'
    BY <1>6, <2>4 DEF OwnPrice, Priced
  <2>6. OwnPrice(v)' => OwnPrice(ingest[i])'
    BY <2>4 DEF OwnPrice
  <2> QED
    BY <1>5, <2>1, <2>2, <2>4, <2>5, <2>6 DEF IngestSound
<1> QED
  BY <1>1, <1>4, <1>7, <1>9, WaitingSound

LEMMA ClaimSound == ASSUME PInv, NEW i \in Requests, ClaimAward(i) PROVE PInv'
<1>1. UNCHANGED <<policy, lock, form, req, committed, faults>>
  BY DEF ClaimAward
<1>0. ingest[i] \in Working /\ IngestSound(ingest[i]) /\ ingest[i].point = "claim"
  BY DEF ClaimAward, At, PInv, PolicyTypeOK, Ingested
<1>a. PICK d : d = ingest[i].cdr
  OBVIOUS
<1>b. PICK p : p = ingest[i].policy
  OBVIOUS
<1>c. PICK amount : amount = ingest[i].amount
  OBVIOUS
<1>2. d \in Cdrs /\ (op[d] # None => op[d] \in Award)
  BY <1>0, <1>a DEF Working, PInv, PolicyTypeOK
<1>3. OwnPrice(ingest[i]) \/ (op[d] # None /\ amount = op[d].amount)
  BY <1>0, <1>a, <1>c DEF IngestSound
<1>4. p = None \/ Known(p)
  BY <1>0, <1>b DEF IngestSound
<1>5. OwnPrice(ingest[i]) => Known(p) /\ Priced(p, d) /\ amount = calculateAwardTokens(p, d)
  BY <1>4, <1>a, <1>b, <1>c DEF OwnPrice
<1>6. amount \in Nat
  BY <1>2, <1>3, <1>5, PricesAreNat DEF Known, Award
<1>7. ASSUME op[d] # None, ~op[d].refused,
             Advance(i, "answered", op[d].amount), UNCHANGED op
      PROVE  PInv'
  <2> DEFINE w == [[ingest[i] EXCEPT !.point = "answered"] EXCEPT !.amount = op[d].amount]
  <2>1. ingest' = [ingest EXCEPT ![i] = w]
    BY <1>0, <1>7 DEF Advance, PInv, PolicyTypeOK
  <2>2. w \in Working /\ w.cdr = d /\ w.policy = p /\ w.point = "answered" /\ w.amount = op[d].amount
    BY <1>0, <1>2, <1>7, <1>a, <1>b DEF Working, Award
  <2> HIDE DEF w
  <2>3. ingest'[i] = w
    BY <2>1 DEF PInv, PolicyTypeOK
  <2>4. p = None \/ Known(p)'
    BY <1>1, <1>4 DEF Known
  <2>5. op' = op
    BY <1>7
  <2>6. IngestSound(ingest[i])'
    BY <1>7, <2>2, <2>3, <2>4, <2>5 DEF IngestSound
  <2> QED
    BY <1>1, <1>7, <2>1, <2>2, <2>6, WaitingSound
<1>8. ASSUME op'[d] \in Award, op'[d].refused = FALSE, op'[d].sent = None,
             op' = [op EXCEPT ![d] = op'[d]], Advance(i, "submit", amount),
             AwardSound(d)', amount = op'[d].amount \/ (OwnPrice(ingest[i]) /\ faults > 0),
             op[d] = None \/ (op[d].refused /\ op'[d].amount = op[d].amount /\ op[d].sent = None)
      PROVE  PInv'
  <2> DEFINE w == [[ingest[i] EXCEPT !.point = "submit"] EXCEPT !.amount = amount]
  <2>1. ingest' = [ingest EXCEPT ![i] = w]
    BY <1>0, <1>8, <1>c DEF Advance, PInv, PolicyTypeOK
  <2>2. w \in Working /\ w.cdr = d /\ w.policy = p /\ w.point = "submit" /\ w.amount = amount
    BY <1>0, <1>6, <1>a, <1>b, <1>c DEF Working
  <2> HIDE DEF w
  <2>3. ingest'[i] = w /\ \A j \in Requests \ {i} : ingest'[j] = ingest[j]
    BY <2>1 DEF PInv, PolicyTypeOK
  <2>4. PolicyTypeOK'
    BY <1>1, <1>2, <1>8, <2>1, <2>2 DEF PInv, PolicyTypeOK
  <2>5. \A e \in Cdrs \ {d} : op'[e] = op[e]
    BY <1>8 DEF PInv, PolicyTypeOK
  <2>6. op'[d] # None
    BY <1>8, NoneAssumption
  <2>7. ASSUME NEW j \in Requests \ {i}, At(j, "submit") PROVE ingest[j].cdr \in Cdrs \ {d}
    <3>1. ingest[j] \in Working /\ IngestSound(ingest[j])
      BY <2>7 DEF At, PInv, PolicyTypeOK, Ingested
    <3>2. op[ingest[j].cdr] # None /\ ~op[ingest[j].cdr].refused
      BY <2>7, <3>1 DEF IngestSound, At
    <3> QED
      BY <1>8, <3>1, <3>2 DEF Working
  <2>8. ClaimsKept /\ OthersHold(i)
    BY <1>8, <2>5, <2>6, <2>7 DEF ClaimsKept, OthersHold
  <2>9. OneHolder'
    <3>1. ASSUME NEW j \in Requests \ {i}, At(j, "submit")' PROVE ingest'[j].cdr # d /\ At(j, "submit")
      BY <2>3, <2>7, <3>1 DEF At
    <3>2. ingest'[i].cdr = d
      BY <2>2, <2>3
    <3> QED
      BY <2>3, <3>1, <3>2 DEF PInv, OneHolder
  <2>10. Awarded'
    <3> SUFFICES ASSUME NEW e \in Cdrs, op'[e] # None PROVE AwardSound(e)'
      BY DEF Awarded
    <3>1. CASE e = d
      BY <1>8, <3>1
    <3>2. CASE e # d
      <4>1. op'[e] = op[e]
        BY <2>5, <3>2
      <4>2. Grows
        BY <1>1, <2>4, NoneAssumption, GrowsOrStays DEF PInv, PolicyTypeOK
      <4> QED
        BY <4>1, <4>2, AwardStays DEF PInv, Awarded
    <3> QED
      BY <3>1, <3>2
  <2>11. IngestSound(ingest[i])'
    <3>1. p = None \/ Known(p)'
      BY <1>1, <1>4 DEF Known
    <3>2. OwnPrice(ingest[i]) => OwnPrice(ingest[i])'
      BY <2>2, <2>3, <1>a, <1>b, <1>c DEF OwnPrice, Priced
    <3>3. faults' = faults
      BY <1>1
    <3>4. /\ ingest'[i].cdr = d /\ ingest'[i].policy = p /\ ingest'[i].point = "submit"
          /\ ingest'[i].amount = amount
      BY <2>2, <2>3
    <3> QED
      BY <1>8, <2>6, <3>1, <3>2, <3>3, <3>4 DEF IngestSound
  <2>12. faults <= faults'
    BY <1>1, NoneAssumption DEF PInv, PolicyTypeOK
  <2> QED
    BY <1>1, <2>3, <2>4, <2>8, <2>9, <2>10, <2>11, <2>12, RequestSound
<1>9. ASSUME op[d] = None,
             op' = [op EXCEPT ![d] = [amount |-> amount, refused |-> FALSE, sent |-> None,
                                      revision |-> p.revision]],
             Advance(i, "submit", amount)
      PROVE  PInv'
  <2>1. Known(p) /\ Priced(p, d) /\ amount = calculateAwardTokens(p, d)
    BY <1>3, <1>5, <1>9
  <2>2. op'[d] = [amount |-> amount, refused |-> FALSE, sent |-> None, revision |-> p.revision]
    BY <1>2, <1>9 DEF PInv, PolicyTypeOK
  <2>3. p.revision \in Nat /\ p.revision \in 1 .. Len(committed) /\ committed[p.revision].policy = p
    BY <2>1 DEF Known, Policy
  <2>4. op'[d] \in Award
    BY <1>6, <2>2, <2>3 DEF Award
  <2>5. AwardSound(d)'
    <3>1. committed' = committed
      BY <1>1
    <3>2. op'[d].revision = p.revision /\ op'[d].amount = amount /\ op'[d].refused = FALSE
          /\ op'[d].sent = None
      BY <2>2
    <3> QED
      BY <2>1, <2>3, <3>1, <3>2 DEF AwardSound
  <2>6. op' = [op EXCEPT ![d] = op'[d]]
    BY <1>9, <2>2
  <2>7. op'[d].refused = FALSE /\ op'[d].sent = None /\ amount = op'[d].amount
    BY <2>2
  <2> QED
    BY <1>8, <1>9, <2>4, <2>5, <2>6, <2>7
<1>10. ASSUME op[d] # None, op[d].refused, op' = [op EXCEPT ![d].refused = FALSE],
              Advance(i, "submit", amount)
       PROVE  PInv'
  <2>1. AwardSound(d) /\ op[d] \in Award
    BY <1>2, <1>10 DEF PInv, Awarded
  <2>2. op'[d] = [op[d] EXCEPT !.refused = FALSE]
    BY <1>2, <1>10 DEF PInv, PolicyTypeOK
  <2>3. op'[d] \in Award /\ op'[d].refused = FALSE /\ op'[d].sent = op[d].sent
        /\ op'[d].amount = op[d].amount /\ op'[d].revision = op[d].revision
    BY <2>1, <2>2 DEF Award
  <2>4. op[d].sent = None /\ faults > 0
    BY <1>10, <2>1 DEF AwardSound
  <2>5. AwardSound(d)'
    <3>1. committed' = committed
      BY <1>1
    <3> QED
      BY <2>1, <2>3, <2>4, <3>1 DEF AwardSound
  <2>6. op' = [op EXCEPT ![d] = op'[d]]
    BY <1>10, <2>2
  <2> QED
    BY <1>3, <1>8, <1>10, <2>3, <2>4, <2>5, <2>6
<1> QED
  BY <1>7, <1>9, <1>10, <1>a, <1>b, <1>c DEF ClaimAward, MayTakeOver

\* A step of the holder of a claim that ends its hold.
LEMMA HolderSound ==
  ASSUME PInv, NEW i \in Requests, At(i, "submit"),
         UNCHANGED <<policy, lock, form, req, committed>>, faults <= faults', PolicyTypeOK',
         \A j \in Requests \ {i} : ingest'[j] = ingest[j],
         ~At(i, "submit")', ingest'[i] # None => IngestSound(ingest[i])',
         NEW d \in Cdrs, d = ingest[i].cdr, \A e \in Cdrs \ {d} : op'[e] = op[e],
         op'[d] # None, op'[d].amount = op[d].amount, AwardSound(d)'
  PROVE  PInv'
<1>1. ingest[i] \in Working /\ IngestSound(ingest[i]) /\ ingest[i].point = "submit" /\ d \in Cdrs
  BY DEF At, PInv, PolicyTypeOK, Ingested, Working
<1>2. op[d] # None /\ op[d].sent = None
  BY <1>1 DEF IngestSound
<1>3. ClaimsKept
  BY <1>1, <1>2 DEF ClaimsKept
<1>4. ASSUME NEW j \in Requests \ {i}, At(j, "submit") PROVE ingest[j].cdr \in Cdrs \ {d}
  <2>1. ingest[j] \in Working
    BY <1>4 DEF At, PInv, PolicyTypeOK
  <2>2. ingest[j].cdr # d
    BY <1>4 DEF PInv, OneHolder
  <2> QED
    BY <2>1, <2>2 DEF Working
<1>5. OthersHold(i)
  BY <1>4 DEF OthersHold
<1>6. OneHolder'
  <2>1. \A j \in Requests : At(j, "submit")' => j # i /\ At(j, "submit") /\ ingest'[j] = ingest[j]
    BY DEF At
  <2> QED
    BY <2>1 DEF PInv, OneHolder
<1>7. Awarded'
  <2> SUFFICES ASSUME NEW e \in Cdrs, op'[e] # None PROVE AwardSound(e)'
    BY DEF Awarded
  <2>1. CASE e = d
    BY <2>1
  <2>2. CASE e # d
    <3>1. op'[e] = op[e]
      BY <2>2
    <3>2. Grows
      BY GrowsOrStays DEF PInv
    <3> QED
      BY <3>1, <3>2, AwardStays DEF PInv, Awarded
  <2> QED
    BY <2>1, <2>2
<1> QED
  BY <1>3, <1>5, <1>6, <1>7, RequestSound

LEMMA SubmitSound == ASSUME PInv, NEW i \in Requests, Submit(i) PROVE PInv'
<1>1. UNCHANGED <<policy, lock, form, req, committed, faults>>
  BY DEF Submit
<1>0. ingest[i] \in Working /\ IngestSound(ingest[i]) /\ ingest[i].point = "submit"
  BY DEF Submit, At, PInv, PolicyTypeOK, Ingested
<1>a. PICK d : d = ingest[i].cdr
  OBVIOUS
<1>b. PICK p : p = ingest[i].policy
  OBVIOUS
<1>c. PICK amount : amount = ingest[i].amount
  OBVIOUS
<1> DEFINE w == [[ingest[i] EXCEPT !.point = "answered"] EXCEPT !.amount = amount]
<1>2. d \in Cdrs /\ op[d] # None /\ op[d].sent = None /\ ~op[d].refused
  BY <1>0, <1>a DEF Working, IngestSound
<1>3. op[d] \in Award /\ AwardSound(d)
  BY <1>2 DEF PInv, PolicyTypeOK, Awarded
<1>4. amount = op[d].amount \/ (OwnPrice(ingest[i]) /\ faults > 0)
  BY <1>0, <1>a, <1>c DEF IngestSound
<1>5. p = None \/ Known(p)
  BY <1>0, <1>b DEF IngestSound
<1>6. OwnPrice(ingest[i]) => Known(p) /\ Priced(p, d) /\ amount = calculateAwardTokens(p, d)
  BY <1>5, <1>a, <1>b, <1>c DEF OwnPrice
<1>7. SomePrice(d, amount)
  <2>1. CASE amount = op[d].amount
    BY <1>3, <2>1 DEF AwardSound, SomePrice
  <2>2. CASE OwnPrice(ingest[i])
    BY <1>6, <2>2 DEF SomePrice, Known
  <2> QED
    BY <1>4, <2>1, <2>2
<1>8. amount \in Nat
  BY <1>2, <1>3, <1>4, <1>6, PricesAreNat DEF Known, Award
<1>9. ingest' = [ingest EXCEPT ![i] = w]
  BY <1>0, <1>c DEF Submit, Advance, PInv, PolicyTypeOK
<1>10. w \in Working /\ w.cdr = d /\ w.policy = p /\ w.point = "answered" /\ w.amount = amount
  BY <1>0, <1>a, <1>b, <1>c DEF Working
<1> HIDE DEF w
<1>11. ingest'[i] = w /\ \A j \in Requests \ {i} : ingest'[j] = ingest[j]
  BY <1>9 DEF PInv, PolicyTypeOK
<1> DEFINE stored == IF amount > 0 THEN [op[d] EXCEPT !.sent = amount] ELSE op[d]
<1>12. op' = [op EXCEPT ![d] = stored]
  BY <1>2, <1>a, <1>c DEF Submit, PInv, PolicyTypeOK
<1>13. stored \in Award /\ stored.amount = op[d].amount /\ stored.revision = op[d].revision
       /\ stored.refused = op[d].refused /\ stored.sent = IF amount > 0 THEN amount ELSE None
  BY <1>2, <1>3, <1>8 DEF Award
<1> HIDE DEF stored
<1>14. op'[d] = stored /\ \A e \in Cdrs \ {d} : op'[e] = op[e]
  BY <1>2, <1>12 DEF PInv, PolicyTypeOK
<1>15. PolicyTypeOK'
  BY <1>1, <1>2, <1>9, <1>10, <1>12, <1>13 DEF PInv, PolicyTypeOK
<1>16. op'[d] # None
  BY <1>13, <1>14, NoneAssumption
<1>17. AwardSound(d)'
  <2>1. committed' = committed /\ faults' = faults
    BY <1>1
  <2>2. SomePrice(d, amount)'
    BY <1>7, <2>1 DEF SomePrice
  <2>3. op'[d].sent = (IF amount > 0 THEN amount ELSE None) /\ op'[d].amount = op[d].amount
        /\ op'[d].revision = op[d].revision /\ ~op'[d].refused
    BY <1>2, <1>13, <1>14
  <2>4. op'[d].sent # None => /\ op'[d].sent > 0 /\ SomePrice(d, op[d].sent)'
                              /\ faults' = 0 => op'[d].sent = op'[d].amount
    BY <1>4, <2>1, <2>2, <2>3 DEF SomePrice
  <2> QED
    BY <1>3, <2>1, <2>3, <2>4 DEF AwardSound
<1>18. IngestSound(ingest[i])'
  <2>1. p = None \/ Known(p)'
    BY <1>1, <1>5 DEF Known
  <2>2. OwnPrice(ingest[i]) => OwnPrice(ingest[i])'
    BY <1>10, <1>11, <1>a, <1>b, <1>c DEF OwnPrice, Priced
  <2>3. amount > 0 \/ amount = 0
    BY <1>8
  <2>4. amount > 0 => op'[d].sent = amount /\ amount # None
    BY <1>8, <1>13, <1>14, NoneAssumption
  <2>5. faults' = faults /\ op'[d].amount = op[d].amount
    BY <1>1, <1>13, <1>14
  <2>6. /\ ingest'[i].cdr = d /\ ingest'[i].policy = p /\ ingest'[i].point = "answered"
        /\ ingest'[i].amount = amount
    BY <1>10, <1>11
  <2> QED
    BY <1>4, <1>16, <2>1, <2>2, <2>3, <2>4, <2>5, <2>6 DEF IngestSound
<1>19. At(i, "submit") /\ ~At(i, "submit")'
  BY <1>10, <1>11 DEF Submit, At
<1>20. faults <= faults' /\ op'[d].amount = op[d].amount
  BY <1>1, <1>13, <1>14, NoneAssumption DEF PInv, PolicyTypeOK
<1> QED
  BY <1>1, <1>2, <1>a, <1>11, <1>14, <1>15, <1>16, <1>17, <1>18, <1>19, <1>20, HolderSound

LEMMA RefuseSound == ASSUME PInv, NEW i \in Requests, RefuseSubmission(i) PROVE PInv'
<1>1. UNCHANGED <<policy, lock, form, req, committed>> /\ ingest' = [ingest EXCEPT ![i] = None]
  BY DEF RefuseSubmission
<1>0. ingest[i] \in Working /\ IngestSound(ingest[i]) /\ At(i, "submit") /\ ingest[i].point = "submit"
  BY DEF RefuseSubmission, At, PInv, PolicyTypeOK, Ingested
<1>a. PICK d : d = ingest[i].cdr
  OBVIOUS
<1>2. d \in Cdrs /\ op[d] # None /\ op[d].sent = None
  BY <1>0, <1>a DEF Working, IngestSound
<1>3. op[d] \in Award /\ AwardSound(d)
  BY <1>2 DEF PInv, PolicyTypeOK, Awarded
<1>4. PICK mark \in BOOLEAN : op' = [op EXCEPT ![d].refused = mark]
  BY <1>a DEF RefuseSubmission
<1>5. faults \in Nat /\ faults' = faults + 1 /\ faults' \in 0 .. MaxFaults
  BY NoneAssumption DEF RefuseSubmission, PInv, PolicyTypeOK
<1> DEFINE stored == [op[d] EXCEPT !.refused = mark]
<1>6. stored \in Award /\ stored.amount = op[d].amount /\ stored.revision = op[d].revision
      /\ stored.sent = op[d].sent
  BY <1>3 DEF Award
<1>7. op' = [op EXCEPT ![d] = stored]
  BY <1>2, <1>4 DEF PInv, PolicyTypeOK
<1> HIDE DEF stored
<1>8. op'[d] = stored /\ \A e \in Cdrs \ {d} : op'[e] = op[e]
  BY <1>2, <1>7 DEF PInv, PolicyTypeOK
<1>9. PolicyTypeOK'
  BY <1>1, <1>2, <1>5, <1>6, <1>7 DEF PInv, PolicyTypeOK
<1>10. op'[d] # None
  BY <1>6, <1>8, NoneAssumption
<1>11. AwardSound(d)'
  <2>1. committed' = committed /\ faults' > 0
    BY <1>1, <1>5
  <2>2. op'[d].sent = None /\ op'[d].amount = op[d].amount /\ op'[d].revision = op[d].revision
    BY <1>2, <1>6, <1>8
  <2> QED
    BY <1>3, <2>1, <2>2 DEF AwardSound
<1>12. ingest'[i] = None /\ \A j \in Requests \ {i} : ingest'[j] = ingest[j]
  BY <1>1 DEF PInv, PolicyTypeOK
<1>13. ~At(i, "submit")'
  BY <1>12 DEF At
<1>14. faults <= faults' /\ op'[d].amount = op[d].amount
  BY <1>5, <1>6, <1>8
<1> QED
  BY <1>0, <1>2, <1>a, <1>1, <1>8, <1>9, <1>10, <1>11, <1>12, <1>13, <1>14, HolderSound

-----------------------------------------------------------------------------
(* The theorem.                                                            *)

LEMMA InitPInv == Init => PInv
<1> SUFFICES ASSUME Init PROVE PInv
  OBVIOUS
<1>1. policy \in Policy
  <2>1. [f \in Fields |-> 1] \in RuleSet
    BY RatesAssumption DEF RuleSet, Values
  <2>2. Windows0 \in WindowSet
    BY RatesAssumption
  <2> QED
    BY <2>1, <2>2 DEF Init, Policy
<1> DEFINE row == [update |-> None, policy |-> policy]
<1>2. row \in [update: Updates \cup {None}, policy: Policy]
  BY <1>1
<1>3. committed = <<row>>
  BY DEF Init
<1>4. row.policy = policy /\ policy.revision = 1
  BY DEF Init
<1> HIDE DEF row
<1>5. committed \in Seq([update: Updates \cup {None}, policy: Policy]) /\ Len(committed) = 1
      /\ committed[1] = row
  BY <1>2, <1>3
<1>6. PolicyTypeOK
  BY <1>1, <1>5, NoneAssumption DEF Init, PolicyTypeOK
<1>7. History
  BY <1>4, <1>5 DEF History
<1>8. Transacted /\ Ingested /\ Awarded /\ OneHolder
  BY DEF Init, Transacted, Ingested, Awarded, OneHolder, At
<1> QED
  BY <1>6, <1>7, <1>8 DEF PInv

LEMMA NextPInv == PInv /\ [Next]_vars => PInv'
<1> SUFFICES ASSUME PInv, [Next]_vars PROVE PInv'
  OBVIOUS
<1>1. ASSUME NEW c \in Panels, Load(c) \/ SaveRules(c) \/ SaveWindows(c) PROVE PInv'
  BY <1>1, LoadSound, SavesSound DEF Clients
<1>2. ASSUME NEW c \in Scripts, PatchRules(c) \/ RemoveCountry(c) PROVE PInv'
  BY <1>2, SavesSound DEF Clients
<1>3. ASSUME NEW c \in Clients, Transaction(c) \/ Answered(c) PROVE PInv'
  BY <1>3, ReadSound, CommitSound, RollbackSound, AnsweredSound DEF Transaction
<1>4. ASSUME NEW i \in Requests, Ingestion(i) PROVE PInv'
  BY <1>4, LoadPolicySound, LookUpSound, ExecutorLookupSound, ClaimSound, SubmitSound,
     RefuseSound DEF Ingestion, Execution
<1>5. CASE UNCHANGED vars
  BY <1>5 DEF vars, PInv, PolicyTypeOK, History, Transacted, Ingested, Awarded, Known, IngestSound, AwardSound,
              OwnPrice, SomePrice, Priced, OneHolder, At
<1> QED
  BY <1>1, <1>2, <1>3, <1>4, <1>5 DEF Next

LEMMA RevisionsArePolicies == PInv => \A r \in 1 .. Len(committed) : committed[r].policy \in Policy
<1> SUFFICES ASSUME PInv, NEW r \in 1 .. Len(committed) PROVE committed[r].policy \in Policy
  OBVIOUS
<1> DEFINE Rows == [update: Updates \cup {None}, policy: Policy]
<1>1. \A row \in Rows : row.policy \in Policy
  OBVIOUS
<1>2. committed \in Seq(Rows)
  BY DEF PInv, PolicyTypeOK
<1> HIDE DEF Rows
<1>3. committed[r] \in Rows
  BY <1>2
<1> QED
  BY <1>1, <1>3

\* A CDR's local minute is a minute of the day once its zone is known.
LEMMA LocalMinuteIsOne ==
  \A d \in Cdrs : resolveTimeZone(d) # None => LocalMinute(d) \in Minutes
<1> TAKE d \in Cdrs
<1> HAVE resolveTimeZone(d) # None
<1>1. d.zone \in Minutes \cup {None} /\ d.start \in Minutes
  BY CdrAssumption DEF Cdr
<1>2. resolveTimeZone(d) \in Minutes
  BY <1>1, ZonesAssumption DEF resolveTimeZone
<1> DEFINE z == resolveTimeZone(d)
<1>3. (d.start + z) % Day = IF d.start + z < Day THEN d.start + z ELSE (d.start + z) - Day
  BY <1>1, <1>2, Walked
<1>4. Day \in Nat \ {0} /\ z \in 0 .. Day - 1 /\ d.start \in 0 .. Day - 1
  BY <1>1, <1>2, DayAssumption DEF Minutes
<1> HIDE DEF z
<1>5. (d.start + z) % Day \in Minutes
  BY <1>3, <1>4 DEF Minutes
<1> QED
  BY <1>5 DEF LocalMinute, z

LEMMA ClockPrices == PInv => OffPeakIsTheClock
<1> SUFFICES ASSUME PInv, NEW d \in Cdrs, op[d] # None, d.direction = "CHARGE"
             PROVE LET p == committed[op[d].revision].policy
                       reached == /\ p.rules["offPeakOn"] = 1
                                  /\ \E range \in p.windows[d.country] : Reaches(range, LocalMinute(d))
                   IN  op[d].amount = IF reached THEN (d.energy * p.rules["offPeakRate"]) \div EnergyUnit ELSE 0
  BY DEF OffPeakIsTheClock
<1> DEFINE p == committed[op[d].revision].policy
<1>1. AwardSound(d)
  BY DEF PInv, Awarded
<1>2. Calculable(p, d) /\ op[d].amount = calculateAwardTokens(p, d)
  BY <1>1 DEF AwardSound, Priced
<1>3. p \in Policy
  BY <1>1, RevisionsArePolicies DEF AwardSound
<1>4. d.country \in Countries
  BY CdrAssumption DEF Cdr
<1>5. p.windows[d.country] \subseteq Range2
  BY <1>3, <1>4, DayAssumption DEF Policy, WindowSet
<1> HIDE DEF p
<1>6. CASE NeedsOffPeak(p, d)
  <2>1. LocalMinute(d) \in Minutes
    BY <1>2, <1>6, LocalMinuteIsOne DEF Calculable
  <2>2. \A range \in p.windows[d.country] :
          InRange(range, LocalMinute(d)) <=> Reaches(range, LocalMinute(d))
    BY <1>5, <2>1, RangesAreTheClock
  <2>3. p.rules["offPeakOn"] = 1
    BY <1>6 DEF NeedsOffPeak
  <2>4. isOffPeak(p, d) <=> \E range \in p.windows[d.country] : Reaches(range, LocalMinute(d))
    BY <1>6, <2>2 DEF isOffPeak
  <2> QED
    BY <1>2, <2>3, <2>4 DEF calculateAwardTokens, p
<1>7. CASE ~NeedsOffPeak(p, d)
  <2>1. ~isOffPeak(p, d)
    BY <1>7 DEF isOffPeak
  <2>2. op[d].amount = 0
    BY <1>2, <2>1 DEF calculateAwardTokens
  <2>3. ~(p.rules["offPeakOn"] = 1 /\ \E range \in p.windows[d.country] : Reaches(range, LocalMinute(d)))
    BY <1>7 DEF NeedsOffPeak
  <2> QED
    BY <2>2, <2>3 DEF p
<1> QED
  BY <1>6, <1>7

\* For every number of panels, scripts and requests, every policy and every
\* bound: concurrent edits make one history in which no update undoes another,
\* and every award, transfer and answer follows from one policy of it (the row
\* lock of update, the snapshot under which ingestion prices, and the claim).
THEOREM AwardsFollowOneHistory == Spec => []AwardsFollowThePolicy
<1>1. PInv => AwardsFollowThePolicy
  <2> SUFFICES ASSUME PInv PROVE AwardsFollowThePolicy
    OBVIOUS
  <2>1. TypeOK
    <3>1. ASSUME NEW c \in Clients, req[c] # None
          PROVE  /\ req[c].phase \in {"sent", "open", "done"} /\ req[c].policy \in Policy \cup {None}
                 /\ req[c].update.kind \in {"rules", "windows", "remove"}
      <4>1. req[c] \in Sent
        BY <3>1 DEF PInv, PolicyTypeOK
      <4> QED
        BY <4>1 DEF Sent, Updates
    <3>2. \A i \in Requests : ingest[i] = None \/ ingest[i] \in Working
      BY DEF PInv, PolicyTypeOK
    <3>3. \A d \in Cdrs : op[d] = None \/ op[d] \in Award
      BY DEF PInv, PolicyTypeOK
    <3> QED
      BY <3>1, <3>2, <3>3 DEF PInv, PolicyTypeOK, TypeOK, Working
  <2>2. UpdatesAreSerial
    <3>1. ASSUME NEW r \in 2 .. Len(committed)
          PROVE  Changed(committed[r].update, committed[r - 1].policy, committed[r].policy)
      <4>1. r - 1 \in 1 .. Len(committed) /\ Len(committed) \in Nat
        BY DEF PInv, History
      <4>2. committed[r - 1].policy \in Policy
        BY <4>1, RevisionsArePolicies
      <4>3. committed[r].update \in Updates
            /\ committed[r].policy = Applied(committed[r].update, committed[r - 1].policy)
        BY DEF PInv, History
      <4> QED
        BY <4>2, <4>3, AppliedChanges
    <3> QED
      BY <3>1 DEF UpdatesAreSerial, Changed, PInv, History
  <2>3. OnePolicyPerRevision
    <3>1. Known(policy)
      BY RowIsKnown DEF PInv
    <3>2. \A c \in Clients : form[c] # None => Known(form[c])
      BY DEF PInv, Transacted
    <3>3. \A i \in Requests : ingest[i] # None => ingest[i].policy = None \/ Known(ingest[i].policy)
      BY DEF PInv, Ingested, IngestSound
    <3>4. \A q : Known(q) => q.revision \in 1 .. Len(committed) /\ q = committed[q.revision].policy
      BY DEF Known
    <3> QED
      BY <3>1, <3>2, <3>3, <3>4 DEF OnePolicyPerRevision
  <2>4. PricedByOnePolicy
    BY DEF PInv, Awarded, AwardSound, Priced, PricedByOnePolicy
  <2>5. TransfersArePriced
    <3> SUFFICES ASSUME NEW d \in Cdrs, op[d] # None, op[d].sent # None
                 PROVE  /\ op[d].sent \in 1 .. Cap
                        /\ \E r \in 1 .. Len(committed) :
                             /\ Calculable(committed[r].policy, d)
                             /\ op[d].sent = calculateAwardTokens(committed[r].policy, d)
                        /\ faults = 0 => op[d].sent = op[d].amount
      BY DEF TransfersArePriced
    <3>1. AwardSound(d) /\ op[d] \in Award
      BY DEF PInv, PolicyTypeOK, Awarded
    <3>2. PICK r \in 1 .. Len(committed) :
            Priced(committed[r].policy, d) /\ op[d].sent = calculateAwardTokens(committed[r].policy, d)
      BY <3>1 DEF AwardSound, SomePrice
    <3>3. op[d].sent \in Nat /\ op[d].sent > 0 /\ op[d].sent <= Cap
      BY <3>1, <3>2 DEF AwardSound, Priced, Award
    <3>4. op[d].sent \in 1 .. Cap
      BY <3>3, RatesAssumption
    <3> QED
      BY <3>1, <3>2, <3>4 DEF AwardSound, Priced
  <2>6. AnswersNameTheAward
    BY DEF PInv, Ingested, IngestSound, OwnPrice, Priced, At, AnswersNameTheAward
  <2>7. CapHolds
    BY DEF PInv, Awarded, AwardSound, Priced, CapHolds
  <2> QED
    BY <2>1, <2>2, <2>3, <2>4, <2>5, <2>6, <2>7, ClockPrices DEF AwardsFollowThePolicy
<1> QED
  BY <1>1, InitPInv, NextPInv, PTL DEF Spec
-----------------------------------------------------------------------------
(* The charging records: which field is read.                              *)

LEMMA MinOf == \A I \in SUBSET Nat : I # {} => Min(I) \in I /\ \A i \in I : Min(I) <= i
<1> SUFFICES ASSUME NEW I \in SUBSET Nat, I # {} PROVE \E x \in I : \A y \in I : x =< y
  BY DEF Min
<1>1. PICK x \in I : \A y \in I : ~(<<y, x>> \in OpToRel(<, Nat))
  BY NatLessThanWellFounded, WFMin
<1>2. \A y \in I : ~(y < x)
  BY <1>1 DEF OpToRel
<1> QED
  BY <1>2

\* Where a record has a value, and where it has a candidate for its owner.
ValuesAt(c, fields) == {i \in 1 .. Len(fields) : Present(c[fields[i]])}
NamedAt(c, fields) == {i \in 1 .. Len(fields) : c[fields[i]] # None}
OwnersAt(c) == {i \in 1 .. Len(OwnerFields) : OwnerFields[i] \in Owners(c)}
FirstAt(I) == IF I # {} THEN Min(I) ELSE 0

LEMMA FirstAtIs == \A n \in Nat : \A I \in SUBSET (1 .. n) : FirstAt(I) # 0 <=> FirstAt(I) \in I
<1> SUFFICES ASSUME NEW n \in Nat, NEW I \in SUBSET (1 .. n) PROVE FirstAt(I) # 0 <=> FirstAt(I) \in I
  OBVIOUS
<1>1. I \in SUBSET Nat /\ 0 \notin I
  OBVIOUS
<1> QED
  BY <1>1, MinOf DEF FirstAt

LEMMA FirstOfIs ==
  ASSUME NEW c, NEW fields
  PROVE  FirstOf(c, fields) = IF FirstAt(ValuesAt(c, fields)) = 0 THEN None ELSE fields[FirstAt(ValuesAt(c, fields))]
  BY DEF FirstOf, SelectInSeq, FirstAt, ValuesAt

LEMMA CoalescedIs ==
  ASSUME NEW c, NEW fields
  PROVE  Coalesced(c, fields) = IF FirstAt(NamedAt(c, fields)) = 0 THEN None ELSE c[fields[FirstAt(NamedAt(c, fields))]]
  BY DEF Coalesced, SelectInSeq, FirstAt, NamedAt

LEMMA OwnerSourceIs == \A c : OwnerSource(c) = OwnerFields[FirstAt(OwnersAt(c))]
  BY DEF OwnerSource, SelectInSeq, FirstAt, OwnersAt

LEMMA FirstOfFound ==
  ASSUME NEW c, NEW fields, Len(fields) \in Nat, FirstOf(c, fields) # None
  PROVE  \E i \in 1 .. Len(fields) : FirstOf(c, fields) = fields[i] /\ Present(c[fields[i]])
<1>1. ValuesAt(c, fields) \in SUBSET (1 .. Len(fields))
  BY DEF ValuesAt
<1>2. FirstAt(ValuesAt(c, fields)) \in ValuesAt(c, fields) /\ FirstOf(c, fields) = fields[FirstAt(ValuesAt(c, fields))]
  BY <1>1, FirstAtIs, FirstOfIs
<1> QED
  BY <1>2 DEF ValuesAt

\* Records that agree on the fields are read in the same one.
LEMMA FirstOfSame ==
  ASSUME NEW c, NEW d, NEW fields, \A i \in 1 .. Len(fields) : c[fields[i]] = d[fields[i]]
  PROVE  FirstOf(c, fields) = FirstOf(d, fields)
<1>1. ValuesAt(c, fields) = ValuesAt(d, fields)
  BY DEF ValuesAt
<1> QED
  BY <1>1, FirstOfIs

\* What ?? reads when one spelling is not null.
LEMMA CoalescedOne ==
  ASSUME NEW c, NEW fields, Len(fields) \in Nat, NEW j \in 1 .. Len(fields), c[fields[j]] # None,
         \A i \in 1 .. Len(fields) : c[fields[i]] # None => fields[i] = fields[j]
  PROVE  Coalesced(c, fields) = c[fields[j]]
<1>1. NamedAt(c, fields) \in SUBSET (1 .. Len(fields)) /\ NamedAt(c, fields) \in SUBSET Nat /\ NamedAt(c, fields) # {}
  BY DEF NamedAt
<1>2. FirstAt(NamedAt(c, fields)) \in NamedAt(c, fields)
  BY <1>1, MinOf DEF FirstAt
<1>3. FirstAt(NamedAt(c, fields)) # 0
  BY <1>1, <1>2, FirstAtIs
<1> QED
  BY <1>2, <1>3, CoalescedIs DEF NamedAt

LEMMA FieldsAre ==
  /\ Len(OwnerFields) \in Nat /\ DOMAIN OwnerFields = 1 .. Len(OwnerFields)
  /\ Len(CorrectionFlags) = 4 /\ Len(StatusFields) = 3 /\ Len(CorrectionReferences) = 2
  /\ Len(SessionFields) = 4 /\ Len(ZoneFields) = 3 /\ Len(StartFields) = 7 /\ Len(EndFields) = 6
<1> DEFINE names == {"cdr_token.contract_id", "cdr_token_contract_id", "ContractID", "Identification.EvcoID",
                     "Identification.RemoteIdentification.EvcoID", "identification.EvcoID",
                     "identification.RemoteIdentification.EvcoID"}
<1>1. OcpiOwners \in Seq(names) /\ OicpOwners \in Seq(names)
  BY DEF OcpiOwners, OicpOwners
<1> HIDE DEF names
<1>2. OwnerFields \in Seq(names)
  BY <1>1 DEF OwnerFields
<1>3. Len(OwnerFields) \in Nat /\ DOMAIN OwnerFields = 1 .. Len(OwnerFields)
  BY <1>2
<1> QED
  BY <1>3 DEF CorrectionFlags, StatusFields, CorrectionReferences, SessionFields, ZoneFields, StartFields, EndFields

\* The field that names the owner is one of the candidates.
LEMMA OwnerIsCandidate == \A c : Owners(c) # {} => OwnerSource(c) \in Owners(c)
<1> SUFFICES ASSUME NEW c, Owners(c) # {} PROVE OwnerSource(c) \in Owners(c)
  OBVIOUS
<1>1. PICK i \in 1 .. Len(OwnerFields) : OwnerFields[i] \in Owners(c)
  BY FieldsAre DEF Owners, ToSet
<1>2. OwnersAt(c) # {} /\ OwnersAt(c) \in SUBSET Nat
  BY <1>1, FieldsAre DEF OwnersAt
<1>3. FirstAt(OwnersAt(c)) \in OwnersAt(c)
  BY <1>2, MinOf DEF FirstAt
<1> QED
  BY <1>3, OwnerSourceIs DEF OwnersAt

\* Of one flag in one spelling, the coalescing reads of the code miss nothing.
LEMMA OneSpelling ==
  ASSUME NEW c, NEW fields, Len(fields) \in Nat, DOMAIN fields = 1 .. Len(fields), NEW f \in ToSet(fields), c[f] # None,
         \A g \in ToSet(fields) : c[g] # None => g = f
  PROVE  Coalesced(c, fields) = c[f]
<1>1. PICK j \in 1 .. Len(fields) : fields[j] = f
  BY DEF ToSet
<1>2. \A i \in 1 .. Len(fields) : fields[i] \in ToSet(fields)
  BY DEF ToSet
<1> QED
  BY <1>1, <1>2, CoalescedOne

LEMMA CorrectionsFound ==
  ASSUME NEW c, SupportedKind(c), ~StatedTwice(c) PROVE ~SaysCorrection(c)
<1>1. \A chain \in {CorrectionReferences, CorrectionFlags, StatusFields} : Len(chain) \in Nat /\ DOMAIN chain = 1 .. Len(chain)
  <2>1. Len(CorrectionReferences) \in Nat /\ DOMAIN CorrectionReferences = 1 .. Len(CorrectionReferences)
    BY DEF CorrectionReferences
  <2>2. Len(CorrectionFlags) \in Nat /\ DOMAIN CorrectionFlags = 1 .. Len(CorrectionFlags)
    BY DEF CorrectionFlags
  <2>3. Len(StatusFields) \in Nat /\ DOMAIN StatusFields = 1 .. Len(StatusFields)
    BY DEF StatusFields
  <2> QED
    BY <2>1, <2>2, <2>3
<1>2. ASSUME NEW chain \in {CorrectionReferences, CorrectionFlags, StatusFields}, NEW f \in ToSet(chain), c[f] # None
      PROVE  Coalesced(c, chain) = c[f]
  <2>1. \A g \in ToSet(chain) : c[g] # None => g = f
    BY <1>2 DEF StatedTwice
  <2> QED
    BY <1>1, <1>2, <2>1, OneSpelling
<1>3. \A v : Present(v) => v # None
  BY DEF Present
<1>4. None \notin {"true", "credit", "correction"}
  BY RecordsAssumption
<1>5. ASSUME NEW f \in ToSet(CorrectionReferences), Present(c[f]) PROVE FALSE
  BY <1>2, <1>3, <1>5 DEF SupportedKind
<1>6. ASSUME NEW f \in ToSet(CorrectionFlags), c[f] = "true" PROVE FALSE
  BY <1>2, <1>4, <1>6 DEF SupportedKind
<1>7. ASSUME NEW f \in ToSet(StatusFields), c[f] \in {"credit", "correction"} PROVE FALSE
  BY <1>2, <1>4, <1>7 DEF SupportedKind
<1>8. (Present(c["credit"]) => c["credit"] = "false") /\ ~Present(c["credit_reference_id"])
  BY DEF SupportedKind
<1> QED
  BY <1>5, <1>6, <1>7, <1>8 DEF SaysCorrection
-----------------------------------------------------------------------------
(* The charging records: identities.                                       *)

ById(c) == FirstOf(c, SessionFields) = "id" /\ Present(c["session_id"])

LEMMA NormalisedIs ==
  \A c : LET n == Normalised(c) IN
    /\ n.session = Value(c, SessionFields) /\ n.provider = Value(c, ProviderFields)
    /\ n.owner = c[OwnerSource(c)] /\ n.source = OwnerSource(c) /\ n.protocol = ResolvedProtocol(c)
    /\ n.start = Instant(Start(c)) /\ n.end = Instant(End(c))
    /\ n.cdr = (IF ById(c) THEN c["id"] ELSE None)
    /\ n.reservation = (IF ById(c) THEN c["session_id"] ELSE None)
    /\ n.charging = ChargingSession(c) /\ n.zone = Zone(c) /\ n.zoneSource = FirstOf(c, ZoneFields)
  BY DEF Normalised, ById

LEMMA PrintsAre ==
  \A m, n : Fingerprint(m) = Fingerprint(n) <=>
    /\ m.provider = n.provider /\ m.session = n.session /\ m.owner = n.owner /\ m.evse = n.evse
    /\ m.start = n.start /\ m.end = n.end /\ m.energy = n.energy /\ m.direction = n.direction
    /\ m.cdr = n.cdr /\ m.reservation = n.reservation /\ m.zone = n.zone /\ m.zoneSource = n.zoneSource
  BY DEF Fingerprint

LEMMA FactsAre ==
  \A c, d : Facts(c) = Facts(d) <=>
    LET m == Normalised(c) n == Normalised(d) IN
    /\ m.provider = n.provider /\ m.session = n.session /\ m.owner = n.owner /\ m.evse = n.evse
    /\ m.start = n.start /\ m.end = n.end /\ m.energy = n.energy /\ m.direction = n.direction
<1> SUFFICES ASSUME NEW c, NEW d, NEW m, NEW n, m = Normalised(c), n = Normalised(d)
             PROVE  Facts(c) = Facts(d) <=>
                      /\ m.provider = n.provider /\ m.session = n.session /\ m.owner = n.owner /\ m.evse = n.evse
                      /\ m.start = n.start /\ m.end = n.end /\ m.energy = n.energy /\ m.direction = n.direction
  OBVIOUS
<1> QED
  BY DEF Facts

LEMMA ClaimIs ==
  \A c : LET k == Claim(c) n == Normalised(c) IN
    /\ k.key = OperationKey(n) /\ k.dedup = DedupKey(n) /\ k.charging = ChargingSession(c)
    /\ k.owner = n.owner /\ k.print = Fingerprint(n)
    /\ k.snapshot.print = Fingerprint(n) /\ k.snapshot.session = n /\ k.snapshot.raw = c
  BY DEF Claim, Snapshot

\* A record with its own id and a wire session_id is an OCPI record, or a mixed one.
LEMMA ChargingSessionIs ==
  \A c : ChargingSession(c) = IF Present(c["id"]) /\ Present(c["session_id"]) THEN c["session_id"] ELSE None
<1> SUFFICES ASSUME NEW c, Present(c["id"]) PROVE ResolvedProtocol(c) \in {"OCPI", "MIXED"}
  BY DEF ChargingSession
<1>1. \E f \in OcpiStructure : Present(c[f])
  BY DEF OcpiStructure
<1>2. Protocol(c) \in {"OCPI", "MIXED"}
  BY <1>1 DEF Protocol
<1> QED
  BY <1>2 DEF ResolvedProtocol

\* A stored snapshot is a valid one.
LEMMA SnapshotIsValid == \A c : Verdict(c) = "ok" => SnapshotValid(Claim(c))
  BY ClaimIs DEF SnapshotValid

LEMMA SameIntentIs ==
  \A c, d : SameIntent(Claim(c), Normalised(d)) => Facts(c) = Facts(d)
  BY ClaimIs, PrintsAre, FactsAre DEF SameIntent

LEMMA JoinedSets ==
  ASSUME NEW S, NEW T, NEW s \in Seq(S), NEW t \in Seq(T) PROVE ToSet(s) \cup ToSet(t) \subseteq ToSet(s \o t)
<1>1. ASSUME NEW i \in 1 .. Len(s) PROVE \E k \in DOMAIN (s \o t) : (s \o t)[k] = s[i]
  <2>1. i \in DOMAIN (s \o t) /\ (s \o t)[i] = s[i]
    OBVIOUS
  <2> QED
    BY <2>1
<1>2. ASSUME NEW i \in 1 .. Len(t) PROVE \E k \in DOMAIN (s \o t) : (s \o t)[k] = t[i]
  <2>1. Len(s) + i \in DOMAIN (s \o t) /\ (s \o t)[Len(s) + i] = t[i]
    OBVIOUS
  <2> QED
    BY <2>1
<1>3. DOMAIN s = 1 .. Len(s) /\ DOMAIN t = 1 .. Len(t)
  OBVIOUS
<1> QED
  BY <1>1, <1>2, <1>3 DEF ToSet

LEMMA AgreeingIntent ==
  ASSUME NEW c, NEW d, Facts(c) = Facts(d), \A f \in ToSet(SessionFields \o ZoneFields) : c[f] = d[f]
  PROVE  SameIntent(Claim(c), Normalised(d))
<1>1. \A f \in {"SessionID", "sessionId", "id", "session_id", "timeZone", "custom_data.time_zone", "cdr_location.time_zone"} :
        c[f] = d[f]
  <2> DEFINE names ==
        {"SessionID", "sessionId", "id", "session_id", "timeZone", "custom_data.time_zone", "cdr_location.time_zone"}
  <2>1. SessionFields \in Seq(names) /\ ZoneFields \in Seq(names)
    BY DEF SessionFields, ZoneFields
  <2>2. ASSUME NEW f \in names PROVE f \in ToSet(SessionFields) \cup ToSet(ZoneFields)
    <3>1. /\ DOMAIN SessionFields = 1 .. 4 /\ SessionFields[1] = "SessionID" /\ SessionFields[2] = "sessionId"
          /\ SessionFields[3] = "id" /\ SessionFields[4] = "session_id"
          /\ DOMAIN ZoneFields = 1 .. 3 /\ ZoneFields[1] = "timeZone" /\ ZoneFields[2] = "custom_data.time_zone"
          /\ ZoneFields[3] = "cdr_location.time_zone"
      BY DEF SessionFields, ZoneFields
    <3> QED
      BY <3>1 DEF ToSet
  <2> HIDE DEF names
  <2>3. \A f \in names : f \in ToSet(SessionFields \o ZoneFields)
    BY <2>1, <2>2, JoinedSets
  <2>4. \A f \in names : c[f] = d[f]
    BY <2>3
  <2> QED
    BY <2>4 DEF names
<1>2. FirstOf(c, SessionFields) = FirstOf(d, SessionFields)
  <2>1. \A i \in 1 .. Len(SessionFields) : c[SessionFields[i]] = d[SessionFields[i]]
    BY <1>1 DEF SessionFields
  <2> QED
    BY <2>1, FirstOfSame
<1>3. FirstOf(c, ZoneFields) = FirstOf(d, ZoneFields)
  <2>1. \A i \in 1 .. Len(ZoneFields) : c[ZoneFields[i]] = d[ZoneFields[i]]
    BY <1>1 DEF ZoneFields
  <2> QED
    BY <2>1, FirstOfSame
<1>4. Zone(c) = Zone(d)
  <2>1. FirstOf(c, ZoneFields) # None => c[FirstOf(c, ZoneFields)] = d[FirstOf(c, ZoneFields)]
    <3>1. Len(ZoneFields) \in Nat /\ \A i \in 1 .. Len(ZoneFields) : c[ZoneFields[i]] = d[ZoneFields[i]]
      BY <1>1 DEF ZoneFields
    <3> QED
      BY <3>1, FirstOfFound
  <2> QED
    BY <1>3, <2>1 DEF Zone
<1>5. ChargingSession(c) = ChargingSession(d) /\ (ById(c) <=> ById(d)) /\ c["id"] = d["id"] /\ c["session_id"] = d["session_id"]
  BY <1>1, <1>2, ChargingSessionIs DEF ById
<1>6. Fingerprint(Normalised(c)) = Fingerprint(Normalised(d))
  BY <1>3, <1>4, <1>5, FactsAre, NormalisedIs, PrintsAre
<1>7. Normalised(c).owner = Normalised(d).owner
  BY FactsAre
<1>8. Normalised(d).charging = ChargingSession(d)
  BY NormalisedIs
<1>9. Claim(c).owner = Normalised(c).owner /\ Claim(c).charging = ChargingSession(c) /\ Claim(c).print = Fingerprint(Normalised(c))
  BY ClaimIs
<1> QED
  BY <1>5, <1>6, <1>7, <1>8, <1>9 DEF SameIntent
-----------------------------------------------------------------------------
(* The charging records: dates.                                            *)

\* The days of a year before each month, when March begins on day march.
MonthStarts(march) ==
  <<0, 31, march, march + 31, march + 61, march + 92, march + 122, march + 153,
    march + 184, march + 214, march + 245, march + 275>>
MonthDays(feb) == <<31, feb, 31, 30, 31, 30, 31, 31, 30, 31, 30, 31>>

LEMMA MonthEnds ==
  \A feb \in {28, 29} : \A m, n \in 1 .. 12 : \A d \in 1 .. MonthDays(feb)[m] :
    n > m => MonthStarts(31 + feb)[m] + d - 1 < MonthStarts(31 + feb)[n]
<1> SUFFICES ASSUME NEW feb \in {28, 29}, NEW m \in 1 .. 12, NEW n \in 1 .. 12, NEW d \in 1 .. MonthDays(feb)[m], n > m
             PROVE  MonthStarts(31 + feb)[m] + d - 1 < MonthStarts(31 + feb)[n]
  OBVIOUS
<1>1. /\ MonthDays(feb)[m] \in Nat /\ MonthStarts(31 + feb)[m] \in Nat
      /\ MonthStarts(31 + feb)[m] + MonthDays(feb)[m] <= MonthStarts(31 + feb)[n]
  BY DEF MonthDays, MonthStarts
<1>2. MonthStarts(31 + feb)[n] \in Nat
  BY DEF MonthStarts
<1> QED
  BY <1>1, <1>2

LEMMA RealDates ==
  ASSUME NEW t, ValidDate(t), t.year \in Nat, NEW m \in 1 .. 12, m > t.month
  PROVE  DayNumber(t.year, t.month, t.day) < DayNumber(t.year, m, 1)
<1> DEFINE before(x) == (x - 1) \div 4 - (x - 1) \div 100 + (x - 1) \div 400
           feb == IF LeapYear(t.year) THEN 29 ELSE 28
<1>1. \A i \in 1 .. 12 : \A d : DayNumber(t.year, i, d) = 365 * (t.year - 1970) + before(t.year) - before(1970) + MonthStarts(31 + feb)[i] + d - 1
  BY DEF DayNumber, MonthStarts, LeapYear
<1>2. before(t.year) \in Int /\ before(1970) \in Int
  OBVIOUS
<1>3. feb \in {28, 29} /\ t.month \in 1 .. 12 /\ t.day \in 1 .. MonthDays(feb)[t.month]
  BY DEF ValidDate, DaysInMonth, MonthDays
<1>4. MonthStarts(31 + feb)[t.month] \in Nat /\ MonthStarts(31 + feb)[m] \in Nat /\ MonthDays(feb)[t.month] \in Nat
  BY <1>3 DEF MonthStarts, MonthDays
<1>5. MonthStarts(31 + feb)[t.month] + t.day - 1 < MonthStarts(31 + feb)[m]
  BY <1>3, MonthEnds
<1> HIDE DEF before, feb
<1>6. t.day \in Nat /\ t.year \in Nat
  BY <1>3, <1>4
<1>7. 365 * (t.year - 1970) \in Int
  BY <1>6
<1> QED
  BY <1>1, <1>2, <1>3, <1>4, <1>5, <1>6, <1>7
-----------------------------------------------------------------------------
(* The charging records: the claims.                                       *)

\* What is claimed was accepted, and no two claims are of one session.
KInv ==
  /\ claims \subseteq Records /\ \A c \in claims : Verdict(c) = "ok"
  /\ \A c, d \in claims : c # d =>
       OperationKey(Normalised(c)) # OperationKey(Normalised(d)) /\ ~Collision(Claim(c), Normalised(d))
  /\ RedeliveryReplays

LEMMA VerdictIs ==
  ASSUME NEW c, Verdict(c) = "ok" PROVE WellFormed(c) /\ IdentityError(c) = "ok" /\ Consistent(c)
  BY DEF Verdict, IdentityError

LEMMA VerdictNames == \A c : Verdict(c) \notin {"replayed", "review"}
  BY DEF Verdict, IdentityError

LEMMA OwnersStated == ASSUME KInv PROVE OwnerIsStated
<1> SUFFICES ASSUME NEW c \in claims
             PROVE  {c[f] : f \in {g \in ToSet(OwnerFields) : Present(c[g])}} \ {"null"} = {Normalised(c).owner}
  BY DEF OwnerIsStated
<1>1. IdentityError(c) = "ok"
  BY VerdictIs DEF KInv
<1>2. Owners(c) # {} /\ \A f, g \in Owners(c) : c[f] = c[g]
  BY <1>1 DEF IdentityError
<1>3. OwnerSource(c) \in Owners(c) /\ Normalised(c).owner = c[OwnerSource(c)]
  BY <1>2, OwnerIsCandidate, NormalisedIs
<1>4. {c[f] : f \in {g \in ToSet(OwnerFields) : Present(c[g])}} \ {"null"} = {c[f] : f \in Owners(c)}
  BY DEF Owners
<1>5. {c[f] : f \in Owners(c)} = {c[OwnerSource(c)]}
  BY <1>2, <1>3
<1> QED
  BY <1>3, <1>4, <1>5

LEMMA CorrectionsRefused == ASSUME KInv PROVE CorrectionsAreRefused
<1>1. \A c \in claims : SupportedKind(c)
  BY VerdictIs DEF KInv, WellFormed
<1> QED
  BY <1>1, CorrectionsFound DEF CorrectionsAreRefused

LEMMA SixAre ==
  \A S : \A a, b, c, d, e, f \in S : <<a, b, c, d, e, f>> \in Seq(S)
OBVIOUS
LEMMA SevenAre ==
  \A S : \A a, b, c, d, e, f, g \in S : <<a, b, c, d, e, f, g>> \in Seq(S)
OBVIOUS

LEMMA TimesReal == ASSUME KInv PROVE TimesAreReal
<1> SUFFICES ASSUME NEW c \in claims
             PROVE  /\ \A t \in {Start(c), End(c)} : \A m \in 1 .. 12 : m > t.month =>
                         DayNumber(t.year, t.month, t.day) < DayNumber(t.year, m, 1)
                    /\ Normalised(c).start <= Normalised(c).end
  BY DEF TimesAreReal
<1>1. WellFormed(c) /\ Consistent(c) /\ c \in Records
  BY VerdictIs DEF KInv
<1>2. Normalised(c).start <= Normalised(c).end
  BY <1>1, NormalisedIs DEF Consistent
<1>3. ASSUME NEW f \in ToSet(StartFields) \cup ToSet(EndFields), Present(c[f]), ValidDate(c[f]) PROVE c[f].year \in Nat
  <2> DEFINE starts ==
        {"Session Start", "SessionStart", "Charging Start", "ChargingStart", "StartTime", "timestamp", "start_date_time"}
             ends == {"Session End", "SessionEnd", "Charging End", "ChargingEnd", "EndTime", "end_date_time"}
  <2>1. StartFields \in Seq(starts) /\ EndFields \in Seq(ends)
    <3>1. StartFields \in Seq(starts)
      <4>1. /\ "Session Start" \in starts /\ "SessionStart" \in starts /\ "Charging Start" \in starts
            /\ "ChargingStart" \in starts /\ "StartTime" \in starts /\ "timestamp" \in starts /\ "start_date_time" \in starts
        OBVIOUS
      <4> HIDE DEF starts
      <4>2. <<"Session Start", "SessionStart", "Charging Start", "ChargingStart", "StartTime", "timestamp", "start_date_time">> \in Seq(starts)
        BY <4>1, SevenAre
      <4> QED
        BY <4>2 DEF StartFields
    <3>2. EndFields \in Seq(ends)
      <4>1. /\ "Session End" \in ends /\ "SessionEnd" \in ends /\ "Charging End" \in ends
            /\ "ChargingEnd" \in ends /\ "EndTime" \in ends /\ "end_date_time" \in ends
        OBVIOUS
      <4> HIDE DEF ends
      <4>2. <<"Session End", "SessionEnd", "Charging End", "ChargingEnd", "EndTime", "end_date_time">> \in Seq(ends)
        BY <4>1, SixAre
      <4> QED
        BY <4>2 DEF EndFields
    <3> QED
      BY <3>1, <3>2
  <2> HIDE DEF starts, ends
  <2>2. f \in ToSet(StartFields \o EndFields)
    BY <2>1, JoinedSets
  <2> QED
    BY <1>1, <1>3, <2>2, RecordsAssumption DEF ValidDate
<1>4. /\ FirstOf(c, StartFields) # None /\ ValidDate(Start(c)) /\ FirstOf(c, EndFields) # None /\ ValidDate(End(c))
  BY <1>1 DEF WellFormed
<1>5. /\ FirstOf(c, StartFields) \in ToSet(StartFields) /\ Present(Start(c))
      /\ FirstOf(c, EndFields) \in ToSet(EndFields) /\ Present(End(c))
  <2>1. DOMAIN StartFields = 1 .. Len(StartFields)
    BY DEF StartFields
  <2>2. DOMAIN EndFields = 1 .. Len(EndFields)
    BY DEF EndFields
  <2>3. PICK i \in 1 .. Len(StartFields) : FirstOf(c, StartFields) = StartFields[i] /\ Present(c[StartFields[i]])
    <3>1. Len(StartFields) \in Nat
      BY FieldsAre
    <3> QED
      BY <1>4, <3>1, FirstOfFound
  <2>4. PICK j \in 1 .. Len(EndFields) : FirstOf(c, EndFields) = EndFields[j] /\ Present(c[EndFields[j]])
    <3>1. Len(EndFields) \in Nat
      BY FieldsAre
    <3> QED
      BY <1>4, <3>1, FirstOfFound
  <2> QED
    BY <2>1, <2>2, <2>3, <2>4 DEF ToSet, Start, End
<1>6. Start(c).year \in Nat /\ End(c).year \in Nat
  BY <1>3, <1>4, <1>5 DEF Start, End
<1> QED
  BY <1>2, <1>4, <1>6, RealDates

LEMMA AwardedOnce == ASSUME KInv PROVE AwardedOncePerSession
<1> SUFFICES ASSUME NEW c \in claims, NEW d \in claims, c # d PROVE ~SameSession(c, d)
  BY DEF AwardedOncePerSession
<1>1. OperationKey(Normalised(c)) # OperationKey(Normalised(d)) /\ ~Collision(Claim(c), Normalised(d))
  BY DEF KInv
<1>2. ~(Normalised(c).provider = Normalised(d).provider /\ Normalised(c).session = Normalised(d).session)
  BY <1>1 DEF OperationKey
<1>3. DedupKey(Normalised(c)) # DedupKey(Normalised(d))
  BY <1>1, ClaimIs DEF Collision
<1>4. ASSUME Present(c["id"]), Present(d["id"]), Present(c["session_id"]), c["session_id"] = d["session_id"]
      PROVE  Normalised(c).provider # Normalised(d).provider
  <2>1. ChargingSession(c) = c["session_id"] /\ ChargingSession(d) = c["session_id"] /\ c["session_id"] # None
    BY <1>4, ChargingSessionIs DEF Present
  <2>2. Claim(c).charging = c["session_id"] /\ Normalised(d).charging = c["session_id"]
    BY <2>1, ClaimIs, NormalisedIs
  <2>3. Claim(c).key[1] = Normalised(c).provider
    BY ClaimIs DEF OperationKey
  <2> QED
    BY <1>1, <2>1, <2>2, <2>3 DEF Collision
<1> QED
  BY <1>2, <1>3, <1>4 DEF SameSession

LEMMA SnapshotsHold == ASSUME KInv PROVE SnapshotsRecover
  BY SnapshotIsValid DEF KInv, SnapshotsRecover

\* What a redelivery is answered with.
LEMMA ReplaySound ==
  ASSUME KInv, NEW c, NEW d \in claims, Claim(d).key = OperationKey(Normalised(c)),
         NEW x \in claims, OperationKey(Normalised(x)) = OperationKey(Normalised(c)),
         NEW outcome, outcome = IF SnapshotValid(Claim(d)) /\ SameIntent(Claim(d), Normalised(c)) THEN "replayed" ELSE "review"
  PROVE  IF Facts(x) # Facts(c) THEN outcome = "review"
         ELSE (\A f \in ToSet(SessionFields \o ZoneFields) : x[f] = c[f]) => outcome = "replayed"
<1>1. x = d
  BY ClaimIs DEF KInv
<1>2. SnapshotValid(Claim(d))
  BY SnapshotIsValid DEF KInv
<1>3. Facts(x) # Facts(c) => outcome = "review"
  BY <1>1, SameIntentIs
<1>4. Facts(x) = Facts(c) /\ (\A f \in ToSet(SessionFields \o ZoneFields) : x[f] = c[f]) => outcome = "replayed"
  <2> SUFFICES ASSUME Facts(x) = Facts(c), \A f \in ToSet(SessionFields \o ZoneFields) : x[f] = c[f]
               PROVE  outcome = "replayed"
    OBVIOUS
  <2>1. SameIntent(Claim(x), Normalised(c))
    BY AgreeingIntent
  <2> QED
    BY <1>1, <1>2, <2>1
<1> QED
  BY <1>3, <1>4

LEMMA IntakeInitSound == IntakeInit => KInv
  BY DEF IntakeInit, KInv, RedeliveryReplays

LEMMA IntakeStepSound == ASSUME KInv, IntakeNext \/ UNCHANGED intakeVars PROVE KInv'
<1>1. CASE UNCHANGED intakeVars
  BY <1>1 DEF intakeVars, KInv, RedeliveryReplays
<1>2. ASSUME NEW c \in Records, Rejected(c) PROVE KInv'
  <2>1. claims' = claims /\ answer' = [cdr |-> None, outcome |-> Verdict(c)]
    BY <1>2 DEF Rejected
  <2>2. answer'.outcome \notin {"replayed", "review"}
    BY <2>1, VerdictNames
  <2> QED
    BY <2>1, <2>2 DEF KInv, RedeliveryReplays
<1>3. ASSUME NEW c \in Records, Redelivered(c) PROVE KInv'
  <2>1. PICK d \in claims : /\ Claim(d).key = OperationKey(Normalised(c))
                            /\ answer' = [cdr |-> c, outcome |->
                                 IF SnapshotValid(Claim(d)) /\ SameIntent(Claim(d), Normalised(c)) THEN "replayed" ELSE "review"]
    BY <1>3 DEF Redelivered
  <2>2. claims' = claims
    BY <1>3 DEF Redelivered
  <2>3. PICK outcome : outcome = IF SnapshotValid(Claim(d)) /\ SameIntent(Claim(d), Normalised(c)) THEN "replayed" ELSE "review"
    OBVIOUS
  <2>4. \A x \in claims : OperationKey(Normalised(x)) = OperationKey(Normalised(c)) =>
          IF Facts(x) # Facts(c) THEN outcome = "review"
          ELSE (\A f \in ToSet(SessionFields \o ZoneFields) : x[f] = c[f]) => outcome = "replayed"
    BY <2>1, <2>3, ReplaySound
  <2>5. answer'.cdr = c /\ answer'.outcome = outcome
    BY <2>1, <2>3
  <2>6. RedeliveryReplays'
    BY <2>2, <2>4, <2>5 DEF RedeliveryReplays
  <2> QED
    BY <2>2, <2>6 DEF KInv
<1>4. ASSUME NEW c \in Records, Claimed(c) PROVE KInv'
  <2>1. Verdict(c) = "ok" /\ \A d \in claims : Claim(d).key # OperationKey(Normalised(c))
    BY <1>4 DEF Claimed, Accepted
  <2>2. CASE \E d \in claims : Collision(Claim(d), Normalised(c))
    <3>1. claims' = claims /\ answer' = [cdr |-> c, outcome |-> "review"]
      BY <1>4, <2>2 DEF Claimed
    <3>2. \A x \in claims : OperationKey(Normalised(x)) # OperationKey(Normalised(c))
      BY <2>1, ClaimIs
    <3>3. answer'.cdr = c
      BY <3>1
    <3>4. RedeliveryReplays'
      BY <3>1, <3>2, <3>3 DEF RedeliveryReplays
    <3> QED
      BY <3>1, <3>4 DEF KInv
  <2>3. CASE \A d \in claims : ~Collision(Claim(d), Normalised(c))
    <3>1. claims' = claims \cup {c} /\ answer' = [cdr |-> c, outcome |-> "claimed"]
      BY <1>4, <2>3 DEF Claimed
    <3>2. RedeliveryReplays'
      BY <3>1 DEF RedeliveryReplays
    <3>3. claims' \subseteq Records /\ \A d \in claims' : Verdict(d) = "ok"
      BY <2>1, <3>1 DEF KInv
    <3>4. ASSUME NEW d \in claims
          PROVE  /\ OperationKey(Normalised(c)) # OperationKey(Normalised(d)) /\ ~Collision(Claim(c), Normalised(d))
                 /\ OperationKey(Normalised(d)) # OperationKey(Normalised(c)) /\ ~Collision(Claim(d), Normalised(c))
      <4>1. OperationKey(Normalised(d)) # OperationKey(Normalised(c)) /\ ~Collision(Claim(d), Normalised(c))
        BY <2>1, <2>3, ClaimIs
      <4>2. /\ Claim(c).key[1] = Normalised(c).provider /\ Claim(d).key[1] = Normalised(d).provider
            /\ Claim(c).charging = Normalised(c).charging /\ Claim(d).charging = Normalised(d).charging
            /\ Claim(c).dedup = DedupKey(Normalised(c)) /\ Claim(d).dedup = DedupKey(Normalised(d))
        <5>1. /\ Claim(c).key = OperationKey(Normalised(c)) /\ Claim(d).key = OperationKey(Normalised(d))
              /\ Claim(c).charging = ChargingSession(c) /\ Claim(d).charging = ChargingSession(d)
              /\ Claim(c).dedup = DedupKey(Normalised(c)) /\ Claim(d).dedup = DedupKey(Normalised(d))
          BY ClaimIs
        <5>2. Normalised(c).charging = ChargingSession(c) /\ Normalised(d).charging = ChargingSession(d)
          BY NormalisedIs
        <5>3. OperationKey(Normalised(c))[1] = Normalised(c).provider /\ OperationKey(Normalised(d))[1] = Normalised(d).provider
          BY DEF OperationKey
        <5> QED
          BY <5>1, <5>2, <5>3
      <4> QED
        BY <4>1, <4>2 DEF Collision
    <3>5. \A x, y \in claims' : x # y =>
            OperationKey(Normalised(x)) # OperationKey(Normalised(y)) /\ ~Collision(Claim(x), Normalised(y))
      BY <3>1, <3>4 DEF KInv
    <3> QED
      BY <3>2, <3>3, <3>5 DEF KInv
  <2> QED
    BY <2>2, <2>3
<1> QED
  BY <1>1, <1>2, <1>3, <1>4 DEF IntakeNext

\* Of the CDR intake (validateAndNormaliseCdr, the award claim and the recovery
\* snapshot): an award is made to the one owner whom every field names, for a
\* final record of a session whose dates exist, once per session whatever
\* spelling or protocol it is delivered in; a redelivery is answered by what it
\* states, and a restart can rebuild every claim. For any set of records.
THEOREM ClaimsAreFaithful == IntakeSpec => []IntakeIsFaithful
<1>1. KInv /\ [IntakeNext]_intakeVars => KInv'
  BY IntakeStepSound
<1>2. KInv => IntakeIsFaithful
  BY OwnersStated, CorrectionsRefused, TimesReal, AwardedOnce, SnapshotsHold DEF IntakeIsFaithful, KInv
<1> QED
  BY <1>1, <1>2, IntakeInitSound, PTL DEF IntakeSpec
-----------------------------------------------------------------------------
(* The schema.                                                             *)

TableNames ==
  {"users", "awards", "balances", "spends", "links", "receipts", "audit", "reports",
   "reservations", "operations", "preparations", "policy", "leases", "alerts", "annotations"}
PartNames ==
  {"table", "uid", "dedup", "offPeak", "type", "name", "uidWallet", "wallet", "exactHash",
   "status", "confirmed", "session", "authorization", "hash", "context", "hashCheck", "key",
   "funding", "row", "rows", "sessionGuard", "oneActive", "nonce", "settlement", "subject",
   "checks", "request", "validHash", "active"}
Doings == {"make", "need", "index", "drop", "refuse", "seed", "guard", "whole"}

\* Parts that a migration takes away again: the guards it replaces.
Replaced == {"exactHash", "uid"}

\* What is true of every statement of every migration.
Sane(st) ==
  /\ st.do = "drop" => st.obj[2] = "exactHash"
  /\ st.do \in {"need", "index"} => st.obj[2] \notin Replaced
  /\ st.do \in {"make", "need"} => st.obj[2] # "hash"
  /\ st.do = "guard" => st.obj = Obj("operations", "sessionGuard")
  /\ st.do = "whole" => st.obj \in {Obj("users", "uidWallet"), Obj("users", "oneActive")}
  /\ st.do = "seed" => st.obj[1] \in {"policy", "alerts"}

Statement == {st \in [do : Doings, obj : TableNames \X PartNames] : Sane(st)}
EarlyStatement == {st \in Statement : st.obj[2] # "hash"}
Migrations(S) ==
  [unless : SUBSET (TableNames \X (PartNames \ Replaced)), steps : Seq(S) \ {<< >>}]

LEMMA SaneStatements ==
  /\ \A t \in TableNames, p \in PartNames :
       /\ p # "hash" => Make(t, p) \in EarlyStatement
       /\ p \notin Replaced \cup {"hash"} => Need(t, p) \in EarlyStatement
       /\ p \notin Replaced => Index(t, p) \in Statement
       /\ p \notin Replaced \cup {"hash"} => Index(t, p) \in EarlyStatement
  /\ \A t \in TableNames :
       Refuse(t) \in EarlyStatement /\ Drop(t, "exactHash") \in EarlyStatement
  /\ \A x \in {"policy", "alerts"} : Seed(x) \in EarlyStatement
  /\ Guard("operations", "sessionGuard") \in EarlyStatement
  /\ Whole("users", "uidWallet") \in EarlyStatement
  /\ Whole("users", "oneActive") \in EarlyStatement
<1> USE DEF EarlyStatement, Statement, Sane, Replaced, Obj
<1>1. ASSUME NEW t \in TableNames, NEW p \in PartNames
      PROVE  /\ p # "hash" => Make(t, p) \in EarlyStatement
             /\ p \notin Replaced \cup {"hash"} => Need(t, p) \in EarlyStatement
  BY DEF Make, Need, Doings
<1>2. ASSUME NEW t \in TableNames, NEW p \in PartNames
      PROVE  /\ p \notin Replaced => Index(t, p) \in Statement
             /\ p \notin Replaced \cup {"hash"} => Index(t, p) \in EarlyStatement
  BY DEF Index, Doings
<1>3. ASSUME NEW t \in TableNames
      PROVE  Refuse(t) \in EarlyStatement /\ Drop(t, "exactHash") \in EarlyStatement
  BY DEF Refuse, Drop, Doings, PartNames
<1>4. ASSUME NEW x \in {"policy", "alerts"} PROVE Seed(x) \in EarlyStatement
  BY DEF Seed, Doings, PartNames, TableNames
<1>5. Guard("operations", "sessionGuard") \in EarlyStatement
  BY DEF Guard, Doings, PartNames, TableNames
<1>6. Whole("users", "uidWallet") \in EarlyStatement /\ Whole("users", "oneActive") \in EarlyStatement
  BY DEF Whole, Doings, PartNames, TableNames
<1> QED BY <1>1, <1>2, <1>3, <1>4, <1>5, <1>6

\* Concatenation in the form the proofs below need.
LEMMA Joined ==
  ASSUME NEW S, NEW s \in Seq(S), NEW t \in Seq(S)
  PROVE  /\ s \o t \in Seq(S)
         /\ Len(s) \in Nat /\ Len(t) \in Nat
         /\ Len(s \o t) = Len(s) + Len(t)
         /\ (Len(s) > 0 \/ Len(t) > 0) => s \o t # << >>
<1>1. s \o t \in Seq(S) /\ Len(s \o t) = Len(s) + Len(t)
  BY ConcatProperties
<1>2. Len(s) \in Nat /\ Len(t) \in Nat
  BY LenProperties
<1>3. Len(<< >>) = 0
  OBVIOUS
<1>4. (Len(s) > 0 \/ Len(t) > 0) => s \o t # << >>
  BY <1>1, <1>2, <1>3
<1> QED BY <1>1, <1>2, <1>4

LEMMA EarlierIsSane ==
  /\ Earlier \in Seq(Migrations(EarlyStatement))
  /\ Len(Earlier) = 14
  /\ Earlier[7] = M007 /\ Earlier[8] = M008
<1> DEFINE E == Migrations(EarlyStatement)
<1>1. M001 \in E /\ M002 \in E /\ M003 \in E /\ M004 \in E
  BY SaneStatements DEF M001, M002, M003, M004, Migration, Migrations, Table, Obj, TableNames, PartNames, Replaced
<1>2. M006 \in E /\ M006Name \in E /\ M007 \in E /\ M008 \in E
  BY SaneStatements DEF M006, M006Name, M007, M008, Migration, Migrations, Table, Obj, TableNames, PartNames, Replaced
<1>3. M009 \in E /\ M010 \in E /\ M011 \in E
  BY SaneStatements DEF M009, M010, M011, Migration, Migrations, Table, Obj, TableNames, PartNames, Replaced
<1>4. M012 \in E /\ M013 \in E /\ M014 \in E
  BY SaneStatements DEF M012, M013, M014, Migration, Migrations, Table, Obj, TableNames, PartNames, Replaced
<1> HIDE DEF E
<1>5. Earlier \in Seq(E) /\ Len(Earlier) = 14 /\ Earlier[7] = M007 /\ Earlier[8] = M008
  BY <1>1, <1>2, <1>3, <1>4 DEF Earlier
<1> QED BY <1>5 DEF E

LEMMA OperationTablesSane ==
  /\ OperationTables \in Seq(Statement) /\ LeaseTables \in Seq(Statement)
  /\ HashGuards \in Seq(Statement) /\ SessionGuard \in Seq(Statement)
  /\ Len(OperationTables) = 9 /\ Len(SessionGuard) = 2
<1> DEFINE S == Statement
<1>1. EarlyStatement \subseteq S
  BY DEF EarlyStatement
<1>2. /\ Need("operations", "table") \in S /\ Need("operations", "context") \in S
      /\ Need("operations", "hashCheck") \in S /\ Index("operations", "hash") \in S
      /\ Index("operations", "key") \in S /\ Need("preparations", "table") \in S
      /\ Need("preparations", "funding") \in S /\ Need("preparations", "hashCheck") \in S
      /\ Index("preparations", "key") \in S
  BY <1>1, SaneStatements DEF TableNames, PartNames, Replaced
<1>3. /\ Need("leases", "table") \in S /\ Need("leases", "context") \in S
      /\ Index("leases", "nonce") \in S /\ Need("reservations", "settlement") \in S
      /\ Need("operations", "session") \in S /\ Guard("operations", "sessionGuard") \in S
  BY <1>1, SaneStatements DEF TableNames, PartNames, Replaced
<1>4. /\ Drop("awards", "exactHash") \in S /\ Drop("spends", "exactHash") \in S
      /\ Drop("receipts", "exactHash") \in S /\ Index("awards", "hash") \in S
      /\ Index("spends", "hash") \in S /\ Index("receipts", "hash") \in S
  BY <1>1, SaneStatements DEF TableNames, PartNames, Replaced
<1> HIDE DEF S
<1>5. OperationTables \in Seq(S) /\ Len(OperationTables) = 9
  BY <1>2 DEF OperationTables
<1>6. LeaseTables \in Seq(S)
  BY <1>3 DEF LeaseTables
<1>7. HashGuards \in Seq(S)
  BY <1>4 DEF HashGuards
<1>8. SessionGuard \in Seq(S) /\ Len(SessionGuard) = 2
  BY <1>3 DEF SessionGuard
<1> QED BY <1>5, <1>6, <1>7, <1>8 DEF S

\* The statements of a sequence.
Steps(s) == {s[j] : j \in DOMAIN s}

LEMMA StepsOfBoth ==
  ASSUME NEW S, NEW s \in Seq(S), NEW t \in Seq(S)
  PROVE  Steps(s \o t) = Steps(s) \cup Steps(t)
<1>1. /\ s \o t \in Seq(S) /\ Len(s \o t) = Len(s) + Len(t)
      /\ \A i \in 1 .. Len(s) + Len(t) : (s \o t)[i] = IF i <= Len(s) THEN s[i] ELSE t[i - Len(s)]
  BY ConcatProperties
<1>2. /\ DOMAIN (s \o t) = 1 .. Len(s) + Len(t) /\ DOMAIN s = 1 .. Len(s) /\ DOMAIN t = 1 .. Len(t)
      /\ Len(s) \in Nat /\ Len(t) \in Nat
  BY <1>1, LenProperties
<1>3. ASSUME NEW x \in Steps(s \o t) PROVE x \in Steps(s) \cup Steps(t)
  <2>1. PICK i \in 1 .. Len(s) + Len(t) : x = (s \o t)[i]
    BY <1>2, <1>3 DEF Steps
  <2>2. CASE i <= Len(s)
    <3>1. i \in DOMAIN s /\ x = s[i]
      BY <1>1, <1>2, <2>1, <2>2
    <3> QED BY <3>1 DEF Steps
  <2>3. CASE ~(i <= Len(s))
    <3>1. i - Len(s) \in DOMAIN t /\ x = t[i - Len(s)]
      BY <1>1, <1>2, <2>1, <2>3
    <3> QED BY <3>1 DEF Steps
  <2> QED BY <2>2, <2>3
<1>4. ASSUME NEW x \in Steps(s) PROVE x \in Steps(s \o t)
  <2>1. PICK i \in 1 .. Len(s) : x = s[i]
    BY <1>2, <1>4 DEF Steps
  <2>2. i \in DOMAIN (s \o t) /\ x = (s \o t)[i]
    BY <1>1, <1>2, <2>1
  <2> QED BY <2>2 DEF Steps
<1>5. ASSUME NEW x \in Steps(t) PROVE x \in Steps(s \o t)
  <2>1. PICK i \in 1 .. Len(t) : x = t[i]
    BY <1>2, <1>5 DEF Steps
  <2>2. i + Len(s) \in DOMAIN (s \o t) /\ x = (s \o t)[i + Len(s)]
    BY <1>1, <1>2, <2>1
  <2> QED BY <2>2 DEF Steps
<1> QED BY <1>3, <1>4, <1>5

\* Every migration consists of sane statements and asks for lasting objects.
LEMMA ChainIsSane ==
  /\ Chain \in Seq(Migrations(Statement))
  /\ Len(Chain) = 21
  /\ \A i \in 1 .. 14 : Chain[i] = Earlier[i]
  /\ Chain[7] = M007 /\ Chain[8] = M008
  /\ Chain[15] = M015 /\ Chain[16] = M016 /\ Chain[17] = M017 /\ Chain[18] = M022
  /\ Chain[19] = M023 /\ Chain[20] = M024 /\ Chain[21] = M025
<1> DEFINE E == Migrations(Statement)
           L == << M015, M016, M017, M022, M023, M024, M025 >>
<1>1. EarlyStatement \subseteq Statement
  BY DEF EarlyStatement
<1>2. Migrations(EarlyStatement) \subseteq E
  <2>1. Seq(EarlyStatement) \subseteq Seq(Statement)
    BY <1>1, SeqMonotonic
  <2> QED BY <2>1 DEF Migrations
<1>3. Earlier \in Seq(E)
  BY <1>2, EarlierIsSane, SeqMonotonic
<1>4. M015 \in E
  <2>1. << Refuse("awards"), Refuse("spends"), Refuse("receipts"), Refuse("operations") >> \in Seq(Statement)
    <3>1. Refuse("awards") \in Statement /\ Refuse("spends") \in Statement
          /\ Refuse("receipts") \in Statement /\ Refuse("operations") \in Statement
      BY <1>1, SaneStatements DEF TableNames
    <3> QED BY <3>1
  <2>2. << Drop("operations", "exactHash") >> \in Seq(Statement)
    <3>1. Drop("operations", "exactHash") \in Statement
      BY <1>1, SaneStatements DEF TableNames
    <3> QED BY <3>1
  <2>3. M015.steps \in Seq(Statement) /\ M015.unless = {} /\ M015.steps # << >>
    <3> DEFINE R == << Refuse("awards"), Refuse("spends"), Refuse("receipts"), Refuse("operations") >>
               D == << Drop("operations", "exactHash") >>
    <3>1. R \in Seq(Statement) /\ D \in Seq(Statement)
      BY <2>1, <2>2
    <3> HIDE DEF R, D
    <3>2. R \o HashGuards \in Seq(Statement)
      BY <3>1, OperationTablesSane, ConcatProperties
    <3>3. (R \o HashGuards) \o D \in Seq(Statement)
      BY <3>1, <3>2, ConcatProperties
    <3>4. /\ ((R \o HashGuards) \o D) \o OperationTables \in Seq(Statement)
          /\ ((R \o HashGuards) \o D) \o OperationTables # << >>
      <4> DEFINE A == (R \o HashGuards) \o D
      <4>1. A \in Seq(Statement) /\ OperationTables \in Seq(Statement) /\ Len(OperationTables) > 0
        BY <3>3, OperationTablesSane
      <4> HIDE DEF A
      <4>2. A \o OperationTables \in Seq(Statement) /\ A \o OperationTables # << >>
        BY <4>1, Joined
      <4> QED BY <4>2 DEF A
    <3>6. M015.steps = ((R \o HashGuards) \o D) \o OperationTables /\ M015.unless = {}
      BY DEF M015, Migration, R, D
    <3> QED BY <3>4, <3>6
  <2>4. M015 = [unless |-> M015.unless, steps |-> M015.steps]
    BY DEF M015, Migration
  <2> QED BY <2>3, <2>4 DEF Migrations
<1>5. M016 \in E
  <2>1. Need("policy", "table") \in Statement /\ Seed("policy") \in Statement
    BY <1>1, SaneStatements DEF TableNames, PartNames, Replaced
  <2> QED BY <2>1 DEF M016, Migration, Migrations
<1>6. M017 \in E
  <2>1. SessionGuard \in Seq(Statement) /\ SessionGuard # << >>
    BY OperationTablesSane DEF SessionGuard
  <2> QED BY <2>1 DEF M017, Migration, Migrations
<1>7. M022 \in E
  <2>1. Whole("users", "oneActive") \in Statement
    BY <1>1, SaneStatements
  <2> QED BY <2>1 DEF M022, Migration, Migrations
<1>8. M023 \in E
  <2>1. OperationTables \o LeaseTables \in Seq(Statement) /\ OperationTables \o LeaseTables # << >>
    <3>1. OperationTables \in Seq(Statement) /\ LeaseTables \in Seq(Statement) /\ Len(OperationTables) > 0
      BY OperationTablesSane
    <3> QED BY <3>1, Joined
  <2> QED BY <2>1 DEF M023, Migration, Migrations
<1>9. M024 \in E
  <2>1. Need("alerts", "table") \in Statement /\ Seed("alerts") \in Statement
    BY <1>1, SaneStatements DEF TableNames, PartNames, Replaced
  <2> QED BY <2>1 DEF M024, Migration, Migrations
<1>10. M025 \in E
  <2>1. /\ Need("annotations", "table") \in Statement /\ Need("annotations", "subject") \in Statement
        /\ Need("annotations", "checks") \in Statement /\ Index("annotations", "request") \in Statement
    BY <1>1, SaneStatements DEF TableNames, PartNames, Replaced
  <2> QED BY <2>1 DEF M025, Migration, Migrations
<1> HIDE DEF E
<1>11. L \in Seq(E) /\ Len(L) = 7
       /\ L[1] = M015 /\ L[2] = M016 /\ L[3] = M017 /\ L[4] = M022 /\ L[5] = M023 /\ L[6] = M024 /\ L[7] = M025
  BY <1>4, <1>5, <1>6, <1>7, <1>8, <1>9, <1>10
<1> HIDE DEF L
<1>12. /\ Earlier \o L \in Seq(E) /\ Len(Earlier \o L) = 21
       /\ \A i \in 1 .. 21 : (Earlier \o L)[i] = IF i <= 14 THEN Earlier[i] ELSE L[i - 14]
  <2>1. Earlier \in Seq(E) /\ L \in Seq(E) /\ Len(Earlier) = 14 /\ Len(L) = 7
    BY <1>3, <1>11, EarlierIsSane
  <2>2. /\ Earlier \o L \in Seq(E) /\ Len(Earlier \o L) = Len(Earlier) + Len(L)
        /\ \A i \in 1 .. Len(Earlier) + Len(L) :
             (Earlier \o L)[i] = IF i <= Len(Earlier) THEN Earlier[i] ELSE L[i - Len(Earlier)]
    BY <2>1, ConcatProperties
  <2>3. Earlier \o L \in Seq(E) /\ Len(Earlier \o L) = 21
    BY <2>1, <2>2
  <2>4. ASSUME NEW i \in 1 .. 21
        PROVE  (Earlier \o L)[i] = IF i <= 14 THEN Earlier[i] ELSE L[i - 14]
    <3>1. i \in 1 .. Len(Earlier) + Len(L)
      BY <2>1
    <3>2. (Earlier \o L)[i] = IF i <= Len(Earlier) THEN Earlier[i] ELSE L[i - Len(Earlier)]
      BY <2>2, <3>1
    <3> QED BY <2>1, <3>2
  <2> QED BY <2>3, <2>4
<1>13. Chain = Earlier \o L
  BY DEF Chain, L
<1>14. \A i \in 1 .. 21 : Chain[i] = IF i <= 14 THEN Earlier[i] ELSE L[i - 14]
  BY <1>12, <1>13
<1>15. /\ \A i \in 1 .. 14 : Chain[i] = Earlier[i]
       /\ Chain[15] = L[1] /\ Chain[16] = L[2] /\ Chain[17] = L[3] /\ Chain[18] = L[4]
       /\ Chain[19] = L[5] /\ Chain[20] = L[6] /\ Chain[21] = L[7]
  BY <1>14
<1>16. Chain \in Seq(E) /\ Len(Chain) = 21
  BY <1>12, <1>13
<1>17. Chain[7] = M007 /\ Chain[8] = M008
  BY <1>15, EarlierIsSane
<1> QED BY <1>11, <1>15, <1>16, <1>17 DEF E

LEMMA StepsOfMigrations ==
  /\ {Refuse("operations"), Index("awards", "hash"), Index("spends", "hash"), Index("receipts", "hash")}
       \subseteq Steps(M015.steps)
  /\ Steps(OperationTables) \cup Steps(LeaseTables) = Steps(M023.steps)
<1>1. Steps(M023.steps) = Steps(OperationTables) \cup Steps(LeaseTables)
  <2>1. OperationTables \in Seq(Statement) /\ LeaseTables \in Seq(Statement)
    BY OperationTablesSane
  <2>2. M023.steps = OperationTables \o LeaseTables
    BY DEF M023, Migration
  <2> QED BY <2>1, <2>2, StepsOfBoth
<1>2. Steps(HashGuards) \subseteq Steps(M015.steps) /\ Refuse("operations") \in Steps(M015.steps)
  <2> DEFINE R == << Refuse("awards"), Refuse("spends"), Refuse("receipts"), Refuse("operations") >>
             D == << Drop("operations", "exactHash") >>
  <2>1. /\ Refuse("awards") \in Statement /\ Refuse("spends") \in Statement
        /\ Refuse("receipts") \in Statement /\ Refuse("operations") \in Statement
        /\ Drop("operations", "exactHash") \in Statement
    BY SaneStatements DEF TableNames, EarlyStatement
  <2>2. R \in Seq(Statement) /\ Refuse("operations") \in Steps(R)
    <3>1. R \in Seq(Statement) /\ 4 \in DOMAIN R /\ R[4] = Refuse("operations")
      BY <2>1
    <3> QED BY <3>1 DEF Steps
  <2>3. D \in Seq(Statement)
    BY <2>1
  <2> HIDE DEF R, D
  <2>4. M015.steps = ((R \o HashGuards) \o D) \o OperationTables
    BY DEF M015, Migration, R, D
  <2>5. R \o HashGuards \in Seq(Statement) /\ Steps(R \o HashGuards) = Steps(R) \cup Steps(HashGuards)
    BY <2>2, OperationTablesSane, ConcatProperties, StepsOfBoth
  <2> DEFINE A == R \o HashGuards
  <2> HIDE DEF A
  <2>6. A \o D \in Seq(Statement) /\ Steps(A \o D) = Steps(A) \cup Steps(D)
    <3>1. A \in Seq(Statement)
      BY <2>5 DEF A
    <3> QED BY <2>3, <3>1, ConcatProperties, StepsOfBoth
  <2> DEFINE B == A \o D
  <2> HIDE DEF B
  <2>7. Steps(B \o OperationTables) = Steps(B) \cup Steps(OperationTables)
    <3>1. B \in Seq(Statement) /\ OperationTables \in Seq(Statement)
      BY <2>6, OperationTablesSane DEF B
    <3> QED BY <3>1, StepsOfBoth
  <2>8. Steps(HashGuards) \cup Steps(R) \subseteq Steps(A) /\ Steps(A) \subseteq Steps(B)
    BY <2>5, <2>6 DEF A, B
  <2>9. M015.steps = B \o OperationTables
    BY <2>4 DEF A, B
  <2> QED BY <2>2, <2>7, <2>8, <2>9
<1>3. {Index("awards", "hash"), Index("spends", "hash"), Index("receipts", "hash")} \subseteq Steps(HashGuards)
  <2>1. /\ Len(HashGuards) = 6 /\ DOMAIN HashGuards = 1 .. 6
        /\ HashGuards[4] = Index("awards", "hash") /\ HashGuards[5] = Index("spends", "hash")
        /\ HashGuards[6] = Index("receipts", "hash")
    BY DEF HashGuards
  <2>2. /\ HashGuards[4] \in Steps(HashGuards) /\ HashGuards[5] \in Steps(HashGuards)
        /\ HashGuards[6] \in Steps(HashGuards)
    BY <2>1 DEF Steps
  <2> QED BY <2>1, <2>2
<1> QED BY <1>1, <1>2, <1>3

\* What a statement that makes an object makes with it.
LEMMA CreatedIsPlain ==
  ASSUME NEW obj \in TableNames \X PartNames
  PROVE  /\ obj \in Created(obj)
         /\ Created(obj) \subseteq TableNames \X PartNames
         /\ obj[2] # "hash" => \A t : Obj(t, "hash") \notin Created(obj)
<1>1. PICK t \in TableNames, p \in PartNames : obj = <<t, p>>
  OBVIOUS
<1>2. Columns(t) \subseteq {"name", "context", "funding", "subject"}
  BY DEF Columns
<1>3. CASE p = "table"
  <2>1. Created(obj) = {<<t, q>> : q \in {"table"} \cup Columns(t)}
    BY <1>1, <1>3 DEF Created, Parts
  <2> QED BY <1>1, <1>2, <1>3, <2>1 DEF PartNames, Obj
<1>4. CASE p # "table"
  <2>1. Created(obj) = {obj}
    BY <1>1, <1>4 DEF Created
  <2> QED BY <1>1, <2>1 DEF Obj
<1> QED BY <1>3, <1>4

\* An earlier release has no hash guard.
LEMMA ReleasedIsEarly ==
  ASSUME NEW n \in 0 .. 14, NEW t
  PROVE  Obj(t, "hash") \notin Released(n)
<1> SUFFICES ASSUME Obj(t, "hash") \in Released(n) PROVE FALSE
  OBVIOUS
<1>1. PICK i \in 1 .. n : Obj(t, "hash") \in BuiltBy(Chain[i].steps)
  BY DEF Released
<1>2. Chain[i] \in Migrations(EarlyStatement)
  <2>1. i \in 1 .. 14 /\ Chain[i] = Earlier[i] /\ Len(Earlier) = 14 /\ Earlier \in Seq(Migrations(EarlyStatement))
    <3>1. i \in 1 .. 14
      BY <1>1
    <3> QED BY <3>1, ChainIsSane, EarlierIsSane
  <2> QED BY <2>1, ElementOfSeq
<1>3. PICK j \in DOMAIN Chain[i].steps : Obj(t, "hash") \in Created(Chain[i].steps[j].obj)
  BY <1>1 DEF BuiltBy
<1>4. Chain[i].steps[j] \in EarlyStatement
  <2>1. Chain[i].steps \in Seq(EarlyStatement)
    BY <1>2 DEF Migrations
  <2> QED BY <1>3, <2>1, LenProperties, ElementOfSeq
<1>5. Chain[i].steps[j].obj \in TableNames \X PartNames /\ Chain[i].steps[j].obj[2] # "hash"
  BY <1>4 DEF EarlyStatement, Statement
<1> QED BY <1>3, <1>5, CreatedIsPlain
-----------------------------------------------------------------------------
(* The invariant: a process that migrates has behind it what its migrations *)
(* were to make, and nothing takes that away.                              *)

SchemaTables ==
  /\ has \subseteq (TableNames \X PartNames) \cup {Obj("operations", "narrowGuard")}
  /\ rows \in [GuardedTables -> Repetitions]
  /\ saved \in [{"policy", "alerts"} -> SavedChoices]
  /\ wallets \in {{}, {1, 2}} /\ active \subseteq wallets
  /\ old \subseteq {"awards", "spends", "links", "receipts"}

Places ==
  /\ at \in [Containers -> [b : 0 .. 22, s : Nat, asked : BOOLEAN]]
  /\ \A c \in Containers : Migrating(c) => at[c].s \in 0 .. Len(Chain[at[c].b].steps)

\* Where a hash has its guard, it does not repeat.
HashesUnique ==
  \A t \in {"awards", "spends", "receipts"} : Obj(t, "hash") \in has => rows[t] = "unique"

OneChosen == IF wallets = {} THEN active = {} ELSE \E w \in wallets : active = {w}

Done(st) ==
  /\ st.do \in {"need", "index"} => st.obj \in has
  /\ st.do = "guard" => st.obj \in has /\ Obj("operations", "narrowGuard") \notin has
  /\ st.do = "whole" => st.obj \in has /\ (st.obj = Obj("users", "oneActive") => OneChosen)
  /\ st.do = "seed" => saved[st.obj[1]] # "none"
  /\ st.do = "refuse" /\ st.obj[1] = "operations" => rows["operations"] = "unique"

Passed(m) ==
  \/ m.unless # {} /\ m.unless \subseteq has
  \/ \A st \in Steps(m.steps) : Done(st)

Behind(c) ==
  \A i \in DOMAIN Chain :
    /\ i < at[c].b => Passed(Chain[i])
    /\ i = at[c].b => \A j \in DOMAIN Chain[i].steps : j < at[c].s => Done(Chain[i].steps[j])

MInv ==
  /\ SchemaTables /\ Places /\ HashesUnique
  /\ \A c \in Containers : Behind(c)
-----------------------------------------------------------------------------
(* What a process has behind it stays.                                     *)

Lasts ==
  /\ \A o \in TableNames \X PartNames : o \in has /\ o[2] \notin Replaced => o \in has'
  /\ Obj("operations", "narrowGuard") \in has' => Obj("operations", "narrowGuard") \in has
  /\ rows'["operations"] = rows["operations"]
  /\ \A x \in {"policy", "alerts"} : saved[x] # "none" => saved'[x] # "none"
  /\ OneChosen => OneChosen'

LEMMA DoneLasts ==
  ASSUME Lasts, NEW st \in Statement, Done(st)
  PROVE  Done(st)'
<1>1. st.obj \in TableNames \X PartNames /\ Sane(st)
  BY DEF Statement
<1>2. st.do \in {"need", "index"} => (st.obj \in has)'
  BY <1>1 DEF Done, Lasts, Sane
<1>3. st.do = "guard" => (st.obj \in has /\ Obj("operations", "narrowGuard") \notin has)'
  BY <1>1 DEF Done, Lasts, Sane, Replaced, Obj
<1>4. st.do = "whole" => (st.obj \in has /\ (st.obj = Obj("users", "oneActive") => OneChosen))'
  BY <1>1 DEF Done, Lasts, Sane, Replaced, Obj
<1>5. st.do = "seed" => (saved[st.obj[1]] # "none")'
  BY <1>1 DEF Done, Lasts, Sane
<1>6. st.do = "refuse" /\ st.obj[1] = "operations" => (rows["operations"] = "unique")'
  BY DEF Done, Lasts
<1> QED BY <1>2, <1>3, <1>4, <1>5, <1>6 DEF Done

LEMMA PassedLasts ==
  ASSUME Lasts, NEW m \in Migrations(Statement), Passed(m)
  PROVE  Passed(m)'
<1>1. CASE m.unless # {} /\ m.unless \subseteq has
  <2>1. m.unless \subseteq TableNames \X (PartNames \ Replaced)
    BY DEF Migrations
  <2>2. m.unless \subseteq has'
    BY <1>1, <2>1 DEF Lasts
  <2> QED BY <1>1, <2>2 DEF Passed
<1>2. CASE \A st \in Steps(m.steps) : Done(st)
  <2>1. m.steps \in Seq(Statement)
    BY DEF Migrations
  <2>2. Steps(m.steps) \subseteq Statement
    BY <2>1, LenProperties, ElementOfSeq DEF Steps
  <2>3. ASSUME NEW st \in Steps(m.steps) PROVE Done(st)'
    BY <1>2, <2>2, DoneLasts
  <2> QED BY <2>3 DEF Passed
<1> QED BY <1>1, <1>2 DEF Passed
-----------------------------------------------------------------------------
(* A process advances.                                                     *)

Advances(c) ==
  \/ at'[c].b = at[c].b /\ at'[c].s = at[c].s
  \/ at'[c].b \in {0, 1} /\ at'[c].s = 0
  \/ Migrating(c) /\ at[c].s = 0 /\ at'[c].b = at[c].b /\ at'[c].s = 1
  \/ Migrating(c) /\ at[c].s = 0 /\ at'[c].b = at[c].b + 1 /\ at'[c].s = 0 /\ Passed(Chain[at[c].b])
  \/ /\ Migrating(c) /\ at[c].s > 0
     /\ \E st \in {Here(c)} : Done(st)'
     /\ IF at[c].s < Len(Chain[at[c].b].steps)
          THEN at'[c].b = at[c].b /\ at'[c].s = at[c].s + 1
          ELSE at'[c].b = at[c].b + 1 /\ at'[c].s = 0

\* Its own place changes, and no other one's.
Moves(c) ==
  /\ Places' /\ Advances(c)
  /\ \A d \in Containers \ {c} : at'[d] = at[d]

LEMMA MigrationIsSane ==
  /\ DOMAIN Chain = 1 .. 21
  /\ \A i \in 1 .. 21 :
       /\ Chain[i] \in Migrations(Statement)
       /\ Chain[i].steps \in Seq(Statement)
       /\ Len(Chain[i].steps) \in Nat /\ Len(Chain[i].steps) > 0
       /\ DOMAIN Chain[i].steps = 1 .. Len(Chain[i].steps)
       /\ \A j \in 1 .. Len(Chain[i].steps) : Chain[i].steps[j] \in Statement
<1>1. DOMAIN Chain = 1 .. 21
  BY ChainIsSane, LenProperties
<1>2. ASSUME NEW i \in 1 .. 21
      PROVE  /\ Chain[i] \in Migrations(Statement)
             /\ Chain[i].steps \in Seq(Statement)
             /\ Len(Chain[i].steps) \in Nat /\ Len(Chain[i].steps) > 0
             /\ DOMAIN Chain[i].steps = 1 .. Len(Chain[i].steps)
             /\ \A j \in 1 .. Len(Chain[i].steps) : Chain[i].steps[j] \in Statement
  <2>1. Chain[i] \in Migrations(Statement)
    BY ChainIsSane, ElementOfSeq
  <2>2. Chain[i].steps \in Seq(Statement) /\ Chain[i].steps # << >>
    BY <2>1 DEF Migrations
  <2> DEFINE s == Chain[i].steps
  <2> HIDE DEF s
  <2>3. s \in Seq(Statement) /\ s # << >>
    BY <2>2 DEF s
  <2>4. Len(s) \in Nat /\ Len(s) > 0 /\ DOMAIN s = 1 .. Len(s) /\ \A j \in 1 .. Len(s) : s[j] \in Statement
    <3>1. Len(s) \in Nat \ {0}
      BY <2>3, EmptySeq
    <3> QED BY <2>3, <3>1, LenProperties, ElementOfSeq
  <2> QED BY <2>1, <2>2, <2>4 DEF s
<1> QED BY <1>1, <1>2

LEMMA StepNumbers ==
  ASSUME NEW i \in 1 .. 21, NEW j \in DOMAIN Chain[i].steps
  PROVE  /\ j \in Nat /\ j >= 1 /\ j <= Len(Chain[i].steps) /\ Len(Chain[i].steps) \in Nat
         /\ Chain[i].steps[j] \in Statement
<1>1. /\ DOMAIN Chain[i].steps = 1 .. Len(Chain[i].steps) /\ Len(Chain[i].steps) \in Nat
      /\ \A k \in 1 .. Len(Chain[i].steps) : Chain[i].steps[k] \in Statement
  BY MigrationIsSane
<1> DEFINE s == Chain[i].steps
<1> HIDE DEF s
<1>2. j \in 1 .. Len(s) /\ Len(s) \in Nat /\ \A k \in 1 .. Len(s) : s[k] \in Statement
  BY <1>1 DEF s
<1>3. j \in Nat /\ j >= 1 /\ j <= Len(s) /\ s[j] \in Statement
  BY <1>2
<1> QED BY <1>2, <1>3 DEF s

LEMMA HereIsSane ==
  ASSUME Places, NEW c \in Containers, Migrating(c), at[c].s > 0
  PROVE  /\ at[c].b \in 1 .. 21 /\ at[c].s \in 1 .. Len(Chain[at[c].b].steps)
         /\ Here(c) \in Statement
         /\ Here(c).obj \in TableNames \X PartNames
         /\ Here(c) = Chain[at[c].b].steps[at[c].s]
<1>1. at[c].b \in 1 .. 21
  BY ChainIsSane DEF Migrating
<1>2. at[c].s \in Nat
  BY DEF Places
<1>3. at[c].s \in 0 .. Len(Chain[at[c].b].steps)
  BY DEF Places
<1>4. at[c].s \in 1 .. Len(Chain[at[c].b].steps)
  <2>1. Len(Chain[at[c].b].steps) \in Nat
    BY <1>1, MigrationIsSane
  <2> QED BY <1>2, <1>3, <2>1
<1>5. Here(c) = Chain[at[c].b].steps[at[c].s]
  BY DEF Here
<1>6. Here(c) \in Statement
  BY <1>1, <1>4, <1>5, MigrationIsSane
<1> QED BY <1>1, <1>4, <1>5, <1>6 DEF Statement

LEMMA FailMoves ==
  ASSUME Places, NEW c \in Containers, Fail(c)
  PROVE  Moves(c)
<1>1. at' = [at EXCEPT ![c] = [b |-> 0, s |-> 0, asked |-> FALSE]]
  BY DEF Fail, Resting
<1>2. /\ at'[c].b = 0 /\ at'[c].s = 0
      /\ \A d \in Containers \ {c} : at'[d] = at[d]
      /\ at' \in [Containers -> [b : 0 .. 22, s : Nat, asked : BOOLEAN]]
  BY <1>1 DEF Places
<1>3. ASSUME NEW d \in Containers, Migrating(d)' PROVE (at[d].s \in 0 .. Len(Chain[at[d].b].steps))'
  <2>1. CASE d = c
    BY <1>2, <1>3, <2>1 DEF Migrating
  <2>2. CASE d # c
    <3>1. at'[d] = at[d] /\ Migrating(d)
      BY <1>2, <1>3, <2>2 DEF Migrating
    <3> QED BY <3>1 DEF Places
  <2> QED BY <2>1, <2>2
<1> QED BY <1>2, <1>3 DEF Moves, Places, Advances

LEMMA ForwardMoves ==
  ASSUME Places, NEW c \in Containers, Migrating(c), at[c].s > 0, Forward(c),
         \E st \in {Here(c)} : Done(st)'
  PROVE  Moves(c)
<1> DEFINE n == Len(Chain[at[c].b].steps)
<1>1. /\ at[c].b \in 1 .. 21 /\ at[c].s \in 1 .. n /\ n \in Nat
  BY HereIsSane, MigrationIsSane
<1>2. at' = [at EXCEPT ![c] = IF at[c].s < n THEN [b |-> at[c].b, s |-> at[c].s + 1, asked |-> FALSE]
                              ELSE [b |-> at[c].b + 1, s |-> 0, asked |-> FALSE]]
  BY DEF Forward, Places
<1> HIDE DEF n
<1>3. /\ at'[c] = IF at[c].s < n THEN [b |-> at[c].b, s |-> at[c].s + 1, asked |-> FALSE]
                  ELSE [b |-> at[c].b + 1, s |-> 0, asked |-> FALSE]
      /\ \A d \in Containers \ {c} : at'[d] = at[d]
      /\ at' \in [Containers -> [b : 0 .. 22, s : Nat, asked : BOOLEAN]]
  BY <1>1, <1>2 DEF Places
<1>4. at[c].s < n => at'[c].b = at[c].b /\ at'[c].s = at[c].s + 1
  BY <1>3
<1>5. ~(at[c].s < n) => at'[c].b = at[c].b + 1 /\ at'[c].s = 0
  BY <1>3
<1>6. Advances(c)
  BY <1>4, <1>5 DEF Advances, n
<1>7. ASSUME NEW d \in Containers, Migrating(d)' PROVE (at[d].s \in 0 .. Len(Chain[at[d].b].steps))'
  <2>1. CASE d # c
    BY <1>3, <1>7, <2>1 DEF Places, Migrating
  <2>2. CASE d = c /\ at[c].s < n
    <3>1. at'[c].s \in 0 .. n
      BY <1>1, <1>4, <2>2
    <3> QED BY <1>4, <2>2, <3>1 DEF n
  <2>3. CASE d = c /\ ~(at[c].s < n)
    <3>1. at'[c].b \in 1 .. 21 /\ at'[c].s = 0
      BY <1>5, <1>7, <2>3, ChainIsSane DEF Migrating
    <3>2. Len(Chain[at'[c].b].steps) \in Nat
      BY <3>1, MigrationIsSane
    <3> QED BY <2>3, <3>1, <3>2
  <2> QED BY <2>1, <2>2, <2>3
<1> QED BY <1>3, <1>6, <1>7 DEF Moves, Places

\* What a process has behind it after a step is what it had and has done.
LEMMA BehindLasts ==
  ASSUME Places, Lasts, NEW c \in Containers, Behind(c), Advances(c)
  PROVE  Behind(c)'
<1>1. at[c].b \in 0 .. 22 /\ at[c].s \in Nat /\ DOMAIN Chain = 1 .. 21 /\ Len(Chain) = 21
  BY ChainIsSane, MigrationIsSane DEF Places
<1>2. ASSUME NEW i \in 1 .. 21, i < at[c].b PROVE Passed(Chain[i])'
  <2>1. Passed(Chain[i]) /\ Chain[i] \in Migrations(Statement)
    BY <1>1, <1>2, MigrationIsSane DEF Behind
  <2> QED BY <2>1, PassedLasts
<1>3. ASSUME NEW i \in 1 .. 21, i = at[c].b, NEW j \in DOMAIN Chain[i].steps, j < at[c].s
      PROVE  Done(Chain[i].steps[j])'
  <2>1. Done(Chain[i].steps[j]) /\ Chain[i].steps[j] \in Statement
    BY <1>1, <1>3, MigrationIsSane DEF Behind
  <2> QED BY <2>1, DoneLasts
<1>4. CASE at'[c].b = at[c].b /\ at'[c].s = at[c].s
  BY <1>1, <1>2, <1>3, <1>4 DEF Behind
<1>5. CASE at'[c].b \in {0, 1} /\ at'[c].s = 0
  <2>1. ASSUME NEW i \in 1 .. 21 PROVE ~(i < at'[c].b)
    BY <1>5
  <2>2. ASSUME NEW i \in 1 .. 21, NEW j \in DOMAIN Chain[i].steps PROVE ~(j < at'[c].s)
    BY <1>5, StepNumbers
  <2> QED BY <1>1, <2>1, <2>2 DEF Behind
<1>6. CASE Migrating(c) /\ at[c].s = 0 /\ at'[c].b = at[c].b /\ at'[c].s = 1
  <2>1. ASSUME NEW i \in 1 .. 21, NEW j \in DOMAIN Chain[i].steps PROVE ~(j < at'[c].s)
    BY <1>6, StepNumbers
  <2> QED BY <1>1, <1>2, <1>6, <2>1 DEF Behind
<1>7. CASE Migrating(c) /\ at[c].s = 0 /\ at'[c].b = at[c].b + 1 /\ at'[c].s = 0 /\ Passed(Chain[at[c].b])
  <2>1. at[c].b \in 1 .. 21
    BY <1>1, <1>7 DEF Migrating
  <2>2. Passed(Chain[at[c].b]) /\ Chain[at[c].b] \in Migrations(Statement)
    BY <1>7, <2>1, MigrationIsSane
  <2>3. ASSUME NEW i \in 1 .. 21, i < at[c].b + 1 PROVE Passed(Chain[i])'
    <3>1. CASE i = at[c].b
      <4>1. Passed(Chain[i]) /\ Chain[i] \in Migrations(Statement)
        BY <2>2, <3>1
      <4> QED BY <4>1, PassedLasts
    <3>2. CASE i < at[c].b
      BY <1>2, <3>2
    <3> QED BY <1>1, <2>3, <3>1, <3>2
  <2>4. ASSUME NEW i \in 1 .. 21, NEW j \in DOMAIN Chain[i].steps PROVE ~(j < at'[c].s)
    <3>1. at'[c].s = 0
      BY <1>7
    <3>2. j \in Nat /\ j >= 1
      BY StepNumbers
    <3> QED BY <3>1, <3>2
  <2> QED BY <1>1, <1>7, <2>3, <2>4 DEF Behind
<1>8. CASE /\ Migrating(c) /\ at[c].s > 0
           /\ \E st \in {Here(c)} : Done(st)'
           /\ IF at[c].s < Len(Chain[at[c].b].steps)
                THEN at'[c].b = at[c].b /\ at'[c].s = at[c].s + 1
                ELSE at'[c].b = at[c].b + 1 /\ at'[c].s = 0
  <2>1. /\ at[c].b \in 1 .. 21 /\ at[c].s \in 1 .. Len(Chain[at[c].b].steps)
        /\ Here(c) = Chain[at[c].b].steps[at[c].s]
    BY <1>8, HereIsSane
  <2>2. ASSUME NEW i \in 1 .. 21, i = at[c].b, NEW j \in DOMAIN Chain[i].steps, j < at[c].s + 1
        PROVE  Done(Chain[i].steps[j])'
    <3>1. j \in Nat
      BY StepNumbers
    <3>2. CASE j < at[c].s
      BY <1>3, <2>2, <3>2
    <3>3. CASE j = at[c].s
      <4>1. PICK st \in {Here(c)} : Done(st)'
        BY <1>8
      <4>2. Chain[i].steps[j] = st
        BY <2>1, <2>2, <3>3, <4>1
      <4> QED BY <4>1, <4>2
    <3> QED BY <1>1, <2>2, <3>1, <3>2, <3>3
  <2>3. CASE at[c].s < Len(Chain[at[c].b].steps)
    <3>1. at'[c].b = at[c].b /\ at'[c].s = at[c].s + 1
      BY <1>8, <2>3
    <3> QED BY <1>1, <1>2, <2>2, <3>1 DEF Behind
  <2>4. CASE ~(at[c].s < Len(Chain[at[c].b].steps))
    <3>1. at'[c].b = at[c].b + 1 /\ at'[c].s = 0
      BY <1>8, <2>4
    <3>2. ASSUME NEW i \in 1 .. 21, i = at[c].b PROVE Passed(Chain[i])'
      <4>1. ASSUME NEW j \in DOMAIN Chain[i].steps PROVE Done(Chain[i].steps[j])'
        <5>1. j < at[c].s + 1
          BY <2>1, <2>4, <3>2, StepNumbers
        <5> QED BY <2>2, <3>2, <5>1
      <4> QED BY <4>1 DEF Passed, Steps
    <3>3. ASSUME NEW i \in 1 .. 21, i < at[c].b + 1 PROVE Passed(Chain[i])'
      BY <1>1, <1>2, <3>2, <3>3
    <3>4. ASSUME NEW i \in 1 .. 21, i = at'[c].b, NEW j \in DOMAIN Chain[i].steps, j < at'[c].s
          PROVE  FALSE
      <4>1. j \in Nat /\ j >= 1
        BY <3>4, StepNumbers
      <4>2. at'[c].s = 0 /\ j < at'[c].s
        BY <3>1, <3>4
      <4> QED BY <4>1, <4>2
    <3> QED BY <1>1, <3>1, <3>3, <3>4 DEF Behind
  <2> QED BY <2>3, <2>4
<1> QED BY <1>4, <1>5, <1>6, <1>7, <1>8 DEF Advances
-----------------------------------------------------------------------------
(* The steps of a migrating process.                                       *)

\* What every step preserves of the tables, and what it leaves to last.
Preserves == SchemaTables' /\ HashesUnique' /\ Lasts

LEMMA SameTables ==
  ASSUME SchemaTables, HashesUnique, UNCHANGED <<has, rows, wallets, active, saved>>,
         old' \subseteq old
  PROVE  Preserves
<1>1. SchemaTables'
  BY DEF SchemaTables
<1>2. HashesUnique'
  BY DEF HashesUnique
<1>3. Lasts
  BY DEF Lasts, OneChosen
<1> QED BY <1>1, <1>2, <1>3 DEF Preserves

\* New objects: none is the narrow guard, and a hash is guarded where it does
\* not repeat.
LEMMA MoreObjects ==
  ASSUME SchemaTables, HashesUnique, UNCHANGED <<rows, wallets, active, saved, old>>,
         \A o \in has : o[2] \notin Replaced => o \in has',
         NEW X, has' \subseteq has \cup X, X \subseteq TableNames \X PartNames,
         \A t \in {"awards", "spends", "receipts"} : Obj(t, "hash") \in X => rows[t] = "unique"
  PROVE  Preserves
<1>1. Obj("operations", "narrowGuard") \notin X
  BY DEF Obj, PartNames
<1>2. SchemaTables'
  BY DEF SchemaTables
<1>3. HashesUnique'
  BY DEF HashesUnique
<1>4. OneChosen => OneChosen'
  BY DEF OneChosen
<1>5. Lasts
  BY <1>1, <1>4 DEF Lasts
<1> QED BY <1>2, <1>3, <1>5 DEF Preserves

LEMMA BeginKeeps ==
  ASSUME MInv, NEW c \in Containers, Begin(c)
  PROVE  Preserves /\ Moves(c)
<1>1. Preserves
  BY SameTables DEF Begin, MInv
<1>2. at[c].b \in 1 .. 21 /\ at[c].s = 0 /\ Places
  BY ChainIsSane DEF Begin, Migrating, MInv
<1>3. CASE Chain[at[c].b].unless # {} /\ Chain[at[c].b].unless \subseteq has
  <2>1. at' = [at EXCEPT ![c] =
                 IF Chain[at[c].b].unless # {} /\ Chain[at[c].b].unless \subseteq has
                   THEN [at[c] EXCEPT !.b = at[c].b + 1] ELSE [at[c] EXCEPT !.s = 1]]
    BY DEF Begin
  <2>2. /\ at'[c].b = at[c].b + 1 /\ at'[c].s = 0
        /\ \A d \in Containers \ {c} : at'[d] = at[d]
        /\ at' \in [Containers -> [b : 0 .. 22, s : Nat, asked : BOOLEAN]]
    BY <1>2, <1>3, <2>1 DEF Places
  <2>3. Advances(c)
    BY <1>2, <1>3, <2>2 DEF Begin, Advances, Passed
  <2>4. ASSUME NEW d \in Containers, Migrating(d)' PROVE (at[d].s \in 0 .. Len(Chain[at[d].b].steps))'
    <3>1. CASE d # c
      <4>1. at'[d] = at[d] /\ Migrating(d)
        BY <2>2, <2>4, <3>1 DEF Migrating
      <4> QED BY <1>2, <4>1 DEF Places
    <3>2. CASE d = c
      <4>1. at'[c].b \in 1 .. 21
        BY <2>4, <3>2, ChainIsSane DEF Migrating
      <4>2. Len(Chain[at'[c].b].steps) \in Nat
        BY <4>1, MigrationIsSane
      <4> QED BY <2>2, <3>2, <4>2
    <3> QED BY <3>1, <3>2
  <2> QED BY <1>1, <2>2, <2>3, <2>4 DEF Moves, Places
<1>4. CASE ~(Chain[at[c].b].unless # {} /\ Chain[at[c].b].unless \subseteq has)
  <2>1. at' = [at EXCEPT ![c] = [@ EXCEPT !.s = 1]]
    BY <1>4 DEF Begin
  <2>2. /\ at'[c].b = at[c].b /\ at'[c].s = 1
        /\ \A d \in Containers \ {c} : at'[d] = at[d]
        /\ at' \in [Containers -> [b : 0 .. 22, s : Nat, asked : BOOLEAN]]
    BY <1>2, <2>1 DEF Places
  <2>3. Advances(c)
    BY <1>2, <2>2 DEF Begin, Advances
  <2>4. ASSUME NEW d \in Containers, Migrating(d)' PROVE (at[d].s \in 0 .. Len(Chain[at[d].b].steps))'
    <3>1. CASE d # c
      <4>1. at'[d] = at[d] /\ Migrating(d)
        BY <2>2, <2>4, <3>1 DEF Migrating
      <4> QED BY <1>2, <4>1 DEF Places
    <3>2. CASE d = c
      <4>1. Len(Chain[at[c].b].steps) \in Nat /\ Len(Chain[at[c].b].steps) > 0
        BY <1>2, MigrationIsSane
      <4> QED BY <2>2, <3>2, <4>1
    <3> QED BY <3>1, <3>2
  <2> QED BY <1>1, <2>2, <2>3, <2>4 DEF Moves, Places
<1> QED BY <1>3, <1>4

LEMMA AskKeeps ==
  ASSUME MInv, NEW c \in Containers, Ask(c)
  PROVE  Preserves /\ Moves(c)
<1>1. Preserves
  BY SameTables DEF Ask, MInv
<1>2. /\ Migrating(c) /\ at[c].s > 0 /\ Here(c).do = "need" /\ Places
  BY DEF Ask, About, MInv
<1>3. CASE Here(c).obj \in has
  <2>1. Forward(c) /\ has' = has
    BY <1>3 DEF Ask
  <2>2. \E st \in {Here(c)} : Done(st)'
    BY <1>2, <1>3, <2>1 DEF Done
  <2> QED BY <1>1, <1>2, <2>1, <2>2, ForwardMoves
<1>4. CASE Here(c).obj \notin has
  <2>1. at' = [at EXCEPT ![c].asked = TRUE]
    BY <1>4 DEF Ask
  <2>2. /\ at'[c].b = at[c].b /\ at'[c].s = at[c].s
        /\ \A d \in Containers \ {c} : at'[d] = at[d]
        /\ at' \in [Containers -> [b : 0 .. 22, s : Nat, asked : BOOLEAN]]
    BY <1>2, <2>1 DEF Places
  <2>3. ASSUME NEW d \in Containers, Migrating(d)' PROVE (at[d].s \in 0 .. Len(Chain[at[d].b].steps))'
    <3>1. at'[d].b = at[d].b /\ at'[d].s = at[d].s /\ Migrating(d)
      BY <2>2, <2>3 DEF Migrating
    <3> QED BY <1>2, <3>1 DEF Places
  <2> QED BY <1>1, <2>2, <2>3 DEF Moves, Places, Advances
<1> QED BY <1>3, <1>4

LEMMA BuildKeeps ==
  ASSUME MInv, NEW c \in Containers, Build(c)
  PROVE  Preserves /\ Moves(c)
<1>1. /\ Migrating(c) /\ at[c].s > 0 /\ Here(c).do \in {"make", "need"} /\ Places
      /\ SchemaTables /\ HashesUnique /\ UNCHANGED <<rows, wallets, active, saved, old>>
  BY DEF Build, About, MInv
<1>2. Here(c) \in Statement /\ Here(c).obj \in TableNames \X PartNames /\ Here(c).obj[2] # "hash"
  <2>1. Here(c) \in Statement /\ Here(c).obj \in TableNames \X PartNames
    BY <1>1, HereIsSane
  <2> QED BY <1>1, <2>1 DEF Statement, Sane
<1>3. CASE has' = has \cup Created(Here(c).obj) /\ Forward(c)
  <2>1. Preserves
    BY <1>1, <1>2, <1>3, CreatedIsPlain, MoreObjects
  <2>2. \E st \in {Here(c)} : Done(st)'
    BY <1>1, <1>2, <1>3, CreatedIsPlain DEF Done
  <2> QED BY <1>1, <1>3, <2>1, <2>2, ForwardMoves
<1>4. CASE UNCHANGED has /\ Fail(c)
  BY <1>1, <1>4, SameTables, FailMoves
<1> QED BY <1>3, <1>4 DEF Build

LEMMA CreateIndexKeeps ==
  ASSUME MInv, NEW c \in Containers, CreateIndex(c)
  PROVE  Preserves /\ Moves(c)
<1>1. /\ Migrating(c) /\ at[c].s > 0 /\ Here(c).do = "index" /\ Places
      /\ SchemaTables /\ HashesUnique /\ UNCHANGED <<rows, wallets, active, saved, old>>
  BY DEF CreateIndex, About, MInv
<1>2. Here(c).obj \in TableNames \X PartNames
  BY <1>1, HereIsSane
<1>3. CASE /\ Here(c).obj[2] \in {"hash", "wallet"} => rows[Here(c).obj[1]] = "unique"
           /\ has' = has \cup {Here(c).obj} /\ Forward(c)
  <2>1. ASSUME NEW t \in {"awards", "spends", "receipts"}, Obj(t, "hash") \in {Here(c).obj}
        PROVE  rows[t] = "unique"
    <3>1. Here(c).obj[1] = t /\ Here(c).obj[2] = "hash"
      BY <2>1 DEF Obj
    <3> QED BY <1>3, <3>1
  <2>2. Preserves
    <3>1. {Here(c).obj} \subseteq TableNames \X PartNames
      BY <1>2
    <3> QED BY <1>1, <1>3, <2>1, <3>1, MoreObjects
  <2>3. \E st \in {Here(c)} : Done(st)'
    BY <1>1, <1>3 DEF Done
  <2> QED BY <1>1, <1>3, <2>2, <2>3, ForwardMoves
<1>4. CASE UNCHANGED has /\ Fail(c)
  BY <1>1, <1>4, SameTables, FailMoves
<1> QED BY <1>3, <1>4 DEF CreateIndex

LEMMA DropGuardKeeps ==
  ASSUME MInv, NEW c \in Containers, DropGuard(c)
  PROVE  Preserves /\ Moves(c)
<1>1. /\ Migrating(c) /\ at[c].s > 0 /\ Here(c).do = "drop" /\ Places
      /\ SchemaTables /\ HashesUnique /\ UNCHANGED <<rows, wallets, active, saved, old>>
      /\ has' = has \ {Here(c).obj} /\ Forward(c)
  BY DEF DropGuard, About, MInv
<1>2. Here(c).obj[2] = "exactHash"
  <2>1. Here(c) \in Statement
    BY <1>1, HereIsSane
  <2> QED BY <1>1, <2>1 DEF Statement, Sane
<1>3. \A o \in has : o[2] \notin Replaced => o \in has'
  BY <1>1, <1>2 DEF Replaced
<1>4. Preserves
  <2>1. PICK X : X = {}
    OBVIOUS
  <2>2. has' \subseteq has \cup X /\ X \subseteq TableNames \X PartNames
        /\ \A t \in {"awards", "spends", "receipts"} : Obj(t, "hash") \in X => rows[t] = "unique"
    BY <1>1, <2>1
  <2> QED BY <1>1, <1>3, <2>2, MoreObjects
<1>5. \E st \in {Here(c)} : Done(st)'
  BY <1>1 DEF Done
<1> QED BY <1>1, <1>4, <1>5, ForwardMoves

LEMMA RefuseKeeps ==
  ASSUME MInv, NEW c \in Containers, RefuseRepeats(c)
  PROVE  Preserves /\ Moves(c)
<1>1. /\ Migrating(c) /\ at[c].s > 0 /\ Here(c).do = "refuse" /\ Places
      /\ SchemaTables /\ HashesUnique /\ UNCHANGED <<has, rows, wallets, active, saved, old>>
  BY DEF RefuseRepeats, About, MInv
<1>2. Preserves
  BY <1>1, SameTables
<1>3. CASE rows[Here(c).obj[1]] = "unique" /\ Forward(c)
  <2>1. \E st \in {Here(c)} : Done(st)'
    BY <1>1, <1>3 DEF Done
  <2> QED BY <1>1, <1>2, <1>3, <2>1, ForwardMoves
<1>4. CASE Fail(c)
  BY <1>1, <1>2, <1>4, FailMoves
<1> QED BY <1>3, <1>4 DEF RefuseRepeats

LEMMA SeedKeeps ==
  ASSUME MInv, NEW c \in Containers, SeedRow(c)
  PROVE  Preserves /\ Moves(c)
<1> DEFINE x == Here(c).obj[1]
<1>1. /\ Migrating(c) /\ at[c].s > 0 /\ Here(c).do = "seed" /\ Places
      /\ SchemaTables /\ HashesUnique /\ UNCHANGED <<has, rows, wallets, active, old>>
      /\ saved' = [saved EXCEPT ![x] = IF @ = "none" THEN "default" ELSE @]
      /\ Forward(c)
  BY DEF SeedRow, About, MInv
<1>2. x \in {"policy", "alerts"}
  <2>1. Here(c) \in Statement
    BY <1>1, HereIsSane
  <2> QED BY <1>1, <2>1 DEF Statement, Sane
<1> HIDE DEF x
<1>3. /\ saved' \in [{"policy", "alerts"} -> SavedChoices]
      /\ saved'[x] # "none"
      /\ \A y \in {"policy", "alerts"} : saved[y] # "none" => saved'[y] # "none"
  BY <1>1, <1>2 DEF SchemaTables, SavedChoices
<1>4. SchemaTables' /\ HashesUnique'
  BY <1>1, <1>3 DEF SchemaTables, HashesUnique
<1>5. Lasts
  BY <1>1, <1>3 DEF Lasts, OneChosen
<1>6. \E st \in {Here(c)} : Done(st)'
  BY <1>1, <1>3 DEF Done, x
<1> QED BY <1>1, <1>4, <1>5, <1>6, ForwardMoves DEF Preserves

LEMMA CreateSessionGuardKeeps ==
  ASSUME MInv, NEW c \in Containers, CreateSessionGuard(c)
  PROVE  Preserves /\ Moves(c)
<1>1. /\ Migrating(c) /\ at[c].s > 0 /\ Here(c).do = "guard" /\ Places
      /\ SchemaTables /\ HashesUnique /\ UNCHANGED <<rows, wallets, active, saved, old>>
  BY DEF CreateSessionGuard, About, MInv
<1>2. Here(c).obj = Obj("operations", "sessionGuard")
  <2>1. Here(c) \in Statement
    BY <1>1, HereIsSane
  <2> QED BY <1>1, <2>1 DEF Statement, Sane
<1>3. CASE GuardFits /\ has' = has \cup {Here(c).obj} /\ Forward(c)
  <2>1. Preserves
    <3>1. {Here(c).obj} \subseteq TableNames \X PartNames
          /\ \A t \in {"awards", "spends", "receipts"} : Obj(t, "hash") \in {Here(c).obj} => rows[t] = "unique"
      BY <1>2 DEF TableNames, PartNames, Obj
    <3> QED BY <1>1, <1>3, <3>1, MoreObjects
  <2>2. \E st \in {Here(c)} : Done(st)'
    <3>1. (Here(c).obj \in has')
      BY <1>3
    <3>2. Obj("operations", "narrowGuard") \notin has'
      BY <1>2, <1>3 DEF GuardFits, Obj
    <3> QED BY <1>1, <3>1, <3>2 DEF Done
  <2> QED BY <1>1, <1>3, <2>1, <2>2, ForwardMoves
<1>4. CASE UNCHANGED has /\ Fail(c)
  BY <1>1, <1>4, SameTables, FailMoves
<1> QED BY <1>3, <1>4 DEF CreateSessionGuard, GuardFits

LEMMA ScopeUidsKeeps ==
  ASSUME MInv, NEW c \in Containers, ScopeUids(c)
  PROVE  Preserves /\ Moves(c)
<1>1. /\ Migrating(c) /\ at[c].s > 0 /\ Here(c).do = "whole" /\ Here(c).obj = Obj("users", "uidWallet")
      /\ Places /\ SchemaTables /\ HashesUnique /\ UNCHANGED <<rows, wallets, active, saved, old>>
  BY DEF ScopeUids, About, MInv
<1>2. CASE has' = (has \ {Obj("users", "uid")}) \cup {Here(c).obj} /\ Forward(c)
  <2>1. Preserves
    <3>1. {Here(c).obj} \subseteq TableNames \X PartNames
          /\ \A t \in {"awards", "spends", "receipts"} : Obj(t, "hash") \in {Here(c).obj} => rows[t] = "unique"
      BY <1>1 DEF TableNames, PartNames, Obj
    <3>2. \A o \in has : o[2] \notin Replaced => o \in has'
      BY <1>2 DEF Replaced, Obj
    <3>3. has' \subseteq has \cup {Here(c).obj}
      BY <1>2
    <3> QED BY <1>1, <3>1, <3>2, <3>3, MoreObjects
  <2>2. \E st \in {Here(c)} : Done(st)'
    BY <1>1, <1>2 DEF Done, Obj
  <2> QED BY <1>1, <1>2, <2>1, <2>2, ForwardMoves
<1>3. CASE UNCHANGED has /\ Fail(c)
  BY <1>1, <1>3, SameTables, FailMoves
<1> QED BY <1>2, <1>3 DEF ScopeUids

\* The backfill chooses one wallet, the chosen one if there is just one.
LEMMA BackfillChooses ==
  ASSUME SchemaTables
  PROVE  /\ Backfilled \subseteq wallets
         /\ IF wallets = {} THEN Backfilled = {} ELSE \E w \in wallets : Backfilled = {w}
         /\ \A w \in wallets : active = {w} => Backfilled = active
<1>1. CASE wallets = {}
  BY <1>1 DEF SchemaTables, Backfilled, Oldest
<1>2. CASE wallets = {1, 2}
  <2>1. active \in {{}, {1}, {2}, {1, 2}}
    <3>1. active \subseteq {1, 2}
      BY <1>2 DEF SchemaTables
    <3>2. CASE 1 \in active /\ 2 \in active
      <4>1. active = {1, 2}
        BY <3>1, <3>2
      <4> QED BY <4>1
    <3>3. CASE 1 \in active /\ 2 \notin active
      <4>1. active = {1}
        BY <3>1, <3>3
      <4> QED BY <4>1
    <3>4. CASE 1 \notin active /\ 2 \in active
      <4>1. active = {2}
        BY <3>1, <3>4
      <4> QED BY <4>1
    <3>5. CASE 1 \notin active /\ 2 \notin active
      <4>1. active = {}
        BY <3>1, <3>5
      <4> QED BY <4>1
    <3> QED BY <3>2, <3>3, <3>4, <3>5
  <2>2. Oldest({1, 2}) = {1} /\ Oldest({1}) = {1} /\ Oldest({2}) = {2}
    BY DEF Oldest
  <2>3. Backfilled = IF active = {2} THEN {2} ELSE {1}
    <3>1. CASE active = {}
      BY <1>2, <2>2, <3>1 DEF Backfilled
    <3>2. CASE active # {}
      BY <2>1, <2>2, <3>2 DEF Backfilled
    <3> QED BY <3>1, <3>2
  <2>4. ASSUME NEW w \in wallets, active = {w} PROVE Backfilled = active
    BY <1>2, <2>3, <2>4
  <2> QED BY <1>2, <2>3, <2>4
<1> QED BY <1>1, <1>2 DEF SchemaTables

LEMMA SelectWalletsKeeps ==
  ASSUME MInv, NEW c \in Containers, SelectWallets(c)
  PROVE  Preserves /\ Moves(c)
<1>1. /\ Migrating(c) /\ at[c].s > 0 /\ Here(c).do = "whole" /\ Here(c).obj = Obj("users", "oneActive")
      /\ Places /\ SchemaTables /\ HashesUnique /\ UNCHANGED <<rows, wallets, saved, old>>
      /\ has' = has \cup {Obj("users", "active"), Obj("users", "oneActive")}
      /\ active' = Backfilled /\ Forward(c)
  BY DEF SelectWallets, About, MInv, Parts, Obj
<1>2. OneChosen' /\ active' \subseteq wallets'
  BY <1>1, BackfillChooses DEF OneChosen
<1>3. SchemaTables'
  BY <1>1, <1>2 DEF SchemaTables, Obj, TableNames, PartNames
<1>4. HashesUnique'
  BY <1>1 DEF HashesUnique, Obj
<1>5. Lasts
  BY <1>1, <1>2 DEF Lasts, Obj
<1>6. \E st \in {Here(c)} : Done(st)'
  BY <1>1, <1>2 DEF Done, Obj
<1> QED BY <1>1, <1>3, <1>4, <1>5, <1>6, ForwardMoves DEF Preserves

LEMMA MigrateKeeps ==
  ASSUME MInv, NEW c \in Containers, Migrate(c)
  PROVE  Preserves /\ Moves(c)
BY BeginKeeps, AskKeeps, BuildKeeps, CreateIndexKeeps, DropGuardKeeps, RefuseKeeps, SeedKeeps,
   CreateSessionGuardKeeps, ScopeUidsKeeps, SelectWalletsKeeps DEF Migrate
-----------------------------------------------------------------------------
(* The other steps.                                                        *)

LEMMA StartKeeps ==
  ASSUME MInv, NEW c \in Containers, Boot(c) \/ Command(c)
  PROVE  Preserves /\ Moves(c)
<1>1. /\ Places /\ at' = [at EXCEPT ![c].b = 1] /\ at[c] = Resting
      /\ SchemaTables /\ HashesUnique /\ UNCHANGED <<has, rows, wallets, active, saved, old>>
  BY DEF Boot, Command, MInv
<1>2. at[c].s = 0
  BY <1>1 DEF Resting
<1>3. /\ at'[c].b = 1 /\ at'[c].s = 0
      /\ \A d \in Containers \ {c} : at'[d] = at[d]
      /\ at' \in [Containers -> [b : 0 .. 22, s : Nat, asked : BOOLEAN]]
  BY <1>1, <1>2 DEF Places
<1>4. ASSUME NEW d \in Containers, Migrating(d)' PROVE (at[d].s \in 0 .. Len(Chain[at[d].b].steps))'
  <2>1. CASE d = c
    <3>1. Len(Chain[1].steps) \in Nat
      BY MigrationIsSane
    <3> QED BY <1>3, <2>1, <3>1
  <2>2. CASE d # c
    <3>1. at'[d] = at[d] /\ Migrating(d)
      BY <1>3, <1>4, <2>2 DEF Migrating
    <3> QED BY <1>1, <3>1 DEF Places
  <2> QED BY <2>1, <2>2
<1>5. Preserves
  BY <1>1, SameTables
<1> QED BY <1>3, <1>4, <1>5 DEF Moves, Places, Advances

LEMMA StopKeeps ==
  ASSUME MInv, NEW c \in Containers, Stop(c)
  PROVE  Preserves /\ Moves(c)
BY SameTables, FailMoves DEF Stop, MInv

\* A repeated row is written only where no guard of its hash is.
LEMMA WriteTwiceKeeps ==
  ASSUME MInv, NEW t \in old, WriteTwice(t)
  PROVE  Preserves
<1>1. /\ SchemaTables /\ HashesUnique /\ UNCHANGED <<has, wallets, active, saved, old>>
      /\ rows' = [rows EXCEPT ![t] = "duplicates"] /\ Guards(t) \cap has = {}
  BY DEF WriteTwice, MInv
<1>2. t \in {"awards", "spends", "links", "receipts"}
  BY <1>1 DEF SchemaTables
<1>3. rows' \in [GuardedTables -> Repetitions] /\ \A u \in GuardedTables \ {t} : rows'[u] = rows[u]
  BY <1>1, <1>2 DEF SchemaTables, Repetitions
<1>4. t \in {"awards", "spends", "receipts"} => Obj(t, "hash") \notin has
  BY <1>1 DEF Guards, Parts, Obj
<1>5. SchemaTables'
  BY <1>1, <1>3 DEF SchemaTables
<1>6. HashesUnique'
  BY <1>1, <1>3, <1>4 DEF HashesUnique, GuardedTables, HashTables
<1>7. rows'["operations"] = rows["operations"]
  BY <1>2, <1>3 DEF GuardedTables, HashTables
<1>8. Lasts
  BY <1>1, <1>7 DEF Lasts, OneChosen
<1> QED BY <1>5, <1>6, <1>8 DEF Preserves

LEMMA SelectKeeps ==
  ASSUME MInv, NEW w \in wallets, Select(w)
  PROVE  Preserves
<1>1. SchemaTables /\ HashesUnique /\ UNCHANGED <<has, rows, wallets, saved, old>> /\ active' = {w}
  BY DEF Select, MInv
<1>2. SchemaTables' /\ HashesUnique'
  BY <1>1 DEF SchemaTables, HashesUnique
<1>3. Lasts
  BY <1>1 DEF Lasts, OneChosen
<1> QED BY <1>2, <1>3 DEF Preserves

LEMMA SaveKeeps ==
  ASSUME MInv, NEW x \in {"policy", "alerts"}, Save(x)
  PROVE  Preserves
<1>1. /\ SchemaTables /\ HashesUnique /\ UNCHANGED <<has, rows, wallets, active, old>>
      /\ saved' = [saved EXCEPT ![x] = "operator"]
  BY DEF Save, MInv
<1>2. /\ saved' \in [{"policy", "alerts"} -> SavedChoices]
      /\ \A y \in {"policy", "alerts"} : saved[y] # "none" => saved'[y] # "none"
  BY <1>1 DEF SchemaTables, SavedChoices
<1>3. SchemaTables' /\ HashesUnique'
  BY <1>1, <1>2 DEF SchemaTables, HashesUnique
<1>4. Lasts
  BY <1>1, <1>2 DEF Lasts, OneChosen
<1> QED BY <1>3, <1>4 DEF Preserves

\* What a run of statements makes has no name of a hash guard but operations'.
LEMMA StagedObjects ==
  LET X == BuiltBy(OperationTables) \cup BuiltBy(LeaseTables) \cup ValidHashes
  IN  /\ X \subseteq TableNames \X PartNames
      /\ \A t \in {"awards", "spends", "receipts"} : Obj(t, "hash") \notin X
<1>1. ASSUME NEW x \in BuiltBy(OperationTables) \cup BuiltBy(LeaseTables)
      PROVE  /\ x \in TableNames \X PartNames
             /\ \A t \in {"awards", "spends", "receipts"} : x # Obj(t, "hash")
  <2>1. PICK st \in Steps(OperationTables) \cup Steps(LeaseTables) : x \in Created(st.obj)
    BY <1>1 DEF BuiltBy, Steps
  <2>2. st \in Steps(M023.steps)
    BY StepsOfMigrations
  <2>3. st \in Statement
    <3>1. 19 \in 1 .. 21 /\ Chain[19] = M023
      BY ChainIsSane
    <3> QED BY <2>2, <3>1, MigrationIsSane DEF Steps
  <2>4. st.obj \in TableNames \X PartNames
    BY <2>3 DEF Statement
  <2>5. st.obj[2] = "hash" => st.obj = Obj("operations", "hash")
    <3>1. st \in Steps(OperationTables) /\ st.obj[2] = "hash" => st.obj = Obj("operations", "hash")
      BY DEF Steps, OperationTables, Need, Index, Obj
    <3>2. st \in Steps(LeaseTables) => st.obj[2] # "hash"
      BY DEF Steps, LeaseTables, Need, Index, Obj
    <3> QED BY <3>1, <3>2
  <2>6. CASE st.obj[2] # "hash"
    BY <2>1, <2>4, <2>6, CreatedIsPlain
  <2>7. CASE st.obj[2] = "hash"
    <3>1. Created(st.obj) = {Obj("operations", "hash")}
      BY <2>5, <2>7 DEF Created, Obj
    <3> QED BY <2>1, <3>1 DEF Obj, TableNames, PartNames
  <2> QED BY <2>6, <2>7
<1>2. ASSUME NEW x \in ValidHashes
      PROVE  /\ x \in TableNames \X PartNames
             /\ \A t \in {"awards", "spends", "receipts"} : x # Obj(t, "hash")
  BY <1>2 DEF ValidHashes, Obj, TableNames, PartNames
<1> QED BY <1>1, <1>2

LEMMA StageKeeps ==
  ASSUME MInv, Stage
  PROVE  Preserves
<1>1. SchemaTables /\ HashesUnique /\ UNCHANGED <<rows, wallets, active, saved, old>>
      /\ has' = has \cup BuiltBy(OperationTables) \cup BuiltBy(LeaseTables) \cup ValidHashes
  BY DEF Stage, MInv
<1>2. PICK X : X = BuiltBy(OperationTables) \cup BuiltBy(LeaseTables) \cup ValidHashes
  OBVIOUS
<1>3. has' = has \cup X
  BY <1>1, <1>2
<1>4. X \subseteq TableNames \X PartNames /\ \A t \in {"awards", "spends", "receipts"} : Obj(t, "hash") \notin X
  BY <1>2, StagedObjects
<1> QED BY <1>1, <1>3, <1>4, MoreObjects

LEMMA ApplyGuardKeeps ==
  ASSUME MInv, ApplyGuard
  PROVE  Preserves
<1>1. SchemaTables /\ HashesUnique /\ UNCHANGED <<rows, wallets, active, saved, old>>
      /\ has' = has \cup {Obj("operations", "session"), Obj("operations", "sessionGuard")}
  BY DEF ApplyGuard, MInv, Parts, Obj
<1>2. PICK X : X = {Obj("operations", "session"), Obj("operations", "sessionGuard")}
  OBVIOUS
<1>3. X \subseteq TableNames \X PartNames /\ \A t \in {"awards", "spends", "receipts"} : Obj(t, "hash") \notin X
  BY <1>2 DEF Obj, TableNames, PartNames
<1> QED BY <1>1, <1>2, <1>3, MoreObjects

LEMMA ApplyPolicyKeeps ==
  ASSUME MInv, ApplyPolicy
  PROVE  Preserves
<1>1. SchemaTables /\ HashesUnique /\ UNCHANGED <<rows, wallets, active, old>>
      /\ has' = has \cup {Obj("policy", "table")}
      /\ saved' = [saved EXCEPT !["policy"] = IF @ = "none" THEN "default" ELSE @]
  BY DEF ApplyPolicy, MInv, Table, Obj
<1>2. /\ saved' \in [{"policy", "alerts"} -> SavedChoices]
      /\ \A y \in {"policy", "alerts"} : saved[y] # "none" => saved'[y] # "none"
  BY <1>1 DEF SchemaTables, SavedChoices
<1>3. Obj("policy", "table") \in TableNames \X PartNames /\ Obj("policy", "table") # Obj("operations", "narrowGuard")
  BY DEF Obj, TableNames, PartNames
<1>4. SchemaTables'
  BY <1>1, <1>2, <1>3 DEF SchemaTables
<1>5. HashesUnique'
  BY <1>1 DEF HashesUnique, Obj
<1>6. Lasts
  BY <1>1, <1>2, <1>3 DEF Lasts, OneChosen
<1> QED BY <1>4, <1>5, <1>6 DEF Preserves
-----------------------------------------------------------------------------
(* The invariant holds.                                                    *)

LEMMA MigrationsStart ==
  ASSUME SchemaInit
  PROVE  MInv
<1>1. PICK n \in Releases, x \in Experiments :
        /\ x.made # {} => n > 8
        /\ has = Released(n) \cup x.made
        /\ old = WrittenBy(n)
        /\ wallets = IF n > 0 THEN {1, 2} ELSE {}
        /\ active = x.active
        /\ \/ rows = AllUnique
           \/ \E t \in x.repeats, r \in Repetitions :
                n > 0 /\ (t = "operations" => r # "placeholders") /\ rows = [AllUnique EXCEPT ![t] = r]
           \/ n \in 5 .. 6 /\ rows = [AllUnique EXCEPT !["links"] = "duplicates"]
  BY DEF SchemaInit
<1>2. n \in 0 .. 14
  BY ReleasesAssumption, EarlierIsSane
<1>3. /\ x.made \subseteq (TableNames \X PartNames) \cup {Obj("operations", "narrowGuard")}
      /\ \A t : Obj(t, "hash") \notin x.made
      /\ x.active \subseteq {1, 2} /\ (x.active # {} => x.made # {})
      /\ x.repeats \subseteq {"awards", "operations"}
  <2>1. CASE x = [made |-> {}, active |-> {}, repeats |-> {"awards"}]
    BY <2>1
  <2>2. CASE x = [made |-> Parts("operations", {"table", "exactHash", "session", "narrowGuard"}),
                  active |-> {}, repeats |-> {"operations"}]
    <3>1. /\ x.active = {} /\ x.repeats = {"operations"}
          /\ x.made = {<<"operations", "table">>, <<"operations", "exactHash">>,
                       <<"operations", "session">>, <<"operations", "narrowGuard">>}
      BY <2>2 DEF Parts
    <3> QED BY <3>1 DEF Obj, TableNames, PartNames
  <2>3. ASSUME NEW ws \in SUBSET {1, 2}, x = [made |-> {Obj("users", "active")}, active |-> ws, repeats |-> {}]
        PROVE  /\ x.made \subseteq (TableNames \X PartNames) \cup {Obj("operations", "narrowGuard")}
               /\ \A t : Obj(t, "hash") \notin x.made
               /\ x.active \subseteq {1, 2} /\ (x.active # {} => x.made # {})
               /\ x.repeats \subseteq {"awards", "operations"}
    BY <2>3 DEF Obj, TableNames, PartNames
  <2> QED BY <2>1, <2>2, <2>3 DEF Experiments
<1>4. Released(n) \subseteq TableNames \X PartNames
  <2>1. SUFFICES ASSUME NEW o \in Released(n) PROVE o \in TableNames \X PartNames
    OBVIOUS
  <2>2. PICK i \in 1 .. n : o \in BuiltBy(Chain[i].steps)
    BY DEF Released
  <2>3. PICK j \in DOMAIN Chain[i].steps : o \in Created(Chain[i].steps[j].obj)
    BY <2>2 DEF BuiltBy
  <2>4. i \in 1 .. 21
    BY <1>2
  <2>5. Chain[i].steps[j].obj \in TableNames \X PartNames
    BY <2>3, <2>4, StepNumbers DEF Statement
  <2> QED BY <2>3, <2>5, CreatedIsPlain
<1>5. rows \in [GuardedTables -> Repetitions]
  BY <1>1, <1>3 DEF AllUnique, Repetitions
<1>6. SchemaTables
  <2>1. saved \in [{"policy", "alerts"} -> SavedChoices]
    BY DEF SchemaInit, SavedChoices
  <2>2. wallets \in {{}, {1, 2}}
    BY <1>1
  <2>3. active \subseteq wallets
    BY <1>1, <1>2, <1>3
  <2>4. old \subseteq {"awards", "spends", "links", "receipts"}
    BY <1>1 DEF WrittenBy
  <2> QED BY <1>1, <1>3, <1>4, <1>5, <2>1, <2>2, <2>3, <2>4 DEF SchemaTables
<1>7. Places
  <2>1. /\ \A c \in Containers : at[c] = [b |-> 0, s |-> 0, asked |-> FALSE]
        /\ at \in [Containers -> [b : 0 .. 22, s : Nat, asked : BOOLEAN]]
    BY DEF SchemaInit, Resting
  <2> QED BY <2>1 DEF Places, Migrating
<1>8. HashesUnique
  BY <1>1, <1>2, <1>3, ReleasedIsEarly DEF HashesUnique
<1>9. ASSUME NEW c \in Containers PROVE Behind(c)
  <2>1. at[c].b = 0
    BY DEF SchemaInit, Resting
  <2>2. ASSUME NEW i \in 1 .. 21 PROVE ~(i < at[c].b) /\ i # at[c].b
    BY <2>1
  <2> QED BY <2>2, MigrationIsSane DEF Behind
<1> QED BY <1>6, <1>7, <1>8, <1>9 DEF MInv

LEMMA MigrationsStep ==
  ASSUME MInv, [SchemaNext]_schemaVars
  PROVE  MInv' /\ Lasts
<1>1. CASE \E c \in Containers : Migrate(c) \/ Boot(c) \/ Command(c) \/ Stop(c)
  <2>1. PICK c \in Containers : Migrate(c) \/ Boot(c) \/ Command(c) \/ Stop(c)
    BY <1>1
  <2>2. Preserves /\ Moves(c)
    BY <2>1, MigrateKeeps, StartKeeps, StopKeeps
  <2>3. Places /\ Lasts
    BY <2>2 DEF MInv, Preserves
  <2>4. ASSUME NEW d \in Containers PROVE Behind(d)'
    <3>1. Advances(d)
      <4>1. CASE d = c
        BY <2>2, <4>1 DEF Moves
      <4>2. CASE d # c
        BY <2>2, <4>2 DEF Moves, Advances
      <4> QED BY <4>1, <4>2
    <3>2. Behind(d)
      BY DEF MInv
    <3> QED BY <2>3, <3>1, <3>2, BehindLasts
  <2> QED BY <2>2, <2>3, <2>4 DEF MInv, Preserves, Moves
<1>2. ASSUME Preserves, UNCHANGED at PROVE MInv' /\ Lasts
  <2>1. Places /\ Lasts
    BY <1>2 DEF MInv, Preserves
  <2>2. Places'
    BY <1>2, <2>1 DEF Places, Migrating
  <2>3. ASSUME NEW d \in Containers PROVE Behind(d)'
    <3>1. Behind(d) /\ Advances(d)
      BY <1>2 DEF MInv, Advances
    <3> QED BY <2>1, <3>1, BehindLasts
  <2> QED BY <1>2, <2>1, <2>2, <2>3 DEF MInv, Preserves
<1>3. CASE \E t \in old : WriteTwice(t)
  <2>1. PICK t \in old : WriteTwice(t)
    BY <1>3
  <2>2. Preserves /\ UNCHANGED at
    BY <2>1, WriteTwiceKeeps DEF WriteTwice
  <2> QED BY <1>2, <2>2
<1>4. CASE \E w \in wallets : Select(w)
  <2>1. PICK w \in wallets : Select(w)
    BY <1>4
  <2>2. Preserves /\ UNCHANGED at
    BY <2>1, SelectKeeps DEF Select
  <2> QED BY <1>2, <2>2
<1>5. CASE \E x \in {"policy", "alerts"} : Save(x)
  <2>1. PICK x \in {"policy", "alerts"} : Save(x)
    BY <1>5
  <2>2. Preserves /\ UNCHANGED at
    BY <2>1, SaveKeeps DEF Save
  <2> QED BY <1>2, <2>2
<1>6. CASE StopOld
  <2>1. Preserves /\ UNCHANGED at
    BY <1>6, SameTables DEF StopOld, MInv
  <2> QED BY <1>2, <2>1
<1>7. CASE Stage
  <2>1. Preserves /\ UNCHANGED at
    BY <1>7, StageKeeps DEF Stage
  <2> QED BY <1>2, <2>1
<1>8. CASE ApplyGuard
  <2>1. Preserves /\ UNCHANGED at
    BY <1>8, ApplyGuardKeeps DEF ApplyGuard
  <2> QED BY <1>2, <2>1
<1>9. CASE ApplyPolicy
  <2>1. Preserves /\ UNCHANGED at
    BY <1>9, ApplyPolicyKeeps DEF ApplyPolicy
  <2> QED BY <1>2, <2>1
<1>10. CASE UNCHANGED schemaVars
  <2>1. Preserves /\ UNCHANGED at
    BY <1>10, SameTables DEF schemaVars, MInv
  <2> QED BY <1>2, <2>1
<1> QED BY <1>1, <1>3, <1>4, <1>5, <1>6, <1>7, <1>8, <1>9, <1>10 DEF SchemaNext

\* A process that is up has all migrations behind it; what they were to make is
\* what the readiness checks look for.
LEMMA UpIsReady ==
  ASSUME MInv, NEW c \in Containers, Up(c)
  PROVE  /\ StrictReady
         /\ {Obj("operations", "sessionGuard"), Obj("users", "uidWallet"), Obj("users", "oneActive"),
             Obj("links", "wallet"), Obj("annotations", "request")} \subseteq has
         /\ Obj("operations", "narrowGuard") \notin has
         /\ ReadinessPasses
         /\ Cardinality(active) = IF wallets = {} THEN 0 ELSE 1
<1>1. ASSUME NEW i \in 1 .. 21 PROVE Passed(Chain[i])
  <2>1. at[c].b > 21
    BY ChainIsSane DEF Up
  <2>2. at[c].b \in 0 .. 22 /\ Behind(c) /\ DOMAIN Chain = 1 .. 21
    BY MigrationIsSane DEF MInv, Places
  <2> QED BY <2>1, <2>2 DEF Behind
<1>2. /\ Passed(M007) /\ Passed(M008) /\ Passed(M015) /\ Passed(M016) /\ Passed(M017) /\ Passed(M022)
      /\ Passed(M023) /\ Passed(M024) /\ Passed(M025)
  <2>1. 7 \in 1 .. 21 /\ 8 \in 1 .. 21 /\ 15 \in 1 .. 21 /\ 16 \in 1 .. 21 /\ 17 \in 1 .. 21 /\ 18 \in 1 .. 21
        /\ 19 \in 1 .. 21 /\ 20 \in 1 .. 21 /\ 21 \in 1 .. 21
    OBVIOUS
  <2>2. /\ Passed(Chain[7]) /\ Passed(Chain[8]) /\ Passed(Chain[15]) /\ Passed(Chain[16]) /\ Passed(Chain[17])
        /\ Passed(Chain[18]) /\ Passed(Chain[19]) /\ Passed(Chain[20]) /\ Passed(Chain[21])
    BY <1>1, <2>1
  <2> QED BY <2>2, ChainIsSane
<1>3. Obj("links", "wallet") \in has
  <2>1. CASE M007.unless \subseteq has
    BY <2>1 DEF M007, Migration
  <2>2. CASE \A st \in Steps(M007.steps) : Done(st)
    <3>1. Index("links", "wallet") \in Steps(M007.steps)
      <4>1. M007.steps = << Refuse("links"), Index("links", "wallet") >>
        BY DEF M007, Migration
      <4>2. 2 \in DOMAIN M007.steps /\ M007.steps[2] = Index("links", "wallet")
        BY <4>1
      <4> QED BY <4>2 DEF Steps
    <3> QED BY <2>2, <3>1 DEF Done, Index, Obj
  <2> QED BY <1>2, <2>1, <2>2 DEF Passed
<1>4. Obj("users", "uidWallet") \in has
  <2>1. Whole("users", "uidWallet") \in Steps(M008.steps) /\ M008.unless = {}
    <3>1. M008.steps = << Whole("users", "uidWallet") >> /\ M008.unless = {}
      BY DEF M008, Migration
    <3>2. 1 \in DOMAIN M008.steps /\ M008.steps[1] = Whole("users", "uidWallet")
      BY <3>1
    <3> QED BY <3>1, <3>2 DEF Steps
  <2>2. Done(Whole("users", "uidWallet"))
    BY <1>2, <2>1 DEF Passed
  <2> QED BY <2>2 DEF Done, Whole, Obj
<1>5. Obj("users", "oneActive") \in has /\ OneChosen
  <2>1. Whole("users", "oneActive") \in Steps(M022.steps) /\ M022.unless = {}
    <3>1. M022.steps = << Whole("users", "oneActive") >> /\ M022.unless = {}
      BY DEF M022, Migration
    <3>2. 1 \in DOMAIN M022.steps /\ M022.steps[1] = Whole("users", "oneActive")
      BY <3>1
    <3> QED BY <3>1, <3>2 DEF Steps
  <2>2. Done(Whole("users", "oneActive"))
    BY <1>2, <2>1 DEF Passed
  <2> QED BY <2>2 DEF Done, Whole, Obj
<1>6. saved["policy"] # "none"
  <2>1. Seed("policy") \in Steps(M016.steps) /\ M016.unless = {}
    <3>1. M016.steps = << Need("policy", "table"), Seed("policy") >> /\ M016.unless = {}
      BY DEF M016, Migration
    <3>2. 2 \in DOMAIN M016.steps /\ M016.steps[2] = Seed("policy")
      BY <3>1
    <3> QED BY <3>1, <3>2 DEF Steps
  <2>2. Done(Seed("policy"))
    BY <1>2, <2>1 DEF Passed
  <2> QED BY <2>2 DEF Done, Seed
<1>7. saved["alerts"] # "none"
  <2>1. Seed("alerts") \in Steps(M024.steps) /\ M024.unless = {}
    <3>1. M024.steps = << Need("alerts", "table"), Seed("alerts") >> /\ M024.unless = {}
      BY DEF M024, Migration
    <3>2. 2 \in DOMAIN M024.steps /\ M024.steps[2] = Seed("alerts")
      BY <3>1
    <3> QED BY <3>1, <3>2 DEF Steps
  <2>2. Done(Seed("alerts"))
    BY <1>2, <2>1 DEF Passed
  <2> QED BY <2>2 DEF Done, Seed
<1>8. Obj("operations", "sessionGuard") \in has /\ Obj("operations", "narrowGuard") \notin has
  <2>1. Guard("operations", "sessionGuard") \in Steps(M017.steps) /\ M017.unless = {}
    <3>1. M017.steps = << Need("operations", "session"), Guard("operations", "sessionGuard") >> /\ M017.unless = {}
      BY DEF M017, Migration, SessionGuard
    <3>2. 2 \in DOMAIN M017.steps /\ M017.steps[2] = Guard("operations", "sessionGuard")
      BY <3>1
    <3> QED BY <3>1, <3>2 DEF Steps
  <2>2. Done(Guard("operations", "sessionGuard"))
    BY <1>2, <2>1 DEF Passed
  <2> QED BY <2>2 DEF Done, Guard, Obj
<1>9. Obj("annotations", "request") \in has
  <2>1. Index("annotations", "request") \in Steps(M025.steps) /\ M025.unless = {}
    <3>1. /\ M025.steps = << Need("annotations", "table"), Need("annotations", "subject"),
                             Need("annotations", "checks"), Index("annotations", "request") >>
          /\ M025.unless = {}
      BY DEF M025, Migration
    <3>2. 4 \in DOMAIN M025.steps /\ M025.steps[4] = Index("annotations", "request")
      BY <3>1
    <3> QED BY <3>1, <3>2 DEF Steps
  <2>2. Done(Index("annotations", "request"))
    BY <1>2, <2>1 DEF Passed
  <2> QED BY <2>2 DEF Done, Index, Obj
<1>10. /\ \A t \in {"awards", "spends", "receipts"} : Obj(t, "hash") \in has
       /\ rows["operations"] = "unique"
  <2>1. \A st \in Steps(M015.steps) : Done(st)
    BY <1>2 DEF Passed, M015, Migration
  <2>2. /\ Done(Refuse("operations")) /\ Done(Index("awards", "hash"))
        /\ Done(Index("spends", "hash")) /\ Done(Index("receipts", "hash"))
    BY <2>1, StepsOfMigrations
  <2> QED BY <2>2 DEF Done, Refuse, Index, Obj
<1>11. \A t \in HashTables : rows[t] = "unique"
  BY <1>10 DEF MInv, HashesUnique, HashTables
<1>12. BuiltBy(OperationTables) \cup BuiltBy(LeaseTables) \subseteq has
  <2>1. ASSUME NEW st \in Steps(OperationTables) \cup Steps(LeaseTables) PROVE Done(st)
    BY <1>2, StepsOfMigrations DEF Passed, M023, Migration
  <2>2. Steps(OperationTables) \cup Steps(LeaseTables) =
          {Need("operations", "table"), Need("operations", "context"),
           Need("operations", "hashCheck"), Index("operations", "hash"), Index("operations", "key"),
           Need("preparations", "table"), Need("preparations", "funding"),
           Need("preparations", "hashCheck"), Index("preparations", "key"),
           Need("leases", "table"), Need("leases", "context"), Index("leases", "nonce"),
           Need("reservations", "settlement")}
    <3>1. Steps(OperationTables) =
            {Need("operations", "table"), Need("operations", "context"),
             Need("operations", "hashCheck"), Index("operations", "hash"), Index("operations", "key"),
             Need("preparations", "table"), Need("preparations", "funding"),
             Need("preparations", "hashCheck"), Index("preparations", "key")}
      BY DEF Steps, OperationTables
    <3>2. Steps(LeaseTables) =
            {Need("leases", "table"), Need("leases", "context"), Index("leases", "nonce"),
             Need("reservations", "settlement")}
      BY DEF Steps, LeaseTables
    <3> QED BY <3>1, <3>2
  <2>3. ASSUME NEW st \in Steps(OperationTables) \cup Steps(LeaseTables)
        PROVE  st.obj \in has /\ Created(st.obj) \subseteq
                 {st.obj, Obj("operations", "context"), Obj("preparations", "funding"), Obj("leases", "context")}
    <3>1. st.obj \in has
      BY <2>1, <2>2, <2>3 DEF Done, Need, Index
    <3>2. st.obj[2] # "table" => Created(st.obj) = {st.obj}
      BY DEF Created
    <3>3. st.obj[2] = "table" =>
            st.obj \in {Obj("operations", "table"), Obj("preparations", "table"), Obj("leases", "table")}
      BY <2>2, <2>3 DEF Need, Index, Obj
    <3>4. /\ Created(Obj("operations", "table")) = {Obj("operations", "table"), Obj("operations", "context")}
          /\ Created(Obj("leases", "table")) = {Obj("leases", "table"), Obj("leases", "context")}
          /\ Created(Obj("preparations", "table")) = {Obj("preparations", "table"), Obj("preparations", "funding")}
      BY DEF Created, Columns, Parts, Obj
    <3> QED BY <3>1, <3>2, <3>3, <3>4
  <2>4. /\ Obj("operations", "context") \in has /\ Obj("preparations", "funding") \in has
        /\ Obj("leases", "context") \in has
    <3>1. /\ Need("operations", "context") \in Steps(OperationTables) \cup Steps(LeaseTables)
          /\ Need("preparations", "funding") \in Steps(OperationTables) \cup Steps(LeaseTables)
          /\ Need("leases", "context") \in Steps(OperationTables) \cup Steps(LeaseTables)
      BY <2>2
    <3>2. /\ Need("operations", "context").obj \in has /\ Need("preparations", "funding").obj \in has
          /\ Need("leases", "context").obj \in has
      BY <2>3, <3>1
    <3> QED BY <3>2 DEF Need, Obj
  <2>5. ASSUME NEW o \in BuiltBy(OperationTables) \cup BuiltBy(LeaseTables) PROVE o \in has
    <3>1. PICK st \in Steps(OperationTables) \cup Steps(LeaseTables) : o \in Created(st.obj)
      BY <2>5 DEF BuiltBy, Steps
    <3> QED BY <2>3, <2>4, <3>1
  <2> QED BY <2>5
<1>13. StrictReady /\ StagedReady
  BY <1>10, <1>11, <1>12 DEF StrictReady, StagedReady, NothingMissing, HashGuarded
<1>14. ReadinessPasses
  BY <1>6, <1>7, <1>13 DEF ReadinessPasses
<1>15. Cardinality(active) = IF wallets = {} THEN 0 ELSE 1
  BY <1>5, FS_EmptySet, FS_Singleton DEF OneChosen
<1> QED BY <1>3, <1>4, <1>5, <1>8, <1>9, <1>13, <1>14, <1>15
-----------------------------------------------------------------------------
(* The theorems.                                                           *)

LEMMA MigrationsSound == SchemaSpec => []MInv
<1>1. SchemaInit => MInv
  BY MigrationsStart
<1>2. MInv /\ [SchemaNext]_schemaVars => MInv'
  BY MigrationsStep
<1> QED BY <1>1, <1>2, PTL DEF SchemaSpec

\* Whatever releases, stops, reruns and commands came before, a container whose
\* migrate.ts has returned finds the safeguards its readiness checks look for,
\* with no repeated hash, a policy, alert settings and one selected wallet.
THEOREM ReadyOnceUp == SchemaSpec => []ReadyWhenUp
<1>1. MInv => ReadyWhenUp
  <2>1. SUFFICES ASSUME MInv, NEW c \in Containers, Up(c) PROVE ReadyWhenUp
    BY DEF ReadyWhenUp
  <2> QED BY <2>1, UpIsReady DEF ReadyWhenUp
<1> QED BY <1>1, MigrationsSound, PTL

\* No statement of a migration, rerun or command takes away a guard that keeps
\* movements, nonces, pairs or selections unique.
THEOREM GuardsRemain == SchemaSpec => GuardsStay
<1>1. Lasting \subseteq {o \in TableNames \X PartNames : o[2] \notin Replaced}
  BY DEF Lasting, HashTables, TableNames, PartNames, Replaced, Obj
<1>2. MInv /\ [SchemaNext]_schemaVars => [has \cap Lasting \subseteq has']_schemaVars
  BY <1>1, MigrationsStep DEF Lasts
<1> QED BY <1>2, MigrationsSound, PTL DEF SchemaSpec, GuardsStay

\* What an owner selected changes only when an owner selects, and what an
\* administrator saved is never replaced by a default.
THEOREM ChoicesRemain == SchemaSpec => ChoicesKept
<1> DEFINE Kept == /\ (Cardinality(active) = 1 /\ active' # active) => \E w \in wallets : Select(w)
                   /\ \A x \in {"policy", "alerts"} : saved[x] = "operator" => saved'[x] = "operator"
<1>1. ASSUME MInv, [SchemaNext]_schemaVars PROVE Kept
  <2>1. SchemaTables
    BY <1>1 DEF MInv
  <2>2. CASE UNCHANGED <<active, saved>>
    BY <2>2
  <2>3. ASSUME NEW c \in Containers, Migrate(c) PROVE Kept
    <3>1. CASE SeedRow(c)
      <4>1. /\ active' = active
            /\ saved' = [saved EXCEPT ![Here(c).obj[1]] = IF @ = "none" THEN "default" ELSE @]
        BY <3>1 DEF SeedRow
      <4> QED BY <2>1, <4>1 DEF SchemaTables
    <3>2. CASE SelectWallets(c)
      <4>1. active' = Backfilled /\ saved' = saved
        BY <3>2 DEF SelectWallets
      <4>2. ASSUME Cardinality(active) = 1 PROVE active' = active
        <5>1. active \subseteq {1, 2} /\ IsFiniteSet(active)
          <6>1. active \subseteq {1, 2}
            BY <2>1 DEF SchemaTables
          <6>2. IsFiniteSet({1} \cup {2})
            BY FS_Singleton, FS_Union
          <6>3. {1} \cup {2} = {1, 2}
            OBVIOUS
          <6> QED BY <6>1, <6>2, <6>3, FS_Subset
        <5>2. PICK w : active = {w}
          BY <4>2, <5>1, FS_Singleton
        <5> QED BY <2>1, <4>1, <5>2, BackfillChooses DEF SchemaTables
      <4> QED BY <4>1, <4>2
    <3>3. CASE Begin(c) \/ Ask(c) \/ Build(c) \/ CreateIndex(c) \/ DropGuard(c) \/ RefuseRepeats(c)
               \/ CreateSessionGuard(c) \/ ScopeUids(c)
      <4>1. UNCHANGED <<active, saved>>
        BY <3>3 DEF Begin, Ask, Build, CreateIndex, DropGuard, RefuseRepeats, CreateSessionGuard, ScopeUids
      <4> QED BY <2>2, <4>1
    <3> QED BY <2>3, <3>1, <3>2, <3>3 DEF Migrate
  <2>4. ASSUME NEW c \in Containers, Boot(c) \/ Command(c) \/ Stop(c) PROVE Kept
    BY <2>2, <2>4 DEF Boot, Command, Stop
  <2>5. ASSUME NEW w \in wallets, Select(w) PROVE Kept
    BY <2>5 DEF Select
  <2>6. ASSUME NEW x \in {"policy", "alerts"}, Save(x) PROVE Kept
    <3>1. active' = active /\ saved' = [saved EXCEPT ![x] = "operator"]
      BY <2>6 DEF Save
    <3> QED BY <2>1, <3>1 DEF SchemaTables
  <2>7. CASE (\E t \in old : WriteTwice(t)) \/ StopOld \/ Stage \/ ApplyGuard \/ UNCHANGED schemaVars
    <3>1. UNCHANGED <<active, saved>>
      BY <2>7 DEF WriteTwice, StopOld, Stage, ApplyGuard, schemaVars
    <3> QED BY <2>2, <3>1
  <2>8. CASE ApplyPolicy
    <3>1. active' = active /\ saved' = [saved EXCEPT !["policy"] = IF @ = "none" THEN "default" ELSE @]
      BY <2>8 DEF ApplyPolicy
    <3> QED BY <2>1, <3>1 DEF SchemaTables
  <2> QED BY <1>1, <2>3, <2>4, <2>5, <2>6, <2>7, <2>8 DEF SchemaNext
<1>2. MInv /\ [SchemaNext]_schemaVars => [Kept]_schemaVars
  BY <1>1
<1> QED BY <1>2, MigrationsSound, PTL DEF SchemaSpec, ChoicesKept
=============================================================================
