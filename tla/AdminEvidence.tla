--------------------------- MODULE AdminEvidence ---------------------------
(***************************************************************************)
(* The evidence report and the correction annotations of the admin API.    *)
(* A report reads three tables one by one while operations progress, joins *)
(* the rows of one transaction hash and counts the movements that are not  *)
(* in doubt. Annotations are appended to rows and never change them. What  *)
(* happened on chain is not part of this model: a row says what the code   *)
(* that wrote it believed.                                                 *)
(***************************************************************************)
EXTENDS Integers, FiniteSets, FiniteSetsExt

CONSTANTS
  Ops, Hashes, Absent,
  Plan,         \* the movement a key stands for: [dir, owner, amount, asset]
  Computed,      \* what the run of a take-over may have computed for an award
  Retained,     \* tables left by earlier versions: [ops, awards, spends]
  Queries,      \* a report's dates and filters: [from, to, owner, dir, status, unresolved]
  Annotators,   \* requests in flight
  Bodies,       \* bodies of annotation requests: [actor, key, subject, ref, reason]
  Owners, Assets,
  LastPeriod,   \* dates are the periods 0 .. LastPeriod
  SourceCap, MaxEvidenceFaults, MaxWrites

\* What the tables keep; an old row may not know its owner, its asset, its
\* outcome or when it was confirmed.
Sources == {"op", "award", "spend"}
Directions == {"award", "spend"}
Parties == Owners \cup {Absent}
Dates == 0 .. LastPeriod
LedgerRecord == [owner: Parties, amount: Nat, date: Dates]
Planned == [dir: Directions, owner: Parties, amount: Nat, asset: Assets \cup {Absent}]
Pending == {"submitting", "submitted", "unknown"}
OpStatuses == Pending \cup {"failed", "confirmed", "projected"}
OpOutcomes == {"confirmed", "no_movement", "unknown", "review"} \cup {Absent}
OpRecord ==
  [dir: Directions, owner: Parties, amount: Nat, asset: Assets \cup {Absent},
   status: OpStatuses, outcome: OpOutcomes, hash: Hashes \cup {Absent},
   created: Dates, updated: Dates, confirmed: Dates \cup {Absent}]
Asked ==
  [from: Nat, to: Nat, owner: Parties, dir: Directions \cup {Absent},
   status: OpStatuses \cup {Absent}, unresolved: BOOLEAN]

ASSUME BoundsAssumption ==
  SourceCap \in Nat \ {0} /\ MaxEvidenceFaults \in Nat /\ LastPeriod \in Nat /\ MaxWrites \in Nat /\ Computed \subseteq Nat
ASSUME AbsentAssumption ==
  Absent \notin Hashes /\ Absent \notin LedgerRecord /\ Absent \notin OpRecord /\ Absent \notin Nat
ASSUME BodiesAssumption == \A b \in Bodies : b.subject.src \in Sources
ASSUME PlanAssumption == Plan \in [Ops -> Planned \cup {Absent}]
ASSUME QueriesAssumption == Queries \subseteq Asked

\* The hashes of token_operations are unique; an operation of amount zero has
\* none, and one that is pending is not recorded as confirmed.
RetainedOps(os) ==
  /\ os \in [Ops -> OpRecord \cup {Absent}]
  /\ \A k \in Ops : os[k] # Absent =>
       /\ os[k].hash # Absent => os[k].amount # 0
       /\ os[k].status \in Pending => os[k].outcome # "confirmed"
  /\ \A k, l \in Ops : os[k] # Absent /\ os[l] # Absent /\ os[k].hash # Absent /\ os[k].hash = os[l].hash => k = l

ASSUME RetainedAssumption ==
  \A t \in Retained :
    /\ RetainedOps(t.ops)
    /\ t.awards \in [Hashes -> LedgerRecord \cup {Absent}]
    /\ t.spends \in [Hashes -> LedgerRecord \cup {Absent}]

VARIABLES
  ops, awards, spends,  \* token_operations by key, awards and spends by hash
  period,               \* the date of now
  writes,               \* rows written so far
  report, annotations, asks, lock, faults

tables == <<ops, awards, spends>>
evidenceVars == <<ops, awards, spends, period, writes, report, annotations, asks, lock, faults>>

ReportedOutcomes == {"confirmed", "no_movement", "unknown", "review"}
-----------------------------------------------------------------------------
(* Rows: mapRawRow and activityFor.                                        *)

\* movementOutcomeFor: an operation's stored outcome wins over its status; an
\* award or spend row without a status is a confirmed one.
OpOutcome(o) ==
  IF o.outcome # Absent THEN o.outcome
  ELSE IF o.status \in {"confirmed", "projected"} THEN "confirmed"
  ELSE IF o.status = "failed" THEN "no_movement" ELSE "unknown"

\* The projection date is written with updated and never differs from it.
OpRow(k) ==
  [src |-> "op", id |-> k, dir |-> ops[k].dir, owner |-> ops[k].owner, amount |-> ops[k].amount, status |-> ops[k].status,
   outcome |-> OpOutcome(ops[k]), hash |-> ops[k].hash, asset |-> ops[k].asset,
   activity |-> IF ops[k].confirmed # Absent THEN ops[k].confirmed ELSE ops[k].updated]

LedgerRow(src, h, rec) ==
  [src |-> src, id |-> h, dir |-> src, owner |-> rec.owner, amount |-> rec.amount, status |-> "confirmed",
   outcome |-> "confirmed", hash |-> h, asset |-> Absent, activity |-> rec.date]

Ledger(src) == IF src = "award" THEN awards ELSE spends

\* The keys of a table, and the row of one.
Kept(src) == IF src = "op" THEN {k \in Ops : ops[k] # Absent} ELSE {h \in Hashes : Ledger(src)[h] # Absent}
RowOf(src, id) == IF src = "op" THEN OpRow(id) ELSE LedgerRow(src, id, Ledger(src)[id])

\* tableDatePredicate: a row is read if any of its dates is in the window.
Window(q) == q.from .. q.to
CreatedAt(src, id) == IF src = "op" THEN ops[id].created ELSE Ledger(src)[id].date
DatesOf(src, id) ==
  IF src = "op" THEN {ops[id].created, ops[id].updated, ops[id].confirmed} ELSE {Ledger(src)[id].date}

Table(src, q) == {RowOf(src, id) : id \in {i \in Kept(src) : DatesOf(src, i) \cap Window(q) # {}}}

SameMovement(l, r) ==
  /\ l.dir = r.dir /\ l.amount = r.amount
  /\ l.owner # Absent /\ r.owner # Absent => l.owner = r.owner

\* The rows g of one hash are in doubt: several known assets or operations,
\* rows of one asset that differ, or rows of unknown asset that mirror none of
\* the known ones.
Conflict(g) ==
  LET known == {r \in g : r.asset # Absent}
      unknown == g \ known
      of(a) == {r \in g : r.asset = a}
      leads(rs) == IF \E r \in rs : r.src = "op" THEN {r \in rs : r.src = "op"} ELSE rs
      differ(rs) == \/ Cardinality({r \in rs : r.src = "op"}) > 1
                    \/ \E r \in rs, lead \in leads(rs) : ~ SameMovement(r, lead)
  IN  \/ Cardinality({r.asset : r \in known}) > 1
      \/ \E a \in {r.asset : r \in g} : differ(of(a))
      \/ known # {} /\ \E r \in unknown : \A k \in known : ~ SameMovement(r, k)

\* The row that stands for the others: the operation, or the first row.
Chosen(g) ==
  LET known == {r \in g : r.asset # Absent}
      best == IF known # {} THEN known ELSE g
  IN  IF \E r \in best : r.src = "op" THEN CHOOSE r \in best : r.src = "op" ELSE CHOOSE r \in best : TRUE

\* dedupeRows: rows without a hash stay; rows of one hash become one row, or
\* are all marked for review when they are in doubt.
Dedupe(rows) ==
  LET of(h) == {r \in rows : r.hash = h}
      joined(h) == IF Conflict(of(h)) THEN {[r EXCEPT !.outcome = "review"] : r \in of(h)} ELSE {Chosen(of(h))}
  IN  of(Absent) \cup UNION {joined(h) : h \in {r.hash : r \in rows} \ {Absent}}

NeedsAttention(r) == r.outcome # "confirmed" \/ (r.src = "op" /\ r.status # "projected")

Matches(r, q) ==
  /\ r.activity \in Window(q)
  /\ q.owner # Absent => r.owner = q.owner
  /\ q.dir # Absent => r.dir = q.dir
  /\ q.status # Absent => r.status = q.status
  /\ q.unresolved => NeedsAttention(r)

\* Mutant: the filters come first.
SelectFirst(rows, q) == Dedupe({r \in rows : Matches(r, q)})

\* The dates of the report and its filters apply to the joined rows.
Select(rows, q) == {r \in Dedupe(rows) : Matches(r, q)}

\* sourceTotals: what the report counts.
Counted(rows) == {r \in rows : r.outcome = "confirmed" /\ r.hash # Absent}
-----------------------------------------------------------------------------
(* The report.                                                             *)

NoReport ==
  [at |-> "idle", query |-> Absent, got |-> [s \in Sources |-> Absent], flagged |-> FALSE,
   rows |-> {}, held |-> {}, due |-> {}]

\* For the properties: the rows created in the window, and the movements that
\* were confirmed in it and are projected.
Held(q) == UNION {{RowOf(s, id) : id \in {i \in Kept(s) : CreatedAt(s, i) \in Window(q)}} : s \in Sources}
Due(q) ==
  {h \in Hashes : \E k \in Ops :
     /\ ops[k] # Absent /\ ops[k].hash = h /\ ops[k].status = "projected"
     /\ OpOutcome(ops[k]) = "confirmed" /\ ops[k].confirmed \in Window(q)}

Begin(q) ==
  /\ report.at = "idle"
  /\ report' = [NoReport EXCEPT !.at = "reading", !.query = q, !.held = Held(q), !.due = Due(q)]
  /\ UNCHANGED <<tables, period, writes, annotations, asks, lock, faults>>

\* loadSource: a table is read by itself, up to a cap; a failed read yields no
\* rows. Both are told in the report.
Read(src) ==
  /\ report.at = "reading" /\ report.got[src] = Absent
  /\ LET found == Table(src, report.query)
     IN  \/ /\ Cardinality(found) <= SourceCap
            /\ report' = [report EXCEPT !.got[src] = found] /\ UNCHANGED faults
         \/ /\ Cardinality(found) > SourceCap /\ UNCHANGED faults
            /\ \E rows \in kSubset(SourceCap, found) :
                 report' = [report EXCEPT !.got[src] = rows, !.flagged = TRUE]
         \/ /\ faults < MaxEvidenceFaults /\ faults' = faults + 1
            /\ report' = [report EXCEPT !.got[src] = {}, !.flagged = TRUE]
  /\ UNCHANGED <<tables, period, writes, annotations, asks, lock>>

Build ==
  /\ report.at = "reading" /\ \A s \in Sources : report.got[s] # Absent
  /\ LET all == UNION {report.got[s] : s \in Sources}
     IN  report' = [report EXCEPT !.at = "done", !.got = NoReport.got, !.rows = Select(all, report.query)]
  /\ UNCHANGED <<tables, period, writes, annotations, asks, lock, faults>>
-----------------------------------------------------------------------------
(* The operations meanwhile: what TokenOperations and the signer's         *)
(* preparation write, from any run that serves the operation.              *)

\* A hash that no row has; a signed transaction has a hash of its own.
Free(h) ==
  /\ \A k \in Ops : ops[k] # Absent => ops[k].hash # h
  /\ awards[h] = Absent /\ spends[h] = Absent

Has(k, h) == ops[k].hash = h \/ (ops[k].hash = Absent /\ Free(h))

OpsWritten(k, o) ==
  /\ writes < MaxWrites /\ writes' = writes + 1
  /\ ops' = [ops EXCEPT ![k] = o]
  /\ UNCHANGED <<awards, spends, period, report, annotations, asks, lock, faults>>

\* claim: a new row, or one that failed before a transfer was prepared.
Claim(k) ==
  \/ /\ ops[k] = Absent /\ Plan[k] # Absent
     /\ OpsWritten(k, [dir |-> Plan[k].dir, owner |-> Plan[k].owner, amount |-> Plan[k].amount, asset |-> Plan[k].asset,
                       status |-> "submitting", outcome |-> "unknown", hash |-> Absent,
                       created |-> period, updated |-> period, confirmed |-> Absent])
  \/ /\ ops[k] # Absent /\ ops[k].status = "failed" /\ ops[k].hash = Absent
     /\ OpsWritten(k, [ops[k] EXCEPT !.status = "submitting", !.outcome = "unknown", !.updated = period])

\* The signer saves the hash before it sends; the row is submitting again.
Prepared(k, h) ==
  /\ ops[k] # Absent /\ ops[k].status \in Pending /\ ops[k].amount # 0 /\ Has(k, h)
  /\ OpsWritten(k, [ops[k] EXCEPT !.status = "submitting", !.hash = h, !.updated = period,
                                  !.outcome = IF @ = Absent THEN "unknown" ELSE @])

\* markSubmitted.
Submitted(k, h) ==
  /\ ops[k] # Absent /\ ops[k].status \in Pending /\ ops[k].amount # 0 /\ Has(k, h)
  /\ OpsWritten(k, [ops[k] EXCEPT !.status = "submitted", !.hash = h, !.updated = period])

\* markUnknown.
BecomesUnknown(k) ==
  /\ ops[k] # Absent /\ ops[k].status \in Pending
  /\ OpsWritten(k, [ops[k] EXCEPT !.status = "unknown", !.updated = period])

\* markConfirmed: a second confirmation is dated anew.
Confirmed(k) ==
  /\ ops[k] # Absent /\ ops[k].hash # Absent /\ ops[k].status \in Pending \cup {"confirmed"}
  /\ OpsWritten(k, [ops[k] EXCEPT !.status = "confirmed", !.outcome = "confirmed", !.updated = period, !.confirmed = period])

\* markProjectionError leaves the outcome as it was.
ProjectionFails(k) ==
  /\ ops[k] # Absent /\ ops[k].hash # Absent /\ ops[k].status \in Pending \cup {"confirmed"}
  /\ OpsWritten(k, [ops[k] EXCEPT !.status = "confirmed", !.updated = period])

\* markProjected: of any row that did not fail, sent or not.
Projected(k) ==
  /\ ops[k] # Absent /\ ops[k].status # "failed" /\ (ops[k].hash # Absent \/ ops[k].amount = 0)
  /\ OpsWritten(k, [ops[k] EXCEPT !.status = "projected", !.updated = period,
                                  !.outcome = IF ops[k].amount = 0 THEN "no_movement" ELSE "confirmed"])

\* markFailed, after evidence against the transfer or evidence in doubt.
Failed(k) ==
  /\ ops[k] # Absent /\ ops[k].hash # Absent /\ ops[k].status \in Pending
  /\ \E outcome \in {"no_movement", "review"} :
       OpsWritten(k, [ops[k] EXCEPT !.status = "failed", !.outcome = outcome, !.updated = period])

\* markPreflightFailed.
FailedPreflight(k) ==
  /\ ops[k] # Absent /\ ops[k].hash = Absent
  /\ OpsWritten(k, [ops[k] EXCEPT !.status = "failed", !.outcome = "no_movement", !.updated = period])

\* recordAward and recordSpend: one row for a hash. An award is recorded with
\* the amount of the run that records it.
Recorded(k) ==
  /\ ops[k] # Absent /\ ops[k].hash # Absent /\ Ledger(ops[k].dir)[ops[k].hash] = Absent
  /\ writes < MaxWrites /\ writes' = writes + 1
  /\ IF ops[k].dir = "award"
       THEN /\ \E a \in Computed \cup {ops[k].amount} :
                 awards' = [awards EXCEPT ![ops[k].hash] = [owner |-> ops[k].owner, amount |-> a, date |-> period]]
            /\ UNCHANGED spends
       ELSE /\ spends' = [spends EXCEPT ![ops[k].hash] = [owner |-> ops[k].owner, amount |-> ops[k].amount, date |-> period]]
            /\ UNCHANGED awards
  /\ UNCHANGED <<ops, period, report, annotations, asks, lock, faults>>

PeriodEnds ==
  /\ period < LastPeriod /\ period' = period + 1
  /\ UNCHANGED <<tables, writes, report, annotations, asks, lock, faults>>
-----------------------------------------------------------------------------
(* POST /admin/correction-annotations.                                     *)

\* sameAnnotationPayload, for requests of one actor and key.
Prior(body) == {a \in annotations : a.body.actor = body.actor /\ a.body.key = body.key}

Ask(n, body) ==
  /\ asks[n].at = "idle"
  /\ asks' = [asks EXCEPT ![n] = [at |-> "lock", body |-> body, answer |-> Absent, target |-> Absent]]
  /\ UNCHANGED <<tables, period, writes, report, annotations, lock, faults>>

Answer(n, what) == [asks[n] EXCEPT !.at = "answered", !.answer = what, !.target = Absent]

SubjectRow(subject) == {RowOf(subject.src, id) : id \in Kept(subject.src) \cap {subject.id}}

\* Mutant: the request is not serialised with its repetitions.
LookupUnlocked(n) ==
  /\ asks[n].at = "lock" /\ UNCHANGED lock
  /\ LET body == asks[n].body
     IN  IF Prior(body) # {}
           THEN asks' = [asks EXCEPT ![n] = Answer(n, IF \E a \in Prior(body) : a.body = body THEN "stored" ELSE "conflict")]
           ELSE IF SubjectRow(body.subject) = {}
                  THEN asks' = [asks EXCEPT ![n] = Answer(n, "not_found")]
                  ELSE \E r \in SubjectRow(body.subject) :
                         asks' = [asks EXCEPT ![n].at = "write", ![n].target = [owner |-> r.owner, asset |-> r.asset]]
  /\ UNCHANGED <<tables, period, writes, report, annotations, faults>>

\* Under the lock of actor and key: a stored annotation answers its repetition
\* and refuses another payload; otherwise the subject is read.
Lookup(n) ==
  /\ asks[n].at = "lock"
  /\ LET body == asks[n].body
         id == <<body.actor, body.key>>
     IN  /\ id \notin lock
         /\ IF Prior(body) # {}
              THEN /\ asks' = [asks EXCEPT ![n] = Answer(n, IF \E a \in Prior(body) : a.body = body THEN "stored" ELSE "conflict")]
                   /\ UNCHANGED lock
              ELSE IF SubjectRow(body.subject) = {}
                     THEN asks' = [asks EXCEPT ![n] = Answer(n, "not_found")] /\ UNCHANGED lock
                     ELSE /\ \E r \in SubjectRow(body.subject) :
                               asks' = [asks EXCEPT ![n].at = "write", ![n].target = [owner |-> r.owner, asset |-> r.asset]]
                          /\ lock' = lock \cup {id}
  /\ UNCHANGED <<tables, period, writes, report, annotations, faults>>

\* transactionReference: every retained row of the hash.
Candidates(h) == UNION {{RowOf(s, id) : id \in {i \in Kept(s) : RowOf(s, i).hash = h}} : s \in Sources}
RefOwners(h) == {r.owner : r \in Candidates(h)} \ {Absent}
RefAssets(h) == {r.asset : r \in Candidates(h)} \ {Absent}

\* The rows agree with each other about the owner, and with the target about
\* owner and asset where both are known.
Agrees(h, target) ==
  /\ Cardinality(RefOwners(h)) <= 1
  /\ target.owner # Absent => RefOwners(h) \subseteq {target.owner}
  /\ target.asset # Absent /\ Cardinality(RefAssets(h)) = 1 => RefAssets(h) = {target.asset}

\* The reference is resolved and the annotation inserted; the table takes one
\* row per actor and key.
Annotate(n) ==
  /\ asks[n].at = "write"
  /\ LET body == asks[n].body
         h == body.ref
         asset == IF h # Absent /\ Cardinality(RefAssets(h)) = 1 THEN RefAssets(h) ELSE {}
     IN  /\ lock' = lock \ {<<body.actor, body.key>>}
         /\ IF h # Absent /\ (Candidates(h) = {} \/ ~ Agrees(h, asks[n].target))
              THEN asks' = [asks EXCEPT ![n] = Answer(n, "refused")] /\ UNCHANGED <<annotations, faults>>
            ELSE IF Prior(body) # {}
              THEN asks' = [asks EXCEPT ![n] = Answer(n, "error")] /\ UNCHANGED <<annotations, faults>>
            ELSE \/ /\ annotations' = annotations \cup {[body |-> body, asset |-> asset]} /\ UNCHANGED faults
                    /\ \E told \in {"stored", "lost"} : asks' = [asks EXCEPT ![n] = Answer(n, told)]
                 \/ /\ faults < MaxEvidenceFaults /\ faults' = faults + 1 /\ UNCHANGED annotations
                    /\ asks' = [asks EXCEPT ![n] = Answer(n, "error")]
  /\ UNCHANGED <<tables, period, writes, report>>
-----------------------------------------------------------------------------
EvidenceInit ==
  /\ \E t \in Retained : ops = t.ops /\ awards = t.awards /\ spends = t.spends
  /\ period = 0 /\ writes = 0 /\ report = NoReport /\ annotations = {} /\ lock = {} /\ faults = 0
  /\ asks = [n \in Annotators |-> [at |-> "idle", body |-> Absent, answer |-> Absent, target |-> Absent]]

OperationsNext(k) ==
  \/ \E h \in Hashes : Prepared(k, h) \/ Submitted(k, h)
  \/ Claim(k) \/ BecomesUnknown(k) \/ Confirmed(k) \/ ProjectionFails(k) \/ Projected(k)
  \/ Failed(k) \/ FailedPreflight(k) \/ Recorded(k)

EvidenceNext ==
  \/ \E q \in Queries : Begin(q)
  \/ \E s \in Sources : Read(s)
  \/ Build
  \/ \E k \in Ops : OperationsNext(k)
  \/ PeriodEnds
  \/ \E n \in Annotators, body \in Bodies : Ask(n, body)
  \/ \E n \in Annotators : Lookup(n) \/ Annotate(n)

EvidenceSpec == EvidenceInit /\ [][EvidenceNext]_evidenceVars
-----------------------------------------------------------------------------
EvidenceTypeOK ==
  /\ report.at \in {"idle", "reading", "done"} /\ faults \in 0 .. MaxEvidenceFaults /\ period \in Dates
  /\ \A r \in report.rows : r.src \in Sources /\ r.outcome \in ReportedOutcomes
  /\ \A n \in Annotators : asks[n].at \in {"idle", "lock", "write", "answered"}
  /\ \A a \in annotations : a.body \in Bodies

\* No movement is counted twice, whatever was retained and whenever the three
\* tables were read.
CountedOnce ==
  \A r, s \in Counted(report.rows) : r.hash = s.hash => r = s

\* A counted movement agrees with every row of its hash that was created in the
\* window before the report began, also with the rows that the filters hide,
\* unless the report says that a table was not read whole.
CountedAgrees ==
  report.at = "done" /\ ~ report.flagged =>
    \A r \in Counted(report.rows), s \in report.held :
      r.hash = s.hash => SameMovement(s, r) /\ (s.asset # Absent /\ r.asset # Absent => s.asset = r.asset)

\* An operation that was counted is never recorded as failed or in doubt later.
CountedStays ==
  \A r \in Counted(report.rows) : r.src = "op" =>
    ops[r.id].hash = r.hash /\ OpOutcome(ops[r.id]) = "confirmed"

\* A movement of the window that was projected when the report began is counted
\* or shown for review, unless the report says that a table was not read whole.
NothingIsMissing ==
  LET q == report.query
  IN  report.at = "done" /\ ~ report.flagged /\ q.owner = Absent /\ q.dir = Absent /\ q.status = Absent /\ ~ q.unresolved =>
        \A h \in report.due : \E r \in report.rows : r.hash = h /\ r.outcome \in {"confirmed", "review"}

\* A repetition of a stored request is answered with what was stored.
RepeatIsAnswered ==
  [][\A n \in Annotators :
       asks[n].at # "answered" /\ asks'[n].at = "answered" /\ (\E a \in annotations : a.body = asks[n].body)
         => asks'[n].answer = "stored"]_evidenceVars

\* The rows of the transfer that an annotation refers to know no owner and no
\* asset but those of the annotated row, also when rows are added later.
ReferencesAgree ==
  \A a \in annotations : a.body.ref # Absent =>
    \A r \in SubjectRow(a.body.subject), s \in Candidates(a.body.ref) :
      /\ r.owner # Absent /\ s.owner # Absent => r.owner = s.owner
      /\ r.asset # Absent /\ s.asset # Absent => r.asset = s.asset

\* A report that is not flagged counts a movement once, never one that a row of
\* its window contradicts, and misses none, though its three tables are read at
\* different moments.
ReportIsTrue == EvidenceTypeOK /\ CountedOnce /\ CountedAgrees /\ CountedStays /\ NothingIsMissing

\* An annotation agrees with the rows it connects, and a repeated request is
\* answered with what was stored, whatever is asked and recorded meanwhile.
AnnotationsHold == []ReferencesAgree /\ RepeatIsAnswered
=============================================================================
