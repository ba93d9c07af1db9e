--------------------------- MODULE CdrNormaliser ---------------------------
(***************************************************************************)
(* How a charging data record becomes an award intent: the strict          *)
(* normaliser that every financial path uses, the identities an award is   *)
(* claimed under, and the snapshot a restart recovers the claim from. The  *)
(* claim itself and its races are AwardExecutor's, whose SessionOf and     *)
(* DedupOf stand for the identities computed here.                         *)
(*                                                                         *)
(* A record is a function from wire fields to values. None is an absent    *)
(* field and Blank an empty string, which most reads skip and the ones     *)
(* written with ?? do not. Records arrive one after the other, in any      *)
(* order and as often as the partner sends them.                           *)
(***************************************************************************)
EXTENDS Integers, FiniteSets, SequencesExt

CONSTANTS
  Records,   \* the records that are delivered
  MaxDeliveries, \* bound on the deliveries
  ZoneOf,    \* the canonical zone of a zone text, or None if there is none
  None, Blank

\* hasCdrValue
Present(v) == v \notin {None, Blank}

\* firstPresent: the first field with a value, in the order of the code.
FirstOf(c, fields) ==
  LET first == SelectInSeq(fields, LAMBDA f : Present(c[f]))
  IN  IF first = 0 THEN None ELSE fields[first]

\* Mutant: only the first spelling is looked at.
CoalescedFirst(c, fields) == c[Head(fields)]

\* a ?? b: the first that is not null; an empty string ends the search.
Coalesced(c, fields) ==
  LET first == SelectInSeq(fields, LAMBDA f : c[f] # None)
  IN  IF first = 0 THEN None ELSE c[fields[first]]

SessionFields == <<"SessionID", "sessionId", "id", "session_id">>
ProviderFields == <<"ProviderID", "providerId", "provider", "HubProviderID", "provider_id",
                    "custom_data.provider_id", "party_id">>
EvseFields == <<"EVSEID", "EvseID", "evseId", "evse", "cdr_location.evse_id",
                "cdr_location_evse_id", "evse_id">>
StartFields == <<"Session Start", "SessionStart", "Charging Start", "ChargingStart",
                 "StartTime", "timestamp", "start_date_time">>
EndFields == <<"Session End", "SessionEnd", "Charging End", "ChargingEnd", "EndTime",
               "end_date_time">>
EnergyFields == <<"Consumed Energy", "ConsumedEnergy", "Energy", "chargedEnergyKwh",
                  "charged", "total_energy">>
DirectionFields == <<"EnergyDirection", "energyDirection", "energy_direction">>

\* Where an owner may be named, in the order of collectEmaidCandidates. The
\* contract fields are one level of Identification each: EvcoID stands for the
\* three spellings, RemoteIdentification for the four variants.
OcpiOwners == <<"cdr_token.contract_id", "cdr_token_contract_id">>
OicpOwners == <<"ContractID", "Identification.EvcoID",
                "Identification.RemoteIdentification.EvcoID", "identification.EvcoID",
                "identification.RemoteIdentification.EvcoID">>
OwnerFields == OcpiOwners \o OicpOwners

\* Card numbers; never owners.
UidFields == <<"UID", "uid", "cdr_token_uid", "cdr_token.uid",
               "Identification.RemoteIdentification.UID">>

ZoneFields == <<"timeZone", "custom_data.time_zone", "cdr_location.time_zone">>
CorrectionReferences == <<"correction_reference_id", "CorrectionReferenceID">>
CorrectionFlags == <<"correction", "Correction", "is_correction", "isCorrection">>
StatusFields == <<"Operation Status", "OperationStatus", "operation_status">>
KindFields ==
  <<"credit", "credit_reference_id">> \o CorrectionReferences \o CorrectionFlags \o StatusFields

WireFields ==
  ToSet(SessionFields \o ProviderFields \o EvseFields \o StartFields \o EndFields
        \o EnergyFields \o DirectionFields \o OwnerFields \o UidFields \o ZoneFields
        \o KindFields \o <<"country_code">>)

\* None is no field and no flag, and a date that is written as one has a year.
ASSUME RecordsAssumption ==
  /\ None \notin WireFields \cup {"true", "credit", "correction"} /\ MaxDeliveries \in Nat
  /\ \A c \in Records : \A f \in ToSet(StartFields \o EndFields) :
       Present(c[f]) /\ c[f].form = "iso" => c[f].year \in Nat
-----------------------------------------------------------------------------
(* Timestamps and energy.                                                  *)

LeapYear(y) == y % 4 = 0 /\ (y % 100 # 0 \/ y % 400 = 0)

DaysInMonth(y, m) ==
  <<31, IF LeapYear(y) THEN 29 ELSE 28, 31, 30, 31, 30, 31, 31, 30, 31, 30, 31>>[m]

\* ISO8601 with an explicit offset, a date that exists, and a time of day.
\* Serial numbers and local times are refused by their form.
ValidDate(t) ==
  /\ t.form = "iso"
  /\ t.month \in 1..12 /\ t.day \in 1..DaysInMonth(t.year, t.month)
  /\ t.hour <= 23 /\ t.minute <= 59
  /\ t.offset.hours <= 23 /\ t.offset.minutes <= 59

\* new Date(text), in minutes: the day number of a date (a day past the end
\* of its month rolls over), the time of day and the offset.
DayNumber(y, m, d) ==
  LET before(x) == (x - 1) \div 4 - (x - 1) \div 100 + (x - 1) \div 400   \* leap years
      leap == y % 4 = 0 /\ (y % 100 # 0 \/ y % 400 = 0)
      march == IF leap THEN 60 ELSE 59
      days == <<0, 31, march, march + 31, march + 61, march + 92, march + 122, march + 153,
                march + 184, march + 214, march + 245, march + 275>>
  IN  365 * (y - 1970) + before(y) - before(1970) + days[m] + d - 1

Instant(t) ==
  (DayNumber(t.year, t.month, t.day) * 24 + t.hour) * 60 + t.minute
    - t.offset.sign * (t.offset.hours * 60 + t.offset.minutes)

\* parseEnergyValue accepts a finite number, or digits in which every dot but
\* the last separates thousands.
ValidEnergy(e) ==
  \/ e.form = "number"
  \/ /\ e.form = "text"
     /\ Len(e.parts) > 2 =>
          /\ e.parts[1].len \in 1..3
          /\ \A i \in 2..(Len(e.parts) - 1) : e.parts[i].len = 3

\* The digits of all groups, read as one number.
Digits(parts) ==
  LET upTo[i \in 0..Len(parts)] ==
        IF i = 0 THEN 0 ELSE upTo[i - 1] * 10^parts[i].len + parts[i].val
  IN  upTo[Len(parts)]

\* In thousandths of a kWh.
EnergyNumber(e) ==
  IF e.form = "number" THEN e.thousandths
  ELSE e.sign * (IF Len(e.parts) = 1 THEN Digits(e.parts) * 1000
                 ELSE Digits(Front(e.parts)) * 1000
                        + (Last(e.parts).val * 1000) \div (10^Last(e.parts).len))
-----------------------------------------------------------------------------
(* validateAndNormaliseCdr.                                                *)

\* rejectUnsupportedCdrKind
SupportedKind(c) ==
  /\ Present(c["credit"]) => c["credit"] = "false"
  /\ ~Present(c["credit_reference_id"])
  /\ ~Present(Coalesced(c, CorrectionReferences))
  /\ Coalesced(c, CorrectionFlags) # "true"
  /\ Coalesced(c, StatusFields) \notin {"credit", "correction"}

\* resolveCdrTimeZone: every zone stated is known, and they are all one.
ZonesAgree(c) ==
  LET stated == {f \in ToSet(ZoneFields) : Present(c[f])} IN
  /\ \A f \in stated : ZoneOf[c[f]] # None
  /\ \A f, g \in stated : ZoneOf[c[f]] = ZoneOf[c[g]]

Zone(c) == LET f == FirstOf(c, ZoneFields) IN IF f = None THEN None ELSE ZoneOf[c[f]]

\* stringValue: an object is not an identifier. Identifiers are sequences of
\* symbols, because the legacy key joins two of them.
Object == <<"object">>
Scalar(c, fields) ==
  LET f == FirstOf(c, fields) IN f # None /\ c[f] # Object

\* detectCdrProtocol, from the fields that are there.
OcpiStructure ==
  {"id", "country_code", "party_id", "session_id", "start_date_time", "end_date_time",
   "cdr_token.contract_id", "cdr_token.uid", "cdr_token_contract_id",
   "cdr_location.evse_id", "cdr_location.time_zone", "cdr_location_evse_id", "total_energy"}
OicpStructure ==
  ToSet(OicpOwners) \cup {"Identification.RemoteIdentification.UID", "EvseID",
                          "ChargingStart", "ChargingEnd", "ConsumedEnergy"}
FlatStructure == {"SessionID", "ProviderID", "EVSEID", "UID"}

Protocol(c) ==
  LET has(fields) == \E f \in fields : Present(c[f]) IN
  IF has(OcpiStructure) /\ has(OicpStructure) THEN "MIXED"
  ELSE IF has(OcpiStructure) THEN "OCPI"
  ELSE IF has(OicpStructure) \/ has(FlatStructure) THEN "OICP"
  ELSE "UNKNOWN"

\* addEmaidCandidate: a number or surrounding space is an error, the text
\* "null" is skipped.
Owners(c) == {f \in ToSet(OwnerFields) : Present(c[f]) /\ c[f] # "null"}
OwnersWellFormed(c) == \A f \in Owners(c) : c[f] \notin {"number", "padded"}

\* Mutant: only neighbouring candidates of one protocol are compared.
IdentityErrorOneProtocol(c) ==
  IF ~OwnersWellFormed(c) THEN "INVALID_EMAID"
  ELSE IF Owners(c) = {} THEN "MISSING_EMAID"
  ELSE IF \E f, g \in Owners(c) \cap ToSet(OicpOwners) : c[f] # c[g]
       THEN "CONFLICTING_IDENTIFIERS"
  ELSE "ok"

\* resolveEmaid
IdentityError(c) ==
  IF ~OwnersWellFormed(c) THEN "INVALID_EMAID"
  ELSE IF Owners(c) = {}
       THEN (IF FirstOf(c, UidFields) # None THEN "UID_ONLY" ELSE "MISSING_EMAID")
  ELSE IF \E f, g \in Owners(c) : c[f] # c[g] THEN "CONFLICTING_IDENTIFIERS"
  ELSE "ok"

\* The owner fields of two protocols make a record mixed; an unknown record
\* has the protocol of the field that names the owner.
ResolvedProtocol(c) ==
  LET owners == Owners(c) IN
  IF owners \cap ToSet(OcpiOwners) # {} /\ owners \cap ToSet(OicpOwners) # {} THEN "MIXED"
  ELSE IF Protocol(c) = "UNKNOWN"
       THEN (IF owners \cap ToSet(OcpiOwners) # {} THEN "OCPI" ELSE "OICP")
  ELSE Protocol(c)

Start(c) == c[FirstOf(c, StartFields)]
End(c) == c[FirstOf(c, EndFields)]
Energy(c) == c[FirstOf(c, EnergyFields)]
Direction(c) == LET f == FirstOf(c, DirectionFields) IN IF f = None THEN None ELSE c[f]

\* What is checked before the owner is looked at: the kind, the fields that
\* a final record must have, the zones, session and provider.
WellFormed(c) ==
  /\ SupportedKind(c)
  /\ FirstOf(c, StartFields) # None /\ ValidDate(Start(c))
  /\ FirstOf(c, EndFields) # None /\ ValidDate(End(c))
  /\ FirstOf(c, EnergyFields) # None
  /\ Direction(c) \in {None, "CHARGE", "DISCHARGE"}
  /\ ZonesAgree(c)
  /\ Scalar(c, SessionFields) /\ Scalar(c, ProviderFields)

\* Mutant: times are compared as they are written.
ConsistentLocalTimes(c) ==
  LET wall(t) == Instant([t EXCEPT !.offset = [sign |-> 1, hours |-> 0, minutes |-> 0]]) IN
  /\ Scalar(c, EvseFields)
  /\ wall(Start(c)) <= wall(End(c))
  /\ ValidEnergy(Energy(c))
  /\ Direction(c) = "CHARGE" => EnergyNumber(Energy(c)) >= 0

\* What is checked after: the connector, the order of the times, the energy
\* and its direction.
Consistent(c) ==
  /\ Scalar(c, EvseFields)
  /\ Instant(Start(c)) <= Instant(End(c))
  /\ ValidEnergy(Energy(c))
  /\ Direction(c) = "CHARGE" => EnergyNumber(Energy(c)) >= 0

\* The answer of tryNormaliseCdr.
Verdict(c) ==
  IF ~WellFormed(c) THEN "INVALID_PAYLOAD"
  ELSE IF IdentityError(c) # "ok" THEN IdentityError(c)
  ELSE IF ~Consistent(c) THEN "INVALID_PAYLOAD"
  ELSE "ok"

Accepted == {c \in Records : Verdict(c) = "ok"}

Value(c, fields) == c[FirstOf(c, fields)]

\* Mutant: the physical session of a replacement is its own id.
ChargingSessionById(c) ==
  IF Present(c["id"]) THEN c["id"] ELSE None

\* The physical session an award is guarded by: the wire session_id of a
\* record that also has its own id.
ChargingSession(c) ==
  IF ResolvedProtocol(c) \in {"OCPI", "MIXED"} /\ Present(c["id"]) /\ Present(c["session_id"])
  THEN c["session_id"] ELSE None

\* The field that names the owner: the first candidate.
OwnerSource(c) == OwnerFields[SelectInSeq(OwnerFields, LAMBDA f : f \in Owners(c))]

\* normaliseSession, for an accepted record.
Normalised(c) ==
  LET byId == FirstOf(c, SessionFields) = "id" /\ Present(c["session_id"])
      energy == EnergyNumber(Energy(c)) IN
  [session |-> Value(c, SessionFields), provider |-> Value(c, ProviderFields),
   owner |-> c[OwnerSource(c)], source |-> OwnerSource(c), protocol |-> ResolvedProtocol(c),
   evse |-> Value(c, EvseFields), start |-> Instant(Start(c)), end |-> Instant(End(c)),
   energy |-> IF energy < 0 THEN -energy ELSE energy,
   direction |-> IF Direction(c) # None THEN Direction(c)
                 ELSE IF energy < 0 THEN "DISCHARGE" ELSE "CHARGE",
   cdr |-> IF byId THEN c["id"] ELSE None,
   reservation |-> IF byId THEN c["session_id"] ELSE None,
   charging |-> ChargingSession(c),
   zone |-> Zone(c), zoneSource |-> FirstOf(c, ZoneFields)]
-----------------------------------------------------------------------------
(* The identities of an award, and its recovery snapshot.                  *)

\* awardOperationKey: a length-delimited pair.
OperationKey(n) == <<n.provider, n.session>>

\* getDeduplicationKey: the two joined by a dash, which either may contain.
DedupKey(n) == n.session \o <<"-">> \o n.provider

\* Mutant: the fingerprint leaves the energy out.
FingerprintNoEnergy(n) ==
  <<n.provider, n.session, n.owner, n.evse, n.start, n.end, n.direction,
    n.cdr, n.reservation, n.zone, n.zoneSource>>

\* awardIntentFingerprint; the wallet is the owner's.
Fingerprint(n) ==
  <<n.provider, n.session, n.owner, n.evse, n.start, n.end, n.energy, n.direction,
    n.cdr, n.reservation, n.zone, n.zoneSource>>

\* Mutant: the snapshot forgets where the zone came from.
SnapshotNoSource(c) ==
  [print |-> Fingerprint(Normalised(c)), raw |-> c,
   session |-> [Normalised(c) EXCEPT !.zoneSource = None]]

\* createAwardRecoverySnapshot and serialiseNormalisedSession.
Snapshot(c) ==
  LET n == Normalised(c) IN [print |-> Fingerprint(n), session |-> n, raw |-> c]

\* The row a claim saves.
Claim(c) ==
  LET n == Normalised(c) IN
  [key |-> OperationKey(n), dedup |-> DedupKey(n), charging |-> ChargingSession(c),
   owner |-> n.owner, print |-> Fingerprint(n), snapshot |-> Snapshot(c)]

\* validateStoredRecoverySnapshot: what was saved is one intent, and the
\* original record still normalises to it.
SnapshotValid(claim) ==
  LET saved == claim.snapshot.session
      again == Normalised(claim.snapshot.raw) IN
  /\ claim.owner = saved.owner
  /\ claim.snapshot.print = Fingerprint(saved) /\ claim.print = Fingerprint(saved)
  /\ Verdict(claim.snapshot.raw) = "ok"
  /\ Fingerprint(again) = claim.print
  /\ again.owner = saved.owner /\ again.protocol = saved.protocol /\ again.source = saved.source

\* awardRecoveryIntentMismatch, after resolveRecoveryInput compared the
\* physical sessions: a claim is only replayed for the intent it was made for.
SameIntent(claim, n) ==
  /\ claim.owner = n.owner
  /\ claim.charging # None => claim.charging = n.charging
  /\ claim.print = Fingerprint(n)

\* claim: another key holds the physical session or the legacy key.
Collision(claim, n) ==
  \/ claim.key[1] = n.provider /\ claim.charging # None /\ claim.charging = n.charging
  \/ claim.dedup = DedupKey(n)
-----------------------------------------------------------------------------
(* Deliveries.                                                             *)

VARIABLES
  claims,  \* the records whose award was claimed
  answer,  \* the last delivery and what became of it, or None
  received \* bound: deliveries so far

intakeVars == <<claims, answer, received>>

Rejected(c) ==
  /\ c \notin Accepted
  /\ answer' = [cdr |-> None, outcome |-> Verdict(c)]
  /\ UNCHANGED claims

\* The key is claimed: the saved award is replayed for the same intent, and
\* left to the operator for another.
Redelivered(c) ==
  /\ c \in Accepted
  /\ \E d \in claims :
       /\ Claim(d).key = OperationKey(Normalised(c))
       /\ answer' = [cdr |-> c,
                     outcome |-> IF SnapshotValid(Claim(d)) /\ SameIntent(Claim(d), Normalised(c))
                                 THEN "replayed" ELSE "review"]
  /\ UNCHANGED claims

\* A new key: an award of its own, unless its session or legacy key is taken.
Claimed(c) ==
  /\ c \in Accepted
  /\ \A d \in claims : Claim(d).key # OperationKey(Normalised(c))
  /\ IF \E d \in claims : Collision(Claim(d), Normalised(c))
     THEN answer' = [cdr |-> c, outcome |-> "review"] /\ UNCHANGED claims
     ELSE /\ answer' = [cdr |-> c, outcome |-> "claimed"]
          /\ claims' = claims \cup {c}

IntakeInit == claims = {} /\ answer = None /\ received = 0
IntakeNext ==
  /\ received < MaxDeliveries /\ received' = received + 1
  /\ \E c \in Records : Rejected(c) \/ Redelivered(c) \/ Claimed(c)

IntakeSpec == IntakeInit /\ [][IntakeNext]_intakeVars
-----------------------------------------------------------------------------
\* The owner of an award is the one contract identity that every owner field
\* of the record states, whichever protocols the record mixes; a card number
\* never makes an owner.
OwnerIsStated ==
  \A c \in claims :
    LET stated == {c[f] : f \in {g \in ToSet(OwnerFields) : Present(c[g])}} \ {"null"}
    IN  stated = {Normalised(c).owner}

\* One flag in two spellings.
StatedTwice(c) ==
  \E chain \in {CorrectionReferences, CorrectionFlags, StatusFields} :
    \E f, g \in ToSet(chain) : f # g /\ c[f] # None /\ c[g] # None

\* A record that says it is a credit or a correction.
SaysCorrection(c) ==
  \/ Present(c["credit"]) /\ c["credit"] # "false"
  \/ Present(c["credit_reference_id"]) \/ \E f \in ToSet(CorrectionReferences) : Present(c[f])
  \/ \E f \in ToSet(CorrectionFlags) : c[f] = "true"
  \/ \E f \in ToSet(StatusFields) : c[f] \in {"credit", "correction"}

\* No credit or correction is awarded, in whichever spelling the record says
\* so. The exception is a record that gives one flag in two spellings: the ??
\* of the code stops at the first, also when it is empty or says the contrary.
CorrectionsAreRefused == \A c \in claims : StatedTwice(c) \/ ~SaysCorrection(c)

\* An award is for a time that exists: the dates of a claimed session are
\* days of the calendar, which Date would otherwise take for the next day,
\* and it does not end before it starts, whatever the offsets of its times.
TimesAreReal ==
  \A c \in claims :
    /\ \A t \in {Start(c), End(c)} :
         \A m \in 1 .. 12 : m > t.month =>
           DayNumber(t.year, t.month, t.day) < DayNumber(t.year, m, 1)
    /\ Normalised(c).start <= Normalised(c).end

\* Two records of one session, to the code: the same provider and session, the
\* same wire session_id under two ids, or the same legacy key.
SameSession(c, d) ==
  LET m == Normalised(c)
      n == Normalised(d)
      replaced == /\ Present(c["id"]) /\ Present(d["id"])
                  /\ Present(c["session_id"]) /\ c["session_id"] = d["session_id"] IN
  \/ m.provider = n.provider /\ (m.session = n.session \/ replaced)
  \/ DedupKey(m) = DedupKey(n)

\* One physical session is awarded once: a second record of the same provider
\* with the same session, or a replacement that has another id and the same
\* wire session_id, or one whose legacy key collides, is never claimed too.
AwardedOncePerSession == \A c, d \in claims : c # d => ~SameSession(c, d)

\* What an award is made for, as the record states it.
Facts(c) ==
  LET n == Normalised(c) IN
  <<n.session, n.provider, n.owner, n.evse, n.start, n.end, n.energy, n.direction>>

\* A redelivery replays the saved award only if it states the same facts, in
\* whichever spellings; and it does replay it, rather than being left to the
\* operator, if its identifiers and its zone are given in the same fields.
RedeliveryReplays ==
  answer # None /\ answer.outcome \in {"replayed", "review"} =>
    LET d == answer.cdr IN
    \A c \in claims : OperationKey(Normalised(c)) = OperationKey(Normalised(d)) =>
      IF Facts(c) # Facts(d) THEN answer.outcome = "review"
      ELSE (\A f \in ToSet(SessionFields \o ZoneFields) : c[f] = d[f]) => answer.outcome = "replayed"

\* A restart can always rebuild a claim: the saved snapshot of an accepted
\* record passes every check recovery makes of it.
SnapshotsRecover == \A c \in claims : SnapshotValid(Claim(c))

\* A claim is made for what the record states, for one session once, and a
\* redelivery or a restart finds it again.
IntakeIsFaithful ==
  /\ OwnerIsStated /\ CorrectionsAreRefused /\ TimesAreReal
  /\ AwardedOncePerSession /\ RedeliveryReplays /\ SnapshotsRecover
=============================================================================
