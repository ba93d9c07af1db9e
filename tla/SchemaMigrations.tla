-------------------------- MODULE SchemaMigrations --------------------------
(***************************************************************************)
(* migrate.ts and the migrations it runs whenever a container starts,      *)
(* before its API does. The statements of a migration commit one by one    *)
(* (008 and 022 are transactions), so a container that is stopped leaves   *)
(* what it has done, and another one starts over it; a container of an     *)
(* older release may still be writing, and an operator may stage the       *)
(* operation tables or apply 016 and 017 on their own.                     *)
(*                                                                         *)
(* A schema object is a pair of a table and a part of it: the table        *)
(* itself, a column, an index or a constraint. Columns that are added      *)
(* together are one part. Rows appear as what a migration asks about them: *)
(* whether a table has duplicates, who is selected, what was saved.        *)
(***************************************************************************)
EXTENDS Naturals, FiniteSets, Sequences

CONSTANTS
  Containers,  \* processes that may run migrate.ts at the same time
  Service,     \* the ones that are restarted; others are an operator's db:migrate
  Releases,    \* how many of the migrations earlier releases had
  MaxEvents    \* bound on what comes from outside: stops, commands, writes

ASSUME ServiceAssumption == Service \subseteq Containers
ASSUME EventsAssumption == MaxEvents \in Nat

VARIABLES
  has,      \* schema objects that exist
  rows,     \* rows[t]: whether the rows of t are unique, or what they repeat
  wallets,  \* the wallets of one owner, numbered by age
  active,   \* wallets whose row says is_active
  saved,    \* saved["policy"], saved["alerts"]: none, default or operator
  old,      \* tables a container of the earlier release still writes
  at,       \* at[c]: the migration and the statement process c is at
  events    \* bound: what has come from outside so far

schemaVars == <<has, rows, wallets, active, saved, old, at, events>>

Obj(t, p) == <<t, p>>
Table(t) == <<t, "table">>
Parts(t, ps) == {<<t, p>> : p \in ps}

HashTables == {"awards", "spends", "receipts", "operations"}
GuardedTables == HashTables \cup {"links", "users"}

\* A statement. Make fails when the object is there, Need asks first, Index is
\* "create unique index if not exists", Drop is "drop if exists", Refuse raises
\* an error for repeated rows, Seed inserts and ignores a conflict. Guard is
\* ensureChargingSessionGuard's index, Whole a migration in a transaction.
Make(t, p) == [do |-> "make", obj |-> <<t, p>>]
Need(t, p) == [do |-> "need", obj |-> <<t, p>>]
Index(t, p) == [do |-> "index", obj |-> <<t, p>>]
Drop(t, p) == [do |-> "drop", obj |-> <<t, p>>]
Refuse(t) == [do |-> "refuse", obj |-> <<t, "rows">>]
Seed(x) == [do |-> "seed", obj |-> <<x, "row">>]
Guard(t, p) == [do |-> "guard", obj |-> <<t, p>>]
Whole(t, p) == [do |-> "whole", obj |-> <<t, p>>]

\* A migration: skipped when all the objects it looks for are there.
Migration(unless, steps) == [unless |-> unless, steps |-> steps]

\* Columns that createTable makes with the table and a rerun adds if missing.
Columns(t) ==
  CASE t = "links" -> {"name"}
    [] t \in {"operations", "leases"} -> {"context"}
    [] t = "preparations" -> {"funding"}
    [] t = "annotations" -> {"subject"}
    [] OTHER -> {}
Created(obj) == IF obj[2] = "table" THEN Parts(obj[1], {"table"} \cup Columns(obj[1])) ELSE {obj}
-----------------------------------------------------------------------------
(* The migrations, in the order of migrate.ts.                             *)

\* createTable is one statement for the table and one for each constraint.
M001 == Migration({Table("users")},
  << Make("users", "table"), Make("users", "uid"), Make("awards", "table"), Make("awards", "dedup"),
     Make("balances", "table"), Make("spends", "table") >>)
M002 == Migration({Obj("awards", "offPeak")}, << Make("awards", "offPeak") >>)
M003 == Migration({Obj("awards", "type")}, << Make("awards", "type") >>)
M004 == Migration({Obj("users", "name")}, << Need("users", "name") >>)
M006 == Migration({Table("links")}, << Make("links", "table"), Make("links", "uidWallet") >>)
M006Name == Migration({Obj("links", "name")}, << Make("links", "name") >>)
M007 == Migration({Obj("links", "wallet")}, << Refuse("links"), Index("links", "wallet") >>)
M008 == Migration({}, << Whole("users", "uidWallet") >>)
M009 == Migration({Table("receipts")}, << Make("receipts", "table"), Make("receipts", "exactHash") >>)
M010 == Migration({Table("audit")}, << Make("audit", "table") >>)
M011 == Migration({Obj("awards", "status"), Obj("spends", "status")},
  << Need("awards", "status"), Need("awards", "confirmed"),
     Need("spends", "status"), Need("spends", "confirmed") >>)
M012 == Migration({Table("reports")}, << Make("reports", "table") >>)
M013 == Migration({Table("reservations")}, << Make("reservations", "table"), Make("reservations", "session") >>)
M014 == Migration({Obj("reservations", "authorization")}, << Need("reservations", "authorization") >>)

\* ensureTokenOperationTables and ensureApprovalPreparations
OperationTables ==
  << Need("operations", "table"), Need("operations", "context"),
     Need("operations", "hashCheck"), Index("operations", "hash"), Index("operations", "key"),
     Need("preparations", "table"), Need("preparations", "funding"),
     Need("preparations", "hashCheck"), Index("preparations", "key") >>

\* Mutant: the projection guards are built anew.
HashGuardsRebuilt ==
  << Drop("awards", "hash"), Drop("spends", "hash"), Drop("receipts", "hash"),
     Index("awards", "hash"), Index("spends", "hash"), Index("receipts", "hash") >>

\* Case-sensitive guards are dropped for the ones that ignore case.
HashGuards ==
  << Drop("awards", "exactHash"), Drop("spends", "exactHash"), Drop("receipts", "exactHash"),
     Index("awards", "hash"), Index("spends", "hash"), Index("receipts", "hash") >>

M015 == Migration({},
  << Refuse("awards"), Refuse("spends"), Refuse("receipts"), Refuse("operations") >>
  \o HashGuards \o << Drop("operations", "exactHash") >> \o OperationTables)

M016 == Migration({}, << Need("policy", "table"), Seed("policy") >>)

\* ensureChargingSessionGuard
SessionGuard == << Need("operations", "session"), Guard("operations", "sessionGuard") >>
M017 == Migration({}, SessionGuard)

M022 == Migration({}, << Whole("users", "oneActive") >>)

\* ensureTreasuryTransactionTables, ensureSettlementContextColumn
LeaseTables ==
  << Need("leases", "table"), Need("leases", "context"), Index("leases", "nonce"),
     Need("reservations", "settlement") >>
M023 == Migration({}, OperationTables \o LeaseTables)
M024 == Migration({}, << Need("alerts", "table"), Seed("alerts") >>)
M025 == Migration({},
  << Need("annotations", "table"), Need("annotations", "subject"), Need("annotations", "checks"),
     Index("annotations", "request") >>)

Earlier ==
  << M001, M002, M003, M004, M006, M006Name, M007, M008, M009, M010, M011, M012, M013, M014 >>
Chain == Earlier \o << M015, M016, M017, M022, M023, M024, M025 >>

\* An earlier release ends before the hash guards, which it would need to have
\* checked its rows.
ASSUME ReleasesAssumption == Releases \subseteq 0 .. Len(Earlier)

\* What a release with the first n migrations has left. Position 8 is migration
\* 008, which drops the global rule of 001.
Builds == {"make", "need", "index", "whole"}
BuiltBy(steps) == UNION {Created(steps[j].obj) : j \in {i \in DOMAIN steps : steps[i].do \in Builds}}
Released(n) ==
  UNION {BuiltBy(Chain[i].steps) : i \in 1 .. n} \ IF n >= 8 THEN {Obj("users", "uid")} ELSE {}

\* What local experiments may have left next to a release: an operation table
\* with a case-sensitive guard and a session guard that covers only some awards,
\* or an is_active column without its index.
Experiments ==
  { [made |-> {}, active |-> {}, repeats |-> {"awards"}],
    [made |-> Parts("operations", {"table", "exactHash", "session", "narrowGuard"}),
     active |-> {}, repeats |-> {"operations"}] }
  \cup {[made |-> {Obj("users", "active")}, active |-> ws, repeats |-> {}] : ws \in SUBSET {1, 2}}

SavedChoices == {"none", "default", "operator"}
Repetitions == {"unique", "placeholders", "duplicates"}
Resting == [b |-> 0, s |-> 0, asked |-> FALSE]
AllUnique == [t \in GuardedTables |-> "unique"]
WrittenBy(n) ==
  (IF n > 0 THEN {"awards", "spends"} ELSE {}) \cup (IF n > 4 THEN {"links"} ELSE {})
  \cup IF n > 8 THEN {"receipts"} ELSE {}

SchemaInit ==
  /\ \E n \in Releases, x \in Experiments :
       /\ x.made # {} => n > 8
       /\ has = Released(n) \cup x.made
       /\ old = WrittenBy(n)
       /\ wallets = IF n > 0 THEN {1, 2} ELSE {}
       /\ active = x.active
       /\ \/ rows = AllUnique
          \/ \E t \in x.repeats, r \in Repetitions :
               n > 0 /\ (t = "operations" => r # "placeholders") /\ rows = [AllUnique EXCEPT ![t] = r]
          \/ n \in 5 .. 6 /\ rows = [AllUnique EXCEPT !["links"] = "duplicates"]
  /\ saved = [x \in {"policy", "alerts"} |-> "none"]
  /\ at = [c \in Containers |-> Resting]
  /\ events = 0
-----------------------------------------------------------------------------
(* A process migrating.                                                    *)

Up(c) == at[c].b > Len(Chain)
Migrating(c) == at[c].b \in 1 .. Len(Chain)
Here(c) == Chain[at[c].b].steps[at[c].s]
About(c, do) == Migrating(c) /\ at[c].s > 0 /\ Here(c).do = do

\* Mutant: one statement past the last one of a migration.
ForwardPastEnd(c) ==
  at' = [at EXCEPT ![c] = IF @.s <= Len(Chain[@.b].steps) THEN [b |-> @.b, s |-> @.s + 1, asked |-> FALSE]
                          ELSE [b |-> @.b + 1, s |-> 0, asked |-> FALSE]]

Forward(c) ==
  at' = [at EXCEPT ![c] = IF @.s < Len(Chain[@.b].steps) THEN [b |-> @.b, s |-> @.s + 1, asked |-> FALSE]
                          ELSE [b |-> @.b + 1, s |-> 0, asked |-> FALSE]]

\* runMigrations throws and the process exits.
Fail(c) == at' = [at EXCEPT ![c] = Resting]

\* The runner asks whether a migration has been applied.
Begin(c) ==
  /\ Migrating(c) /\ at[c].s = 0
  /\ at' = [at EXCEPT ![c] =
       IF Chain[@.b].unless # {} /\ Chain[@.b].unless \subseteq has
         THEN [@ EXCEPT !.b = at[c].b + 1]
         ELSE [@ EXCEPT !.s = 1]]
  /\ UNCHANGED <<has, rows, wallets, active, saved, old, events>>

\* Mutant: whatever it may find, the object is taken for missing.
AskAndIgnore(c) ==
  /\ About(c, "need") /\ ~at[c].asked
  /\ at' = [at EXCEPT ![c].asked = TRUE]
  /\ UNCHANGED <<has, rows, wallets, active, saved, old, events>>

\* hasTable, hasColumn or a read of pg_constraint
Ask(c) ==
  /\ About(c, "need") /\ ~at[c].asked
  /\ IF Here(c).obj \in has THEN Forward(c) ELSE at' = [at EXCEPT ![c].asked = TRUE]
  /\ UNCHANGED <<has, rows, wallets, active, saved, old, events>>

\* createTable, alterTable or add constraint: an error if the object is there by
\* now or its table is not.
Build(c) ==
  /\ About(c, "make") \/ (About(c, "need") /\ at[c].asked)
  /\ LET obj == Here(c).obj
     IN  IF obj \notin has /\ (obj[2] = "table" \/ Table(obj[1]) \in has)
           THEN has' = has \cup Created(obj) /\ Forward(c)
           ELSE UNCHANGED has /\ Fail(c)
  /\ UNCHANGED <<rows, wallets, active, saved, old, events>>

\* A unique index over rows that repeat is an error.
CreateIndex(c) ==
  /\ About(c, "index")
  /\ LET obj == Here(c).obj
     IN  IF Table(obj[1]) \in has /\ (obj[2] \in {"hash", "wallet"} => rows[obj[1]] = "unique")
           THEN has' = has \cup {obj} /\ Forward(c)
           ELSE UNCHANGED has /\ Fail(c)
  /\ UNCHANGED <<rows, wallets, active, saved, old, events>>

DropGuard(c) ==
  /\ About(c, "drop")
  /\ has' = has \ {Here(c).obj}
  /\ Forward(c)
  /\ UNCHANGED <<rows, wallets, active, saved, old, events>>

\* Migrations 007 and 015 stop before they change anything when rows repeat; an
\* operation table need not be there yet.
RefuseRepeats(c) ==
  /\ About(c, "refuse")
  /\ LET t == Here(c).obj[1]
     IN  IF (Table(t) \in has \/ t = "operations") /\ rows[t] = "unique" THEN Forward(c) ELSE Fail(c)
  /\ UNCHANGED <<has, rows, wallets, active, saved, old, events>>

\* insert ... on conflict do nothing
SeedRow(c) ==
  /\ About(c, "seed")
  /\ saved' = [saved EXCEPT ![Here(c).obj[1]] = IF @ = "none" THEN "default" ELSE @]
  /\ Forward(c)
  /\ UNCHANGED <<has, rows, wallets, active, old, events>>

\* Mutant: an index of that name is taken for the guard.
GuardFitsByName == TRUE

\* The predicate of an existing index of that name is compared with the guard's.
GuardFits == Obj("operations", "narrowGuard") \notin has

CreateSessionGuard(c) ==
  /\ About(c, "guard")
  /\ IF GuardFits
       THEN has' = (IF Obj("operations", "narrowGuard") \in has THEN has ELSE has \cup {Here(c).obj}) /\ Forward(c)
       ELSE UNCHANGED has /\ Fail(c)
  /\ UNCHANGED <<rows, wallets, active, saved, old, events>>

\* Migration 008: the scoped rule replaces the global one.
ScopeUids(c) ==
  /\ About(c, "whole") /\ Here(c).obj = Obj("users", "uidWallet")
  /\ IF rows["users"] = "unique"
       THEN has' = (has \ {Obj("users", "uid")}) \cup {Here(c).obj} /\ Forward(c)
       ELSE UNCHANGED has /\ Fail(c)
  /\ UNCHANGED <<rows, wallets, active, saved, old, events>>

Oldest(ws) == {w \in ws : \A v \in ws : w <= v}

\* Mutant: the backfill does not look at earlier selections.
BackfilledByAge == Oldest(wallets)

\* The oldest explicit selection, else the oldest wallet.
Backfilled == IF active # {} THEN Oldest(active) ELSE Oldest(wallets)

\* Migration 022
SelectWallets(c) ==
  /\ About(c, "whole") /\ Here(c).obj = Obj("users", "oneActive")
  /\ has' = has \cup Parts("users", {"active", "oneActive"})
  /\ active' = Backfilled
  /\ Forward(c)
  /\ UNCHANGED <<rows, wallets, saved, old, events>>

Migrate(c) ==
  \/ Begin(c) \/ Ask(c) \/ Build(c) \/ CreateIndex(c) \/ DropGuard(c) \/ RefuseRepeats(c)
  \/ SeedRow(c) \/ CreateSessionGuard(c) \/ ScopeUids(c) \/ SelectWallets(c)

\* Something from outside, one of boundedly many.
Event == events < MaxEvents /\ events' = events + 1

\* The container starts, or is restarted after migrate.ts failed.
Boot(c) ==
  /\ c \in Service /\ at[c] = Resting
  /\ at' = [at EXCEPT ![c].b = 1]
  /\ UNCHANGED <<has, rows, wallets, active, saved, old, events>>

\* An operator runs db:migrate. The bound leaves no other event next to it.
Command(c) ==
  /\ c \notin Service /\ at[c] = Resting
  /\ events = 0 /\ events' = MaxEvents
  /\ at' = [at EXCEPT ![c].b = 1]
  /\ UNCHANGED <<has, rows, wallets, active, saved, old>>

\* A crash while migrating, or a running container is redeployed.
Stop(c) ==
  /\ at[c].b > 0 /\ Event
  /\ Fail(c)
  /\ UNCHANGED <<has, rows, wallets, active, saved, old>>
-----------------------------------------------------------------------------
(* The earlier release, the running API and the operator's commands.       *)

Guards(t) ==
  CASE t \in {"awards", "spends"} -> Parts(t, {"hash", "validHash"})
    [] t = "receipts" -> Parts(t, {"exactHash", "hash", "validHash"})
    [] t = "links" -> Parts(t, {"wallet"})

\* The earlier release records a movement or links a wallet twice where no guard
\* keeps it from it.
WriteTwice(t) ==
  /\ Event
  /\ t \in old /\ Guards(t) \cap has = {}
  /\ rows' = [rows EXCEPT ![t] = "duplicates"]
  /\ UNCHANGED <<has, wallets, active, saved, old, at>>

StopOld ==
  /\ Event
  /\ old # {} /\ old' = {}
  /\ UNCHANGED <<has, rows, wallets, active, saved, at>>

\* The owner selects another wallet, an administrator saves a policy or alert
\* settings.
Select(w) ==
  /\ Event
  /\ \E c \in Service : Up(c)
  /\ active' = {w}
  /\ UNCHANGED <<has, rows, wallets, saved, old, at>>

Save(x) ==
  /\ Event
  /\ \E c \in Service : Up(c)
  /\ saved' = [saved EXCEPT ![x] = "operator"]
  /\ UNCHANGED <<has, rows, wallets, active, old, at>>

ValidHashes == {Obj(t, "validHash") : t \in {"awards", "spends", "receipts"}}

\* getTokenOperationSchemaStatus
HashGuarded(t) == {Obj(t, "hash"), Obj(t, "validHash")} \cap has # {}
NothingMissing ==
  /\ BuiltBy(OperationTables) \cup BuiltBy(LeaseTables) \subseteq has
  /\ \A t \in {"awards", "spends", "receipts"} : HashGuarded(t)
StagedReady == NothingMissing /\ \A t \in HashTables : rows[t] # "duplicates"
StrictReady == NothingMissing /\ \A t \in HashTables : rows[t] = "unique"

\* The answers of getReadinessChecks about the database: the safeguards are
\* staged, a policy can be loaded, the alert settings can be read.
ReadinessPasses == StagedReady /\ \A x \in {"policy", "alerts"} : saved[x] # "none"

\* stageTokenOperationSchema, in one transaction: hashes that are valid and
\* repeat stop it, placeholders stay.
Stage ==
  /\ Event
  /\ \A t \in HashTables : rows[t] # "duplicates"
  /\ {Table(t) : t \in {"awards", "spends", "receipts", "reservations"}} \subseteq has
  /\ has' = has \cup BuiltBy(OperationTables) \cup BuiltBy(LeaseTables) \cup ValidHashes
  /\ UNCHANGED <<rows, wallets, active, saved, old, at>>
  /\ StagedReady'

\* applyChargingSessionGuardMigration.ts
ApplyGuard ==
  /\ Event
  /\ Table("operations") \in has /\ GuardFits
  /\ has' = has \cup Parts("operations", {"session", "sessionGuard"})
  /\ UNCHANGED <<rows, wallets, active, saved, old, at>>

\* applyRewardPolicyMigration.ts
ApplyPolicy ==
  /\ Event
  /\ has' = has \cup {Table("policy")}
  /\ saved' = [saved EXCEPT !["policy"] = IF @ = "none" THEN "default" ELSE @]
  /\ UNCHANGED <<rows, wallets, active, old, at>>

SchemaNext ==
  \/ \E c \in Containers : Migrate(c) \/ Boot(c) \/ Command(c) \/ Stop(c)
  \/ \E t \in old : WriteTwice(t)
  \/ \E w \in wallets : Select(w)
  \/ \E x \in {"policy", "alerts"} : Save(x)
  \/ StopOld \/ Stage \/ ApplyGuard \/ ApplyPolicy

SchemaFairness == \A c \in Service : WF_schemaVars(Migrate(c)) /\ WF_schemaVars(Boot(c))
SchemaSpec == SchemaInit /\ [][SchemaNext]_schemaVars /\ SchemaFairness
-----------------------------------------------------------------------------
\* Types of the schema state; a process is at a statement of a migration.
SchemaTypeOK ==
  /\ has \subseteq BuiltBy(SessionGuard) \cup Released(Len(Chain)) \cup ValidHashes
       \cup {Obj("users", "uid"), Obj("operations", "sessionGuard")}
       \cup UNION {x.made : x \in Experiments} \cup Parts("receipts", {"exactHash"})
  /\ rows \in [GuardedTables -> Repetitions]
  /\ active \subseteq wallets
  /\ saved \in [{"policy", "alerts"} -> SavedChoices]
  /\ old \subseteq GuardedTables
  /\ \A c \in Containers :
       /\ at[c].b \in 0 .. Len(Chain) + 1
       /\ at[c].s \in 0 .. IF Migrating(c) THEN Len(Chain[at[c].b].steps) ELSE 0
       /\ at[c].asked => About(c, "need")
  /\ events \in 0 .. MaxEvents

\* Whenever migrate.ts has let some container's API start, its readiness checks
\* pass: the safeguards getTokenOperationSchemaStatus looks for are in place and
\* no hash repeats, and a policy and alert settings can be read. The session
\* guard covers every award, and one wallet of an owner is selected, with an
\* index that keeps it so.
ReadyWhenUp ==
  (\E c \in Containers : Up(c)) =>
    /\ StrictReady
    /\ {Obj("operations", "sessionGuard"), Obj("users", "uidWallet"), Obj("users", "oneActive"),
        Obj("links", "wallet"), Obj("annotations", "request")} \subseteq has
    /\ Obj("operations", "narrowGuard") \notin has
    /\ ReadinessPasses
    /\ Cardinality(active) = IF wallets = {} THEN 0 ELSE 1

\* A guard that keeps movements, nonces, pairs or selections unique is never
\* taken away again, not even while a rerun of the migrations replaces others.
Lasting ==
  {Obj(t, p) : t \in HashTables, p \in {"hash", "validHash"}}
  \cup {Obj("operations", "key"), Obj("operations", "sessionGuard"), Obj("leases", "nonce"),
        Obj("users", "uidWallet"), Obj("users", "oneActive"), Obj("links", "wallet")}
GuardsStay == [][has \cap Lasting \subseteq has']_schemaVars

\* Migrating again keeps what its owner has selected and what an administrator
\* has saved: a step of migrate.ts or of the operator's commands changes neither.
ChoicesKept ==
  [][ /\ (Cardinality(active) = 1 /\ active' # active) => \E w \in wallets : Select(w)
      /\ \A x \in {"policy", "alerts"} : saved[x] = "operator" => saved'[x] = "operator" ]_schemaVars

\* Rows or an index that the migrations leave to an operator's review, or a
\* schema of 001 that was left half made (a rerun skips 001).
HalfMade == Table("users") \in has /\ Table("spends") \notin has
Blocked ==
  \/ \E t \in GuardedTables : rows[t] # "unique"
  \/ Obj("operations", "narrowGuard") \in has
  \/ HalfMade

\* However often a container is stopped while it migrates, restarting it brings
\* it through all migrations, unless an operator has to step in for good.
RestartsFinish == [](\A c \in Service : Migrating(c) => <>Up(c) \/ <>[]Blocked)

\* Migrating over a database that is in use loses no guard and no choice, and
\* is brought to its end by restarts.
MigrationsFinish == []SchemaTypeOK /\ GuardsStay /\ ChoicesKept /\ RestartsFinish
====
