---------------------------- MODULE AdminAlerts ----------------------------
(***************************************************************************)
(* The audit log of the API and the alerts it raises. An event is written  *)
(* to audit_logs; when it calls for attention an alert is dispatched in    *)
(* the background through the channels the owner selected, and what became *)
(* of it is audited too. Admins change the selection and send test alerts  *)
(* meanwhile. Database calls fail, providers refuse or lose answers, and   *)
(* the process may restart.                                                *)
(***************************************************************************)
EXTENDS Integers, Sequences

CONSTANTS
  Events,        \* audited events of the rest of the API
  Tests,         \* requests for a test alert
  Editors,       \* requests that change the settings
  Recipients,
  Environments,  \* the providers configured, and the first channel
  Patches,       \* bodies of settings requests, Unset where a field is absent
  Kinds,         \* kinds of events: [own, failure, status]
  Unset, MaxAlertFaults

ASSUME AlertBoundsAssumption == MaxAlertFaults \in Nat

VARIABLES
  env,       \* the environment of the process
  row,       \* the settings row, or Unset before the migration
  lock,      \* the request that holds the row
  tasks,     \* what is going on about an event or a test
  edits,     \* settings requests
  audit,     \* audit_logs
  posted,    \* messages that left: [task, via, to]
  accepted,  \* <<task, via>> that a provider took
  alertFaults, \* failed database calls and restarts so far
  merged     \* history: the first settings and the patches committed, in order

alertVars == <<env, row, lock, tasks, edits, audit, posted, accepted, alertFaults, merged>>

Tasks == Events \cup Tests
Via == {"email", "webhook"}
Channels == Via \cup {"both", "disabled"}
Settings == [recipient : Recipients, channel : Channels]
SelectedVia(channel) == IF channel = "both" THEN Via ELSE Via \cap {channel}

ASSUME TasksAssumption == Events \cap Tests = {}
ASSUME SettingsAssumption == Recipients # {} /\ \A e \in Environments : e.channel \in Channels
ASSUME UnsetAssumption ==
  Unset \notin Settings \cup Recipients \cup Channels \cup Editors
               \cup {"accepted", "failed", "skipped", "success", "error", "warning"}

\* seen: history, the settings in force since the alert was raised.
Idle == [at |-> "idle", settings |-> Unset, email |-> Unset, webhook |-> Unset,
         started |-> 0, answer |-> Unset, seen |-> {}]
Done(started, answer) == [Idle EXCEPT !.at = "done", !.started = started, !.answer = answer]
Running(t) == tasks[t].at \notin {"idle", "done"}
Put(t, rec) == tasks' = [tasks EXCEPT ![t] = rec]
Go(t, at) == Put(t, [tasks[t] EXCEPT !.at = at])

\* A database call that fails.
CallFails == alertFaults < MaxAlertFaults /\ alertFaults' = alertFaults + 1
CallSucceeds == UNCHANGED alertFaults
-----------------------------------------------------------------------------
(* Events: safeAuditLog.                                                   *)

\* Mutant: warnings about alerts are alerted too.
ShouldAlertOwn(kind) == kind.status \in {"warning", "retry_required", "requires_review"}

ShouldAlert(kind) ==
  /\ ~ kind.own
  /\ \/ kind.status \in {"warning", "retry_required", "requires_review"}
     \/ kind.status = "error" /\ kind.failure

\* The kinds of the rows a test alert writes.
TestKind(status) == [own |-> TRUE, failure |-> FALSE, status |-> status]

\* The row is written, then an alert is started without waiting for it; an
\* event whose row cannot be written raises none.
Raise(e, kind) ==
  /\ tasks[e].at = "idle"
  /\ \/ /\ CallSucceeds /\ audit' = audit \cup {[task |-> e, what |-> "event"]}
        /\ IF ShouldAlert(kind)
             THEN Put(e, [tasks[e] EXCEPT !.started = 1, !.at = "load", !.seen = {row}])
             ELSE Go(e, "done")
     \/ /\ CallFails /\ UNCHANGED audit
        /\ Go(e, "done")
  /\ UNCHANGED <<env, row, lock, edits, posted, accepted, merged>>
-----------------------------------------------------------------------------
(* Dispatch: dispatchAdminAlert and sendAdminAlert.                        *)

\* The channels are used one after the other, the email first.
First(channel) == IF channel = "disabled" THEN "record" ELSE IF channel = "webhook" THEN "webhook" ELSE "email"
After(via, channel) == IF via = "email" /\ channel = "both" THEN "webhook" ELSE "record"

\* Mutant: without settings the default recipient is used.
LoadOrDefault(t) ==
  /\ tasks[t].at = "load"
  /\ \/ CallSucceeds /\ row # Unset /\ Put(t, [tasks[t] EXCEPT !.settings = row, !.at = First(row.channel)])
     \/ /\ (CallSucceeds /\ row = Unset) \/ CallFails
        /\ Put(t, [tasks[t] EXCEPT !.at = "email",
                     !.settings = [recipient |-> CHOOSE r \in Recipients : TRUE, channel |-> "both"]])
  /\ UNCHANGED <<env, row, lock, edits, audit, posted, accepted, merged>>

\* Mutant: missing settings end the dispatch without an answer.
LoadUncaught(t) ==
  /\ tasks[t].at = "load" /\ CallSucceeds /\ row # Unset
  /\ Put(t, [tasks[t] EXCEPT !.settings = row, !.at = First(row.channel)])
  /\ UNCHANGED <<env, row, lock, edits, audit, posted, accepted, merged>>

\* Settings that cannot be read or were never written are a skipped delivery,
\* as is a disabled channel.
Load(t) ==
  /\ tasks[t].at = "load"
  /\ \/ CallSucceeds /\ row # Unset /\ Put(t, [tasks[t] EXCEPT !.settings = row, !.at = First(row.channel)])
     \/ ((CallSucceeds /\ row = Unset) \/ CallFails) /\ Go(t, "record")
  /\ UNCHANGED <<env, row, lock, edits, audit, posted, accepted, merged>>

\* What the post may come to: the provider takes it or not, and a taken
\* message may still look failed when its answer is lost or late.
Outcomes == {<<"accepted", TRUE>>, <<"failed", TRUE>>, <<"failed", FALSE>>}

\* A channel whose provider is not configured is skipped.
Send(t, via) ==
  /\ tasks[t].at = via
  /\ LET next == After(via, tasks[t].settings.channel)
     IN  \/ /\ ~ env[via] /\ Put(t, [tasks[t] EXCEPT ![via] = "skipped", !.at = next])
            /\ UNCHANGED <<posted, accepted>>
         \/ /\ env[via]
            /\ posted' = posted \cup {[task |-> t, via |-> via, to |-> tasks[t].settings.recipient]}
            /\ \E o \in Outcomes :
                 /\ Put(t, [tasks[t] EXCEPT ![via] = o[1], !.at = next])
                 /\ accepted' = IF o[2] THEN accepted \cup {<<t, via>>} ELSE accepted
  /\ UNCHANGED <<env, row, lock, edits, audit, alertFaults, merged>>

Results(t) == {tasks[t].email, tasks[t].webhook} \ {Unset}

\* Mutant: one accepted channel makes a delivery.
StatusAnyAccepted(t) ==
  IF "accepted" \in Results(t) THEN "sent" ELSE IF "failed" \in Results(t) THEN "failed" ELSE "skipped"

Status(t) ==
  IF "failed" \in Results(t) THEN "failed" ELSE IF "accepted" \in Results(t) THEN "sent" ELSE "skipped"

Accepted(t) == "accepted" \in Results(t)

\* Mutant: a skipped test is answered like a queued one.
AnswerQueued(t) == IF Status(t) = "failed" THEN "error" ELSE "success"

\* The notice of the dashboard about the answer to a test.
Answer(t) ==
  IF tasks[t].settings = Unset \/ Status(t) = "failed" THEN "error"
  ELSE IF Status(t) = "sent" THEN "success" ELSE "warning"

\* The delivery is audited directly, which raises no alert; a test is answered
\* whether or not the row could be written.
Record(t) ==
  /\ tasks[t].at = "record"
  /\ \/ /\ CallSucceeds
        /\ audit' = audit \cup {[task |-> t, what |-> Status(t), accepted |-> Accepted(t)]}
     \/ CallFails /\ UNCHANGED audit
  /\ Put(t, Done(tasks[t].started, IF t \in Tests THEN Answer(t) ELSE Unset))
  /\ UNCHANGED <<env, row, lock, edits, posted, accepted, merged>>
-----------------------------------------------------------------------------
(* POST /admin/alerts/test.                                                *)

\* safeAuditLog for a row of the alerts themselves.
OwnRow(t, status) == IF ShouldAlert(TestKind(status)) THEN 1 ELSE 0

\* The settings are read for the answer before the alert reads them again.
Test(t) ==
  /\ tasks[t].at = "idle"
  /\ \/ /\ CallSucceeds /\ row # Unset
        /\ audit' = audit \cup {[task |-> t, what |-> "requested"]}
        /\ Put(t, [tasks[t] EXCEPT !.at = "load", !.seen = {row},
                                   !.started = 1 + OwnRow(t, "success")])
     \/ /\ CallSucceeds /\ row # Unset /\ alertFaults < MaxAlertFaults /\ UNCHANGED audit    \* the row is lost
        /\ Put(t, [tasks[t] EXCEPT !.at = "load", !.seen = {row}, !.started = 1])
     \/ /\ (CallSucceeds /\ row = Unset) \/ CallFails
        /\ audit' = audit \cup {[task |-> t, what |-> "requested"],
                                [task |-> t, what |-> "skipped", accepted |-> FALSE]}
        /\ Put(t, Done(OwnRow(t, "warning") + OwnRow(t, "warning"), "error"))
  /\ UNCHANGED <<env, row, lock, edits, posted, accepted, merged>>
-----------------------------------------------------------------------------
(* PATCH /admin/alerts/settings.                                           *)

Over == [at |-> "over", patch |-> Unset, base |-> Unset]
At(p, at) == edits[p] # Unset /\ edits[p].at = at

\* validateAdminAlertSettingsPatch: unknown fields, an invalid value or an
\* empty body never reach the row.
Valid(patch) ==
  /\ patch.recipient # Unset \/ patch.channel # Unset
  /\ patch.recipient \in Recipients \cup {Unset} /\ patch.channel \in Channels \cup {Unset}

Submit(p, patch) ==
  /\ edits[p] = Unset /\ Valid(patch)
  /\ edits' = [edits EXCEPT ![p] = [at |-> "lock", patch |-> patch, base |-> Unset]]
  /\ UNCHANGED <<env, row, lock, tasks, audit, posted, accepted, alertFaults, merged>>

\* Mutant: the row is read without a lock.
LockNothing(p) ==
  /\ At(p, "lock") /\ row # Unset
  /\ edits' = [edits EXCEPT ![p].at = "write", ![p].base = row]
  /\ UNCHANGED <<env, row, lock, tasks, audit, posted, accepted, alertFaults, merged>>

\* The row is read under a lock; without one there is nothing to change.
Lock(p) ==
  /\ At(p, "lock") /\ lock = Unset
  /\ IF row # Unset
       THEN lock' = p /\ edits' = [edits EXCEPT ![p].at = "write", ![p].base = row]
       ELSE UNCHANGED lock /\ edits' = [edits EXCEPT ![p] = Over]
  /\ UNCHANGED <<env, row, tasks, audit, posted, accepted, alertFaults, merged>>

\* Mutant: absent fields are written too.
MergeAbsent(old, patch) == patch

Merge(old, patch) ==
  [recipient |-> IF patch.recipient # Unset THEN patch.recipient ELSE old.recipient,
   channel |-> IF patch.channel # Unset THEN patch.channel ELSE old.channel]

Write(p) ==
  /\ At(p, "write") /\ lock' = (IF lock = p THEN Unset ELSE lock)
  /\ edits' = [edits EXCEPT ![p] = Over]
  /\ \/ /\ CallSucceeds /\ row' = Merge(edits[p].base, edits[p].patch)
        /\ merged' = Append(merged, edits[p].patch)
        /\ tasks' = [t \in Tasks |-> IF Running(t) THEN [tasks[t] EXCEPT !.seen = @ \cup {row'}] ELSE tasks[t]]
     \/ CallFails /\ UNCHANGED <<row, tasks, merged>>
  /\ UNCHANGED <<env, audit, posted, accepted>>

\* The process stops: alerts in progress are gone, open transactions
\* are rolled back.
Restart ==
  /\ CallFails
  /\ lock' = Unset
  /\ tasks' = [t \in Tasks |-> IF Running(t) THEN Done(tasks[t].started, Unset) ELSE tasks[t]]
  /\ edits' = [p \in Editors |-> IF edits[p] = Unset THEN Unset ELSE Over]
  /\ UNCHANGED <<env, row, audit, posted, accepted, merged>>
-----------------------------------------------------------------------------
\* The migration fills the row from the environment: the recipient and the
\* channel it names, or by default the webhook when one is configured.
AlertsInit ==
  /\ env \in Environments
  /\ row \in {Unset} \cup [recipient : {CHOOSE r \in Recipients : TRUE}, channel : {env.channel}]
  /\ lock = Unset /\ tasks = [t \in Tasks |-> Idle]
  /\ edits = [p \in Editors |-> Unset]
  /\ audit = {} /\ posted = {} /\ accepted = {} /\ alertFaults = 0
  /\ merged = <<row>>

TaskStep(t) == Load(t) \/ (\E via \in Via : Send(t, via)) \/ Record(t)

AlertsNext ==
  \/ \E e \in Events, kind \in Kinds : Raise(e, kind)
  \/ \E t \in Tests : Test(t)
  \/ \E t \in Tasks : TaskStep(t)
  \/ \E p \in Editors : Lock(p) \/ Write(p)
  \/ \E p \in Editors, patch \in Patches : Submit(p, patch)
  \/ Restart

AlertsSpec == AlertsInit /\ [][AlertsNext]_alertVars

\* A dispatch runs by itself once started: every call it awaits has a timer.
AlertsFairSpec == AlertsSpec /\ \A t \in Tasks : WF_alertVars(TaskStep(t))
-----------------------------------------------------------------------------
AlertsTypeOK ==
  /\ row \in Settings \cup {Unset} /\ lock \in Editors \cup {Unset}
  /\ \A t \in Tasks : tasks[t].at \in {"idle", "load", "email", "webhook", "record", "done"}
  /\ \A p \in Editors : edits[p] # Unset => edits[p].at \in {"lock", "write", "over"}
  /\ accepted \subseteq Tasks \X Via
  /\ posted \subseteq [task : Tasks, via : Via, to : Recipients]
  /\ alertFaults \in 0 .. MaxAlertFaults

\* The value is the latest one of those that were set.
Latest(value, set) == \E i \in DOMAIN set : set[i] = value /\ \A j \in DOMAIN set : j > i => set[j] = Unset

\* Two requests that each change one field both last: each field of the row is
\* what the latest committed change of it says.
SettingsMerge ==
  row # Unset =>
    /\ Latest(row.recipient, [i \in DOMAIN merged |-> merged[i].recipient])
    /\ Latest(row.channel, [i \in DOMAIN merged |-> merged[i].channel])

\* A message goes only where settings in force since the event was raised
\* sent it: there is no fallback to another recipient or channel.
SentToOwnersChoice ==
  [][\A m \in posted' \ posted : \E s \in tasks[m.task].seen :
       s # Unset /\ s.recipient = m.to /\ m.via \in SelectedVia(s.channel)]_alertVars

\* What the log says about a delivery is what the providers saw: delivered
\* without a failed channel and with an accepted one, skipped only when
\* nothing left.
AuditIsTruthful ==
  \A a \in audit :
    /\ a.what = "sent" => /\ \E via \in Via : <<a.task, via>> \in accepted
                          /\ \A m \in posted : m.task = a.task => <<m.task, m.via>> \in accepted
    /\ a.what \in {"sent", "failed", "skipped"} /\ a.accepted => \E via \in Via : <<a.task, via>> \in accepted
    /\ a.what = "skipped" => \A m \in posted : m.task # a.task

\* An alert is raised by a row of the log, and a row raises at most one; rows
\* about alerts raise none.
OneAlertPerRow ==
  /\ \A t \in Tasks : tasks[t].started <= 1
  /\ \A m \in posted : m.task \in Events => [task |-> m.task, what |-> "event"] \in audit

\* The dashboard reports success only for a test that a provider took, and a
\* skipped test only when nothing left.
TestAnswerIsTrue ==
  \A t \in Tests :
    /\ tasks[t].answer = "success" => \E via \in Via : <<t, via>> \in accepted
    /\ tasks[t].answer = "warning" => \A m \in posted : m.task # t

\* An alert that was started comes to an end.
AlertsConclude == \A t \in Tasks : tasks[t].at = "load" ~> tasks[t].at = "done"

\* Settings merge, messages follow them, the log and the answers tell what the
\* providers saw, and every alert ends.
AlertsAreTruthful ==
  /\ [](AlertsTypeOK /\ SettingsMerge /\ AuditIsTruthful /\ OneAlertPerRow /\ TestAnswerIsTrue)
  /\ SentToOwnersChoice /\ AlertsConclude
=============================================================================
