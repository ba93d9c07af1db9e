----------------------------- MODULE MCServices -----------------------------
(***************************************************************************)
(* What the API stands on: the schema its container migrates, the RPC      *)
(* endpoints and the alerts. The three share no state, so every reachable  *)
(* state of them is made of a reachable state of each: it is enough to     *)
(* explore each one while the others rest.                                 *)
(***************************************************************************)
EXTENDS SchemaMigrations, RpcProvider, AdminAlerts, TLC

CONSTANTS
  api, cli, call, primary, fallback, e1, t1, p1, p2, owner, deputy

\* The primary is configured twice; a transient error below a wrapper, one
\* that only looks like it, and a refusal.
MCCandidates == <<primary, primary, fallback>>
MCErrors ==
  { <<Layer("UNKNOWN_ERROR", 0, 0), Layer("", 26, 0)>>,
    <<Layer("SERVER_ERROR", 0, 404)>>,
    <<Layer("CALL_EXCEPTION", -32000, 0)>> }

\* A warning, a failed sign-in, and an error that calls for no alert.
MCKinds ==
  { [own |-> FALSE, failure |-> FALSE, status |-> "warning"],
    [own |-> FALSE, failure |-> TRUE, status |-> "error"],
    [own |-> FALSE, failure |-> FALSE, status |-> "error"] }

Both == [email |-> TRUE, webhook |-> TRUE, channel |-> "both"]
MCEnvironments == { Both, [email |-> TRUE, webhook |-> FALSE, channel |-> "webhook"] }

\* One field each, and a body that is refused.
MCPatches ==
  { [recipient |-> deputy, channel |-> Unset],
    [recipient |-> Unset, channel |-> "disabled"],
    [recipient |-> Unset, channel |-> Unset] }

\* One initial state of each.
SchemaRests == has = {} /\ events = 0 /\ \A c \in Containers : at[c] = Resting
RpcRests == foreign = {} /\ \A c \in Calls : calls[c] = Nil
AlertsRest ==
  /\ env = Both /\ row = Unset /\ lock = Unset /\ alertFaults = 0
  /\ \A t \in Tasks : tasks[t] = Idle
  /\ \A p \in Editors : edits[p] = Unset

SchemaTurn == RpcRests /\ AlertsRest
RpcTurn == SchemaRests /\ AlertsRest
AlertsTurn == SchemaRests /\ RpcRests

\* The editors differ in name only: whichever submits first is called p1.
InOrder == edits[p2] # Unset => edits[p1] # Unset

MCInit ==
  /\ SchemaInit /\ RpcInit /\ AlertsInit
  /\ SchemaTurn \/ RpcTurn \/ AlertsTurn

MCNext ==
  \/ SchemaTurn /\ SchemaNext /\ UNCHANGED <<rpcVars, alertVars>>
  \/ RpcTurn /\ RpcNext /\ UNCHANGED <<schemaVars, alertVars>>
  \/ AlertsTurn /\ AlertsNext /\ InOrder' /\ UNCHANGED <<schemaVars, rpcVars>>

\* The fairness of the three specifications, each in its turn.
MCFairness ==
  /\ \A c \in Service :
       /\ WF_schemaVars(SchemaTurn /\ Migrate(c))
       /\ WF_schemaVars(SchemaTurn /\ Boot(c))
  /\ \A c \in Calls : WF_rpcVars(RpcTurn /\ Internal(c) /\ UNCHANGED foreign)
  /\ \A t \in Tasks : WF_alertVars(AlertsTurn /\ TaskStep(t))

MCSpec == MCInit /\ [][MCNext]_<<schemaVars, rpcVars, alertVars>> /\ MCFairness
=============================================================================
