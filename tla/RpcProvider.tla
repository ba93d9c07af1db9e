---------------------------- MODULE RpcProvider ----------------------------
(***************************************************************************)
(* FailoverJsonRpcProvider and the retries of reads around it. A call is   *)
(* sent to one endpoint at a time, each within its slot of the time; only  *)
(* a failure that says nothing about the request moves it to the next one. *)
(* An endpoint is used for the configured chain only, and asked once.      *)
(*                                                                         *)
(* Time is counted per call in units of which an endpoint's slot has       *)
(* EndpointTimeout and a whole read has ReadTimeout.                       *)
(***************************************************************************)
EXTENDS Integers, Sequences, SequencesExt, FiniteSets

CONSTANTS
  Calls,
  Candidates,       \* configured URLs, the primary first
  Errors,           \* errors of endpoints: layers, outermost first
  Nil,
  EndpointTimeout, ReadTimeout, RetryDelay, MaxAttempts, MaxEndpoints

ASSUME TimeAssumption ==
  /\ EndpointTimeout \in Nat \ {0} /\ ReadTimeout \in Nat /\ RetryDelay \in Nat
  /\ MaxAttempts \in Nat \ {0} /\ MaxEndpoints \in Nat \ {0}
ASSUME CandidatesAssumption == Candidates \in Seq(ToSet(Candidates)) /\ Candidates # <<>>
\* The slots of one pass fit into a read, as the constants of the code are chosen.
ASSUME SlotsAssumption == EndpointTimeout * MaxEndpoints <= ReadTimeout

VARIABLES
  foreign,    \* endpoints that serve another chain
  validated,  \* endpoints whose chain was checked
  calls,      \* calls in progress or answered
  sent        \* endpoints that received a call's own request, in order

rpcVars == <<foreign, validated, calls, sent>>

Min2(a, b) == IF a < b THEN a ELSE b

\* endpointConfigs: the first MaxEndpoints different URLs, in their order.
New == {i \in DOMAIN Candidates : \A j \in 1 .. i - 1 : Candidates[j] # Candidates[i]}
Before(i) == Cardinality({j \in New : j < i})
Endpoints ==
  [k \in 1 .. Min2(Cardinality(New), MaxEndpoints) |-> Candidates[CHOOSE i \in New : Before(i) = k - 1]]

\* The calls of the application: reads and lookups of a transaction or receipt
\* are wrapped in retries; submissions and the chain check are not.
Reads == {"read", "lookup"}
CallKinds == Reads \cup {"raw", "managed", "chain"}
-----------------------------------------------------------------------------
(* Errors.                                                                 *)

NetworkCodes == {"NETWORK_ERROR", "TIMEOUT", "ECONNRESET"}
Layer(name, num, http) == [name |-> name, num |-> num, http |-> http]
TimeoutError == <<Layer("TIMEOUT", 0, 0)>>
Mismatch == <<Layer("CHAIN_ID_MISMATCH", 0, 0)>>
Malformed == <<Layer("RPC_MALFORMED_RESPONSE", 0, 0)>>
Unavailable == <<Layer("NETWORK_ERROR", 0, 0)>>

\* The first layer that has the field, of extractRpcDiagnostic.
HttpStatus(e) ==
  LET with == SelectSeq(e, LAMBDA l : l.http # 0) IN IF with = <<>> THEN 0 ELSE Head(with).http

\* isTransientRpcReadError. Codes may be nested below a wrapper.
Transient(e) ==
  \/ \E l \in ToSet(e) : l.num \in {19, 26, 30, 408, 425, 429, 500, 502, 503, 504}
  \/ HttpStatus(e) \in {408, 425, 429, 500, 502, 503, 504}
  \/ \E l \in ToSet(e) : l.name \in NetworkCodes
  \/ HttpStatus(e) = 0 /\ \E l \in ToSet(e) : l.name = "SERVER_ERROR"

\* What moves a call to the next endpoint.
Retryable(e) == Transient(e) \/ e \in {Mismatch, Malformed}

\* Mutant: every write may be sent again elsewhere.
MovesAnyWrite(kind, e) == Retryable(e)

\* A write that the endpoint signs itself is never sent to a second one.
Moves(kind, e) == Retryable(e) /\ kind # "managed"
-----------------------------------------------------------------------------
(* One pass over the endpoints: _send.                                     *)

AtLast(c) == calls[c].ep = Len(Endpoints)

Fresh(kind) ==
  [kind |-> kind, phase |-> "open", ep |-> 1, attempt |-> 1, used |-> 0, slot |-> 0,
   end |-> EndpointTimeout * Len(Endpoints), null |-> FALSE, err |-> Nil, result |-> Nil,
   reached |-> {}]

Set(c, rec) == calls' = [calls EXCEPT ![c] = rec]

\* The whole time of a read; the other calls are not bounded from outside.
Deadline(c) == IF calls[c].kind \in Reads THEN ReadTimeout ELSE calls[c].end

Start(c, kind) ==
  /\ calls[c] # Nil => calls[c].phase = "answered"
  /\ Set(c, Fresh(kind)) /\ sent' = [sent EXCEPT ![c] = <<>>] /\ UNCHANGED validated

\* Mutant: the first endpoint may use up the time of all.
SlotWhole(c) == calls[c].end

\* The end of the slot of the endpoint that is opened now.
Slot(c) == Min2(calls[c].end, calls[c].used + EndpointTimeout)

\* Mutant: one checked endpoint vouches for all.
NeedsCheckAny(c) == calls[c].kind # "chain" /\ validated = {}

\* validateEndpoint is skipped for the chain check itself.
NeedsCheck(c) == calls[c].kind # "chain" /\ Endpoints[calls[c].ep] \notin validated

Open(c) ==
  /\ calls[c] # Nil /\ calls[c].phase = "open" /\ calls[c].ep <= Len(Endpoints)
  /\ Slot(c) > calls[c].used
  /\ Set(c, [calls[c] EXCEPT !.slot = Slot(c), !.reached = @ \cup {calls[c].ep},
                             !.phase = IF NeedsCheck(c) THEN "check" ELSE "request"])
  /\ UNCHANGED <<validated, sent>>

\* The moments at which the endpoint may answer: within its slot, and for a
\* read before the time of the whole read is up.
Moments(c) == {t \in calls[c].used .. calls[c].slot : t <= Deadline(c)}

\* An endpoint failed with e at time t.
Failed(c, e, t) ==
  IF Moves(calls[c].kind, e)
    THEN [calls[c] EXCEPT !.used = t, !.err = e, !.phase = "open", !.ep = @ + 1]
    ELSE [calls[c] EXCEPT !.used = t, !.err = e, !.phase = "passed", !.result = "error"]

\* What an endpoint fails with, and when.
Failures(c) == (Errors \cup {Malformed}) \X Moments(c)

\* Nothing is heard within the slot.
SlotTimesOut(c) ==
  /\ calls[c] # Nil /\ calls[c].phase \in {"check", "request"} /\ calls[c].slot <= Deadline(c)
  /\ Set(c, Failed(c, TimeoutError, calls[c].slot))
  /\ sent' = IF calls[c].phase = "check" THEN sent ELSE [sent EXCEPT ![c] = Append(@, Endpoints[calls[c].ep])]
  /\ UNCHANGED validated

CheckEndpoint(c) ==
  LET url == Endpoints[calls[c].ep] IN
  /\ calls[c] # Nil /\ calls[c].phase = "check"
  /\ \/ /\ url \notin foreign /\ validated' = validated \cup {url}
        /\ \E t \in Moments(c) : Set(c, [calls[c] EXCEPT !.used = t, !.phase = "request"])
     \/ /\ url \in foreign /\ UNCHANGED validated
        /\ \E t \in Moments(c) : Set(c, Failed(c, Mismatch, t))
     \/ /\ \E f \in Failures(c) : Set(c, Failed(c, f[1], f[2]))
        /\ UNCHANGED validated
  /\ UNCHANGED sent

\* Mutant: the first null is taken for the answer.
NullPassesNever(c) == FALSE

\* A transaction or receipt that this endpoint does not know may be known to
\* the next one.
NullPasses(c) == ~AtLast(c)

\* The request itself. The endpoint receives it even when its answer is lost.
Request(c) ==
  LET url == Endpoints[calls[c].ep]
      chain == calls[c].kind = "chain"
      Answer(t, r) == Set(c, [calls[c] EXCEPT !.used = t, !.phase = "passed", !.result = r])
  IN
  /\ calls[c] # Nil /\ calls[c].phase = "request"
  /\ sent' = [sent EXCEPT ![c] = Append(@, url)]
  /\ \/ /\ ~chain /\ \E t \in Moments(c) : Answer(t, "value")
        /\ UNCHANGED validated
     \/ /\ calls[c].kind = "lookup" /\ UNCHANGED validated
        /\ \E t \in Moments(c) :
             IF NullPasses(c)
               THEN Set(c, [calls[c] EXCEPT !.used = t, !.null = TRUE, !.phase = "open", !.ep = @ + 1])
               ELSE Answer(t, "null")
     \/ /\ chain /\ url \notin foreign /\ validated' = validated \cup {url}
        /\ \E t \in Moments(c) : Answer(t, "value")
     \/ /\ chain /\ url \in foreign /\ UNCHANGED validated
        /\ \E t \in Moments(c) : Set(c, Failed(c, Mismatch, t))
     \/ /\ \E f \in Failures(c) : Set(c, Failed(c, f[1], f[2]))
        /\ UNCHANGED validated

\* No endpoint is left, or no time: a null that was seen is the answer.
Exhausted(c) ==
  /\ calls[c] # Nil /\ calls[c].phase = "open"
  /\ calls[c].ep > Len(Endpoints) \/ Slot(c) <= calls[c].used
  /\ Set(c, [calls[c] EXCEPT !.phase = "passed", !.result = IF calls[c].null THEN "null" ELSE "error",
                             !.err = IF @ = Nil THEN Unavailable ELSE @])
  /\ UNCHANGED <<validated, sent>>
-----------------------------------------------------------------------------
(* Retries of reads: withRpcReadRetry and withNullableRpcReadRetry.        *)

\* Mutant: the last attempt is repeated.
AgainAlways(c) == calls[c].used < ReadTimeout

\* An attempt is repeated while attempts and time are left.
Again(c) == calls[c].attempt < MaxAttempts /\ calls[c].used < ReadTimeout

Repeats(c) ==
  /\ calls[c].kind \in Reads /\ Again(c)
  /\ \/ calls[c].result = "error" /\ Transient(calls[c].err)
     \/ calls[c].result = "null" /\ calls[c].kind = "lookup"

Retry(c) ==
  /\ calls[c] # Nil /\ calls[c].phase = "passed" /\ Repeats(c)
  /\ LET now == Min2(calls[c].used + RetryDelay * calls[c].attempt, ReadTimeout) IN
     Set(c, [Fresh(calls[c].kind) EXCEPT
               !.attempt = calls[c].attempt + 1, !.used = now, !.end = now + @,
               !.reached = calls[c].reached])
  /\ UNCHANGED <<validated, sent>>

Finish(c) ==
  /\ calls[c] # Nil /\ calls[c].phase = "passed" /\ ~Repeats(c)
  /\ Set(c, [calls[c] EXCEPT !.phase = "answered"])
  /\ UNCHANGED <<validated, sent>>

\* Mutant: the outer timer is missing.
NoReadTimeout(c) == FALSE

\* withReadTimeout: the time of the read is up before the endpoint's slot is.
ReadTimesOut(c) ==
  /\ calls[c] # Nil /\ calls[c].phase \in {"check", "request"} /\ calls[c].slot > Deadline(c)
  /\ Set(c, [calls[c] EXCEPT !.used = ReadTimeout, !.phase = "answered",
                             !.result = "error", !.err = TimeoutError])
  /\ UNCHANGED <<validated, sent>>
-----------------------------------------------------------------------------
RpcInit ==
  /\ foreign \in SUBSET ToSet(Endpoints)
  /\ validated = {}
  /\ calls = [c \in Calls |-> Nil]
  /\ sent = [c \in Calls |-> <<>>]

\* What the runtime does by itself, timers included, and what endpoints do.
Internal(c) ==
  Open(c) \/ SlotTimesOut(c) \/ Exhausted(c) \/ Retry(c) \/ Finish(c) \/ ReadTimesOut(c)

RpcNext ==
  /\ UNCHANGED foreign
  /\ \E c \in Calls :
       Internal(c) \/ CheckEndpoint(c) \/ Request(c) \/ \E kind \in CallKinds : Start(c, kind)

RpcSpec == RpcInit /\ [][RpcNext]_rpcVars

\* Timers fire; endpoints need not answer.
RpcFairSpec == RpcSpec /\ \A c \in Calls : WF_rpcVars(Internal(c) /\ UNCHANGED foreign)
-----------------------------------------------------------------------------
AllErrors == Errors \cup {Malformed, Mismatch, TimeoutError, Unavailable}

RpcTypeOK ==
  /\ foreign \subseteq ToSet(Endpoints) /\ validated \subseteq ToSet(Endpoints)
  /\ \A c \in Calls : calls[c] # Nil =>
       /\ calls[c].kind \in CallKinds
       /\ calls[c].phase \in {"open", "check", "request", "passed", "answered"}
       /\ calls[c].ep \in 1 .. Len(Endpoints) + 1
       /\ calls[c].phase \in {"check", "request"} => calls[c].ep <= Len(Endpoints)
       /\ calls[c].attempt \in 1 .. MaxAttempts
       /\ calls[c].used <= Deadline(c)
       /\ calls[c].err \in AllErrors \cup {Nil}
       /\ calls[c].result \in {Nil, "value", "null", "error"}
  /\ \A c \in Calls : ToSet(sent[c]) \subseteq ToSet(Endpoints)

\* A request other than the question for its chain reaches only endpoints of
\* the configured chain, whatever calls checked endpoints before.
RightChainOnly ==
  \A c \in Calls : calls[c] # Nil /\ calls[c].kind # "chain" => ToSet(sent[c]) \cap foreign = {}

\* A submission that the endpoint signs is sent once, whatever became of it; a
\* signed one at most once to each endpoint.
SubmittedOnce ==
  \A c \in Calls : calls[c] # Nil =>
    /\ calls[c].kind = "managed" => Len(sent[c]) <= 1
    /\ calls[c].kind = "raw" => IsInjective(sent[c])

\* A call that fails for a passing reason, or finds nothing, has gone to every
\* endpoint: a stalled endpoint, or one that lags behind, never keeps the next
\* one from being asked.
EveryEndpointTried ==
  \A c \in Calls :
    calls[c] # Nil /\ calls[c].phase = "answered" =>
      \/ calls[c].result = "value" \/ calls[c].kind = "managed"
      \/ calls[c].result = "error" /\ ~Retryable(calls[c].err)
      \/ calls[c].reached = DOMAIN Endpoints

\* Every call is answered, even if no endpoint ever answers.
CallsAreAnswered ==
  \A c \in Calls : (calls[c] # Nil) ~> (calls[c] # Nil /\ calls[c].phase = "answered")

\* A call goes to the right chain, a submission out once and a read to every
\* endpoint, and every call is answered.
CallsAreServed ==
  [](RpcTypeOK /\ RightChainOnly /\ SubmittedOnce /\ EveryEndpointTried) /\ CallsAreAnswered
=============================================================================
