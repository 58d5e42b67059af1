----------------------------- MODULE LLMRuntime -----------------------------
(***************************************************************************)
(* The assistive LLM runtime: reason() looks the request up in a bounded   *)
(* store of earlier results, else asks the model under a timeout, repairs  *)
(* an answer that does not fit the schema, and falls back to the caller's  *)
(* own value.  Several coroutines call it at the same time; each is        *)
(* suspended while the model works and while its result is persisted.      *)
(*                                                                         *)
(* build_runtime makes a new store for every runtime.  The intake          *)
(* handler and the peers create a runtime for every classification and for *)
(* every summary: nothing is ever replayed to them.  draft_with_llm        *)
(* is given its runtime, and calls with the same one share its store: this *)
(* is the only way to share that the code has, and at this commit nothing  *)
(* but tests calls draft_with_llm.  No agent of the repository gives its   *)
(* runtime a publisher either; LLMRuntime takes one.                       *)
(***************************************************************************)
EXTENDS Integers, Sequences, FiniteSets

CONSTANTS
  MaxCalls,      \* how many calls of reason() there are
  Requests,      \* what callers ask for, as [kind, input]
  Classifications, Drafts, Narratives,   \* what a model may answer
  LRU_SIZE,      \* _LRUResultCache maxsize
  Settings,      \* the configurations an agent may be started with
  MaxCrashes

\* Calls have numbers in the order in which they begin.
Calls == 1 .. MaxCalls

Kind == {"classify", "draft_response", "summarize_reasoning"}

\* What fits the schema of a kind of request.  A confidence is in tenths; a
\* draft leaks if its body names an internal field.
Classification == [needs_refund_review : BOOLEAN, confidence : 0 .. 10]
Draft          == [leaks : BOOLEAN, requires_human_approval : BOOLEAN]

\* What a place of the configuration says of max_repairs: it does not exist,
\* it exists without a value, or it has one.
Absent  == -2
Unset   == -1
Repairs == Nat \cup {Absent, Unset}

\* task, agent and default: entries of the profiles file.  registered: there is
\* a profile for the agent and the task in the code.  environment: the variable.
\* publisher: the runtime was given a publisher for its audit records.
Setting ==
  [task : Repairs, agent : Repairs, default : Repairs,
   registered : BOOLEAN, environment : Nat \cup {Absent}, publisher : BOOLEAN]

\* The request's idempotency key is a digest of the case, the kind and the
\* inputs: requests are equal if and only if their keys are.
ASSUME LLMAssumption ==
  /\ \A r \in Requests : r.kind \in Kind
  /\ Classifications \subseteq Classification /\ Drafts \subseteq Draft
  /\ MaxCalls \in Nat
  /\ LRU_SIZE \in Nat \ {0}
  /\ Settings \subseteq Setting
  /\ MaxCrashes \in Nat

VARIABLES
  settings,    \* the configuration of this process
  pc,          \* where a call is
  request,     \* what it asks for
  before,      \* the calls that had returned when it began
  asked,       \* how often it has asked the model so far
  result,      \* its AssistiveResult
  store,       \* the shared runtime's results, least recently used first
  audit,       \* the audit topic
  forgotten,   \* the requests whose result was evicted, or lost in a crash
  crashes

call == <<pc, request, before, asked, result>>
vars == <<settings, call, store, audit, forgotten, crashes>>

-----------------------------------------------------------------------------
\* Answers and results.

Content(kind) ==
  CASE kind = "classify"            -> Classifications
    [] kind = "draft_response"      -> Drafts
    [] kind = "summarize_reasoning" -> Narratives

Contents == UNION {Content(kind) : kind \in Kind}

\* An answer fits the schema or it does not, and it asserts only facts that
\* are among the inputs or it does not.
Malformed     == [fits |-> FALSE]
Answer(kind)  == {Malformed} \cup [fits : {TRUE}, grounded : BOOLEAN, content : Content(kind)]

\* A value is an object of the schema's class; from the store, which keeps
\* JSON, it comes back as a dict.  NoContent: the caller's fallback value.
NoContent == [content |-> "fallback"]

NoResult  == [path |-> "none"]
NoRequest == [kind |-> "none"]

model_result(content) == [path |-> "model", form |-> "object", value |-> content]

fallback_result == [path |-> "fallback", form |-> "object", value |-> NoContent]

\* AssistiveResult.model_validate(data) with the path set to cache.
cached_result(content) == [path |-> "cache", form |-> "dict", value |-> content]

Result ==
  {NoResult, fallback_result}
    \cup {model_result(v) : v \in Contents}
    \cup {cached_result(v) : v \in Contents}

Stage == {"idle", "asking", "repairing", "persisting", "returned", "raised", "lost"}

TypeOK ==
  /\ settings \in Settings
  /\ pc \in [Calls -> Stage]
  /\ request \in [Calls -> Requests \cup {NoRequest}]
  /\ before \in [Calls -> SUBSET Calls]
  /\ asked \in [Calls -> Nat]
  /\ result \in [Calls -> Result]
  /\ store \in Seq([key : Requests, value : Contents]) /\ Len(store) <= LRU_SIZE
  /\ audit \in Seq([call : Calls, outcome : STRING])
  /\ forgotten \subseteq Requests
  /\ crashes \in 0 .. MaxCrashes

-----------------------------------------------------------------------------
\* Configuration.

DEFAULT_MAX_REPAIRS == 2

\* _build_profile: what an entry does not say has the default of the code.
build_profile(v) == IF v \in Nat THEN v ELSE DEFAULT_MAX_REPAIRS

\* An agent's entry of the file is merged over the file's default.
merged(s, v) == build_profile(IF v = Unset THEN s.default ELSE v)

base_profile(s) ==
  CASE s.task # Absent    -> merged(s, s.task)
    [] s.task = Absent /\ s.agent # Absent -> merged(s, s.agent)
    [] OTHER -> IF s.registered THEN DEFAULT_MAX_REPAIRS ELSE build_profile(s.default)

\* Mutant: the environment counts only where the file is silent.
resolve_file_first(s) ==
  IF s.environment # Absent /\ s.agent \notin Nat THEN s.environment ELSE base_profile(s)

\* max_repairs of the profile of an agent and a task.
resolve_profile(s) == IF s.environment # Absent THEN s.environment ELSE base_profile(s)

max_repairs == resolve_profile(settings)

-----------------------------------------------------------------------------
\* The result store.

Recorded == {store[i].key : i \in DOMAIN store}

\* Entry e moved to, or added at, the end of the cache.
move_to_end(s, e) ==
  IF \A i \in DOMAIN s : s[i].key # e.key THEN Append(s, e)
  ELSE LET i == CHOOSE i \in DOMAIN s : s[i].key = e.key
       IN  [j \in DOMAIN s |-> CASE j < i -> s[j]
                                [] i <= j /\ j < Len(s) -> s[j + 1]
                                [] j = Len(s) -> e]

\* Mutant: nothing is evicted.
lru_put_unbounded(s, e) == move_to_end(s, e)

lru_put(s, e) ==
  LET t == move_to_end(s, e) IN IF Len(t) > LRU_SIZE THEN Tail(t) ELSE t

\* Mutant: every agent has one runtime.
shared_always(r) == TRUE

\* Calls of draft_with_llm that are given one runtime; the other calls have a
\* runtime, and a store, of their own.
shared(r) == r.kind = "draft_response"

-----------------------------------------------------------------------------
\* The audit record of a reasoning step.

\* The outcomes that AuditPayload allows.
AuditOutcome == {"accepted", "rejected", "duplicate_skipped", "completed", "failed"}

\* build_audit_record: a fallback always has a failure reason.
audit_outcome(res) ==
  CASE res.path = "model"    -> "produced"
    [] res.path = "cache"    -> "served_from_cache"
    [] res.path = "fallback" -> "unable_to_produce"

\* A record that AuditPayload refuses is logged and dropped.
write_reasoning_audit(c, res) ==
  audit' = IF audit_outcome(res) \in AuditOutcome
             THEN Append(audit, [call |-> c, outcome |-> audit_outcome(res)])
             ELSE audit

\* A runtime without a publisher writes nothing.
emit_audit(c, res) ==
  IF settings.publisher THEN write_reasoning_audit(c, res) ELSE UNCHANGED audit

-----------------------------------------------------------------------------

Init ==
  /\ settings \in Settings
  /\ pc = [c \in Calls |-> "idle"]
  /\ request = [c \in Calls |-> NoRequest]
  /\ before = [c \in Calls |-> {}]
  /\ asked = [c \in Calls |-> 0]
  /\ result = [c \in Calls |-> NoResult]
  /\ store = <<>>
  /\ audit = <<>>
  /\ forgotten = {}
  /\ crashes = 0

\* The call ends with a result, which is audited.
Return(c, res) ==
  /\ result' = [result EXCEPT ![c] = res]
  /\ pc' = [pc EXCEPT ![c] = "returned"]
  /\ asked' = [asked EXCEPT ![c] = 0]
  /\ emit_audit(c, res)

\* Whatever the reason: a timeout, an unavailable model, an invalid output.
Fallback(c) ==
  /\ Return(c, fallback_result)
  /\ UNCHANGED <<store, forgotten>>

Begin(c, r) ==
  /\ pc[c] = "idle" /\ \A d \in 1 .. c - 1 : pc[d] # "idle"
  /\ request' = [request EXCEPT ![c] = r]
  /\ before' = [before EXCEPT ![c] = {d \in Calls : pc[d] = "returned"}]
  /\ UNCHANGED <<settings, crashes>>

\* Mutant: the key leaves out the kind of task and the inputs.
ServeAnything(c) ==
  \E i \in DOMAIN store, r \in Requests :
    /\ shared(r)
    /\ Begin(c, r)
    /\ Return(c, cached_result(store[i].value))
    /\ store' = move_to_end(store, store[i])
    /\ UNCHANGED forgotten

ServeFromCache(c) ==
  \E i \in DOMAIN store :
    /\ shared(store[i].key)
    /\ Begin(c, store[i].key)
    /\ Return(c, cached_result(store[i].value))
    /\ store' = move_to_end(store, store[i])
    /\ UNCHANGED forgotten

\* Another question to the model.
Invoke(c, stage) ==
  /\ pc' = [pc EXCEPT ![c] = stage]
  /\ asked' = [asked EXCEPT ![c] = @ + 1]
  /\ UNCHANGED <<result, store, audit, forgotten>>

Ask(c) ==
  /\ \E r \in Requests :
       Begin(c, r) /\ ~(shared(r) /\ r \in Recorded)
  /\ Invoke(c, "asking")

\* Mutant: a repaired answer is not kept.
RecordUnlessRepaired(c, content) ==
  /\ result' = [result EXCEPT ![c] = model_result(content)]
  /\ store' = IF asked[c] = 1 /\ shared(request[c])
               THEN lru_put(store, [key |-> request[c], value |-> content]) ELSE store
  /\ pc' = [pc EXCEPT ![c] = "persisting"]
  /\ UNCHANGED <<asked, audit, forgotten>>

\* store.put: the cache first; the call then waits for the topic.
Record(c, content) ==
  LET e == [key |-> request[c], value |-> content]
      s == IF shared(request[c]) THEN lru_put(store, e) ELSE store
      Keys(t) == {t[i].key : i \in DOMAIN t}
  IN  /\ result' = [result EXCEPT ![c] = model_result(content)]
      /\ store' = s
      /\ forgotten' = forgotten \cup (Recorded \ Keys(s))
      /\ pc' = [pc EXCEPT ![c] = "persisting"]
      /\ UNCHANGED <<asked, audit>>

\* The first answer.  Only its schema is validated; facts are not checked.
Answered(c) ==
  /\ pc[c] = "asking"
  /\ \E a \in Answer(request[c].kind) :
       \/ a.fits /\ Record(c, a.content)
       \/ ~a.fits /\ Invoke(c, "repairing")
  /\ UNCHANGED <<settings, request, before, crashes>>

\* The model does not answer in time, or raises.
Fails(c) ==
  /\ pc[c] = "asking"
  /\ Fallback(c)
  /\ UNCHANGED <<settings, request, before, crashes>>

\* invoke_structured asks 1 + max_repairs times, after the first answer.
budget_left(c) == asked[c] - 1 < 1 + max_repairs

\* An answer to a repair has to fit and to be grounded.
Repaired(c) ==
  /\ pc[c] = "repairing"
  /\ \E a \in Answer(request[c].kind) :
       \/ a.fits /\ a.grounded /\ Record(c, a.content)
       \/ /\ ~(a.fits /\ a.grounded)
          /\ \/ budget_left(c) /\ Invoke(c, "repairing")
             \/ ~budget_left(c) /\ Fallback(c)
  /\ UNCHANGED <<settings, request, before, crashes>>

\* The model raises during a repair: the exception leaves reason().
Raises(c) ==
  /\ pc[c] = "repairing"
  /\ pc' = [pc EXCEPT ![c] = "raised"]
  /\ asked' = [asked EXCEPT ![c] = 0]
  /\ UNCHANGED <<settings, request, before, result, store, audit, forgotten, crashes>>

\* Mutant: the call returns once it finds its own record in the store.
PersistedIfKept(c) ==
  /\ pc[c] = "persisting" /\ request[c] \in Recorded
  /\ Return(c, result[c])
  /\ UNCHANGED <<settings, request, before, store, forgotten, crashes>>

\* The result is written to the compacted topic, or the write fails, which is
\* logged.  Nothing reads the topic, so that it is not kept here.
Persisted(c) ==
  /\ pc[c] = "persisting"
  /\ Return(c, result[c])
  /\ UNCHANGED <<settings, request, before, store, forgotten, crashes>>

\* The process dies and is started again, with an empty store.
Crash ==
  /\ crashes < MaxCrashes
  /\ crashes' = crashes + 1
  /\ pc' = [c \in Calls |-> IF pc[c] \in {"asking", "repairing", "persisting"}
                              THEN "lost" ELSE pc[c]]
  /\ store' = <<>>
  /\ forgotten' = forgotten \cup Recorded
  /\ asked' = [c \in Calls |-> 0]
  /\ UNCHANGED <<settings, request, before, result, audit>>

Progress(c) == Answered(c) \/ Fails(c) \/ Repaired(c) \/ Raises(c) \/ Persisted(c)

Next ==
  \/ \E c \in Calls : ServeFromCache(c) \/ Ask(c) \/ Progress(c)
  \/ Crash

Spec == Init /\ [][Next]_vars

\* The event loop keeps running, and the model answers or fails: the first
\* question ends with its timeout, the stub answers at once, and the clients of
\* the other providers have timeouts of their own.
FairSpec == Spec /\ \A c \in Calls : WF_vars(Progress(c))

-----------------------------------------------------------------------------
\* Properties.

\* What the documents allow with max_repairs = n: the first question, and n
\* repairs (llm-runtime-api.md:31, agent-llm-runtime.md:50,
\* structured-llm-outputs.md:18, provider-protocol.md:53, T1109 of specs/008).
DocumentedBudget(n) == 1 + n

\* The cost of a call is bounded by its configuration: by the value of
\* AGENT_LLM_MAX_REPAIRS whatever the profiles file says, else by the most
\* specific profile.  The bound is NOT the documented one.  reason() asks once,
\* and invoke_structured, called when that answer does not fit, asks the same
\* question afresh before its n repairs: a call may cost one question more than
\* DocumentedBudget, and never two.
CallsAreBounded ==
  \A c \in Calls :
    /\ asked[c] <= DocumentedBudget(max_repairs) + 1
    /\ settings.environment # Absent =>
         asked[c] <= DocumentedBudget(settings.environment) + 1

\* A request that was answered is not reasoned about again: of two calls with
\* one key that both reach the model, the later began before the earlier one
\* returned, unless the store forgot the result (an eviction or a crash).
NoSecondReasoning ==
  \A c, d \in Calls :
    /\ d \in before[c] /\ request[c] = request[d] /\ shared(request[c])
    /\ result[d].path \in {"model", "cache"}
    /\ request[c] \notin forgotten
    => pc[c] = "idle" \/ result[c].path = "cache"

\* A replay gives what a model answered to the same request, in whatever order
\* concurrent calls record their answers, and never a fallback value.
ReplayIsAnAnswer ==
  \A c \in Calls :
    result[c].path = "cache" =>
      \E d \in Calls \ {c} :
        /\ request[d] = request[c]
        /\ result[d].path = "model" /\ result[d].value = result[c].value

\* Every call ends: with a result, with an exception out of a repair, or with
\* the process.  There are finitely many, so that none is left in the end.
CallsEnd ==
  []<>(\A c \in Calls : pc[c] \in {"idle", "returned", "raised", "lost"})

\* "Always - emit exactly one ReasoningAuditRecord" (step 8 of the contract of
\* reason()): a call that returned has one record on the audit topic.  Even with
\* a publisher, the outcomes of build_audit_record are none of AuditPayload's,
\* so that write_reasoning_audit drops every record.
StepIsAudited ==
  \A c \in Calls :
    pc[c] = "returned" => Cardinality({i \in DOMAIN audit : audit[i].call = c}) = 1
=============================================================================
