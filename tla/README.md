# Verification of the decentralized refund workflow

The repository runs a refund workflow as three agents that only talk over Kafka
topics. There is no supervisor: the Customer Resolution Agent takes a ticket,
asks the Billing Entitlement Agent and the Risk & Fraud Agent for an opinion,
and publishes one decision and one reply. This directory holds TLA+ models of
the code, TLC configurations, and TLAPS proofs.

`PROJECT.json` lists the components, the runs, the mutants, the source lines
behind each definition, the hazards, the findings and the theorems.

## Inventory

| Component | State | Operations | Hard behaviour | What makes it correct |
|---|---|---|---|---|
| Customer Resolution Agent (`apps/agents/customer_resolution`) | the case store: status, findings, pending tasks, failed slots, deadline | intake, task-result, billing and risk handlers, reaper | five coroutines on one store, suspended at every publish and audit write; failed publishes; late, repeated and missing answers; a deadline | one decision per case, on the evidence it claims; every case settles |
| Decision engine (`decision_engine.py`) | none | `decide`, `compute_confidence` | first-match order, thresholds, a score that is an uncertainty | follows the documents' tables, the later one where they differ; worse information never relaxes a verdict |
| A2A runtime (`src/agent_foundation/runtime/runtime.py`) and tracker (`idempotency.py`) | consumer position, LRU of task ids, compacted topic | accept, reject, skip, run, report, mark; start, join, leave | crash between running and marking; background offset commits; swallowed publish errors; eviction | a task id is an idempotency key; a skipped task was answered |
| Event transport (`transport/`) | consumer position, tracker, audit records | consume, discard, reject, skip, publish, replay | handler errors dropped, offsets committed early, a loop that ends alone, a store that dies with the process | an event is handled once, or its loss has a known cause; records are true |
| A2A client (`runtime/client.py`) | one pending request | submit, await result, submit again | a timeout racing the answer, two requests with one id | all answers of a task agree; every submit ends |
| Agent cards and discovery (`runtime/discovery.py`) | compacted card topic | publish and republish card, find peer | a card before the agent reads or after it left, a purged topic | a running agent is found again |
| Billing Entitlement Agent | none (mock data) | refund rules | rule order, dates, usage | the first gate that applies decides; only refundable purchases are approved |
| Risk & Fraud Agent | last review per case | scoring | additive score on inclusive thresholds, gates before it | only trusted customers pass; a worse signal never helps |
| LLM runtime (`llm/`) | store of results, configuration | reason: replay, ask, repair, fall back, record | concurrent calls, timeouts, exceptions out of a repair, evictions, three places of configuration | bounded cost, no second question for an answered request, every call ends |
| Ticket classifier, response drafter, summaries | none | use a result or their own rules | results of four forms: model, fallback, replayed dict, exception | no failure changes a triage, no leaking draft gets out, no summary fails a task |
| Case trace, observability, demo UI, AgentCore adapters, test support | - | - | - | not modelled: read-only views, fail-open side channels, wrappers |

How they interact: a ticket on `support.ticket.created` reaches the intake
handler. It publishes `customer-issue.classified`; if the ticket needs a refund
review it discovers each peer by its card, publishes a task request on the
peer's endpoint topic and announces `refund-review.requested`. A peer's runtime
runs its handler, which publishes a report on the peer's own result topic, and
then publishes a task result on `agent.task.result`. Three consumers of the
resolution agent read the two report topics and the task results. A reaper
wakes up every second and looks for cases past their deadline. Whoever finds a
case ready claims it and publishes `customer.resolution.decided` and
`customer-response.drafted`.

## Modules

| Module | Models |
|---|---|
| `PeerFindings` | the peers' report payloads and the findings made of them |
| `DecisionEngine` | `decide()` and `compute_confidence()` |
| `MCDecisionEngine` | TLC: every input around the threshold, and the steps that degrade it |
| `CustomerResolution` | the store, the four handlers, the reaper, with peers and clock as environment |
| `CaseDecision` | abstract: per ticket one decision, then one reply with its outcome, both eventually |
| `MCCustomerResolution` | TLC instances; the claims of documents and comments that the code does not meet |
| `CustomerResolutionProofs` | TLAPS: type correctness, the exclusive claim and what follows from its invariant |
| `EvidenceProofs` | TLAPS: what a published decision rests on; the safety part of `CaseDecision` |
| `DecisionProofs` | TLAPS: `decide()` follows the tables, and is monotone |
| `TrackerProofs` | TLAPS: lemmas on the operations of the tracker |
| `ExchangeProofs` | TLAPS: the exchange of tasks |
| `ConsumerProofs` | TLAPS: the consumers |
| `LLMProofs` | TLAPS: the LLM runtime and the uses of its results |
| `PolicyProofs` | TLAPS: what the three agents' rules add up to |
| `IdempotencyTracker` | the tracker: an LRU of ids, rebuilt from a compacted topic |
| `AgentRuntime` | a peer's runtime: the life of the process and of a task |
| `A2AExchange` | requesters and discovery composed with that runtime |
| `MCA2AExchange` | TLC: what is requested |
| `EventConsumer` | `Consumer.run()` twice in one process, over one case store |
| `MCEventConsumer` | TLC: how each loop may be started |
| `LLMRuntime` | `reason()`, its store, configuration and audit |
| `AssistedReplies` | what classifier, drafter and peers make of its results |
| `MCLLMRuntime` | TLC: requests, answers and configurations |
| `BillingRules` | the billing agent's `evaluate()` and the report made of it |
| `RiskScoring` | the risk agent's `assess_signals()` and the report made of it |
| `RefundPolicy` | the two reports and what the resolution agent decides on them |
| `MCRefundPolicy` | TLC: purchases and customers around every threshold |

`CustomerResolution` extends `DecisionEngine`, which extends `PeerFindings`, and
instantiates `CaseDecision` for the refinement. `RefundPolicy` extends
`BillingRules`, `RiskScoring` and `DecisionEngine`. `A2AExchange` extends
`AgentRuntime`; that and `EventConsumer` extend `IdempotencyTracker`, which is
one class in the code as well. `AssistedReplies` extends `LLMRuntime`.

### CustomerResolution

*Atomicity.* The agent is one asyncio event loop. A step of the model is the
code between two points where a coroutine can really suspend: a publish, an
audit write, a discovery, the model call of the classifier. The store's lock is
never held across such a point, so that a store call never waits, and the
handlers share the record itself and not a copy. `pc[l][c]` is the point where
loop `l` is suspended in its work on case `c`; `verdict[l][c]` is the decision
it holds there.

*Correspondence.* `cases[c]` is the `ResolutionCase`; `delegated` says that both
task ids are minted, which `delegate()` does for both at once. Status `none`
stands for a case that is not in the store. `pending_tasks` and `slot_failed`
name tasks by their slot. `deadline` is `deadline_at` together with the clock.
Confidences are hundredths. The actions are named after the handler's stage:
`ReceiveTicket`, `Classify`, `PublishClassified`, `RequestBilling`,
`RequestRisk` and `AnnounceReview` are `intake_handler` with `delegate()`;
`ReceiveResult`, `ReceiveBilling` and `ReceiveRisk` run up to the audit write
and `Conclude` from there; `Sweep` and `Reap` are `run_reaper`;
`PublishDecision` and `PublishDraft` are `_emit_decision_and_draft`.

*Failures.* A publish or a discovery may raise (`Fault`), with the event
delivered or not. An event may be delivered again; the budget `MaxRedeliveries`
stands for a rebalance as well as for a peer that repeats a report. Peers may
stay silent, answer in any order, reject or fail, or fail after their report
went out.

*Left out.* `version` and `expected_version` (no handler passes one),
`transition()` and `_ALLOWED_TRANSITIONS` (no handler calls it), the ids kept
for evidence, and `result_handler`'s branch for completed results, which it
leaves to the peers' own topics before that branch. Events that do not
validate, restarts of the process and the results that are then parked are the
subject of `EventConsumer`. The reaper's visits may interleave with other loops one by one,
which is slightly more than the code allows between two cases that are skipped.

*Fairness.* `FairSpec` assumes that each of the five loops keeps running (they
are tasks of one event loop, and a consumer survives its handler's exceptions)
and that time passes. It assumes nothing of the peers.

### AgentRuntime and A2AExchange

One coroutine handles one request at a time. `position` and `lru` are in memory;
`committed`, `processed` and the card (`announced`) are in Kafka. An agent is
down, joining or serving: `Start` publishes the card, `Join` rebuilds the cache,
all of it or what a failed read left, and begins at the committed offset, or at
the end of the topic if there is none. `AutoCommit` may happen at any time, as
`enable_auto_commit` does it in the background. `Crash` loses what is in memory;
`Leave` is a stop or a broken consumer, which commits; `Collapse` is the request
whose malformed `task_id` raises out of `serve()`. `RepublishCard` is the
background loop and `PurgeCards` the loss of the discovery topic that its
comment speaks of. Down again, an agent may be started any number of times.

A requester finds the card (`Discover`) and sends its request. For the tasks in
`Awaited` this is `A2AClient.submit`, which waits, and which after any exception
of its first attempt, a timeout included, sends the request a second time. The
other tasks are requests of `a2a_handlers.py`, which does not wait. A timeout
may come at any moment of a wait.

*Fairness.* A serving runtime keeps serving, its republish loop runs, and a wait
ends, because it has a timeout. Nothing in the repository starts an agent, so
`Start` and `Join` are not fair.

### EventConsumer

Two of the resolution agent's consumer loops, one for tickets and one for the
peers' results, which is the smallest process in which one loop needs what
another has stored. Each has its group, committed offset and tracker. An event
is its offset: every publish mints an `event_id`, so that an event comes twice
only if a loop goes back, after a restart or a seek (`StartLoop` with the modes
that `replay` of the CLI offers). `Accept` to `WriteAudit` are the awaits of
`run()` from the handler to the audit record. The intake handler is reduced to
what the transport depends on: it opens the case, asks the peers (`Delegate`),
and returns or raises. `excused` is a history variable: the offsets that one of
the known causes has given up. `orphans` are the cases in the store when the
process ended.

The specification of the transport promises that a replay "arrives at an
identical final state" (SC-005). `ReplayHasNoEffect` says how much of this the
code keeps: while the ids of a topic fit in the cache, no event on it is handled
again; beyond that only the last one is safe, because a replay that handles an
evicted event again evicts one that it has yet to read. That the last `LRU_SIZE`
events are safe looks plausible and holds at the bounds of the run, but three
events, a cache of two and two restarts refute it; the attempt to prove it
showed this.

*Fairness.* Each loop keeps consuming while the process lives. No start, commit
or publish is fair.

### LLMRuntime and AssistedReplies

A call of `reason()` is suspended while the model works and while its result is
persisted; between these points it runs alone. Answers are told apart by what
the code tests: whether they fit the schema and whether their facts are
grounded. The first answer is only validated against the schema; the answers to
a repair have to be grounded as well (`structured.py`). A repair is outside the
first question's timeout and try block, so that an exception there leaves
`reason()` (`Raises`). The store keeps JSON: a replayed value is a dict, which
`form` records.

Who shares a store: `build_runtime()` (`factory.py` lines 18-33) makes a new one
for every runtime, and the intake handler and the peers build a runtime per call,
so that nothing is ever replayed to them. `draft_with_llm` takes its runtime as a
parameter; drafts that are given one runtime share its store (`shared`). Its
interface is made for this, but at this commit nothing outside the tests calls
it: what `NoSecondReasoning` and `ReplayIsAnAnswer` say of a shared store holds
for the component and is not exercised by a deployed agent.

Who audits: `_emit_audit` writes only if the runtime has a publisher
(`runtime.py` line 367), which `publisher` of a setting says. The agents build
theirs without (`event_handlers.py` line 326, `billing_entitlement/main.py` line
65, `risk_fraud/main.py` line 70, `langgraph.py` line 93), so that they never
reach `write_reasoning_audit`. `step_audited` gives the runtime a publisher and
shows that the record is dropped even then.

`max_repairs` is resolved from the environment, the profiles file (task, agent,
default, with the merges of `_load_yaml_profiles`) and the code, in that order.
The prompt, redaction, the providers and the token counts are left out.

`AssistedReplies` is pure: the classification of a ticket, the draft for an
outcome and the narrative in a peer's report as functions of a call's result.
Its properties quantify over every kind of ticket and every outcome, because the
runtime does not look at its inputs.

*Fairness.* Every call makes progress: a first question has its timeout, the
stub answers at once and the clients of the other providers have timeouts of
their own.

### BillingRules, RiskScoring, RefundPolicy

The peers' analyses are pure functions of the facts they own, so they are
operators. A missing fact is a record of its own (`NoInvoice`, `NoHistory`), in
place of Python's `None`, with field values that no rule reacts to. Days,
chargebacks and counts are integers as in the code; scores are hundredths,
amounts cents, and a usage ratio is counted in units of 5e-10 so that the
tolerance of 1e-9 around its threshold has an inside. The code adds scores as
floats; all sums of its contributions were computed and none falls on the wrong
side of a threshold. The two computations of the score in `scoring.py`, one for
the evidence and one for reserved accounts, are the same sum and are modelled
once. `recommended_action`, the status strings, evidence and prose are left out:
the resolution agent reads none of them.

`RefundPolicy` asks what the rules of the three agents add up to. Its state is a
purchase, a customer, an amount and the decisions the ticket would get for the
two orders in which the reports can be read: an alarming risk report escalates
at once unless billing has denied before it (`risk_result_handler`). Its steps
are the environment's: they make the purchase older, used, reversed or
delivered and the customer more suspect, so that an action property can compare
a decision with the one before. The agents see nothing of the two sides
together except their reports, which is why each side is exhausted with a few
samples of the other.

Where the agents' contracts and their code differ, the properties name the
difference and do not follow either side silently. `Refundable` is the contract
of the billing agent and `RefundedAnyway` what the code refunds beyond it;
`Doubts` is what the two specifications want a person to see and `DecidedAnyway`
what the code decides all the same. The documents are listed under [Where
documents and code disagree](#where-documents-and-code-disagree).

## Runs

| Run | Bounds | Shows |
|---|---|---|
| `decision_engine` | confidences 30, 59, 60, 90: both sides of the threshold of 0.60 and well away | `decide()` gives 003's outcome unless 006 overrules it, escalations carry a reason, and degraded input never relaxes a verdict |
| `resolution_no_faults` | 1 case, 3 triages, 5 billing and 3 risk reports, 1 redelivery | the agent implements `CaseDecision`; approvals stay backed |
| `resolution_faults` | 1 case, 2 triages, 2 billing and 2 risk reports, 2 faults, 1 redelivery (550,000 states) | the claim, frozen evidence, the truth of every reason of an escalation, no forgotten case, every waiting case settles |
| `double_decision` (violation) | 1 fault | two decision events for one case |
| `lost_decision` (violation) | 1 fault | a decided case without a decision event |
| `stuck_case` (violation) | 1 fault | a case classified for ever |
| `a2a_exchange` | 2 tasks, one of them awaited, 4 mixes of requests, cache of 1, 1 fault, 1 stop | at most one repeated run per loss, agreeing answers, skipped means answered, the registry heals, requests are answered and submits end |
| `event_consumer` | 2 tickets of 3 kinds, 1 result, caches of 1, parked buffer of 1, 1 fault, 1 stop, all start modes | losses have known causes, records are true and complete, a replay has no effect, no event blocks another |
| `llm_runtime` | 3 calls, 4 requests, store of 1, 2 configurations, one with and one without a publisher, 1 crash | cost at most one question above the documented budget, no second reasoning, true replays, safe triage, drafts and reports, every call ends |
| `step_audited` (violation) | 2 calls, with a publisher | a returned call without an audit record |
| `refund_policy` | 124,000 purchases with 3 customers, 25,000 customers with 3 purchases and 3 amounts: both sides of every threshold, zero payments with a reversal included (600,000 states) | which tickets the three agents' rules refund together, that nothing bad helps, and what depends on the order of the reports |
| `credit_for_refunded` (violation) | as above | a partial credit for a purchase that was never paid for |

Cases only interact through the loops, each of which works on one case at a
time, and through the reaper's list. The proofs hold for any number of cases;
the runs use one. Two faults let a fault meet the handling of another; one redelivery
lets every handler see an event twice. Reports are chosen so that every row of
`decide()` and the fast path occur.

In `a2a_exchange` the awaited task is sent twice, which is what a retry needs; a
cache of one makes the second task evict the first. One stop and one fault each
can strike at every await; what a second one of a kind would do to the recovery
from the first is outside these bounds. The properties that count losses compare
with the counters and not with the bound.
In `event_consumer` two tickets let an eviction happen during a replay, and one
result suffices to meet the store before, during and after its case. In
`llm_runtime` three calls are one that records, one that evicts or replays, and
one more that meets what they left; two drafts compete for a store of one.

The resolution, exchange and consumer runs do not check for deadlock: an agent
whose topics are empty waits, and that is its normal end state. Nor does
`llm_runtime`, which ends with its last call, or `refund_policy`, whose last
state is a purchase and a customer that cannot get any worse.

The violation runs are findings: each property quotes what a document or a
comment says, and `PROJECT.json` names the lines on both sides.

### Observations that are not runs

Facts the models contain, where the documents say otherwise or a reader may not
expect them:

- A repeated `task_id` gets no result: `runtime.py` line 316 audits
  `duplicate_skipped` and publishes nothing, while
  `docs/architecture/replay-and-idempotency.md` line 88 says that it "returns
  the stored result". `SkippedMeansAnswered` is what holds instead.
- The decision may depend on which report is read first (`event_handlers.py` line
  720; the same document, line 80, promises an identical decision).
  `OrderOnlyMattersToDenials` says how far this goes.
- `reason()` may raise, out of a repair (`llm/runtime.py` line 237), although its
  contract says "Never raise into the caller". The intake handler and the peers
  catch it, which is what `FailureKeepsTriage` and `SummaryNeverFailsTask` rest
  on. `draft_with_llm` does not (`response_drafter.py` line 279): the exception
  goes on to its caller, and `DraftIsSafe` speaks of the calls that return.
- The first answer of a model is not checked against the grounding inputs, and
  the leak check reads the body of a draft only.
- A replayed draft is a dict and is therefore replaced by the template.
- The store of results is written to a topic that nothing reads: after a restart
  it is empty. The parked results are never drained.
- `submit(timeout_s)` may take twice that time (`client.py` line 104).
- An event that is no envelope leaves no audit record: `_make_partial_envelope`
  always returns None.

### Where documents and code disagree

The properties of the passing runs say what the code does; where a document says
something else, the property's comment and this list say so.

- *Ineligible billing* (`FollowsPolicyUnlessOverruled`). 003's decision policy,
  which 006 calls authoritative, escalates every elevated or high risk (row 4) and
  denies ineligible billing with low risk (row 5, its
  note and the example at line 96; FR-009). 006's combined rule, which says that
  it restates 003, denies the first (row 5) and escalates the second (row 8).
  `decide()` is on the side of 006. The property takes 003 as the base and lists
  every combination on which 006 overrules it.
- *A failed peer* (`EscalationReasonHolds`). 003's policy (row 2), 006's rule (row
  2), `timeout-and-failure-paths.md` lines 14-15, `failure-handling.md` lines 15-16
  and the docstring at `test_workflow_choreography.py` line 453 say `peer_failure`
  for a failed, rejected or unparseable answer. The code marks the slot, finds no
  opinion and says `missing_analysis`; `peer_failure` is the reason of a failed
  delegation only.
- *Eligible billing with an alarming risk* (the same property).
  `failure-handling.md` says `conflicting_analyses`; the code, on the fast path
  and in `decide()`, says `elevated_risk`, as 003 does.
- *An active entitlement on a cancelled subscription* (`ApprovalIsEarned`,
  `AutomaticMeansUnderstood`). 004's `refund-policy.md` lines 31-33, its spec lines
  221-223 and its data model send it to a person. The code compares
  `account_active` and not the status, and decides on its own, for a refund too.
- *Reversals* (the same). RP-002 wants `reversed_amount == 0`. A payment of zero or
  less with a reversal passes both payment gates (`rules_engine.py` lines 110 and
  283) and is approved, with a refundable amount below zero (line 366). And 004's
  spec calls a full reversal on a paid invoice a contradiction for a person, where
  the code denies, as RP-002 says.
- *Missing signals* (`AutomaticMeansUnderstood`). 005's FR-010 and SC-005 and
  `fraud-policy.md` lines 54-56 never clear by omission. The code asks for a person
  only if there is no record of the customer at all; a known customer of whom some
  or all signals are missing is scored on the others, with confidence 0.6 if the
  refund history is missing and 0.9 if anything else is.
- *Weights* (`ApprovalIsEarned`). `fraud-policy.md` and `policy.py` give velocity,
  an instrument mismatch and an anomaly +0.4, below the threshold of 0.5; the code
  adds +0.5 (`scoring.py` lines 233, 241, 264), and has rules FP-007 to FP-009 that
  `fraud-policy.md` does not know. The text of FP-005 (`policy.py` line 94) charges
  a new account "when status is 'good'"; the code charges a watched new account for
  both. FP-004 is described as two contributions that "can apply independently"
  (line 83); the code counts the larger one. `Serious` and `Weaker` are the code's.
- *Repairs* (`CallsAreBounded`). `llm-runtime-api.md` lines 31-32,
  `agent-llm-runtime.md` lines 50-51, `structured-llm-outputs.md` lines 18-28,
  `provider-protocol.md` line 53 and T1109 of 008's tasks allow `max_repairs`
  retries after the first answer. `invoke_structured` (`structured.py` line 44),
  which `reason()` calls after its own question, asks `1 + max_repairs` times: the
  original question once more, then the repairs. A call may cost `max_repairs + 2`
  questions. The property states the documented budget and the one question above
  it.

## Proofs

All theorems hold for every value of the constants that satisfies the named
assumptions: any set of cases, tasks, requests and reports, any size of a cache,
any number of faults, stops, crashes and redeliveries, any configuration. The
assumptions only give the constants their types and say that a cache has room
for one entry (`LRU_SIZE` in `idempotency.py` and the LLM store are 10,000 and
positive). Each inductive invariant was checked with TLC on the bounds of the
component's run before it was proved.

| Module | Assumptions | Inductive invariant | States for all instances |
|---|---|---|---|
| `CustomerResolutionProofs` | `ConstantsAssumption` | `TypeOK`; `ClaimInvariant` | `TypeOK`, `ClaimInvariant`, `ClaimIsExclusive`, `ReadyCaseHasDecider`, `SettledStaysSettled`, `OpinionsFrozenOnceSettled` |
| `EvidenceProofs` | the same; for the refinement no faults | `Evidence`; `PromiseInv` | `EscalationReasonHolds`, `ApprovalIsBacked`, the safety part of `CaseDecision` |
| `DecisionProofs` | `ConfidencesAssumption` | `EngineInv` | `FollowsPolicyUnlessOverruled`, `DegradationNeverRelaxes` |
| `ExchangeProofs` | `RuntimeAssumption`, `ExchangeAssumption`, `TrackerAssumption` | `ExchangeInv` | `ExchangeTypeOK`, `SkippedMeansAnswered`, `OneRepeatPerLoss`, `AnswersAgree`, `ProcessedStaysProcessed` |
| `ConsumerProofs` | `ConsumerAssumption`, `TrackerAssumption` | `ConsumerInv` | `TypeOK`, `LossIsExplained`, `AuditIsTrue`, `ParkedMeansForgotten`, `ReplayHasNoEffect` |
| `LLMProofs` | `LLMAssumption` | `LLMInv` | `TypeOK`, `CallsAreBounded`, `NoSecondReasoning`, `ReplayIsAnAnswer`, `FailureKeepsTriage`, `DraftIsSafe`, `SummaryNeverFailsTask` |
| `PolicyProofs` | `PolicyAssumption` | `PolicyInv` | `ApprovalIsEarned`, `ChargebackIsNeverPaid`, `AutomaticMeansUnderstood`, `PeersSpeakPlainly`, `OrderOnlyMattersToDenials`, `NothingBadHelps` |

### The resolution agent

The type lemmas first type the pure functions, then the three shared ways in
which a handler ends a step (`Suspend`, `Return`, `Emit`), then each action.

`ClaimInvariant` is also checked by `resolution_faults`. That the claim
is exclusive is not inductive alone: one must know that a claimed decision, on
its way or published, belongs to a settled case (`ClaimFor`), because
`claim_decision` looks at nothing but the status, and hence that nothing turns
a settled status back. The only code that writes an unsettled status without
looking is the intake handler, while it classifies and delegates; that no other
loop works on the case at that time is `DelegationFor`. With `DeciderFor` the
invariant also carries the property that no ready case is forgotten.

Every step works for one loop on one case. `Frame` disposes of the other cases;
the lemmas `Leaves`, `Claims`, `EmitsUnclaimed`, `Attaches`, `Classifies`,
`Publishes` and `Finishes` are the kinds of steps there are; each action is then
one or two of these. The action properties `SettledStaysSettled` and
`OpinionsFrozenOnceSettled` come out of the same case analysis (`Frozen`).

`Evidence` says of every decision, from the moment a loop holds it, that its case
bears it out. It needs the slots of the case to be consistent (a finding carries
a confidence, an empty slot is pending or failed), the triage to stay as it is
once the case is settled, the reaper's list to hold late cases only, and the
frozen evidence: without `OpinionsFrozenOnceSettled` a
decision that is suspended before its publish could lose what it rests on.

The refinement needs `PromiseInv`: at most one loop emits for a case, nothing is
on the topics before it does, and only a direct response, for a case that was
never delegated, is emitted without a claim. `PromiseSafety` then maps a
publish to `Decide` or `Reply` and every other step to a stutter. With one
fault it is false, which is what `double_decision` and `lost_decision` show, so
that the assumption `MaxFaults = 0` is the weakest bound possible.

### decide() and the policy

`DecideTable` restates the ordered rows as one condition, that both opinions are
usable, and one table. The hard part is `compute_confidence`, a choice of the
least of a set: `ConfidenceTest` shows that it is below the threshold exactly
when one of the three certainties is.

`PolicyProofs` has an interface for each peer: `BillingSays` and `RiskSays` are
all that the resolution agent needs to know of their rules. The first comes out
of the gates of `evaluate()` (`PaymentGates`, `EntitlementGate`, `UsageGate`);
the second out of `ScoreIsLow`, that the additive score stays under 0.5 exactly
without a serious signal and with at most one weaker one. `PolicyAssumption`
takes the facts from the agents' models (`BillingFacts`, `RiskSignals`); amounts
are any integers, a payment of zero or less with a reversal included. In two
points it says more than the pydantic models enforce: counts are not negative,
and an invoice is not issued in the future. `Refunded` of the proofs joins
`Refundable` and `RefundedAnyway` into what the gates really test, and `DoubtsLeft`
shows which doubts can survive them.
`NothingBadHelps` follows from `ApprovalIsEarned` before and after a step: no
step makes a purchase refundable or a customer trusted.

### The foundation

`TrackerProofs` says of `touch`, `newest`, `lru_add` and the rebuilds which ids
they keep, which one they can evict, and when none. Both the runtime and the
consumers rest on it.

`ExchangeInv` has a part that pays for repeated runs: the tasks that ran twice
and those that ran and are forgotten are together no more than the stops and
evictions. `OneRepeatPerLoss` alone is not inductive, because a crash loses a
task before the repetition happens. `AnswersAgree` needs that a result of a
task that was run once is known to the tracker, or about to be.

`ConsumerInv` is a property of each loop (`LoopInv`) and one of the store they
share (`Remembered`). The loss property has to speak of the committed offset as
well as of the position, since a later start begins there; the audit property of
the event that is about to be recorded; the replay property of the tracker's
topic as it will be once the id in hand is written (`Log`).

`LLMInv` says of a call that its variables agree with its stage and its result
fits its request, and of the store that an entry is a model's answer to its key
and that what was answered is there unless `forgotten`. A call that began after
another returned can only have missed an answer that was evicted or lost in
between.

### Only model-checked

Liveness (`WaitingCaseSettles`, `RequestsAreAnswered`, `CardComesBack`,
`SubmitEnds`, `EventsAreTaken`, `CallsEnd` and the liveness half of
`PromiseKept`): the prover does not do fairness. And the five findings, which
are counterexamples.

## Not modelled

- The case trace and the demo UI's timeline: views that order audit records; no
  agent reads them.
- Observability: fail-open side channels without influence on control flow.
- AgentCore and HTTP adapters: they start the services or call the pure
  functions once per request.
- Prompts, redaction, provider clients, token prices: text and I/O.
- Seeded data and test support.

## Plan

Every safety property of the passing runs is now a theorem. What is left:

1. Two cases with a reaper that sweeps both, in a run of its own: the proofs
   cover it, the liveness property does not.
2. What holds with faults in place of `PromiseSafety`: at most one claimed
   decision (proved) and how many unclaimed ones a case can get.
3. The order of a case trace: causes before effects whatever the clocks say.
