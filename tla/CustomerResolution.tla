------------------------- MODULE CustomerResolution -------------------------
(***************************************************************************)
(* The Customer Resolution Agent: the in-memory case store and the five    *)
(* asyncio loops that share it (ResolutionService.serve): four topic       *)
(* consumers (intake, result, billing, risk) and the deadline reaper.      *)
(*                                                                         *)
(* One event loop runs all of them, so code between two points where a     *)
(* coroutine really suspends is one atomic step.  The store's lock is      *)
(* never held across a suspension, hence a store call does not suspend;    *)
(* what suspends is a publish, an audit write, peer discovery and the      *)
(* model call of the classifier.  pc[l][c] says where loop l is suspended  *)
(* while it works on case c, and verdict[l][c] is the decision it is about *)
(* to emit.                                                                *)
(*                                                                         *)
(* A publish appends to its topic and resumes its coroutine in the same    *)
(* step.  It may instead raise, with the event delivered or not: `faults'  *)
(* counts these, together with failed discoveries, up to MaxFaults.        *)
(***************************************************************************)
EXTENDS DecisionEngine, Sequences, FiniteSets

CONSTANTS
  Cases,           \* correlation ids, one per support ticket
  Triages,         \* what the classifier may return
  BillingReports,  \* what the billing peer may report
  RiskReports,     \* what the risk peer may report
  MaxFaults,       \* how many publishes and discoveries may fail
  MaxRedeliveries  \* how many events may be delivered once more

ASSUME ConstantsAssumption ==
  /\ Triages \subseteq Triage
  /\ BillingReports \subseteq BillingReport
  /\ RiskReports \subseteq RiskReport
  /\ MaxFaults \in Nat
  /\ MaxRedeliveries \in Nat

VARIABLES
  cases,           \* the store: one record per case, status "none" if absent
  pc,              \* where each loop is suspended, per case
  verdict,         \* the decision each loop is emitting, per case
  sweep,           \* the reaper's list of timed-out cases, still to be visited
  tickets,         \* support.ticket.created, not yet consumed
  requests,        \* task requests on the peers' endpoints, not yet answered
  results,         \* agent.task.result, not yet consumed
  billing_events,  \* the billing peer's result topic, not yet consumed
  risk_events,     \* the risk peer's result topic, not yet consumed
  decided,         \* customer.resolution.decided: every event ever published
  drafted,         \* customer-response.drafted: every event ever published
  faults,
  redeliveries

store     == <<cases, pc, verdict>>
inboxes   == <<tickets, requests, results, billing_events, risk_events>>
outcomes  == <<decided, drafted>>
vars      == <<store, sweep, inboxes, outcomes, faults, redeliveries>>

-----------------------------------------------------------------------------
\* Types.

Slots == {"billing", "risk"}

\* Status "failed" is declared by the code but assigned nowhere, and so is
\* "response_drafted".
CaseStatus == {"none", "received", "classified", "waiting_for_peer_reviews",
               "ready_for_decision", "decided", "closed", "escalated"}

TerminalStatuses == {"closed", "escalated"}

Case == [status : CaseStatus,
         triage : Triage,
         delegated : BOOLEAN,                  \* both task ids are minted
         pending_tasks : SUBSET Slots,
         slot_failed : SUBSET Slots,
         billing_result : BillingFinding \cup {NoBilling},
         risk_result : RiskFinding \cup {NoRisk},
         deadline : {"none", "armed", "passed"}]

NewCase(status) ==
  [status |-> status,
   triage |-> [needs_refund_review |-> TRUE, confidence |-> 100],
   delegated |-> FALSE, pending_tasks |-> {}, slot_failed |-> {},
   billing_result |-> NoBilling, risk_result |-> NoRisk, deadline |-> "none"]

Consumers == {"intake", "result", "billing", "risk"}
Loops     == Consumers \cup {"reaper"}

PC == {"idle", "classifying", "classified", "request_billing", "request_risk",
       "announce", "attached", "decide", "draft"}

\* A decision on its way out: the event's content, whether the emitting code
\* path holds the claim on the case, and the status it writes at the end.
Decision == [outcome : Outcome, escalation_reason : Reason,
             claimed : BOOLEAN, status : CaseStatus]

NoDecision == [outcome |-> "escalate_human", escalation_reason |-> "none",
               claimed |-> FALSE, status |-> "none"]

Emission(v, claimed, status) ==
  [outcome |-> v.outcome, escalation_reason |-> v.escalation_reason,
   claimed |-> claimed, status |-> status]

Draft == [outcome : Outcome, requires_human_approval : BOOLEAN]

TypeOK ==
  /\ cases \in [Cases -> Case]
  /\ pc \in [Loops -> [Cases -> PC]]
  /\ verdict \in [Loops -> [Cases -> Decision]]
  /\ sweep \subseteq Cases
  /\ tickets \subseteq Cases
  /\ requests \subseteq [case : Cases, slot : Slots]
  /\ results \subseteq [case : Cases, slot : Slots, status : {"completed", "failed"}]
  /\ billing_events \subseteq [case : Cases, report : BillingReports]
  /\ risk_events \subseteq [case : Cases, report : RiskReports]
  /\ decided \in [Cases -> Seq(Decision)]
  /\ drafted \in [Cases -> Seq(Draft)]
  /\ faults \in 0 .. MaxFaults
  /\ redeliveries \in 0 .. MaxRedeliveries

-----------------------------------------------------------------------------
\* The case store.  k is a case record.

is_terminal(status) == status \in TerminalStatuses

\* DECIDED is not terminal for is_terminal, so every guard names both.
Settled(status) == status = "decided" \/ is_terminal(status)

can_transition_to_ready(status) ==
  status \in {"received", "classified", "waiting_for_peer_reviews", "ready_for_decision"}

\* Mutant: a failed slot holds the case back instead of releasing it.
is_ready_unless_failed(k) == k.slot_failed = {} /\ k.pending_tasks = {}

is_ready_to_decide(k) == k.slot_failed # {} \/ k.pending_tasks = {}

\* Mutant: takes is_terminal for all the settled statuses.
attaches_unless_terminal(k, slot) == ~is_terminal(k.status) /\ slot \in k.pending_tasks

\* apply_result returns ATTACHED, rather than DUPLICATE.
attaches(k, slot) == ~Settled(k.status) /\ slot \in k.pending_tasks

\* The case without a pending task; it is ready once none is left.
without_pending(k, slot) ==
  LET left == k.pending_tasks \ {slot} IN
  [k EXCEPT !.pending_tasks = left,
            !.status = IF left = {} /\ can_transition_to_ready(k.status)
                         THEN "ready_for_decision" ELSE k.status]

apply_billing_result(k, finding) ==
  IF attaches(k, "billing")
    THEN without_pending([k EXCEPT !.billing_result = finding], "billing") ELSE k

apply_risk_result(k, finding) ==
  IF attaches(k, "risk")
    THEN without_pending([k EXCEPT !.risk_result = finding], "risk") ELSE k

\* Unlike apply_result, a failed slot makes the case ready although the other
\* task is still pending.
mark_slot_failed(k, slot) ==
  IF is_terminal(k.status) THEN k
  ELSE [k EXCEPT !.slot_failed = @ \cup {slot},
                 !.pending_tasks = @ \ {slot},
                 !.status = IF can_transition_to_ready(k.status)
                              THEN "ready_for_decision" ELSE @]

\* Mutant: takes is_terminal for all the settled statuses.
claim_unless_terminal(k) == k.status # "none" /\ ~is_terminal(k.status)

\* Whether claim_decision returns True; it then moves the case to DECIDED.
claim_decision(k) == k.status # "none" /\ ~Settled(k.status)

build_timeout_status(k) ==
  [any_missing |-> k.pending_tasks # {}, deadline_exceeded |-> k.deadline = "passed"]

list_timed_out_cases ==
  {c \in Cases : /\ cases[c].status # "none"
                 /\ ~Settled(cases[c].status)
                 /\ cases[c].deadline = "passed"
                 /\ cases[c].pending_tasks # {}}

-----------------------------------------------------------------------------
\* Steps shared by the loops.

Init ==
  /\ cases = [c \in Cases |-> NewCase("none")]
  /\ pc = [l \in Loops |-> [c \in Cases |-> "idle"]]
  /\ verdict = [l \in Loops |-> [c \in Cases |-> NoDecision]]
  /\ sweep = {}
  /\ tickets = Cases
  /\ requests = {}
  /\ results = {}
  /\ billing_events = {}
  /\ risk_events = {}
  /\ decided = [c \in Cases |-> <<>>]
  /\ drafted = [c \in Cases |-> <<>>]
  /\ faults = 0
  /\ redeliveries = 0

\* A loop awaits its handler before it takes the next event.
Free(l) == \A c \in Cases : pc[l][c] = "idle"

\* A consumer takes an event off its topic, or gets one that it will get
\* again: a rebalance, or a peer that repeats a report under a new event id.
Deliver(inbox, event) ==
  /\ event \in inbox
  /\ \/ /\ inbox' = inbox \ {event}
        /\ UNCHANGED redeliveries
     \/ /\ redeliveries < MaxRedeliveries
        /\ redeliveries' = redeliveries + 1
        /\ UNCHANGED inbox

\* A publish or a discovery raises.
Fault ==
  /\ faults < MaxFaults
  /\ faults' = faults + 1

\* Suspend loop l at p, having left the case as k.
Suspend(l, c, k, p) ==
  /\ cases' = [cases EXCEPT ![c] = k]
  /\ pc' = [pc EXCEPT ![l][c] = p]

\* The handler returns, or raises past the consumer, which logs the error and
\* takes the next event.
Return(l, c, k) ==
  /\ Suspend(l, c, k, "idle")
  /\ verdict' = [verdict EXCEPT ![l][c] = NoDecision]

\* Enter _emit_decision_and_draft.
Emit(l, c, k, decision) ==
  /\ Suspend(l, c, k, "decide")
  /\ verdict' = [verdict EXCEPT ![l][c] = decision]

\* _apply_decision up to its first publish: claim the case, or return.
ApplyDecision(l, c, k) ==
  IF claim_decision(k)
    THEN Emit(l, c, [k EXCEPT !.status = "decided"],
              Emission(decide(k.triage, k.billing_result, k.risk_result,
                              build_timeout_status(k)), TRUE, "decided"))
    ELSE Return(l, c, k)

\* The tail of a result handler.  The generic task-result handler does not
\* look at the status again: it relies on the claim alone.
DecideIfReady(l, c, k) ==
  IF is_ready_to_decide(k) /\ (l = "result" \/ ~Settled(k.status))
    THEN ApplyDecision(l, c, k)
    ELSE Return(l, c, k)

\* Publishing customer.resolution.decided.  The audit write that follows
\* cannot fail and changes nothing.
PublishDecision(l, c) ==
  LET published == [decided EXCEPT ![c] = Append(@, verdict[l][c])] IN
  /\ pc[l][c] = "decide"
  /\ \/ /\ decided' = published
        /\ Suspend(l, c, cases[c], "draft")
        /\ UNCHANGED <<verdict, faults>>
     \/ /\ Fault
        /\ decided' \in {decided, published}
        /\ Return(l, c, cases[c])
  /\ UNCHANGED <<sweep, inboxes, drafted, redeliveries>>

\* Publishing customer-response.drafted; then the emitting handler writes the
\* final status over whatever status the case has by now.
PublishDraft(l, c) ==
  LET d == verdict[l][c]
      published == [drafted EXCEPT ![c] =
        Append(@, [outcome |-> d.outcome,
                   requires_human_approval |-> requires_human_approval(d.outcome)])]
  IN
  /\ pc[l][c] = "draft"
  /\ \/ /\ drafted' = published
        /\ Return(l, c, [cases[c] EXCEPT !.status = d.status])
        /\ UNCHANGED faults
     \/ /\ Fault
        /\ drafted' \in {drafted, published}
        /\ Return(l, c, cases[c])
  /\ UNCHANGED <<sweep, inboxes, decided, redeliveries>>

-----------------------------------------------------------------------------
\* intake_handler.

\* Mutant: only a terminal case makes its ticket a duplicate.
ReceiveTicketUnlessTerminal(c) ==
  /\ Free("intake")
  /\ Deliver(tickets, c)
  /\ IF ~is_terminal(cases[c].status)
       THEN Suspend("intake", c,
                    IF cases[c].status = "none" THEN NewCase("received") ELSE cases[c],
                    "classifying")
       ELSE UNCHANGED <<cases, pc>>
  /\ UNCHANGED <<verdict, sweep, requests, results, billing_events, risk_events,
                 outcomes, faults>>

\* A ticket of a case beyond CLASSIFIED is a duplicate and is skipped.
ReceiveTicket(c) ==
  /\ Free("intake")
  /\ Deliver(tickets, c)
  /\ IF cases[c].status \in {"none", "received", "classified"}
       THEN Suspend("intake", c,
                    IF cases[c].status = "none" THEN NewCase("received") ELSE cases[c],
                    "classifying")
       ELSE UNCHANGED <<cases, pc>>
  /\ UNCHANGED <<verdict, sweep, requests, results, billing_events, risk_events,
                 outcomes, faults>>

\* The model, or the keyword rules it falls back to, classify the ticket.
Classify(c) ==
  /\ pc["intake"][c] = "classifying"
  /\ \E t \in Triages :
       Suspend("intake", c, [cases[c] EXCEPT !.triage = t, !.status = "classified"],
               "classified")
  /\ UNCHANGED <<verdict, sweep, inboxes, outcomes, faults, redeliveries>>

\* Mutants: the deadline is never set; the risk task is not registered.
delegated_without_deadline(k) ==
  [k EXCEPT !.status = "waiting_for_peer_reviews",
            !.delegated = TRUE, !.pending_tasks = Slots]
delegated_billing_only(k) ==
  [k EXCEPT !.status = "waiting_for_peer_reviews", !.deadline = "armed",
            !.delegated = TRUE, !.pending_tasks = {"billing"}]

\* delegate() mints both task ids and registers both as pending before the
\* first request is published.
delegated(k) ==
  [k EXCEPT !.status = "waiting_for_peer_reviews", !.deadline = "armed",
            !.delegated = TRUE, !.pending_tasks = Slots]

\* Publishing customer-issue.classified.  If that raises, the handler is over
\* and the case stays CLASSIFIED.
PublishClassified(c) ==
  LET k == cases[c] IN
  /\ pc["intake"][c] = "classified"
  /\ \/ /\ ~k.triage.needs_refund_review
        /\ Emit("intake", c, k, Emission(Resolve("direct_response"), FALSE, "closed"))
        /\ UNCHANGED faults
     \/ /\ k.triage.needs_refund_review
        /\ Suspend("intake", c, delegated(k), "request_billing")
        /\ UNCHANGED <<verdict, faults>>
     \/ /\ Fault
        /\ Return("intake", c, k)
  /\ UNCHANGED <<sweep, inboxes, outcomes, redeliveries>>

\* The except branch around delegate(): escalate without claiming the case.
DelegationFailed(c) ==
  /\ Fault
  /\ Emit("intake", c, cases[c], Emission(Escalate("peer_failure"), FALSE, "escalated"))

\* Discover the peer, then publish the task request on its endpoint.
RequestReview(c, slot, here, next) ==
  LET published == requests \cup {[case |-> c, slot |-> slot]} IN
  /\ pc["intake"][c] = here
  /\ \/ /\ requests' = published
        /\ Suspend("intake", c, cases[c], next)
        /\ UNCHANGED <<verdict, faults>>
     \/ /\ requests' \in {requests, published}
        /\ DelegationFailed(c)
  /\ UNCHANGED <<sweep, tickets, results, billing_events, risk_events, outcomes,
                 redeliveries>>

RequestBilling(c) == RequestReview(c, "billing", "request_billing", "request_risk")
RequestRisk(c)    == RequestReview(c, "risk", "request_risk", "announce")

\* Publishing refund-review.requested ends the delegation.
AnnounceReview(c) ==
  /\ pc["intake"][c] = "announce"
  /\ \/ Return("intake", c, cases[c]) /\ UNCHANGED faults
     \/ DelegationFailed(c)
  /\ UNCHANGED <<sweep, inboxes, outcomes, redeliveries>>

-----------------------------------------------------------------------------
\* The handlers of peer results, and the reaper.

\* result_handler.  A completed billing or risk task is left to the peer's
\* own topic; a failed or rejected one is recorded, unless the case is
\* settled.  The audit write suspends the handler before it decides.
ReceiveResult(m) ==
  LET c == m.case
      k == cases[c]
  IN
  /\ Free("result")
  /\ Deliver(results, m)
  /\ IF k.delegated /\ ~Settled(k.status) /\ m.status = "failed"
       THEN Suspend("result", c, mark_slot_failed(k, m.slot), "attached")
       ELSE UNCHANGED <<cases, pc>>
  /\ UNCHANGED <<verdict, sweep, tickets, requests, billing_events, risk_events,
                 outcomes, faults>>

\* billing_result_handler.  Only an attached finding is audited; a duplicate
\* goes straight to the readiness test.
ReceiveBilling(e) ==
  LET c == e.case
      k == cases[c]
      applied == apply_billing_result(k, billing_finding(e.report))
  IN
  /\ Free("billing")
  /\ Deliver(billing_events, e)
  /\ \/ /\ ~k.delegated
        /\ UNCHANGED store
     \/ /\ k.delegated /\ attaches(k, "billing")
        /\ Suspend("billing", c, applied, "attached")
        /\ UNCHANGED verdict
     \/ /\ k.delegated /\ ~attaches(k, "billing")
        /\ DecideIfReady("billing", c, applied)
  /\ UNCHANGED <<sweep, tickets, requests, results, risk_events, outcomes, faults>>

\* An alarming risk report escalates at once, unless billing has already
\* called the case ineligible.
forces_escalation(k, finding) ==
  /\ finding.level \in {"elevated", "high"} \/ finding.requires_human_review
  /\ k.billing_result.eligibility # "ineligible"
  /\ ~Settled(k.status)

\* Mutant: escalates without claiming the case.
EscalateRiskUnclaimed(c, k, finding) ==
  Emit("risk", c, [k EXCEPT !.risk_result = finding],
       Emission(Escalate("elevated_risk"), TRUE, "escalated"))

\* The immediate escalation keeps the finding but leaves the task pending.
EscalateRisk(c, k, finding) ==
  IF claim_decision(k)
    THEN Emit("risk", c, [k EXCEPT !.status = "decided", !.risk_result = finding],
              Emission(Escalate("elevated_risk"), TRUE, "escalated"))
    ELSE Return("risk", c, k)

\* risk_result_handler.
ReceiveRisk(e) ==
  LET c == e.case
      k == cases[c]
      finding == risk_finding(e.report)
      applied == apply_risk_result(k, finding)
  IN
  /\ Free("risk")
  /\ Deliver(risk_events, e)
  /\ \/ /\ ~k.delegated
        /\ UNCHANGED store
     \/ /\ k.delegated /\ forces_escalation(k, finding)
        /\ EscalateRisk(c, k, finding)
     \/ /\ k.delegated /\ ~forces_escalation(k, finding) /\ attaches(k, "risk")
        /\ Suspend("risk", c, applied, "attached")
        /\ UNCHANGED verdict
     \/ /\ k.delegated /\ ~forces_escalation(k, finding) /\ ~attaches(k, "risk")
        /\ DecideIfReady("risk", c, applied)
  /\ UNCHANGED <<sweep, tickets, requests, results, billing_events, outcomes, faults>>

\* A result handler resumes after its audit write, reads the case again and
\* decides if it is ready.
Conclude(l, c) ==
  /\ pc[l][c] = "attached"
  /\ DecideIfReady(l, c, cases[c])
  /\ UNCHANGED <<sweep, inboxes, outcomes, faults, redeliveries>>

\* run_reaper lists the timed-out cases once per tick ...
Sweep ==
  /\ Free("reaper") /\ sweep = {} /\ list_timed_out_cases # {}
  /\ sweep' = list_timed_out_cases
  /\ UNCHANGED <<store, inboxes, outcomes, faults, redeliveries>>

\* ... and visits them one by one, emitting each decision before the next
\* visit: by then a case may have been settled by another loop.
Reap(c) ==
  /\ Free("reaper") /\ c \in sweep
  /\ sweep' = sweep \ {c}
  /\ IF Settled(cases[c].status)
       THEN UNCHANGED store
       ELSE ApplyDecision("reaper", c, cases[c])
  /\ UNCHANGED <<inboxes, outcomes, faults, redeliveries>>

-----------------------------------------------------------------------------
\* The peers, seen from their topics, and the clock.

\* The billing peer publishes its report, then a completed task result.
BillingReplies(c, r) ==
  /\ [case |-> c, slot |-> "billing"] \in requests
  /\ requests' = requests \ {[case |-> c, slot |-> "billing"]}
  /\ billing_events' = billing_events \cup {[case |-> c, report |-> r]}
  /\ \/ /\ results' = results \cup {[case |-> c, slot |-> "billing", status |-> "completed"]}
        /\ UNCHANGED faults
     \/ \* the publish raised although the report was delivered
        /\ Fault
        /\ results' = results \cup {[case |-> c, slot |-> "billing", status |-> "failed"]}
  /\ UNCHANGED <<store, sweep, tickets, risk_events, outcomes, redeliveries>>

RiskReplies(c, r) ==
  /\ [case |-> c, slot |-> "risk"] \in requests
  /\ requests' = requests \ {[case |-> c, slot |-> "risk"]}
  /\ risk_events' = risk_events \cup {[case |-> c, report |-> r]}
  /\ \/ /\ results' = results \cup {[case |-> c, slot |-> "risk", status |-> "completed"]}
        /\ UNCHANGED faults
     \/ /\ Fault
        /\ results' = results \cup {[case |-> c, slot |-> "risk", status |-> "failed"]}
  /\ UNCHANGED <<store, sweep, tickets, billing_events, outcomes, redeliveries>>

\* A peer rejects the task or fails without a report.
PeerFails(q) ==
  /\ q \in requests
  /\ requests' = requests \ {q}
  /\ results' = results \cup {[case |-> q.case, slot |-> q.slot, status |-> "failed"]}
  /\ UNCHANGED <<store, sweep, tickets, billing_events, risk_events, outcomes,
                 faults, redeliveries>>

DeadlinePasses(c) ==
  /\ cases[c].deadline = "armed"
  /\ cases' = [cases EXCEPT ![c].deadline = "passed"]
  /\ UNCHANGED <<pc, verdict, sweep, inboxes, outcomes, faults, redeliveries>>

-----------------------------------------------------------------------------

Intake(c) ==
  \/ ReceiveTicket(c) \/ Classify(c) \/ PublishClassified(c)
  \/ RequestBilling(c) \/ RequestRisk(c) \/ AnnounceReview(c)

\* Everything loop l does.
Loop(l) ==
  \/ l = "intake"  /\ \E c \in Cases : Intake(c)
  \/ l = "result"  /\ \E m \in results : ReceiveResult(m)
  \/ l = "billing" /\ \E e \in billing_events : ReceiveBilling(e)
  \/ l = "risk"    /\ \E e \in risk_events : ReceiveRisk(e)
  \/ l = "reaper"  /\ (Sweep \/ \E c \in Cases : Reap(c))
  \/ \E c \in Cases : Conclude(l, c) \/ PublishDecision(l, c) \/ PublishDraft(l, c)

Peers ==
  \/ \E c \in Cases, r \in BillingReports : BillingReplies(c, r)
  \/ \E c \in Cases, r \in RiskReports : RiskReplies(c, r)
  \/ \E q \in requests : PeerFails(q)

Clock == \E c \in Cases : DeadlinePasses(c)

Next == (\E l \in Loops : Loop(l)) \/ Peers \/ Clock

Spec == Init /\ [][Next]_vars

\* Every loop keeps running and time passes; nothing obliges a peer to reply.
FairSpec == Spec /\ (\A l \in Loops : WF_vars(Loop(l))) /\ WF_vars(Clock)

-----------------------------------------------------------------------------
\* Properties.

Emitting(l, c) == pc[l][c] \in {"decide", "draft"}

\* Of all the loops that saw case c ready, at most one is emitting a claimed
\* decision, and at most one claimed event is on the topic.
ExclusiveFor(c) ==
  /\ \A l, m \in Loops :
       /\ Emitting(l, c) /\ verdict[l][c].claimed
       /\ Emitting(m, c) /\ verdict[m][c].claimed
       => l = m
  /\ \A i, j \in DOMAIN decided[c] :
       decided[c][i].claimed /\ decided[c][j].claimed => i = j

\* claim_decision is exclusive: of all the loops that saw a case ready (the
\* three result handlers, the risk fast path, the reaper), at most one ever
\* emits a claimed decision, and at most one such event reaches the topic,
\* whatever fails and whatever is delivered twice.
ClaimIsExclusive == \A c \in Cases : ExclusiveFor(c)

\* A settled case is never reopened: no late result, redelivered ticket or
\* resumed coroutine moves it back to a status in which it could be decided.
SettledStaysSettled ==
  [][\A c \in Cases : Settled(cases[c].status) => Settled(cases'[c].status)]_vars

\* A late or repeated opinion is recorded but not applied: once a case is
\* settled, the findings, the pending tasks and the failed slots its decision
\* was based on no longer change.
OpinionsFrozenOnceSettled ==
  [][\A c \in Cases :
       Settled(cases[c].status) =>
         /\ cases'[c].billing_result = cases[c].billing_result
         /\ cases'[c].risk_result = cases[c].risk_result
         /\ cases'[c].pending_tasks = cases[c].pending_tasks
         /\ cases'[c].slot_failed = cases[c].slot_failed]_vars

\* What an escalation's reason says of case record k.
BearsOut(k, reason) ==
  LET b == k.billing_result
      r == k.risk_result
      heard == k.pending_tasks = {} /\ b # NoBilling /\ r # NoRisk
  IN  CASE reason = "missing_analysis" -> k.slot_failed # {}
        [] reason = "analysis_timeout" -> k.deadline = "passed" /\ k.pending_tasks # {}
        [] reason = "peer_requested_review" ->
             /\ heard
             /\ b.requires_human_review \/ (r.requires_human_review /\ b.eligibility = "ineligible")
        [] reason = "low_confidence" ->
             /\ heard /\ ~b.requires_human_review /\ ~r.requires_human_review
             /\ k.triage.confidence < 60 \/ b.confidence < 60 \/ r.score > 40
        [] reason = "conflicting_analyses" ->
             heard /\ b.eligibility = "ineligible" /\ r.level = "low"
        [] reason = "elevated_risk" ->
             /\ r.level \in {"elevated", "high"} \/ r.requires_human_review
             /\ b.eligibility # "ineligible"
        [] OTHER -> TRUE

\* An escalation's reason is true of the case, when it is given and ever after:
\* a quick peer never makes the agent decide before the other was heard, an
\* alarming risk report is never taken for a conflict, and what is called a
\* conflict is a denial of a trusted customer.
\*
\* Of a slot that failed, was rejected or could not be parsed the code says
\* "missing_analysis", or "analysis_timeout" once the deadline has passed with
\* the other task pending.  The documents say "peer_failure" (decision-policy.md
\* of 003, row 2; decision-rule.md of 006, row 2; timeout-and-failure-paths.md;
\* failure-handling.md), and so does the docstring of the choreography test of a
\* failed peer: but no finding is ever marked failed, and "peer_failure" comes
\* from the branch of intake_handler alone that a failed delegation takes, and
\* without a claim.  And failure-handling.md calls eligible billing with an
\* alarming risk "conflicting_analyses"; here that is "elevated_risk".
EscalationReasonHolds ==
  \A c \in Cases : \A i \in DOMAIN decided[c] :
    LET d == decided[c][i] IN
    /\ BearsOut(cases[c], d.escalation_reason)
    /\ d.escalation_reason = "peer_failure" => ~d.claimed /\ faults > 0

\* Money is only promised on the full evidence: a published approval is
\* backed, then and forever, by an eligible billing finding and a low risk
\* finding, both confident and neither asking for a human.
ApprovalIsBacked ==
  \A c \in Cases : \A i \in DOMAIN decided[c] :
    decided[c][i].outcome = "approve_refund" =>
      LET k == cases[c] IN
      /\ k.pending_tasks = {}
      /\ k.billing_result.eligibility = "eligible" /\ k.risk_result.level = "low"
      /\ ~k.billing_result.requires_human_review /\ ~k.risk_result.requires_human_review
      /\ k.billing_result.confidence >= CONFIDENCE_THRESHOLD
      /\ 100 - k.risk_result.score >= CONFIDENCE_THRESHOLD

\* The reaper only looks at cases with a pending task, so a ready case without
\* one must be in the hands of a handler that is still to test it.
DeciderFor(c) ==
  cases[c].status = "ready_for_decision" /\ cases[c].pending_tasks = {}
    => \E l \in Loops : pc[l][c] = "attached"

\* No case is ready and forgotten: whichever loop completes the last slot of a
\* case, some handler is still to run its readiness test.
ReadyCaseHasDecider == \A c \in Cases : DeciderFor(c)

\* Only the intake handler touches a case that is not yet delegated, and only
\* such a case is (re)classified.
DelegationFor(c) ==
  /\ cases[c].delegated => cases[c].status \notin {"none", "received", "classified"}
  /\ cases[c].deadline # "none" => cases[c].delegated
  /\ c \in sweep => cases[c].delegated
  /\ \A l \in Loops \ {"intake"} : pc[l][c] # "idle" => cases[c].delegated
  /\ pc["intake"][c] # "attached"
  /\ pc["intake"][c] \in {"classifying", "classified"}
       => cases[c].status \in {"received", "classified"}

\* A claim is the status: a claimed decision, on its way out or on the topic,
\* belongs to a settled case; one that is not yet published has no rival on
\* the topic; and whoever emits, claimed or not, will write a settled status.
ClaimFor(c) ==
  /\ \A l \in Loops : Emitting(l, c) =>
       /\ Settled(verdict[l][c].status)
       /\ verdict[l][c].claimed => Settled(cases[c].status)
       /\ verdict[l][c].claimed /\ pc[l][c] = "decide"
            => \A i \in DOMAIN decided[c] : ~decided[c][i].claimed
  /\ \A i \in DOMAIN decided[c] : decided[c][i].claimed => Settled(cases[c].status)

CaseInv(c) == DelegationFor(c) /\ ClaimFor(c) /\ ExclusiveFor(c) /\ DeciderFor(c)

\* The inductive invariant behind the claim: what the intake handler owns, what
\* a claim implies, and the two properties that follow from it.
ClaimInvariant == \A c \in Cases : CaseInv(c)

\* The deadline works: a case that waits for its peers is settled eventually,
\* even if peers stay silent and publishes fail.
WaitingCaseSettles ==
  \A c \in Cases :
    cases[c].status = "waiting_for_peer_reviews" ~> Settled(cases[c].status)

\* The agent implements CaseDecision as long as nothing fails: the topics
\* carry one decision per ticket and one reply with the same outcome, and
\* both arrive although peers may stay silent.
OutcomesOf(log) == [i \in DOMAIN log |-> log[i].outcome]
Promise == INSTANCE CaseDecision WITH
             Outcomes <- Outcome,
             decisions <- [c \in Cases |-> OutcomesOf(decided[c])],
             replies <- [c \in Cases |-> OutcomesOf(drafted[c])]
PromiseKept == Promise!Spec
=============================================================================
