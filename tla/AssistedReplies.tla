--------------------------- MODULE AssistedReplies ---------------------------
(***************************************************************************)
(* What the agents make of the LLM runtime's results: the triage of a      *)
(* ticket, the draft of a reply and the narrative in a peer's report.  The *)
(* model assists; the deterministic classifier and the templates are the   *)
(* fallback, and a check on leaks stands between a draft and the customer. *)
(***************************************************************************)
EXTENDS LLMRuntime

-----------------------------------------------------------------------------
\* Triage.

\* The reason of a ticket: it holds a refund signal, it is empty or shorter
\* than five characters, or it is another text.
Reason == {"signal", "short", "other"}

triage(issue_type, review, ambiguous, confidence) ==
  [issue_type |-> issue_type, needs_refund_review |-> review,
   ambiguous |-> ambiguous, confidence |-> confidence]

classify(reason) ==
  CASE reason = "signal" -> triage("refund_request", TRUE, FALSE, 10)
    [] reason = "short"  -> triage("unknown", TRUE, TRUE, 5)
    [] reason = "other"  -> triage("general_inquiry", FALSE, FALSE, 9)

\* Mutant: only less than an even chance is ambiguous.
to_triage_even(issue_type, v) ==
  triage(issue_type, v.needs_refund_review, v.confidence < 5, v.confidence)

to_triage(issue_type, v) ==
  triage(issue_type, v.needs_refund_review, v.confidence < 7, v.confidence)

\* The value of the fallback is the classification that classify() implies.  A
\* value that is no TicketClassification, as a replayed one is, is not used.
classify_with_llm(reason, res) ==
  CASE res.form = "dict"     -> classify(reason)
    [] res.path = "fallback" -> to_triage(classify(reason).issue_type, classify(reason))
    [] res.path = "model"    -> to_triage("of the model", res.value)

\* The intake handler catches what reason() raises.
intake_triage(c, reason) ==
  IF pc[c] = "raised" THEN classify(reason) ELSE classify_with_llm(reason, result[c])

-----------------------------------------------------------------------------
\* Drafts.

Outcome ==
  {"approve_refund", "deny_refund", "escalate_human", "direct_response",
   "offer_partial_credit", "request_more_information"}

HUMAN_APPROVAL_OUTCOMES == {"escalate_human", "approve_refund"}

\* A template names no internal field.
draft_structured_response(outcome) ==
  [body |-> "template", leaks |-> FALSE,
   requires_human_approval |-> outcome \in HUMAN_APPROVAL_OUTCOMES]

with_approval(draft) == [draft EXCEPT !.requires_human_approval = TRUE]

\* The object that a result holds.
drafted(outcome, res) ==
  IF res.path = "fallback" THEN draft_structured_response(outcome)
  ELSE [body |-> "model", leaks |-> res.value.leaks,
        requires_human_approval |-> res.value.requires_human_approval]

\* Mutant: a leaking draft is held for approval instead of being replaced.
draft_gated(outcome, res) ==
  LET draft == drafted(outcome, res) IN
  CASE res.form = "dict"     -> draft_structured_response(outcome)
    [] draft.leaks           -> with_approval(draft)
    [] res.path = "fallback" -> with_approval(draft)
    [] OTHER                 -> draft

draft_with_llm(outcome, res) ==
  LET template == draft_structured_response(outcome)
      draft    == drafted(outcome, res)
  IN  CASE res.form = "dict"                       -> template
        [] res.form # "dict" /\ draft.leaks        -> with_approval(template)
        [] res.form # "dict" /\ ~draft.leaks       ->
             IF res.path = "fallback" THEN with_approval(draft) ELSE draft

-----------------------------------------------------------------------------
\* Narratives.

NoNarrative == [polished |-> "none"]

\* What the peer's handler keeps: it catches what reason() raises.
narrative(c) ==
  IF pc[c] = "raised" THEN NoNarrative
  ELSE [form |-> result[c].form, value |-> result[c].value]

\* to_result_payload and build_a2a_output read the fields of a narrative, which
\* only an object has; outside of the handler's try, so that the task fails.
report_is_built(n) == n = NoNarrative \/ n.form = "object"

-----------------------------------------------------------------------------
\* Properties.

\* The runtime does not look at the inputs of a request, so that the properties
\* hold for every reason of a ticket and every outcome of a case.
Returned(kind) == {c \in Calls : pc[c] = "returned" /\ request[c].kind = kind}
Raised(kind)   == {c \in Calls : pc[c] = "raised" /\ request[c].kind = kind}

\* Without an answer of the model the triage is the one of classify(): no
\* failure and no exception makes a ticket more or less ambiguous, or changes
\* whether it is reviewed, although to_triage() derives that again from the
\* confidence.
FailureKeepsTriage ==
  \A c \in Returned("classify") \cup Raised("classify"), reason \in Reason :
    result[c].path # "model" => intake_triage(c, reason) = classify(reason)

\* Whatever the model wrote, and whether it was stored and replayed in the
\* meantime: no body that names an internal field reaches the customer, and
\* what replaces the model's text after a failure or a leak waits for a human,
\* as every template of a refund or of an escalation does.
DraftIsSafe ==
  \A c \in Returned("draft_response"), outcome \in Outcome :
    LET draft == draft_with_llm(outcome, result[c])
    IN  /\ ~draft.leaks
        /\ draft.body = "template" /\ outcome \in HUMAN_APPROVAL_OUTCOMES
             => draft.requires_human_approval
        /\ draft.body = "template" /\ result[c].path # "cache"
             => draft.requires_human_approval

\* No outcome of the runtime makes a peer's task fail: a summary is never a
\* replayed dict, because every summary has a runtime of its own.
SummaryNeverFailsTask ==
  \A c \in Returned("summarize_reasoning") \cup Raised("summarize_reasoning") :
    report_is_built(narrative(c))
=============================================================================
