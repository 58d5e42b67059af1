---------------------------- MODULE MCLLMRuntime ----------------------------
(***************************************************************************)
(* The LLM runtime and its callers for TLC.                                *)
(***************************************************************************)
EXTENDS AssistedReplies

MCRequests ==
  {[kind |-> "draft_response", input |-> "a"],
   [kind |-> "draft_response", input |-> "b"],
   [kind |-> "classify", input |-> "c"],
   [kind |-> "summarize_reasoning", input |-> "d"]}

MCClassifications == {[needs_refund_review |-> FALSE, confidence |-> 7]}

MCDrafts ==
  {[leaks |-> TRUE, requires_human_approval |-> FALSE],
   [leaks |-> FALSE, requires_human_approval |-> FALSE]}

MCNarratives == {[polished |-> TRUE]}

MCSettings ==
  {[task |-> Absent, agent |-> 1, default |-> Unset, registered |-> TRUE, environment |-> 0,
    publisher |-> FALSE],
   [task |-> Absent, agent |-> Unset, default |-> 1, registered |-> TRUE, environment |-> Absent,
    publisher |-> TRUE]}

\* The settings under which a record could be published at all.
PublishingSettings == {s \in MCSettings : s.publisher}
=============================================================================
