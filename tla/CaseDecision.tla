---------------------------- MODULE CaseDecision ----------------------------
(***************************************************************************)
(* What the Customer Resolution Agent promises for each ticket: exactly    *)
(* one decision event, then exactly one drafted reply with the same        *)
(* outcome, and both eventually.                                           *)
(***************************************************************************)
EXTENDS Sequences

CONSTANTS Cases, Outcomes

VARIABLES decisions, replies   \* per case, the outcomes published so far

vars == <<decisions, replies>>

Init ==
  /\ decisions = [c \in Cases |-> <<>>]
  /\ replies = [c \in Cases |-> <<>>]

Decide(c) ==
  /\ decisions[c] = <<>>
  /\ \E o \in Outcomes : decisions' = [decisions EXCEPT ![c] = <<o>>]
  /\ UNCHANGED replies

Reply(c) ==
  /\ decisions[c] # <<>> /\ replies[c] = <<>>
  /\ replies' = [replies EXCEPT ![c] = decisions[c]]
  /\ UNCHANGED decisions

Next == \E c \in Cases : Decide(c) \/ Reply(c)

Spec == Init /\ [][Next]_vars /\ \A c \in Cases : WF_vars(Decide(c)) /\ WF_vars(Reply(c))
=============================================================================
