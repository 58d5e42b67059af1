----------------------------- MODULE A2AExchange -----------------------------
(***************************************************************************)
(* Requesters, discovery and an agent's runtime together.  A requester     *)
(* finds the agent by its card and sends a task.  A2AClient.submit awaits  *)
(* the result; it swallows every exception of its first attempt, a timeout *)
(* included, and makes a second one with the same task id.  The handlers   *)
(* of the resolution agent send one request and do not wait.               *)
(***************************************************************************)
EXTENDS AgentRuntime

CONSTANTS
  Awaited,   \* the tasks that go through A2AClient.submit
  Wants      \* what may be requested, as functions from tasks to kinds

ASSUME ExchangeAssumption ==
  /\ Awaited \subseteq Tasks
  /\ Wants \subseteq [Tasks -> RequestKind]

VARIABLES
  wants,     \* the kind of request that is sent for a task
  client,    \* where its requester is
  answer     \* the status it got

clients == <<wants, client, answer>>
allvars == <<vars, clients>>

\* raised: the first attempt could not publish its request.
ClientStage == {"idle", "found", "waiting", "raised", "again", "sent", "done", "failed"}
NoAnswer    == "none"

\* The runtime's variables and the requesters' have their types.
ExchangeTypeOK ==
  /\ TypeOK
  /\ wants \in Wants
  /\ client \in [Tasks -> ClientStage]
  /\ answer \in [Tasks -> Status \cup {NoAnswer}]

ExchangeInit ==
  /\ Init
  /\ wants \in Wants
  /\ client = [t \in Tasks |-> "idle"]
  /\ answer = [t \in Tasks |-> NoAnswer]

\* find_capable: the latest card of every agent that declares the capability.
\* A read that fails, or meets an empty poll too early, finds nothing.
Discover(t) ==
  /\ client[t] = "idle"
  /\ \/ announced /\ client' = [client EXCEPT ![t] = "found"] /\ UNCHANGED faults
     \/ ~announced /\ client' = [client EXCEPT ![t] = "failed"] /\ UNCHANGED faults
     \/ announced /\ client' = [client EXCEPT ![t] = "failed"] /\ Fault
  /\ UNCHANGED <<topics, process, history, stops, wants, answer>>

\* A publish that raises may have delivered the request.
Send(t, sent, raised) ==
  LET requested == Append(endpoint, [task |-> t, kind |-> wants[t]]) IN
  /\ \/ endpoint' = requested /\ client' = [client EXCEPT ![t] = sent] /\ UNCHANGED faults
     \/ /\ Fault
        /\ endpoint' \in {endpoint, requested}
        /\ client' = [client EXCEPT ![t] = raised]
  /\ UNCHANGED <<committed, processed, results, announced, process, history, stops,
                 wants, answer>>

Submit(t) ==
  /\ client[t] = "found"
  /\ IF t \in Awaited THEN Send(t, "waiting", "raised") ELSE Send(t, "sent", "failed")

\* _await_result reads the result topic from its beginning.
Receive(t) ==
  /\ client[t] \in {"waiting", "again"} /\ results[t] # <<>>
  /\ answer' = [answer EXCEPT ![t] = Head(results[t])]
  /\ client' = [client EXCEPT ![t] = "done"]
  /\ UNCHANGED <<vars, wants>>

\* The first attempt timed out, perhaps just before a result came, or raised.
Retry(t) ==
  /\ client[t] \in {"waiting", "raised"}
  /\ Send(t, "again", "failed")

\* Mutant: the second attempt gives up only when an answer is there.
GiveUpAnswered(t) ==
  /\ client[t] = "again" /\ results[t] # <<>>
  /\ client' = [client EXCEPT ![t] = "failed"]
  /\ UNCHANGED <<vars, wants, answer>>

\* The second attempt times out: submit raises.
GiveUp(t) ==
  /\ client[t] = "again"
  /\ client' = [client EXCEPT ![t] = "failed"]
  /\ UNCHANGED <<vars, wants, answer>>

Wait(t) == Receive(t) \/ Retry(t) \/ GiveUp(t)

ExchangeNext ==
  \/ (Runtime \/ PurgeCards) /\ UNCHANGED clients
  \/ \E t \in Tasks : Discover(t) \/ Submit(t) \/ Wait(t)

ExchangeSpec == ExchangeInit /\ [][ExchangeNext]_allvars

\* The runtime keeps serving and republishing its card, and a client's wait has
\* a timeout.  Nothing in the repository starts an agent again.
FairExchange ==
  /\ ExchangeSpec
  /\ WF_allvars(Serve /\ UNCHANGED clients)
  /\ WF_allvars(RepublishCard /\ UNCHANGED clients)
  /\ \A t \in Tasks : WF_allvars(Wait(t))

-----------------------------------------------------------------------------
\* Properties.

\* The second attempt does no harm: as long as nothing is lost, all results of
\* a task say the same, however the two requests, the handler and the timeouts
\* interleave, and the client got what they say.
AnswersAgree ==
  faults = 0 /\ stops = 0 /\ evictions = 0 =>
    \A t \in Tasks : \A i, j \in DOMAIN results[t] :
      /\ results[t][i] = results[t][j]
      /\ client[t] = "done" => answer[t] = results[t][i]

\* Every submitted task ends for its client, with an answer or a timeout.
SubmitEnds == []<>(\A t \in Tasks : client[t] \notin {"waiting", "raised", "again"})
=============================================================================
