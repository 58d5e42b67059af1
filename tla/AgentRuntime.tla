---------------------------- MODULE AgentRuntime ----------------------------
(***************************************************************************)
(* The A2A runtime of a peer agent: one coroutine that consumes the        *)
(* agent's endpoint topic, runs the handler of the requested capability    *)
(* and publishes a task result, with an IdempotencyTracker for task ids,   *)
(* and a background task that announces the agent's card.                  *)
(*                                                                         *)
(* The process may crash at any await and be started again.  The broker    *)
(* commits the consumer's position now and then (enable_auto_commit), so   *)
(* a crash may lose or repeat requests.  A publish to the result topic or  *)
(* to the tracker's topic may fail; the runtime logs that and goes on.     *)
(***************************************************************************)
EXTENDS IdempotencyTracker, FiniteSets

CONSTANTS
  Tasks,         \* task ids
  MaxFaults,     \* how many calls of the broker may fail
  MaxStops       \* how many times the process crashes or is stopped

\* served: a registered capability.  unserved: on the card, but without a
\* handler.  rejected: an invalid payload, a wrong target or an unsupported
\* capability.  garbled: an invalid payload whose task_id is no UUID.
RequestKind == {"served", "unserved", "rejected", "garbled"}

ASSUME RuntimeAssumption ==
  /\ MaxFaults \in Nat /\ MaxStops \in Nat

VARIABLES
  endpoint,    \* the endpoint topic: every request ever sent
  committed,   \* the group's committed offset, NoOffset before the first commit
  position,    \* the consumer's position
  agent,       \* whether serve() runs, and has joined its consumer group
  announced,   \* the agent's card is on the discovery topic
  pc,          \* where _handle_message is suspended
  task,        \* the task it is working on
  lru,         \* the tracker's cache, least recently used first
  processed,   \* the tracker's compacted topic
  executions,  \* how many times the handler has run, per task
  results,     \* agent.task.result: the statuses published, per task
  joined,      \* the position at the last start
  evictions,   \* how often the tracker forgot a processed task
  faults,
  stops

topics  == <<endpoint, committed, processed, results, announced>>
process == <<position, agent, pc, task, lru>>
history == <<executions, joined, evictions>>
vars    == <<topics, process, history, faults, stops>>

NoOffset == -1
NoTask   == "none"
Status   == {"completed", "failed", "rejected"}
Stage    == {"idle", "accepted", "completed", "failed", "published", "marked"}

TypeOK ==
  /\ endpoint \in Seq([task : Tasks, kind : RequestKind])
  /\ committed \in {NoOffset} \cup 0 .. Len(endpoint)
  /\ position \in 0 .. Len(endpoint)
  /\ agent \in {"down", "joining", "serving"}
  /\ announced \in BOOLEAN
  /\ pc \in Stage
  /\ task \in Tasks \cup {NoTask}
  /\ lru \in Seq(Tasks) /\ Len(lru) <= LRU_SIZE
  /\ processed \in Seq(Tasks)
  /\ executions \in [Tasks -> Nat]
  /\ joined \in 0 .. Len(endpoint)
  /\ evictions \in Nat
  /\ results \in [Tasks -> Seq(Status)]
  /\ faults \in 0 .. MaxFaults
  /\ stops \in 0 .. MaxStops

-----------------------------------------------------------------------------

Init ==
  /\ endpoint = <<>>
  /\ committed = NoOffset
  /\ position = 0
  /\ agent = "down"
  /\ announced = FALSE
  /\ pc = "idle"
  /\ task = NoTask
  /\ lru = <<>>
  /\ processed = <<>>
  /\ executions = [t \in Tasks |-> 0]
  /\ joined = 0
  /\ evictions = 0
  /\ results = [t \in Tasks |-> <<>>]
  /\ faults = 0
  /\ stops = 0

Fault ==
  /\ faults < MaxFaults
  /\ faults' = faults + 1

\* _publish_result swallows the exception of a failed publish, whether or not
\* the result was delivered.
PublishResult(t, status) ==
  LET published == [results EXCEPT ![t] = Append(@, status)] IN
  \/ results' = published /\ UNCHANGED faults
  \/ Fault /\ results' \in {results, published}

\* The consumer takes the next request: r is the request at the position.
Take(r) ==
  /\ agent = "serving" /\ pc = "idle" /\ position < Len(endpoint)
  /\ r = endpoint[position + 1]
  /\ UNCHANGED <<endpoint, processed, announced, history, stops>>

\* Mutant: the rejection is not reported.
RejectSilently ==
  \E r \in Elements(endpoint) :
    /\ Take(r) /\ r.kind = "rejected"
    /\ position' = position + 1
    /\ UNCHANGED <<committed, agent, pc, task, lru, results, faults>>

\* Validation fails.  A rejected task is not marked as processed.
Reject ==
  \E r \in Elements(endpoint) :
    /\ Take(r) /\ r.kind = "rejected"
    /\ position' = position + 1
    /\ PublishResult(r.task, "rejected")
    /\ UNCHANGED <<committed, agent, pc, task, lru>>

\* The task_id of the invalid payload does not parse: the exception leaves
\* serve(), whose consumer commits its position as it stops.
Collapse ==
  \E r \in Elements(endpoint) :
    /\ Take(r) /\ r.kind = "garbled"
    /\ agent' = "down"
    /\ position' = 0
    /\ committed' = position + 1
    /\ lru' = <<>>
    /\ UNCHANGED <<pc, task, results, faults>>

\* The tracker knows the task: nothing is published.
SkipDuplicate ==
  \E r \in Elements(endpoint) :
    /\ Take(r) /\ r.kind \in {"served", "unserved"} /\ r.task \in Elements(lru)
    /\ position' = position + 1
    /\ lru' = touch(lru, r.task)
    /\ UNCHANGED <<committed, agent, pc, task, results, faults>>

\* The capability has no handler.  The task is not marked as processed.
FailUnserved ==
  \E r \in Elements(endpoint) :
    /\ Take(r) /\ r.kind = "unserved" /\ r.task \notin Elements(lru)
    /\ position' = position + 1
    /\ PublishResult(r.task, "failed")
    /\ UNCHANGED <<committed, agent, pc, task, lru>>

Accept ==
  \E r \in Elements(endpoint) :
    /\ Take(r) /\ r.kind = "served" /\ r.task \notin Elements(lru)
    /\ position' = position + 1
    /\ pc' = "accepted" /\ task' = r.task
    /\ UNCHANGED <<committed, agent, lru, results, faults>>

\* The handler returns a message, or raises.
RunHandler ==
  /\ pc = "accepted"
  /\ executions' = [executions EXCEPT ![task] = @ + 1]
  /\ pc' \in {"completed", "failed"}
  /\ UNCHANGED <<topics, position, agent, task, lru, joined, evictions, faults, stops>>

\* Mutant: the task counts as processed before it is reported.
ReportAfterMarking ==
  /\ pc \in {"completed", "failed"}
  /\ lru' = lru_add(lru, task)
  /\ pc' = "published"
  /\ UNCHANGED <<topics, position, agent, task, history, faults, stops>>

Report ==
  /\ pc \in {"completed", "failed"}
  /\ PublishResult(task, pc)
  /\ pc' = "published"
  /\ UNCHANGED <<endpoint, committed, processed, announced, position, agent, task, lru,
                 history, stops>>

\* Mutant: the cache is left to the next rebuild.
MarkOnTopicOnly ==
  /\ pc = "published"
  /\ pc' = "marked"
  /\ UNCHANGED <<topics, position, agent, task, lru, history, faults, stops>>

\* mark_processed: first the cache, then the topic.
MarkProcessed ==
  /\ pc = "published"
  /\ lru' = lru_add(lru, task)
  /\ evictions' = evictions + Cardinality(Elements(lru) \ Elements(lru'))
  /\ pc' = "marked"
  /\ UNCHANGED <<topics, position, agent, task, executions, joined, faults, stops>>

\* Mutant: the id is not written to the topic.
PersistNothing ==
  /\ pc = "marked"
  /\ pc' = "idle" /\ task' = NoTask
  /\ UNCHANGED <<topics, position, agent, lru, history, faults, stops>>

Persist ==
  /\ pc = "marked"
  /\ \/ processed' = touch(processed, task) /\ UNCHANGED faults
     \/ Fault /\ processed' \in {processed, touch(processed, task)}
  /\ pc' = "idle" /\ task' = NoTask
  /\ UNCHANGED <<endpoint, committed, results, announced, position, agent, lru,
                 history, stops>>

\* The broker commits the position, also of a request still being handled.
AutoCommit ==
  /\ agent = "serving" /\ committed # position
  /\ committed' = position
  /\ UNCHANGED <<endpoint, processed, results, announced, process, history, faults, stops>>

-----------------------------------------------------------------------------
\* Starting and stopping.

\* serve() publishes the card first; a failure is logged.
Start ==
  /\ agent = "down"
  /\ agent' = "joining"
  /\ \/ announced' = TRUE /\ UNCHANGED faults
     \/ Fault /\ announced' \in {announced, TRUE}
  /\ UNCHANGED <<endpoint, committed, processed, results, position, pc, task, lru,
                 history, stops>>

\* Then it rebuilds the tracker's cache and joins the consumer group: without a
\* committed offset, at the end of the topic (auto_offset_reset="latest").
Join ==
  /\ agent = "joining"
  /\ agent' = "serving"
  /\ position' = IF committed = NoOffset THEN Len(endpoint) ELSE committed
  /\ joined' = position'
  /\ \/ lru' = rebuild(processed) /\ UNCHANGED faults
     \/ Fault /\ lru' \in partial_rebuilds(processed)
  /\ evictions' = evictions + Cardinality(LRU_SIZE + 1 .. Len(processed))
  /\ UNCHANGED <<topics, pc, task, executions, stops>>

\* What is in memory is gone.  The card stays on the topic.
Down ==
  /\ stops < MaxStops
  /\ stops' = stops + 1
  /\ agent' = "down"
  /\ pc' = "idle" /\ task' = NoTask
  /\ position' = 0
  /\ lru' = <<>>
  /\ UNCHANGED <<endpoint, processed, results, announced, history, faults>>

\* The process dies.
Crash == agent # "down" /\ Down /\ UNCHANGED committed

\* The stop event is set, or getone() raises: serve() stops its consumer, which
\* commits, and returns.
Leave == agent = "serving" /\ pc = "idle" /\ Down /\ committed' = position

\* Mutant: the card is published again only while the agent joins.
RepublishWhileJoining ==
  /\ agent = "joining" /\ ~announced
  /\ announced' = TRUE
  /\ UNCHANGED <<endpoint, committed, processed, results, process, history, faults, stops>>

\* _republish_card_loop, also for a card that is there.
RepublishCard ==
  /\ agent # "down" /\ ~announced
  /\ announced' = TRUE
  /\ UNCHANGED <<endpoint, committed, processed, results, process, history, faults, stops>>

\* The discovery topic is purged or recreated.
PurgeCards ==
  /\ announced /\ Fault
  /\ announced' = FALSE
  /\ UNCHANGED <<endpoint, committed, processed, results, process, history, stops>>

Serve ==
  \/ Reject \/ Collapse \/ SkipDuplicate \/ FailUnserved \/ Accept
  \/ RunHandler \/ Report \/ MarkProcessed \/ Persist

Runtime == Serve \/ AutoCommit \/ Start \/ Join \/ RepublishCard \/ Crash \/ Leave

-----------------------------------------------------------------------------
\* Properties.

\* Repeated runs of the handler, one per task and run after the first.
Repeats == UNION {{t} \X (2 .. executions[t]) : t \in Tasks}

\* A task id is a working idempotency key.  However often a request is sent or
\* delivered again, as long as no write fails the handler of a task runs again
\* only for the task that was being processed when the process died, or for
\* one that the bounded cache had forgotten.
OneRepeatPerLoss ==
  faults = 0 => Cardinality(Repeats) <= stops + evictions

\* The tracker only knows answered tasks: if no write failed, a task in the
\* cache or on the topic has a result, so that skipping a duplicate loses
\* nothing.
SkippedMeansAnswered ==
  faults = 0 => \A t \in Elements(lru) \cup Elements(processed) : results[t] # <<>>

\* Once its id is on the tracker's topic, a task is never run again, not even
\* after a crash and a redelivery, unless a rebuild failed or the cache has
\* forgotten a task.
ProcessedStaysProcessed ==
  [][ \A t \in Elements(processed) :
        faults = 0 /\ evictions = 0 => executions'[t] = executions[t] ]_vars

\* Nothing failed, died or choked so far.
Undisturbed == faults = 0 /\ stops = 0 /\ \A r \in Elements(endpoint) : r.kind # "garbled"

\* A request sent to an agent that has joined is answered as long as nothing
\* fails: a result with its task id is published although others wait before
\* it, are rejected or repeated.  There are finitely many requests, so that in
\* the end none is left.
RequestsAreAnswered ==
  []<>(Undisturbed /\ agent = "serving" =>
         \A i \in joined + 1 .. Len(endpoint) : results[endpoint[i].task] # <<>>)

\* The registry heals: a running agent whose card could not be published, or
\* was purged, is found again without a restart.
CardComesBack == []<>(announced \/ agent = "down")
=============================================================================
