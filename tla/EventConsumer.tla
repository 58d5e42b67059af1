---------------------------- MODULE EventConsumer ----------------------------
(***************************************************************************)
(* The event transport under the Customer Resolution Agent: Consumer.run() *)
(* once for the tickets and once for the peers' results, in one process    *)
(* with one in-memory case store.  Each loop has its own group, offset and *)
(* idempotency tracker; both survive the process, the case store does not. *)
(*                                                                         *)
(* An event is identified by its offset: every publish makes a new         *)
(* event_id, so that an event comes twice only if a loop goes back.        *)
(***************************************************************************)
EXTENDS IdempotencyTracker, FiniteSets

CONSTANTS
  MaxCases,      \* how many tickets there are
  MaxResults,    \* how many results the peers publish
  EventKinds,    \* the kinds of events that are published
  Modes,         \* how run() may be started, per loop
  PARKED_MAX,    \* _PARKED_BUFFER_MAX
  MaxFaults,     \* how many broker calls and handlers may fail
  MaxStops       \* how many times the process crashes or is stopped

\* Cases have numbers in the order in which their tickets are published.
Cases == 1 .. MaxCases

Loop == {"intake", "results"}

\* good: passes the registry.  invalid: an unknown type or a wrong payload.
\* garbage: no envelope.
EventKind == {"good", "invalid", "garbage"}

\* latest: the committed offset, or else the end of the topic.  beginning and
\* offset: the seeks that a replay asks for.
Mode == {"latest", "beginning", "offset"}

ASSUME ConsumerAssumption ==
  /\ EventKinds \subseteq EventKind
  /\ Modes \in [Loop -> SUBSET Mode]
  /\ MaxCases \in Nat /\ MaxResults \in 0 .. MaxCases /\ PARKED_MAX \in Nat
  /\ MaxFaults \in Nat /\ MaxStops \in Nat

VARIABLES
  topic,       \* the events published, per loop
  committed,   \* the group's committed offset, NoOffset before the first commit
  processed,   \* the tracker's compacted topic
  audit,       \* the audit records: loop, offset and outcome
  requested,   \* the cases whose peers have been asked
  position,    \* the consumer's position
  stage,       \* where run() is suspended
  outcome,     \* of the event being audited
  lru,         \* the tracker's cache
  cases,       \* the case store
  parked,      \* its buffer of results without a case
  handled,     \* how often the handler succeeded, per loop and offset
  excused,     \* the offsets that a crash, a start or an exception gave up
  orphans,     \* the cases that were in the store when the process ended
  faults, stops

broker  == <<topic, committed, processed, audit, requested>>
process == <<position, stage, outcome, lru, cases, parked>>
history == <<handled, excused, orphans>>
vars    == <<broker, process, history, faults, stops>>

NoOffset == -1

\* The first event of a topic has offset 1.
Offsets == 1 .. MaxCases

AuditOutcome == {"accepted", "rejected", "duplicate_skipped"}
Stage == {"down", "idle", "handling", "persisting", "auditing", "ended"}

TypeOK ==
  /\ topic \in [Loop -> Seq([case : Cases, kind : EventKind])]
  /\ \A l \in Loop : Len(topic[l]) <= MaxCases
  /\ committed \in [Loop -> {NoOffset} \cup {0} \cup Offsets]
  /\ processed \in [Loop -> Seq(Offsets)]
  /\ audit \subseteq [loop : Loop, offset : Offsets, outcome : AuditOutcome]
  /\ requested \subseteq Cases
  /\ position \in [Loop -> {0} \cup Offsets]
  /\ stage \in [Loop -> Stage]
  /\ outcome \in [Loop -> AuditOutcome \cup {"none"}]
  /\ lru \in [Loop -> Seq(Offsets)] /\ \A l \in Loop : Len(lru[l]) <= LRU_SIZE
  /\ cases \subseteq Cases
  /\ parked \in Seq(Cases) /\ Len(parked) <= PARKED_MAX
  /\ handled \in [Loop -> [Offsets -> Nat]]
  /\ excused \in [Loop -> SUBSET Offsets]
  /\ orphans \subseteq Cases
  /\ faults \in 0 .. MaxFaults /\ stops \in 0 .. MaxStops

-----------------------------------------------------------------------------

Init ==
  /\ topic = [l \in Loop |-> <<>>]
  /\ committed = [l \in Loop |-> NoOffset]
  /\ processed = [l \in Loop |-> <<>>]
  /\ audit = {}
  /\ requested = {}
  /\ position = [l \in Loop |-> 0]
  /\ stage = [l \in Loop |-> "down"]
  /\ outcome = [l \in Loop |-> "none"]
  /\ lru = [l \in Loop |-> <<>>]
  /\ cases = {}
  /\ parked = <<>>
  /\ handled = [l \in Loop |-> [i \in Offsets |-> 0]]
  /\ excused = [l \in Loop |-> {}]
  /\ orphans = {}
  /\ faults = 0 /\ stops = 0

Fault == faults < MaxFaults /\ faults' = faults + 1

Published(l) == {topic[l][i].case : i \in DOMAIN topic[l]}

Publish(l, c, kind) ==
  /\ c \notin Published(l)
  /\ topic' = [topic EXCEPT ![l] = Append(@, [case |-> c, kind |-> kind])]
  /\ UNCHANGED <<committed, processed, audit, requested, process, history, faults, stops>>

\* The next ticket is published, by whatever producer.
PublishTicket(kind) ==
  Len(topic["intake"]) < MaxCases /\ Publish("intake", Len(topic["intake"]) + 1, kind)

\* A peer that was asked publishes its result; Publisher validates it.
PublishResult(c) ==
  /\ c \in requested /\ Len(topic["results"]) < MaxResults
  /\ Publish("results", c, "good")

-----------------------------------------------------------------------------
\* Starting and stopping.

\* Where a consumer begins to read.
start_positions(l, mode) ==
  CASE mode = "beginning" -> {0}
    [] mode = "offset"    -> 0 .. Len(topic[l])
    [] mode = "latest"    -> {IF committed[l] = NoOffset THEN Len(topic[l]) ELSE committed[l]}

\* run(): the tracker is rebuilt, then the consumer joins its group.  The loops
\* of a process start one after the other.
StartLoop(l) ==
  /\ stage[l] = "down"
  /\ stage' = [stage EXCEPT ![l] = "idle"]
  /\ \E mode \in Modes[l] : \E p \in start_positions(l, mode) :
       /\ position' = [position EXCEPT ![l] = p]
       /\ excused' = [excused EXCEPT ![l] =
            IF mode = "latest" /\ committed[l] # NoOffset THEN @ ELSE @ \cup 1 .. p]
  /\ \/ lru' = [lru EXCEPT ![l] = rebuild(processed[l])] /\ UNCHANGED faults
     \/ Fault /\ \E ids \in partial_rebuilds(processed[l]) : lru' = [lru EXCEPT ![l] = ids]
  /\ UNCHANGED <<broker, outcome, cases, parked, handled, orphans, stops>>

\* What is in memory is gone, and every loop is down.
Vanish ==
  /\ stops < MaxStops /\ stops' = stops + 1
  /\ stage' = [l \in Loop |-> "down"]
  /\ position' = [l \in Loop |-> 0]
  /\ outcome' = [l \in Loop |-> "none"]
  /\ lru' = [l \in Loop |-> <<>>]
  /\ cases' = {} /\ parked' = <<>>
  /\ orphans' = orphans \cup cases
  /\ UNCHANGED <<topic, processed, audit, requested, handled, faults>>

\* The process dies.  An event in its handler may have been committed.
Crash ==
  /\ \E l \in Loop : stage[l] # "down"
  /\ Vanish
  /\ excused' = [l \in Loop |->
       IF stage[l] = "handling" THEN excused[l] \cup {position[l]} ELSE excused[l]]
  /\ UNCHANGED committed

\* The stop event is set: every loop finishes its event, leaves the while loop
\* and stops its consumer, which commits the position.
Shutdown ==
  /\ \A l \in Loop : stage[l] \in {"idle", "ended"}
  /\ Vanish
  /\ committed' = [l \in Loop |-> IF stage[l] = "idle" THEN position[l] ELSE committed[l]]
  /\ UNCHANGED excused

\* Mutant: everything that was fetched is committed.
AutoCommitFetched(l) ==
  /\ stage[l] \notin {"down", "ended"} /\ committed[l] # Len(topic[l])
  /\ committed' = [committed EXCEPT ![l] = Len(topic[l])]
  /\ UNCHANGED <<topic, processed, audit, requested, process, history, faults, stops>>

\* enable_auto_commit: the position is committed now and then, whatever the
\* stage of the event before it.
AutoCommit(l) ==
  /\ stage[l] \notin {"down", "ended"} /\ committed[l] # position[l]
  /\ committed' = [committed EXCEPT ![l] = position[l]]
  /\ UNCHANGED <<topic, processed, audit, requested, process, history, faults, stops>>

-----------------------------------------------------------------------------
\* The loop.

\* getone() raises: run() stops the consumer, which commits, and returns.  The
\* other loops of the process go on.
Break(l) ==
  /\ stage[l] = "idle" /\ Fault
  /\ stage' = [stage EXCEPT ![l] = "ended"]
  /\ committed' = [committed EXCEPT ![l] = position[l]]
  /\ UNCHANGED <<topic, processed, audit, requested, position, outcome, lru, cases, parked,
                 history, stops>>

Event(l) == topic[l][position[l] + 1]

\* The next event of loop l is taken; go: the stage it leads to.
Take(l, go) ==
  /\ stage[l] = "idle" /\ position[l] < Len(topic[l])
  /\ position' = [position EXCEPT ![l] = @ + 1]
  /\ stage' = [stage EXCEPT ![l] = go]
  /\ UNCHANGED <<broker, parked, history, faults, stops>>

Duplicate(l) == position[l] + 1 \in Elements(lru[l])

\* Mutant: the loop waits for a readable event.
DiscardNothing(l) ==
  /\ stage[l] = "idle" /\ position[l] < Len(topic[l]) /\ Event(l).kind = "garbage"
  /\ UNCHANGED vars

\* No envelope: _make_partial_envelope gives None, and there is no record.
Discard(l) ==
  /\ Take(l, "idle") /\ Event(l).kind = "garbage"
  /\ UNCHANGED <<outcome, lru, cases>>

SkipDuplicate(l) ==
  /\ Take(l, "auditing") /\ Event(l).kind # "garbage" /\ Duplicate(l)
  /\ outcome' = [outcome EXCEPT ![l] = "duplicate_skipped"]
  /\ lru' = [lru EXCEPT ![l] = touch(@, position[l] + 1)]
  /\ UNCHANGED cases

Reject(l) ==
  /\ Take(l, "auditing") /\ Event(l).kind = "invalid" /\ ~Duplicate(l)
  /\ outcome' = [outcome EXCEPT ![l] = "rejected"]
  /\ UNCHANGED <<lru, cases>>

\* Mutant: no case is opened.
AcceptUnopened(l) ==
  /\ Take(l, "handling") /\ Event(l).kind = "good" /\ ~Duplicate(l)
  /\ UNCHANGED <<outcome, lru, cases>>

\* The handler begins; the intake handler opens the case.
Accept(l) ==
  /\ Take(l, "handling") /\ Event(l).kind = "good" /\ ~Duplicate(l)
  /\ cases' = IF l = "intake" THEN cases \cup {Event(l).case} ELSE cases
  /\ UNCHANGED <<outcome, lru>>

InHand(l) == topic[l][position[l]].case

\* The intake handler asks the peers.
Delegate ==
  /\ stage["intake"] = "handling" /\ InHand("intake") \notin requested
  /\ requested' = requested \cup {InHand("intake")}
  /\ UNCHANGED <<topic, committed, processed, audit, process, history, faults, stops>>

\* The handler returns and mark_processed puts the id in the cache, with no
\* await in between.  A result whose case is unknown has been parked.
Succeed(l) ==
  /\ stage[l] = "handling"
  /\ l = "intake" => InHand(l) \in requested
  /\ stage' = [stage EXCEPT ![l] = "persisting"]
  /\ handled' = [handled EXCEPT ![l][position[l]] = @ + 1]
  /\ lru' = [lru EXCEPT ![l] = lru_add(@, position[l])]
  /\ parked' = IF l = "results" /\ InHand(l) \notin cases
                 THEN newest(Append(parked, InHand(l)), PARKED_MAX) ELSE parked
  /\ UNCHANGED <<broker, position, outcome, cases, excused, orphans, faults, stops>>

\* Mutant: the loop does not continue with the next event.
FailMarked(l) ==
  /\ stage[l] = "handling" /\ Fault
  /\ stage' = [stage EXCEPT ![l] = "persisting"]
  /\ lru' = [lru EXCEPT ![l] = lru_add(@, position[l])]
  /\ excused' = [excused EXCEPT ![l] = @ \cup {position[l]}]
  /\ UNCHANGED <<broker, position, outcome, cases, parked, handled, orphans, stops>>

\* The handler raises: the loop goes on, without a mark and without a record.
Fail(l) ==
  /\ stage[l] = "handling" /\ Fault
  /\ stage' = [stage EXCEPT ![l] = "idle"]
  /\ excused' = [excused EXCEPT ![l] = @ \cup {position[l]}]
  /\ UNCHANGED <<broker, position, outcome, lru, cases, parked, handled, orphans, stops>>

\* The id is written to the tracker's topic; an exception is suppressed.
Persist(l) ==
  /\ stage[l] = "persisting"
  /\ \/ /\ processed' = [processed EXCEPT ![l] = touch(@, position[l])]
        /\ UNCHANGED faults
     \/ Fault /\ UNCHANGED processed
  /\ stage' = [stage EXCEPT ![l] = "auditing"]
  /\ outcome' = [outcome EXCEPT ![l] = "accepted"]
  /\ UNCHANGED <<topic, committed, audit, requested, position, lru, cases, parked, history, stops>>

\* write_audit swallows the exception of a failed publish.
WriteAudit(l) ==
  /\ stage[l] = "auditing"
  /\ LET record == [loop |-> l, offset |-> position[l], outcome |-> outcome[l]] IN
     \/ audit' = audit \cup {record} /\ UNCHANGED faults
     \/ Fault /\ UNCHANGED audit
  /\ stage' = [stage EXCEPT ![l] = "idle"]
  /\ outcome' = [outcome EXCEPT ![l] = "none"]
  /\ UNCHANGED <<topic, committed, processed, requested, position, lru, cases, parked,
                 history, stops>>

Consume(l) ==
  \/ Discard(l) \/ SkipDuplicate(l) \/ Reject(l) \/ Accept(l)
  \/ l = "intake" /\ Delegate
  \/ Succeed(l) \/ Fail(l) \/ Persist(l) \/ WriteAudit(l)

Next ==
  \/ \E kind \in EventKinds : PublishTicket(kind)
  \/ \E c \in Cases : PublishResult(c)
  \/ \E l \in Loop : StartLoop(l) \/ AutoCommit(l) \/ Break(l) \/ Consume(l)
  \/ Crash \/ Shutdown

Spec == Init /\ [][Next]_vars

\* The event loop of the process runs; nothing restarts it.
FairSpec == Spec /\ \A l \in Loop : WF_vars(Consume(l))

-----------------------------------------------------------------------------
\* Properties.

\* The events before the position that the handler ought to have handled.
Due(l) == {i \in 1 .. position[l] : topic[l][i].kind = "good"}

\* An event is lost only by a known cause.  Whatever is committed and
\* whenever, a good event before the position has been handled, is being
\* handled, or was given up: its handler raised or was interrupted by a crash,
\* or a loop without a committed offset, or a seek, began after it.
LossIsExplained ==
  \A l \in Loop : \A i \in Due(l) :
    \/ handled[l][i] > 0
    \/ i \in excused[l]
    \/ stage[l] = "handling" /\ i = position[l]

\* The events that the tracker is sure to recognise: all on its topic as long as
\* they fit in the cache, and after that only the last one.  A replay that
\* handles an evicted event again evicts another one that it has yet to read,
\* so that even the last LRU_SIZE events of the topic are not safe.
Recognised(l) ==
  {processed[l][i] : i \in {i \in DOMAIN processed[l] :
     Len(processed[l]) <= LRU_SIZE \/ i = Len(processed[l])}}

\* "Arrives at an identical final state" when replayed (SC-005): a recognised
\* event is never handled again, wherever a later start begins to read, unless
\* a write to the topic or a rebuild of the cache failed.
ReplayHasNoEffect ==
  [][ \A l \in Loop : \A i \in Recognised(l) :
        faults = 0 => handled'[l][i] = handled[l][i] ]_vars

\* Nothing failed and the process never ended.
Undisturbed == faults = 0 /\ stops = 0

\* The records of run() can be believed: an event recorded as accepted or as a
\* duplicate was handled, and one recorded as rejected never was.  As long as
\* nothing is disturbed they are complete: between two events a loop has left
\* a record of every event since its start that is an envelope.  (The intake
\* handler writes a record of its own before it has published anything.)
AuditIsTrue ==
  /\ \A r \in audit :
       /\ r.outcome \in {"accepted", "duplicate_skipped"} => handled[r.loop][r.offset] > 0
       /\ r.outcome = "rejected" => handled[r.loop][r.offset] = 0
  /\ \A l \in Loop :
       Undisturbed /\ stage[l] = "idle" =>
         \A i \in 1 .. position[l] :
           topic[l][i].kind = "garbage" \/ i \in excused[l]
           \/ \E r \in audit : r.loop = l /\ r.offset = i

\* A result finds no case only if the process that opened the case has ended.
\* The order in which the loops run never makes a result too early.
ParkedMeansForgotten ==
  \A c \in Elements(parked) : c \in orphans

\* Every event is taken as long as the process lives and its loop is not
\* broken: no event blocks the ones behind it, be it a duplicate, a rejected
\* one or one whose handler raises.  There are finitely many, so that in the
\* end none is left.
EventsAreTaken ==
  []<>(\A l \in Loop : position[l] = Len(topic[l]) \/ stage[l] \in {"down", "ended"})
=============================================================================
