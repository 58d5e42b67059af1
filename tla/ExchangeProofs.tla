---------------------------- MODULE ExchangeProofs ----------------------------
(***************************************************************************)
(* The exchange of tasks between requesters and an agent's runtime, for    *)
(* any tasks, faults and stops and any size of the tracker's cache.  The   *)
(* invariant has a part on where the runtime is, one on what its tracker   *)
(* knows, one that pays for every repeated run of a handler with a crash   *)
(* or a forgotten id, and one on what the results of a task can be.        *)
(***************************************************************************)
EXTENDS A2AExchange, TrackerProofs

\* A task in hand is one that was requested with a registered capability, and
\* the tracker did not know it until it was marked.
InHandOK ==
  /\ agent # "serving" => pc = "idle"
  /\ pc # "idle" => task \in Tasks /\ wants[task] = "served"
  /\ pc \in {"accepted", "completed", "failed", "published"} => task \notin Elements(lru)
  /\ pc = "marked" => task \in Elements(lru)
  /\ \A r \in Elements(endpoint) : r.kind = wants[r.task]

\* As long as no write failed, the cache knows answered tasks only, which are on
\* the topic or about to be; as long as it forgot nothing, all that are.
TrackerOK ==
  /\ faults = 0 => Elements(lru) \subseteq Elements(processed) \cup
                     (IF pc = "marked" THEN {task} ELSE {})
  /\ faults = 0 /\ evictions = 0 /\ agent = "serving" =>
       Elements(processed) \subseteq Elements(lru)
  /\ SkippedMeansAnswered
  /\ faults = 0 /\ pc \in {"published", "marked"} => results[task] # <<>>

\* The tasks that the runtime would not run again, with the one it is at.
Known ==
  IF agent # "serving" THEN Elements(processed)
  ELSE Elements(lru) \cup
         (IF pc \in {"completed", "failed", "published", "marked"} THEN {task} ELSE {})

\* The tasks that have run and may run again.
Lost == {t \in Tasks : executions[t] > 0} \ Known

\* OneRepeatPerLoss, with the repetitions that are still to come.
RepeatsPaid ==
  faults = 0 =>
    /\ IsFiniteSet(Repeats) /\ IsFiniteSet(Lost)
    /\ Cardinality(Repeats) + Cardinality(Lost) <= stops + evictions

\* Nothing was lost so far.
Quiet == faults = 0 /\ stops = 0 /\ evictions = 0

\* The tasks whose result the tracker knows of, or is about to.
Settled ==
  IF agent # "serving" THEN Elements(processed)
  ELSE Elements(lru) \cup (IF pc = "published" THEN {task} ELSE {})

\* What the results of task t say depends on its kind; one with a registered
\* capability has one result at most.
ResultsOK(t) ==
  /\ wants[t] = "rejected" => \A i \in DOMAIN results[t] : results[t][i] = "rejected"
  /\ wants[t] = "unserved" => \A i \in DOMAIN results[t] : results[t][i] = "failed"
  /\ wants[t] = "garbled" => results[t] = <<>>
  /\ wants[t] = "served" /\ Quiet =>
       Len(results[t]) <= 1 /\ (results[t] # <<>> => t \in Settled)
  /\ client[t] = "done" => results[t] # <<>> /\ answer[t] = results[t][1]

ExchangeInv ==
  /\ ExchangeTypeOK /\ InHandOK /\ TrackerOK /\ RepeatsPaid
  /\ \A t \in Tasks : ResultsOK(t)

-----------------------------------------------------------------------------
\* Types.

\* The types of the parts of a request, and of what is counted.
LEMMA Numbers ==
  ASSUME ExchangeTypeOK
  PROVE  /\ Len(endpoint) \in Nat /\ DOMAIN endpoint = 1 .. Len(endpoint)
         /\ position \in Nat /\ position <= Len(endpoint)
         /\ committed \in Int /\ committed <= Len(endpoint)
         /\ faults \in Nat /\ stops \in Nat /\ evictions \in Nat
         /\ \A t \in Tasks : executions[t] \in Nat /\ results[t] \in Seq(Status)
         /\ wants \in [Tasks -> RequestKind]
         /\ lru \in Seq(Tasks) /\ processed \in Seq(Tasks)
         /\ \A r \in Elements(endpoint) : r.task \in Tasks
  <1> DEFINE R == [task : Tasks, kind : RequestKind]
  <1>1. \A r \in R : r.task \in Tasks
    OBVIOUS
  <1>2. endpoint \in Seq(R)
    BY DEF ExchangeTypeOK, TypeOK
  <1> HIDE DEF R
  <1>3. Len(endpoint) \in Nat /\ DOMAIN endpoint = 1 .. Len(endpoint)
    BY <1>2
  <1>4. \A r \in Elements(endpoint) : r.task \in Tasks
    BY <1>1, <1>2, ElementsType
  <1>5. /\ committed \in {NoOffset} \cup 0 .. Len(endpoint) /\ position \in 0 .. Len(endpoint)
        /\ faults \in 0 .. MaxFaults /\ stops \in 0 .. MaxStops /\ evictions \in Nat
        /\ executions \in [Tasks -> Nat] /\ results \in [Tasks -> Seq(Status)]
        /\ wants \in Wants /\ lru \in Seq(Tasks) /\ processed \in Seq(Tasks)
    BY DEF ExchangeTypeOK, TypeOK
  <1>6. committed \in Int /\ committed <= Len(endpoint)
    BY <1>3, <1>5 DEF NoOffset
  <1>7. faults \in Nat /\ stops \in Nat
    BY <1>5, RuntimeAssumption
  <1>8. \A t \in Tasks : executions[t] \in Nat /\ results[t] \in Seq(Status)
    BY <1>5
  <1> QED
    BY <1>3, <1>4, <1>5, <1>6, <1>7, <1>8, ExchangeAssumption

LEMMA InitType == ExchangeInit => ExchangeTypeOK
  <1> SUFFICES ASSUME ExchangeInit PROVE ExchangeTypeOK
    OBVIOUS
  <1>1. Init /\ wants \in Wants
    BY DEF ExchangeInit
  <1>2. client \in [Tasks -> ClientStage] /\ answer \in [Tasks -> Status \cup {NoAnswer}]
    BY DEF ExchangeInit, ClientStage, NoAnswer
  <1>3. <<>> \in Seq(Tasks) /\ <<>> \in Seq(Status) /\ Len(<<>>) = 0
        /\ <<>> \in Seq([task : Tasks, kind : RequestKind])
    BY EmptySeq
  <1>4. TypeOK
    <2>1. /\ faults \in 0 .. MaxFaults /\ stops \in 0 .. MaxStops
          /\ Len(lru) <= LRU_SIZE /\ Len(endpoint) = 0
      BY <1>1, <1>3, RuntimeAssumption, TrackerAssumption DEF Init
    <2>2. position \in 0 .. Len(endpoint) /\ joined \in 0 .. Len(endpoint)
      BY <1>1, <2>1 DEF Init
    <2>3. executions \in [Tasks -> Nat] /\ results \in [Tasks -> Seq(Status)]
      BY <1>1, <1>3 DEF Init
    <2> QED
      BY <1>1, <1>3, <2>1, <2>2, <2>3, Zenon DEF Init, TypeOK, Stage, NoTask
  <1> QED
    BY <1>1, <1>2, <1>4 DEF ExchangeTypeOK

\* A step that may fail.
LEMMA FaultStep ==
  ASSUME ExchangeTypeOK, Fault
  PROVE  faults' \in 0 .. MaxFaults /\ faults' # 0
  BY RuntimeAssumption DEF ExchangeTypeOK, TypeOK, Fault

\* A task gets one more result, or perhaps none if a call failed.
LEMMA PublishStep ==
  ASSUME ExchangeTypeOK, NEW t \in Tasks, NEW st \in Status, PublishResult(t, st)
  PROVE  /\ results' \in [Tasks -> Seq(Status)] /\ faults' \in 0 .. MaxFaults
         /\ \A u \in Tasks : u # t => results'[u] = results[u]
         /\ results'[t] = Append(results[t], st) \/ (results'[t] = results[t] /\ faults' # 0)
         /\ faults' = 0 => faults = 0
  <1> DEFINE published == [results EXCEPT ![t] = Append(results[t], st)]
  <1>1. results \in [Tasks -> Seq(Status)] /\ faults \in 0 .. MaxFaults
    BY DEF ExchangeTypeOK, TypeOK
  <1>2. published \in [Tasks -> Seq(Status)]
    BY <1>1
  <1>3. \/ results' = published /\ faults' = faults
        \/ results' \in {results, published} /\ faults' \in 0 .. MaxFaults /\ faults' # 0
    BY FaultStep DEF PublishResult
  <1> QED
    BY <1>1, <1>2, <1>3

\* The request at the position is one of the endpoint.
LEMMA TakeStep ==
  ASSUME ExchangeTypeOK, NEW r \in Elements(endpoint), Take(r)
  PROVE  /\ r.task \in Tasks /\ position + 1 \in 0 .. Len(endpoint)
         /\ agent = "serving" /\ pc = "idle"
         /\ UNCHANGED <<endpoint, processed, announced, executions, joined, evictions, stops>>
  BY Numbers DEF Take, history

LEMMA ServeType ==
  ASSUME ExchangeTypeOK, InHandOK, Serve, UNCHANGED clients
  PROVE  ExchangeTypeOK'
  <1>0. /\ wants' \in Wants /\ client' \in [Tasks -> ClientStage]
        /\ answer' \in [Tasks -> Status \cup {NoAnswer}]
    BY DEF ExchangeTypeOK, clients
  <1> SUFFICES TypeOK'
    BY <1>0 DEF ExchangeTypeOK
  <1>a. TypeOK /\ "rejected" \in Status /\ "failed" \in Status
    BY DEF ExchangeTypeOK, Status
  <1>1. CASE Reject
    <2>1. PICK r \in Elements(endpoint) :
            Take(r) /\ position' = position + 1 /\ PublishResult(r.task, "rejected")
      BY <1>1 DEF Reject
    <2>2. results' \in [Tasks -> Seq(Status)] /\ faults' \in 0 .. MaxFaults
      BY <1>a, <2>1, TakeStep, PublishStep
    <2> QED
      BY <1>a, <1>1, <2>1, <2>2, TakeStep DEF TypeOK, Reject
  <1>2. CASE Collapse
    <2>1. PICK r \in Elements(endpoint) : Take(r)
      BY <1>2 DEF Collapse
    <2>2. <<>> \in Seq(Tasks) /\ Len(<<>>) <= LRU_SIZE
      BY EmptySeq, TrackerAssumption
    <2>3. position + 1 \in 0 .. Len(endpoint) /\ 0 \in 0 .. Len(endpoint)
      BY <2>1, TakeStep, Numbers
    <2> QED
      BY <1>a, <1>2, <2>1, <2>2, <2>3, TakeStep DEF TypeOK, Collapse
  <1>3. CASE SkipDuplicate
    <2>1. PICK r \in Elements(endpoint) : Take(r) /\ r.task \in Elements(lru)
                                          /\ position' = position + 1 /\ lru' = touch(lru, r.task)
      BY <1>3 DEF SkipDuplicate
    <2>2. lru' \in Seq(Tasks) /\ Len(lru') <= LRU_SIZE
      BY <1>a, <2>1, TakeStep, TouchProperties DEF TypeOK
    <2> QED
      BY <1>a, <1>3, <2>1, <2>2, TakeStep DEF TypeOK, SkipDuplicate
  <1>4. CASE FailUnserved
    <2>1. PICK r \in Elements(endpoint) :
            Take(r) /\ position' = position + 1 /\ PublishResult(r.task, "failed")
      BY <1>4 DEF FailUnserved
    <2>2. results' \in [Tasks -> Seq(Status)] /\ faults' \in 0 .. MaxFaults
      BY <1>a, <2>1, TakeStep, PublishStep
    <2> QED
      BY <1>a, <1>4, <2>1, <2>2, TakeStep DEF TypeOK, FailUnserved
  <1>5. CASE Accept
    <2>1. PICK r \in Elements(endpoint) : Take(r) /\ position' = position + 1
                                          /\ pc' = "accepted" /\ task' = r.task
      BY <1>5 DEF Accept
    <2> QED
      BY <1>a, <1>5, <2>1, TakeStep DEF TypeOK, Accept, Stage
  <1>6. CASE RunHandler
    <2>1. executions' \in [Tasks -> Nat]
      BY <1>a, <1>6 DEF RunHandler, InHandOK, TypeOK
    <2> QED
      BY <1>a, <1>6, <2>1 DEF RunHandler, TypeOK, Stage, topics
  <1>7. CASE Report
    <2>1. results' \in [Tasks -> Seq(Status)] /\ faults' \in 0 .. MaxFaults
      BY <1>7, PublishStep DEF Report, InHandOK, Status
    <2> QED
      BY <1>a, <1>7, <2>1 DEF Report, TypeOK, Stage, history
  <1>8. CASE MarkProcessed
    <2>1. task \in Tasks /\ lru \in Seq(Tasks) /\ evictions \in Nat
      BY <1>a, <1>8 DEF MarkProcessed, InHandOK, TypeOK
    <2>2. lru' \in Seq(Tasks) /\ Len(lru') <= LRU_SIZE
      BY <1>8, <2>1, LruAddProperties DEF MarkProcessed
    <2>3. evictions' \in Nat
      <3>1. IsFiniteSet(Elements(lru))
        BY <2>1, ElementsFinite
      <3>2. Cardinality(Elements(lru) \ Elements(lru')) \in Nat
        BY <3>1, FS_Subset, FS_CardinalityType
      <3> QED
        BY <1>8, <2>1, <3>2 DEF MarkProcessed
    <2> QED
      BY <1>a, <1>8, <2>2, <2>3 DEF MarkProcessed, TypeOK, Stage, topics
  <1>9. CASE Persist
    <2>1. touch(processed, task) \in Seq(Tasks) /\ processed \in Seq(Tasks)
      BY <1>a, <1>9, TouchProperties DEF Persist, InHandOK, TypeOK
    <2>2. processed' \in Seq(Tasks) /\ faults' \in 0 .. MaxFaults
      BY <1>a, <1>9, <2>1, FaultStep DEF Persist, TypeOK
    <2> QED
      BY <1>a, <1>9, <2>2 DEF Persist, TypeOK, Stage, history
  <1> QED
    BY <1>1, <1>2, <1>3, <1>4, <1>5, <1>6, <1>7, <1>8, <1>9 DEF Serve

LEMMA RestType ==
  ASSUME ExchangeTypeOK, UNCHANGED clients,
         AutoCommit \/ Start \/ Join \/ RepublishCard \/ Crash \/ Leave \/ PurgeCards
  PROVE  ExchangeTypeOK'
  <1>0. /\ wants' \in Wants /\ client' \in [Tasks -> ClientStage]
        /\ answer' \in [Tasks -> Status \cup {NoAnswer}]
    BY DEF ExchangeTypeOK, clients
  <1> SUFFICES TypeOK'
    BY <1>0 DEF ExchangeTypeOK
  <1>a. TypeOK
    BY DEF ExchangeTypeOK
  <1>1. CASE AutoCommit
    BY <1>a, <1>1 DEF AutoCommit, TypeOK, process, history
  <1>2. CASE Start
    <2>1. faults' \in 0 .. MaxFaults
      BY <1>a, <1>2, FaultStep DEF Start, TypeOK
    <2> QED
      BY <1>a, <1>2, <2>1 DEF Start, TypeOK, history
  <1>3. CASE Join
    <2>1. position' \in 0 .. Len(endpoint)
      BY <1>a, <1>3, Numbers DEF Join, TypeOK, NoOffset
    <2>2. lru' \in Seq(Tasks) /\ Len(lru') <= LRU_SIZE
      BY <1>a, <1>3, RebuildProperties, PartialRebuildProperties DEF Join, TypeOK
    <2>3. faults' \in 0 .. MaxFaults
      BY <1>a, <1>3, FaultStep DEF Join, TypeOK
    <2>4. evictions' \in Nat
      <3>1. Len(processed) \in Nat /\ LRU_SIZE \in Nat /\ evictions \in Nat
        BY <1>a, TrackerAssumption DEF TypeOK
      <3>2. Cardinality(LRU_SIZE + 1 .. Len(processed)) \in Nat
        BY <3>1, IntervalFinite, FS_CardinalityType
      <3> QED
        BY <1>3, <3>1, <3>2 DEF Join
    <2> QED
      BY <1>a, <1>3, <2>1, <2>2, <2>3, <2>4 DEF Join, TypeOK, topics
  <1>4. CASE RepublishCard
    BY <1>a, <1>4 DEF RepublishCard, TypeOK, process, history
  <1>5. CASE Crash \/ Leave
    <2>1. stops' \in 0 .. MaxStops
      BY <1>a, <1>5, RuntimeAssumption DEF Crash, Leave, Down, TypeOK
    <2>2. <<>> \in Seq(Tasks) /\ Len(<<>>) <= LRU_SIZE
      BY EmptySeq, TrackerAssumption
    <2>3. 0 \in 0 .. Len(endpoint) /\ committed' \in {NoOffset} \cup 0 .. Len(endpoint)
      BY <1>a, <1>5, Numbers DEF Crash, Leave, TypeOK
    <2> QED
      BY <1>a, <1>5, <2>1, <2>2, <2>3 DEF Crash, Leave, Down, TypeOK, Stage, history
  <1>6. CASE PurgeCards
    BY <1>a, <1>6, FaultStep DEF PurgeCards, TypeOK, process, history
  <1> QED
    BY <1>1, <1>2, <1>3, <1>4, <1>5, <1>6

-----------------------------------------------------------------------------
\* Steps that leave the tracker, the handler and the results alone.

LEMMA Frame ==
  ASSUME ExchangeInv, ExchangeTypeOK',
         Elements(lru)' = Elements(lru),
         UNCHANGED <<processed, executions, results, pc, task, stops, evictions, wants>>,
         agent' = agent \/ (agent # "serving" /\ agent' # "serving"),
         faults' = 0 => faults = 0,
         \A r \in Elements(endpoint)' : r.kind = wants[r.task],
         \A t \in Tasks : client'[t] = "done" => results[t] # <<>> /\ answer'[t] = results[t][1]
  PROVE  ExchangeInv'
  <1>1. InHandOK'
    BY DEF ExchangeInv, InHandOK
  <1>2. TrackerOK'
    BY DEF ExchangeInv, TrackerOK, SkippedMeansAnswered
  <1>3. RepeatsPaid'
    <2>1. Repeats' = Repeats /\ Lost' = Lost
      BY DEF Repeats, Lost, Known
    <2> QED
      BY <2>1 DEF ExchangeInv, RepeatsPaid
  <1>4. \A t \in Tasks : ResultsOK(t)'
    <2>1. Settled' = Settled /\ (Quiet' => Quiet)
      BY DEF Settled, Quiet
    <2> QED
      BY <2>1 DEF ExchangeInv, ResultsOK
  <1> QED
    BY <1>1, <1>2, <1>3, <1>4 DEF ExchangeInv

LEMMA CardsAndCommits ==
  ASSUME ExchangeInv, UNCHANGED clients, AutoCommit \/ Start \/ RepublishCard \/ PurgeCards
  PROVE  ExchangeInv'
  <1>1. ExchangeTypeOK'
    BY RestType DEF ExchangeInv
  <1>2. /\ UNCHANGED <<lru, processed, executions, results, pc, task, stops, evictions, wants>>
        /\ UNCHANGED <<endpoint, client, answer>>
        /\ agent' = agent \/ (agent # "serving" /\ agent' # "serving")
        /\ faults' = faults \/ Fault
    BY DEF AutoCommit, Start, RepublishCard, PurgeCards, process, history, clients
  <1>3. faults' = 0 => faults = 0
    BY <1>2, FaultStep DEF ExchangeInv
  <1>4. /\ \A r \in Elements(endpoint)' : r.kind = wants[r.task]
        /\ \A t \in Tasks : client'[t] = "done" => results[t] # <<>> /\ answer'[t] = results[t][1]
    BY <1>2 DEF ExchangeInv, InHandOK, ResultsOK
  <1> QED
    BY <1>1, <1>2, <1>3, <1>4, Frame

\* A request, perhaps twice, perhaps not delivered.
LEMMA SendStep ==
  ASSUME ExchangeInv, NEW t \in Tasks, NEW sent \in ClientStage \ {"done"},
         NEW raised \in ClientStage \ {"done"}, Send(t, sent, raised)
  PROVE  ExchangeInv'
  <1> DEFINE e == [task |-> t, kind |-> wants[t]]
             R == [task : Tasks, kind : RequestKind]
  <1>1. e \in R /\ e.task = t /\ e.kind = wants[t]
    BY Numbers DEF ExchangeInv
  <1>2. endpoint \in Seq(R) /\ TypeOK
    BY DEF ExchangeInv, ExchangeTypeOK, TypeOK
  <1>3. /\ endpoint' \in {endpoint, Append(endpoint, e)}
        /\ client' \in {[client EXCEPT ![t] = sent], [client EXCEPT ![t] = raised]}
        /\ faults' = faults \/ Fault
        /\ UNCHANGED <<committed, processed, results, announced, position, agent, pc, task, lru>>
        /\ UNCHANGED <<executions, joined, evictions, stops, wants, answer>>
    BY DEF Send, process, history
  <1> HIDE DEF e, R
  <1>4. /\ Append(endpoint, e) \in Seq(R) /\ Len(Append(endpoint, e)) = Len(endpoint) + 1
        /\ Elements(Append(endpoint, e)) = Elements(endpoint) \cup {e}
        /\ Len(endpoint) \in Nat
    BY <1>1, <1>2, ElementsAppend
  <1>5. endpoint' \in Seq(R) /\ Len(endpoint') >= Len(endpoint) /\ Len(endpoint') \in Nat
    BY <1>3, <1>4
  <1>6. faults' \in 0 .. MaxFaults /\ (faults' = 0 => faults = 0)
    BY <1>2, <1>3, FaultStep DEF TypeOK, ExchangeInv
  <1>7. TypeOK'
    <2>1. /\ committed' \in {NoOffset} \cup 0 .. Len(endpoint')
          /\ position' \in 0 .. Len(endpoint') /\ joined' \in 0 .. Len(endpoint')
      <3>1. /\ committed \in {NoOffset} \cup 0 .. Len(endpoint) /\ position \in 0 .. Len(endpoint)
            /\ joined \in 0 .. Len(endpoint)
        BY <1>2 DEF TypeOK
      <3> QED
        BY <1>3, <1>4, <1>5, <3>1
    <2>2. endpoint' \in Seq([task : Tasks, kind : RequestKind])
      BY <1>5 DEF R
    <2> QED
      BY <1>2, <1>3, <1>6, <2>1, <2>2 DEF TypeOK
  <1>8. client' \in [Tasks -> ClientStage] /\ \A u \in Tasks : client'[u] = "done" => client[u] = "done"
    BY <1>3 DEF ExchangeInv, ExchangeTypeOK
  <1>9. ExchangeTypeOK'
    BY <1>3, <1>7, <1>8 DEF ExchangeInv, ExchangeTypeOK
  <1>10. \A r \in Elements(endpoint)' : r.kind = wants[r.task]
    <2>1. Elements(endpoint)' \subseteq Elements(endpoint) \cup {e}
      BY <1>3, <1>4
    <2> QED
      BY <1>1, <2>1 DEF ExchangeInv, InHandOK
  <1>11. \A u \in Tasks : client'[u] = "done" => results[u] # <<>> /\ answer'[u] = results[u][1]
    BY <1>3, <1>8 DEF ExchangeInv, ResultsOK
  <1> QED
    BY <1>3, <1>6, <1>9, <1>10, <1>11, Frame

LEMMA ClientStep ==
  ASSUME ExchangeInv, NEW t \in Tasks, Discover(t) \/ Submit(t) \/ Wait(t)
  PROVE  ExchangeInv'
  <1>0. /\ TypeOK /\ wants \in Wants /\ client \in [Tasks -> ClientStage]
        /\ answer \in [Tasks -> Status \cup {NoAnswer}]
    BY DEF ExchangeInv, ExchangeTypeOK
  <1>1. CASE Submit(t) \/ Retry(t)
    BY <1>1, SendStep DEF Submit, Retry, ClientStage
  <1>2. CASE Discover(t) \/ Receive(t) \/ GiveUp(t)
    <2>1. /\ UNCHANGED <<endpoint, committed, processed, results, announced, position, agent>>
          /\ UNCHANGED <<pc, task, lru, executions, joined, evictions, stops, wants>>
          /\ faults' = faults \/ Fault
      BY <1>2 DEF Discover, Receive, GiveUp, vars, topics, process, history
    <2>2. faults' \in 0 .. MaxFaults /\ (faults' = 0 => faults = 0)
      BY <1>0, <2>1, FaultStep DEF TypeOK, ExchangeInv
    <2>3. TypeOK'
      BY <1>0, <2>1, <2>2 DEF TypeOK
    <2>4. /\ client' \in [Tasks -> ClientStage] /\ answer' \in [Tasks -> Status \cup {NoAnswer}]
          /\ \A u \in Tasks : client'[u] = "done" => results[u] # <<>> /\ answer'[u] = results[u][1]
      <3>1. CASE Receive(t)
        <4>1. results[t] \in Seq(Status) /\ results[t] # <<>>
          BY <3>1, Numbers DEF Receive, ExchangeInv
        <4>2. Head(results[t]) \in Status /\ Head(results[t]) = results[t][1]
          BY <4>1
        <4>3. /\ answer' = [answer EXCEPT ![t] = Head(results[t])]
              /\ client' = [client EXCEPT ![t] = "done"]
          BY <3>1 DEF Receive
        <4> QED
          BY <1>0, <4>1, <4>2, <4>3 DEF ExchangeInv, ResultsOK, ClientStage
      <3>2. CASE Discover(t) \/ GiveUp(t)
        <4>1. answer' = answer /\ client' \in {[client EXCEPT ![t] = "found"],
                                               [client EXCEPT ![t] = "failed"]}
          BY <3>2 DEF Discover, GiveUp
        <4> QED
          BY <1>0, <4>1 DEF ExchangeInv, ResultsOK, ClientStage
      <3> QED
        BY <1>2, <3>1, <3>2
    <2>5. ExchangeTypeOK'
      BY <1>0, <2>1, <2>3, <2>4 DEF ExchangeTypeOK
    <2>6. \A r \in Elements(endpoint)' : r.kind = wants[r.task]
      BY <2>1 DEF ExchangeInv, InHandOK
    <2> QED
      BY <2>1, <2>2, <2>4, <2>5, <2>6, Frame
  <1> QED
    BY <1>1, <1>2 DEF Wait

\* A served request that is a duplicate changes the order in the cache.
LEMMA SkipInv ==
  ASSUME ExchangeInv, SkipDuplicate, UNCHANGED clients
  PROVE  ExchangeInv'
  <1>1. PICK r \in Elements(endpoint) :
          Take(r) /\ r.task \in Elements(lru) /\ lru' = touch(lru, r.task)
    BY DEF SkipDuplicate
  <1>2. ExchangeTypeOK'
    BY ServeType DEF ExchangeInv, Serve
  <1>3. r.task \in Tasks /\ lru \in Seq(Tasks)
    BY <1>1, TakeStep, Numbers DEF ExchangeInv
  <1>4. Elements(lru)' = Elements(lru)
    <2>1. Elements(touch(lru, r.task)) = Elements(lru) \cup {r.task}
      BY <1>3, TouchProperties
    <2> QED
      BY <1>1, <2>1
  <1>5. UNCHANGED <<processed, executions, results, pc, task, stops, evictions, wants, agent,
                    faults, endpoint, client, answer>>
    BY <1>1 DEF SkipDuplicate, Take, history, clients
  <1>6. /\ \A q \in Elements(endpoint)' : q.kind = wants[q.task]
        /\ \A t \in Tasks : client'[t] = "done" => results[t] # <<>> /\ answer'[t] = results[t][1]
    BY <1>5 DEF ExchangeInv, InHandOK, ResultsOK
  <1> QED
    BY <1>2, <1>4, <1>5, <1>6, Frame

-----------------------------------------------------------------------------
\* Steps that publish a result.

\* A result is added behind the others.
LEMMA ResultStep ==
  ASSUME ExchangeTypeOK, NEW t \in Tasks, NEW st \in Status, PublishResult(t, st)
  PROVE  /\ \A u \in Tasks : results[u] # <<>> => results'[u] # <<>> /\ results'[u][1] = results[u][1]
         /\ \A i \in DOMAIN results'[t] : \/ results'[t][i] = st
                                          \/ i \in DOMAIN results[t] /\ results'[t][i] = results[t][i]
         /\ faults' = 0 => results'[t] # <<>> /\ Len(results'[t]) = Len(results[t]) + 1
  <1>1. /\ \A u \in Tasks : u # t => results'[u] = results[u]
        /\ results'[t] = Append(results[t], st) \/ (results'[t] = results[t] /\ faults' # 0)
    BY PublishStep
  <1>2. results[t] \in Seq(Status)
    BY Numbers
  <1> DEFINE new == Append(results[t], st)
  <1>3. /\ Len(new) = Len(results[t]) + 1 /\ DOMAIN new = 1 .. Len(results[t]) + 1
        /\ new[Len(results[t]) + 1] = st
        /\ \A i \in 1 .. Len(results[t]) : new[i] = results[t][i]
        /\ DOMAIN results[t] = 1 .. Len(results[t]) /\ Len(results[t]) \in Nat
        /\ new # <<>> /\ (results[t] # <<>> => Len(results[t]) > 0)
    BY <1>2
  <1> HIDE DEF new
  <1>4. results[t] # <<>> => new[1] = results[t][1]
    BY <1>3
  <1>5. ASSUME NEW i \in DOMAIN new
        PROVE  new[i] = st \/ (i \in DOMAIN results[t] /\ new[i] = results[t][i])
    <2>1. i = Len(results[t]) + 1 \/ i \in 1 .. Len(results[t])
      BY <1>3
    <2> QED
      BY <1>3, <2>1, Zenon
  <1>6. results'[t] = new \/ (results'[t] = results[t] /\ faults' # 0)
    BY <1>1 DEF new
  <1> QED
    BY <1>1, <1>3, <1>4, <1>5, <1>6

\* A request is rejected, or has no handler.
LEMMA RefuseInv ==
  ASSUME ExchangeInv, Reject \/ FailUnserved, UNCHANGED clients
  PROVE  ExchangeInv'
  <1>1. PICK r \in Elements(endpoint), st \in Status :
          /\ Take(r) /\ PublishResult(r.task, st)
          /\ \/ r.kind = "rejected" /\ st = "rejected"
             \/ r.kind = "unserved" /\ st = "failed"
    BY DEF Reject, FailUnserved, Status
  <1> DEFINE t == r.task
  <1>2. t \in Tasks /\ ExchangeTypeOK
    BY <1>1, TakeStep DEF ExchangeInv
  <1>3. r.kind = wants[t]
    BY DEF ExchangeInv, InHandOK
  <1>4. UNCHANGED <<processed, executions, pc, task, stops, evictions, wants, agent, lru, endpoint,
                    client, answer>>
    BY <1>1 DEF Reject, FailUnserved, Take, history, clients
  <1> HIDE DEF t
  <1>5. PublishResult(t, st)
    BY <1>1 DEF t
  <1>6. /\ \A u \in Tasks : u # t => results'[u] = results[u]
        /\ faults' = 0 => faults = 0
    BY <1>2, <1>5, PublishStep
  <1>7. /\ \A u \in Tasks : results[u] # <<>> => results'[u] # <<>> /\ results'[u][1] = results[u][1]
        /\ \A i \in DOMAIN results'[t] : \/ results'[t][i] = st
                                         \/ i \in DOMAIN results[t] /\ results'[t][i] = results[t][i]
    BY <1>2, <1>5, ResultStep
  <1>8. InHandOK'
    BY <1>4 DEF ExchangeInv, InHandOK
  <1>9. TrackerOK'
    <2>1. Elements(lru) \subseteq Tasks /\ Elements(processed) \subseteq Tasks
      BY <1>2, Numbers, ElementsType
    <2> QED
      BY <1>4, <1>6, <1>7, <2>1 DEF ExchangeInv, TrackerOK, SkippedMeansAnswered, InHandOK
  <1>10. RepeatsPaid'
    <2>1. Repeats' = Repeats /\ Lost' = Lost
      BY <1>4 DEF Repeats, Lost, Known
    <2> QED
      BY <1>4, <1>6, <2>1 DEF ExchangeInv, RepeatsPaid
  <1>11. ASSUME NEW u \in Tasks PROVE ResultsOK(u)'
    <2>1. Settled' = Settled /\ (Quiet' => Quiet)
      BY <1>4, <1>6 DEF Settled, Quiet
    <2>2. CASE u # t
      BY <1>4, <1>6, <2>1, <2>2 DEF ExchangeInv, ResultsOK
    <2>3. CASE u = t
      BY <1>1, <1>3, <1>4, <1>7, <2>3 DEF ExchangeInv, ResultsOK
    <2> QED
      BY <2>2, <2>3
  <1>12. ExchangeTypeOK'
    BY ServeType DEF ExchangeInv, Serve
  <1> QED
    BY <1>8, <1>9, <1>10, <1>11, <1>12 DEF ExchangeInv

\* The result of the handler is published.
LEMMA ReportInv ==
  ASSUME ExchangeInv, Report, UNCHANGED clients
  PROVE  ExchangeInv'
  <1>1. /\ task \in Tasks /\ wants[task] = "served" /\ task \notin Elements(lru)
        /\ pc \in {"completed", "failed"} /\ agent = "serving" /\ ExchangeTypeOK
    BY DEF ExchangeInv, InHandOK, Report
  <1>2. pc' = "published" /\ PublishResult(task, pc) /\ pc \in Status
    BY <1>1 DEF Report, Status
  <1>3. UNCHANGED <<processed, executions, task, stops, evictions, wants, agent, lru, endpoint,
                    client, answer>>
    BY DEF Report, history, clients
  <1>4. /\ \A u \in Tasks : u # task => results'[u] = results[u]
        /\ faults' = 0 => faults = 0
    BY <1>1, <1>2, PublishStep
  <1>5. /\ \A u \in Tasks : results[u] # <<>> => results'[u] # <<>> /\ results'[u][1] = results[u][1]
        /\ faults' = 0 => results'[task] # <<>> /\ Len(results'[task]) = Len(results[task]) + 1
    BY <1>1, <1>2, ResultStep
  <1>6. InHandOK'
    BY <1>1, <1>2, <1>3 DEF ExchangeInv, InHandOK
  <1>7. TrackerOK'
    <2>1. Elements(lru) \subseteq Tasks /\ Elements(processed) \subseteq Tasks
      BY <1>1, Numbers, ElementsType
    <2> QED
      BY <1>1, <1>2, <1>3, <1>4, <1>5, <2>1 DEF ExchangeInv, TrackerOK, SkippedMeansAnswered
  <1>8. RepeatsPaid'
    <2>1. Repeats' = Repeats /\ Lost' = Lost
      BY <1>1, <1>2, <1>3 DEF Repeats, Lost, Known
    <2> QED
      BY <1>3, <1>4, <2>1 DEF ExchangeInv, RepeatsPaid
  <1>9. ASSUME NEW u \in Tasks PROVE ResultsOK(u)'
    <2>1. /\ Settled' = Settled \cup {task} /\ (Quiet' => Quiet)
          /\ task \notin Settled
      BY <1>1, <1>2, <1>3, <1>4 DEF Settled, Quiet
    <2>2. CASE u # task
      BY <1>3, <1>4, <2>1, <2>2 DEF ExchangeInv, ResultsOK
    <2>3. CASE u = task
      <3>1. Quiet' => Len(results'[u]) <= 1
        <4>1. Quiet => results[u] = <<>>
          BY <1>1, <2>1, <2>3 DEF ExchangeInv, ResultsOK
        <4>2. results[u] = <<>> => Len(results[u]) = 0
          OBVIOUS
        <4> QED
          BY <1>5, <2>1, <2>3, <4>1, <4>2 DEF Quiet
      <3> QED
        BY <1>1, <1>3, <1>5, <2>1, <2>3, <3>1 DEF ExchangeInv, ResultsOK
    <2> QED
      BY <2>2, <2>3
  <1>10. ExchangeTypeOK'
    BY ServeType DEF ExchangeInv, Serve
  <1> QED
    BY <1>6, <1>7, <1>8, <1>9, <1>10 DEF ExchangeInv

-----------------------------------------------------------------------------
\* Steps of the handler and of the tracker.

\* Tasks that were not lost before are paid for by the step that loses them.
LEMMA Pays ==
  ASSUME ExchangeTypeOK, ExchangeTypeOK', RepeatsPaid, NEW D, Repeats' = Repeats,
         faults' = 0 => /\ faults = 0 /\ IsFiniteSet(D) /\ Lost' \subseteq Lost \cup D
                        /\ stops' + evictions' >= stops + evictions + Cardinality(D)
  PROVE  RepeatsPaid'
  <1> SUFFICES ASSUME faults' = 0
               PROVE  /\ IsFiniteSet(Repeats) /\ IsFiniteSet(Lost')
                      /\ Cardinality(Repeats) + Cardinality(Lost') <= stops' + evictions'
    BY DEF RepeatsPaid
  <1>1. /\ IsFiniteSet(Repeats) /\ IsFiniteSet(Lost) /\ IsFiniteSet(D)
        /\ Cardinality(Repeats) + Cardinality(Lost) <= stops + evictions
        /\ Lost' \subseteq Lost \cup D
        /\ stops' + evictions' >= stops + evictions + Cardinality(D)
    BY DEF RepeatsPaid
  <1>2. /\ IsFiniteSet(Lost') /\ Cardinality(Lost') <= Cardinality(Lost) + Cardinality(D)
        /\ Cardinality(Lost) \in Nat /\ Cardinality(D) \in Nat /\ Cardinality(Lost') \in Nat
    BY <1>1, Covered
  <1>3. Cardinality(Repeats) \in Nat
    BY <1>1, FS_CardinalityType
  <1>4. stops \in Nat /\ evictions \in Nat /\ stops' \in Nat /\ evictions' \in Nat
    BY RuntimeAssumption DEF ExchangeTypeOK, TypeOK
  <1> QED
    BY <1>1, <1>2, <1>3, <1>4

LEMMA AcceptInv ==
  ASSUME ExchangeInv, Accept, UNCHANGED clients
  PROVE  ExchangeInv'
  <1>0. ExchangeTypeOK /\ ExchangeTypeOK'
    BY ServeType DEF ExchangeInv, Serve
  <1>1. PICK r \in Elements(endpoint) :
          /\ Take(r) /\ r.kind = "served" /\ r.task \notin Elements(lru)
          /\ pc' = "accepted" /\ task' = r.task
    BY DEF Accept
  <1>2. /\ r.task \in Tasks /\ wants[r.task] = "served" /\ agent = "serving" /\ pc = "idle"
        /\ UNCHANGED <<processed, executions, results, stops, evictions, wants, agent, lru, endpoint,
                       faults, client, answer>>
    BY <1>0, <1>1, TakeStep DEF ExchangeInv, InHandOK, Accept, Take, history, clients
  <1>3. InHandOK'
    BY <1>1, <1>2 DEF ExchangeInv, InHandOK
  <1>4. TrackerOK'
    BY <1>1, <1>2 DEF ExchangeInv, TrackerOK, SkippedMeansAnswered
  <1>5. RepeatsPaid'
    <2>1. Repeats' = Repeats /\ Lost' = Lost
      BY <1>1, <1>2 DEF Repeats, Lost, Known
    <2> QED
      BY <1>2, <2>1 DEF ExchangeInv, RepeatsPaid
  <1>6. \A t \in Tasks : ResultsOK(t)'
    <2>1. Settled' = Settled /\ (Quiet' => Quiet)
      BY <1>1, <1>2 DEF Settled, Quiet
    <2> QED
      BY <1>2, <2>1 DEF ExchangeInv, ResultsOK
  <1> QED
    BY <1>0, <1>3, <1>4, <1>5, <1>6 DEF ExchangeInv

\* A run of the handler that is a repetition is one that was lost.
LEMMA RunStep ==
  ASSUME ExchangeTypeOK, InHandOK, RepeatsPaid, RunHandler
  PROVE  RepeatsPaid'
  <1> DEFINE n == executions[task]
             E == {t \in Tasks : executions[t] > 0}
  <1>1. /\ task \in Tasks /\ task \notin Elements(lru) /\ agent = "serving" /\ n \in Nat
        /\ pc = "accepted" /\ pc' \in {"completed", "failed"}
        /\ UNCHANGED <<lru, processed, agent, task, faults, stops, evictions>>
    BY Numbers DEF InHandOK, RunHandler, topics
  <1>2. \A t \in Tasks : executions'[t] = IF t = task THEN n + 1 ELSE executions[t]
    BY <1>1 DEF RunHandler, ExchangeTypeOK, TypeOK
  <1>3. Lost = E \ Elements(lru)
    BY <1>1 DEF Lost, Known
  <1>4. Lost' = {t \in Tasks : executions'[t] > 0} \ (Elements(lru) \cup {task})
    BY <1>1 DEF Lost, Known
  <1>5. Lost' = Lost \ {task}
    BY <1>1, <1>2, <1>3, <1>4
  <1>6. \A x : x \in Repeats <=> \E t \in Tasks : \E k \in 2 .. executions[t] : x = <<t, k>>
    BY DEF Repeats
  <1>7. \A x : x \in Repeats' <=> \E t \in Tasks : \E k \in 2 .. executions'[t] : x = <<t, k>>
    BY DEF Repeats
  <1>8. CASE n = 0
    <2>1. 2 .. executions'[task] = {} /\ 2 .. executions[task] = {}
      BY <1>1, <1>2, <1>8
    <2>2. Repeats' = Repeats
      BY <1>2, <1>6, <1>7, <2>1
    <2>3. task \notin Lost
      BY <1>3, <1>8
    <2>4. Lost' = Lost
      BY <1>5, <2>3
    <2> QED
      BY <1>1, <2>2, <2>4 DEF RepeatsPaid
  <1>9. CASE n > 0
    <2>1. task \in Lost
      BY <1>1, <1>3, <1>9
    <2>2. 2 .. executions'[task] = (2 .. n) \cup {n + 1} /\ n + 1 \notin 2 .. n
      BY <1>1, <1>2, <1>9
    <2>3. Repeats' = Repeats \cup {<<task, n + 1>>}
      <3>1. ASSUME NEW x \in Repeats' PROVE x \in Repeats \cup {<<task, n + 1>>}
        <4>1. PICK t \in Tasks, k \in Int : k \in 2 .. executions'[t] /\ x = <<t, k>>
          BY <1>7
        <4> QED
          BY <1>2, <1>6, <2>2, <4>1
      <3>2. ASSUME NEW x \in Repeats PROVE x \in Repeats'
        <4>1. PICK t \in Tasks, k \in Int : k \in 2 .. executions[t] /\ x = <<t, k>>
          BY <1>6
        <4>2. k \in 2 .. executions'[t]
          BY <1>2, <2>2, <4>1
        <4> QED
          BY <1>7, <4>1, <4>2
      <3>3. <<task, n + 1>> \in Repeats'
        BY <1>1, <1>7, <2>2
      <3> QED
        BY <3>1, <3>2, <3>3
    <2>4. <<task, n + 1>> \notin Repeats
      BY <1>6, <2>2
    <2> SUFFICES ASSUME faults = 0
                 PROVE  /\ IsFiniteSet(Repeats') /\ IsFiniteSet(Lost')
                        /\ Cardinality(Repeats') + Cardinality(Lost') <= stops + evictions
      BY <1>1 DEF RepeatsPaid
    <2>5. /\ IsFiniteSet(Repeats) /\ IsFiniteSet(Lost)
          /\ Cardinality(Repeats) + Cardinality(Lost) <= stops + evictions
      BY DEF RepeatsPaid
    <2>6. IsFiniteSet(Repeats') /\ Cardinality(Repeats') = Cardinality(Repeats) + 1
      BY <2>3, <2>4, <2>5, FS_AddElement
    <2>7. IsFiniteSet(Lost') /\ Cardinality(Lost') = Cardinality(Lost) - 1
      BY <1>5, <2>1, <2>5, FS_RemoveElement
    <2>8. Cardinality(Repeats) \in Nat /\ Cardinality(Lost) \in Nat
      BY <2>5, FS_CardinalityType
    <2> QED
      BY <2>5, <2>6, <2>7, <2>8
  <1> QED
    BY <1>1, <1>8, <1>9

LEMMA RunInv ==
  ASSUME ExchangeInv, RunHandler, UNCHANGED clients
  PROVE  ExchangeInv'
  <1>0. ExchangeTypeOK /\ ExchangeTypeOK' /\ RepeatsPaid'
    BY ServeType, RunStep DEF ExchangeInv, Serve
  <1>1. /\ pc = "accepted" /\ pc' \in {"completed", "failed"}
        /\ UNCHANGED <<processed, results, stops, evictions, wants, agent, lru, endpoint, task,
                       faults, client, answer>>
    BY DEF RunHandler, topics, clients
  <1>2. InHandOK'
    BY <1>1 DEF ExchangeInv, InHandOK
  <1>3. TrackerOK'
    BY <1>1 DEF ExchangeInv, TrackerOK, SkippedMeansAnswered
  <1>4. \A t \in Tasks : ResultsOK(t)'
    <2>1. Settled' = Settled /\ (Quiet' => Quiet)
      BY <1>1 DEF Settled, Quiet
    <2> QED
      BY <1>1, <2>1 DEF ExchangeInv, ResultsOK
  <1> QED
    BY <1>0, <1>2, <1>3, <1>4 DEF ExchangeInv

\* The task gets into the cache, which may evict another.
LEMMA MarkInv ==
  ASSUME ExchangeInv, MarkProcessed, UNCHANGED clients
  PROVE  ExchangeInv'
  <1> DEFINE D == Elements(lru) \ Elements(lru')
  <1>0. ExchangeTypeOK /\ ExchangeTypeOK'
    BY ServeType DEF ExchangeInv, Serve
  <1>1. /\ pc = "published" /\ pc' = "marked" /\ task \in Tasks /\ agent = "serving"
        /\ task \notin Elements(lru) /\ wants[task] = "served"
        /\ lru' = lru_add(lru, task) /\ evictions' = evictions + Cardinality(D)
        /\ UNCHANGED <<processed, executions, results, stops, wants, agent, endpoint, task,
                       faults, client, answer>>
    BY DEF ExchangeInv, InHandOK, MarkProcessed, topics, clients
  <1>2. lru \in Seq(Tasks) /\ evictions \in Nat /\ stops \in Nat
    BY <1>0, Numbers
  <1>3. task \in Elements(lru') /\ Elements(lru') \subseteq Elements(lru) \cup {task}
    BY <1>1, <1>2, LruAddProperties
  <1>4. IsFiniteSet(D) /\ Cardinality(D) \in Nat
    <2>1. IsFiniteSet(Elements(lru))
      BY <1>2, ElementsFinite
    <2> QED
      BY <2>1, FS_Subset, FS_CardinalityType
  <1>5. evictions' = 0 => evictions = 0 /\ Elements(lru) \subseteq Elements(lru')
    <2>1. Cardinality(D) = 0 => D = {}
      BY <1>4, FS_EmptySet
    <2>2. evictions' = 0 => evictions = 0 /\ Cardinality(D) = 0
      BY <1>1, <1>2, <1>4
    <2> QED
      BY <2>1, <2>2
  <1>6. InHandOK'
    BY <1>1, <1>3 DEF ExchangeInv, InHandOK
  <1>7. TrackerOK'
    BY <1>1, <1>3, <1>5 DEF ExchangeInv, TrackerOK, SkippedMeansAnswered
  <1>8. RepeatsPaid'
    <2>1. Repeats' = Repeats
      BY <1>1 DEF Repeats
    <2>2. Lost' \subseteq Lost \cup D
      BY <1>1, <1>3 DEF Lost, Known
    <2>3. stops' + evictions' >= stops + evictions + Cardinality(D)
      BY <1>1, <1>2, <1>4
    <2> HIDE DEF D
    <2> QED
      BY <1>0, <1>1, <1>4, <2>1, <2>2, <2>3, Pays DEF ExchangeInv
  <1>9. \A t \in Tasks : ResultsOK(t)'
    <2>1. Quiet' => Quiet /\ Settled \subseteq Settled'
      BY <1>1, <1>3, <1>5 DEF Settled, Quiet
    <2> QED
      BY <1>1, <2>1 DEF ExchangeInv, ResultsOK
  <1> QED
    BY <1>0, <1>6, <1>7, <1>8, <1>9 DEF ExchangeInv

\* The id is written to the tracker's topic.
LEMMA PersistInv ==
  ASSUME ExchangeInv, Persist, UNCHANGED clients
  PROVE  ExchangeInv'
  <1>0. ExchangeTypeOK /\ ExchangeTypeOK'
    BY ServeType DEF ExchangeInv, Serve
  <1>1. /\ pc = "marked" /\ pc' = "idle" /\ task \in Tasks /\ agent = "serving"
        /\ task \in Elements(lru)
        /\ UNCHANGED <<lru, executions, results, stops, evictions, wants, agent, endpoint,
                       client, answer>>
        /\ \/ processed' = touch(processed, task) /\ faults' = faults
           \/ Fault
    BY DEF ExchangeInv, InHandOK, Persist, history, clients
  <1>2. Elements(touch(processed, task)) = Elements(processed) \cup {task}
    BY <1>0, <1>1, Numbers, TouchProperties
  <1>3. faults' = 0 => faults = 0 /\ Elements(processed') = Elements(processed) \cup {task}
    BY <1>0, <1>1, <1>2, FaultStep
  <1>4. InHandOK'
    BY <1>1 DEF ExchangeInv, InHandOK
  <1>5. TrackerOK'
    BY <1>1, <1>3 DEF ExchangeInv, TrackerOK, SkippedMeansAnswered
  <1>6. RepeatsPaid'
    <2>1. Repeats' = Repeats /\ Lost' = Lost
      BY <1>1 DEF Repeats, Lost, Known
    <2> QED
      BY <1>1, <1>3, <2>1 DEF ExchangeInv, RepeatsPaid
  <1>7. \A t \in Tasks : ResultsOK(t)'
    <2>1. Settled' = Settled /\ (Quiet' => Quiet)
      BY <1>1, <1>3 DEF Settled, Quiet
    <2> QED
      BY <1>1, <2>1 DEF ExchangeInv, ResultsOK
  <1> QED
    BY <1>0, <1>4, <1>5, <1>6, <1>7 DEF ExchangeInv

-----------------------------------------------------------------------------
\* Starting and stopping.

\* The process ends; a crash pays for the task it interrupted.
LEMMA EndInv ==
  ASSUME ExchangeInv, ExchangeTypeOK', agent # "down", agent' = "down", pc' = "idle", lru' = <<>>,
         UNCHANGED <<processed, executions, results, evictions, faults, endpoint>>,
         UNCHANGED clients,
         stops' = stops + 1 \/ (stops' = stops /\ pc = "idle")
  PROVE  ExchangeInv'
  <1>0. ExchangeTypeOK /\ stops \in Nat /\ evictions \in Nat
    BY Numbers DEF ExchangeInv
  <1>1. Elements(lru') = {} /\ UNCHANGED <<wants, client, answer>>
    BY DEF Elements, clients
  <1>2. InHandOK'
    BY <1>1 DEF ExchangeInv, InHandOK
  <1>3. TrackerOK'
    BY <1>1 DEF ExchangeInv, TrackerOK, SkippedMeansAnswered
  <1>4. RepeatsPaid'
    <2> DEFINE D == IF stops' = stops THEN {} ELSE {task}
    <2>1. Repeats' = Repeats
      BY DEF Repeats
    <2>2. IsFiniteSet(D) /\ stops' + evictions' >= stops + evictions + Cardinality(D)
      <3>1. CASE stops' = stops
        BY <1>0, <3>1, FS_EmptySet
      <3>2. CASE stops' # stops
        <4>1. IsFiniteSet({task}) /\ Cardinality({task}) = 1 /\ D = {task}
          BY <3>2, FS_Singleton
        <4> QED
          BY <1>0, <3>2, <4>1
      <3> QED
        BY <3>1, <3>2
    <2>3. faults = 0 => Lost' \subseteq Lost \cup D
      <3>1. faults = 0 => Elements(lru) \subseteq Elements(processed) \cup
                            (IF pc = "marked" THEN {task} ELSE {})
        BY DEF ExchangeInv, TrackerOK
      <3>2. stops' = stops => pc = "idle"
        BY <1>0
      <3>3. Lost' = {t \in Tasks : executions[t] > 0} \ Elements(processed)
        BY DEF Lost, Known
      <3> QED
        BY <3>1, <3>2, <3>3 DEF Lost, Known
    <2> HIDE DEF D
    <2> QED
      BY <1>0, <2>1, <2>2, <2>3, Pays DEF ExchangeInv
  <1>5. \A t \in Tasks : ResultsOK(t)'
    <2>1. Quiet' => Quiet /\ Settled \subseteq Settled'
      <3>1. Quiet' => Quiet /\ pc = "idle"
        BY <1>0 DEF Quiet
      <3>2. Quiet /\ pc = "idle" => Elements(lru) \subseteq Elements(processed)
        BY DEF ExchangeInv, TrackerOK, Quiet
      <3> QED
        BY <3>1, <3>2 DEF Settled
    <2> QED
      BY <1>1, <2>1 DEF ExchangeInv, ResultsOK
  <1> QED
    BY <1>2, <1>3, <1>4, <1>5 DEF ExchangeInv

LEMMA CollapseInv ==
  ASSUME ExchangeInv, Collapse, UNCHANGED clients
  PROVE  ExchangeInv'
  <1>1. ExchangeTypeOK'
    BY ServeType DEF ExchangeInv, Serve
  <1>2. PICK r \in Elements(endpoint) : Take(r)
    BY DEF Collapse
  <1>3. /\ agent = "serving" /\ pc = "idle" /\ agent' = "down" /\ pc' = "idle" /\ lru' = <<>>
        /\ UNCHANGED <<processed, executions, results, evictions, faults, endpoint, stops>>
    BY <1>2 DEF Collapse, Take, history
  <1> QED
    BY <1>1, <1>3, EndInv

LEMMA StopInv ==
  ASSUME ExchangeInv, Crash \/ Leave, UNCHANGED clients
  PROVE  ExchangeInv'
  <1>1. ExchangeTypeOK'
    BY RestType DEF ExchangeInv
  <1>2. /\ agent # "down" /\ agent' = "down" /\ pc' = "idle" /\ lru' = <<>> /\ stops' = stops + 1
        /\ UNCHANGED <<processed, executions, results, evictions, faults, endpoint>>
    BY DEF Crash, Leave, Down, history
  <1> QED
    BY <1>1, <1>2, EndInv

\* The cache is rebuilt; what does not fit counts as forgotten.
LEMMA JoinInv ==
  ASSUME ExchangeInv, Join, UNCHANGED clients
  PROVE  ExchangeInv'
  <1> DEFINE D == Elements(processed) \ Elements(rebuild(processed))
             m == Cardinality(LRU_SIZE + 1 .. Len(processed))
  <1>0. ExchangeTypeOK /\ ExchangeTypeOK'
    BY RestType DEF ExchangeInv
  <1>1. /\ agent = "joining" /\ agent' = "serving" /\ evictions' = evictions + m
        /\ UNCHANGED <<processed, executions, results, stops, wants, endpoint, pc, task, client,
                       answer>>
        /\ pc = "idle"
    BY DEF ExchangeInv, InHandOK, Join, topics, clients
  <1>2. /\ processed \in Seq(Tasks) /\ evictions \in Nat /\ stops \in Nat
        /\ Len(processed) \in Nat /\ LRU_SIZE \in Nat
    BY <1>0, Numbers, TrackerAssumption
  <1>3. /\ m = IF Len(processed) > LRU_SIZE THEN Len(processed) - LRU_SIZE ELSE 0
        /\ m \in Nat
    <2>1. m = IF Len(processed) > LRU_SIZE THEN Len(processed) - LRU_SIZE ELSE 0
      BY <1>2, IntervalFinite
    <2> HIDE DEF m
    <2> QED
      BY <1>2, <2>1
  <1>4. IsFiniteSet(D) /\ Cardinality(D) <= m /\ Cardinality(D) \in Nat
    BY <1>2, RebuildForgets, FS_CardinalityType
  <1>5. Elements(lru') \subseteq Elements(processed)
    <2>1. CASE lru' = rebuild(processed)
      BY <1>2, <2>1, RebuildProperties
    <2>2. CASE lru' \in partial_rebuilds(processed)
      BY <1>2, <2>2, PartialRebuildProperties
    <2> QED
      BY <2>1, <2>2 DEF Join
  <1>6. faults' = 0 => faults = 0 /\ lru' = rebuild(processed)
    BY <1>0, FaultStep DEF Join
  <1>7. faults' = 0 /\ evictions' = 0 => evictions = 0 /\ lru' = processed
    <2>1. Len(processed) <= LRU_SIZE => rebuild(processed) = processed
      BY <1>2, RebuildProperties
    <2> HIDE DEF m
    <2>2. evictions' = 0 => evictions = 0 /\ Len(processed) <= LRU_SIZE
      BY <1>1, <1>2, <1>3
    <2> QED
      BY <1>6, <2>1, <2>2
  <1> HIDE DEF m
  <1>8. InHandOK'
    BY <1>1 DEF ExchangeInv, InHandOK
  <1>9. TrackerOK'
    BY <1>1, <1>5, <1>6, <1>7 DEF ExchangeInv, TrackerOK, SkippedMeansAnswered
  <1>10. RepeatsPaid'
    <2>1. Repeats' = Repeats
      BY <1>1 DEF Repeats
    <2>2. faults' = 0 => Lost' \subseteq Lost \cup D
      BY <1>1, <1>6 DEF Lost, Known
    <2>3. stops' + evictions' >= stops + evictions + Cardinality(D)
      BY <1>1, <1>2, <1>3, <1>4
    <2> HIDE DEF D
    <2> QED
      BY <1>0, <1>4, <1>6, <2>1, <2>2, <2>3, Pays DEF ExchangeInv
  <1>11. \A t \in Tasks : ResultsOK(t)'
    <2>1. Quiet' => Quiet /\ Settled \subseteq Settled'
      BY <1>1, <1>6, <1>7 DEF Settled, Quiet
    <2> QED
      BY <1>1, <2>1 DEF ExchangeInv, ResultsOK
  <1> QED
    BY <1>0, <1>8, <1>9, <1>10, <1>11 DEF ExchangeInv

-----------------------------------------------------------------------------
\* The invariant, and what the runs check.

LEMMA InitInv == ExchangeInit => ExchangeInv
  <1> SUFFICES ASSUME ExchangeInit PROVE ExchangeInv
    OBVIOUS
  <1>0. Elements(<<>>) = {} /\ DOMAIN <<>> = {} /\ Len(<<>>) = 0
    BY DEF Elements
  <1>1. /\ lru = <<>> /\ processed = <<>> /\ endpoint = <<>> /\ pc = "idle" /\ agent = "down"
        /\ faults = 0 /\ stops = 0 /\ evictions = 0
        /\ \A t \in Tasks : executions[t] = 0 /\ results[t] = <<>> /\ client[t] = "idle"
    BY DEF ExchangeInit, Init
  <1>2. InHandOK /\ TrackerOK
    BY <1>0, <1>1 DEF InHandOK, TrackerOK, SkippedMeansAnswered
  <1>3. RepeatsPaid
    <2>1. Lost = {}
      BY <1>1 DEF Lost
    <2>2. Repeats = {}
      BY <1>1 DEF Repeats
    <2> QED
      BY <1>1, <2>1, <2>2, FS_EmptySet DEF RepeatsPaid
  <1>4. \A t \in Tasks : ResultsOK(t)
    BY <1>0, <1>1 DEF ResultsOK
  <1> QED
    BY <1>2, <1>3, <1>4, InitType DEF ExchangeInv

LEMMA StutterStep ==
  ASSUME ExchangeInv, UNCHANGED allvars
  PROVE  ExchangeInv'
  <1>1. /\ UNCHANGED <<endpoint, committed, processed, results, announced, position, agent, pc, task>>
        /\ UNCHANGED <<lru, executions, joined, evictions, faults, stops, wants, client, answer>>
    BY DEF allvars, vars, topics, process, history, clients
  <1>2. ExchangeTypeOK'
    BY <1>1 DEF ExchangeInv, ExchangeTypeOK, TypeOK
  <1>3. /\ \A r \in Elements(endpoint)' : r.kind = wants[r.task]
        /\ \A t \in Tasks : client'[t] = "done" => results[t] # <<>> /\ answer'[t] = results[t][1]
    BY <1>1 DEF ExchangeInv, InHandOK, ResultsOK
  <1> QED
    BY <1>1, <1>2, <1>3, Frame

LEMMA NextInv ==
  ASSUME ExchangeInv, [ExchangeNext]_allvars
  PROVE  ExchangeInv'
  <1>1. CASE Serve /\ UNCHANGED clients
    BY <1>1, RefuseInv, CollapseInv, SkipInv, AcceptInv, RunInv, ReportInv, MarkInv, PersistInv
       DEF Serve
  <1>2. CASE (AutoCommit \/ Start \/ RepublishCard \/ PurgeCards) /\ UNCHANGED clients
    BY <1>2, CardsAndCommits
  <1>3. CASE (Join \/ Crash \/ Leave) /\ UNCHANGED clients
    BY <1>3, JoinInv, StopInv
  <1>4. CASE \E t \in Tasks : Discover(t) \/ Submit(t) \/ Wait(t)
    BY <1>4, ClientStep
  <1>5. CASE UNCHANGED allvars
    BY <1>5, StutterStep
  <1> QED
    BY <1>1, <1>2, <1>3, <1>4, <1>5 DEF ExchangeNext, Runtime

\* ExchangeInv is an invariant of the exchange.
THEOREM ExchangeInvariance == ExchangeSpec => []ExchangeInv
  <1>1. ExchangeInv /\ [ExchangeNext]_allvars => ExchangeInv'
    BY NextInv
  <1> QED
    BY InitInv, <1>1, PTL DEF ExchangeSpec

\* Every variable of the runtime and of the requesters has its type.
THEOREM TypeCorrect == ExchangeSpec => []ExchangeTypeOK
  <1>1. ExchangeInv => ExchangeTypeOK
    BY DEF ExchangeInv
  <1> QED
    BY ExchangeInvariance, <1>1, PTL

\* The tracker knows answered tasks only, as long as no write failed.
THEOREM SkippingIsSafe == ExchangeSpec => []SkippedMeansAnswered
  <1>1. ExchangeInv => SkippedMeansAnswered
    BY DEF ExchangeInv, TrackerOK
  <1> QED
    BY ExchangeInvariance, <1>1, PTL

\* The handler of a task runs again no more often than the process died and
\* the tracker forgot, over all tasks together and as long as no write failed.
THEOREM RepeatsAreBounded == ExchangeSpec => []OneRepeatPerLoss
  <1>1. ExchangeInv => OneRepeatPerLoss
    <2> SUFFICES ASSUME ExchangeInv, faults = 0 PROVE Cardinality(Repeats) <= stops + evictions
      BY DEF OneRepeatPerLoss
    <2>1. /\ IsFiniteSet(Repeats) /\ IsFiniteSet(Lost)
          /\ Cardinality(Repeats) + Cardinality(Lost) <= stops + evictions
      BY DEF ExchangeInv, RepeatsPaid
    <2>2. Cardinality(Repeats) \in Nat /\ Cardinality(Lost) \in Nat
      BY <2>1, FS_CardinalityType
    <2>3. stops \in Nat /\ evictions \in Nat
      BY Numbers DEF ExchangeInv
    <2> QED
      BY <2>1, <2>2, <2>3
  <1> QED
    BY ExchangeInvariance, <1>1, PTL

\* All results of a task agree, and with what its requester got, as long as
\* nothing was lost.
THEOREM SecondAttemptIsHarmless == ExchangeSpec => []AnswersAgree
  <1>1. ExchangeInv => AnswersAgree
    <2> SUFFICES ASSUME ExchangeInv, Quiet, NEW t \in Tasks,
                        NEW i \in DOMAIN results[t], NEW j \in DOMAIN results[t]
                 PROVE  /\ results[t][i] = results[t][j]
                        /\ client[t] = "done" => answer[t] = results[t][i]
      BY DEF AnswersAgree, Quiet
    <2>1. /\ results[t] \in Seq(Status) /\ wants[t] \in RequestKind
          /\ DOMAIN results[t] = 1 .. Len(results[t]) /\ Len(results[t]) \in Nat
      BY Numbers DEF ExchangeInv
    <2>2. 1 \in DOMAIN results[t] /\ results[t] # <<>>
      BY <2>1
    <2>3. \A k \in DOMAIN results[t] : results[t][k] = results[t][1]
      <3>1. CASE wants[t] \in {"rejected", "unserved", "garbled"}
        BY <2>2, <3>1 DEF ExchangeInv, ResultsOK
      <3>2. CASE wants[t] = "served"
        <4>1. Len(results[t]) <= 1
          BY <3>2 DEF ExchangeInv, ResultsOK
        <4>2. \A k \in DOMAIN results[t] : k = 1
          BY <2>1, <4>1
        <4> QED
          BY <4>2, Zenon
      <3> QED
        BY <2>1, <3>1, <3>2 DEF RequestKind
    <2> QED
      BY <2>3 DEF ExchangeInv, ResultsOK
  <1> QED
    BY ExchangeInvariance, <1>1, PTL

\* Only the handler's run changes executions.
LEMMA ExecutionsStep ==
  ASSUME [ExchangeNext]_allvars
  PROVE  executions' = executions \/ RunHandler
  BY DEF ExchangeNext, Runtime, Serve, Reject, Collapse, SkipDuplicate, FailUnserved, Accept, Take,
         Report, MarkProcessed, Persist, AutoCommit, Start, Join, RepublishCard, Crash, Leave, Down,
         PurgeCards, Discover, Submit, Wait, Receive, Retry, GiveUp, Send, allvars, vars, topics,
         process, history

\* A task on the tracker's topic is never run again, whatever crashes and is
\* delivered again, as long as nothing failed and nothing was forgotten.
THEOREM ProcessedIsFinal == ExchangeSpec => ProcessedStaysProcessed
  <1> DEFINE Kept == \A t \in Elements(processed) :
                       faults = 0 /\ evictions = 0 => executions'[t] = executions[t]
  <1>1. ASSUME ExchangeInv, [ExchangeNext]_allvars PROVE Kept
    <2> SUFFICES ASSUME NEW t \in Elements(processed), faults = 0, evictions = 0
                 PROVE  executions'[t] = executions[t]
      OBVIOUS
    <2>1. CASE executions' = executions
      BY <2>1
    <2>2. CASE RunHandler
      <3>1. agent = "serving" /\ task \notin Elements(lru) /\ executions \in [Tasks -> Nat]
        BY <1>1, <2>2 DEF RunHandler, ExchangeInv, InHandOK, ExchangeTypeOK, TypeOK
      <3>2. t # task /\ t \in Tasks
        BY <1>1, <3>1, Numbers, ElementsType DEF ExchangeInv, TrackerOK
      <3> QED
        BY <2>2, <3>1, <3>2 DEF RunHandler
    <2> QED
      BY <1>1, <2>1, <2>2, ExecutionsStep
  <1>2. ExchangeInv /\ [ExchangeNext]_allvars => [Kept]_vars
    BY <1>1
  <1>3. [][Kept]_vars => ProcessedStaysProcessed
    BY PTL DEF ProcessedStaysProcessed
  <1> QED
    BY ExchangeInvariance, <1>2, <1>3, PTL DEF ExchangeSpec
=============================================================================
