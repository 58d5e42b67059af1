---------------------------- MODULE ConsumerProofs ----------------------------
(***************************************************************************)
(* The event consumers, for any number of events, faults and stops and any *)
(* size of the cache.  A step of a loop changes nothing of the other loop  *)
(* and only appends to a topic, so that the invariant is one of a loop:    *)
(* Frame disposes of the loops that a step leaves alone, and one lemma per *)
(* action shows that LoopInv holds again for its own loop.                 *)
(***************************************************************************)
EXTENDS EventConsumer, TrackerProofs

\* Loop l has an event in hand.
InEvent(l) == stage[l] \in {"handling", "persisting", "auditing"}

\* Offsets point into the topic, and only good events get to the handler.
Where(l) ==
  /\ position[l] <= Len(topic[l]) /\ committed[l] <= Len(topic[l])
  /\ InEvent(l) => position[l] > 0
  /\ stage[l] = "handling" => topic[l][position[l]].kind = "good"
  /\ stage[l] = "auditing" => outcome[l] \in AuditOutcome
  /\ \A i \in Offsets : handled[l][i] > 0 =>
       i <= Len(topic[l]) /\ topic[l][i].kind = "good"

\* LossIsExplained, also for what is committed: a later start may begin there.
Explained(l) ==
  \A i \in Offsets :
    i <= Len(topic[l]) /\ topic[l][i].kind = "good" /\ (i <= position[l] \/ i <= committed[l]) =>
      \/ handled[l][i] > 0
      \/ i \in excused[l]
      \/ stage[l] = "handling" /\ i = position[l]

\* Event i has left a record, or need not.
Accounted(l, i) ==
  \/ topic[l][i].kind = "garbage" \/ i \in excused[l]
  \/ \E r \in audit : r.loop = l /\ r.offset = i

\* AuditIsTrue, with the event that is about to be recorded and the ids that
\* would make one a duplicate.
Recorded(l) ==
  /\ \A i \in Offsets : i \in Elements(lru[l]) \cup Elements(processed[l]) => handled[l][i] > 0
  /\ stage[l] = "persisting" => handled[l][position[l]] > 0
  /\ stage[l] = "auditing" =>
       \/ outcome[l] = "rejected" /\ topic[l][position[l]].kind = "invalid"
       \/ outcome[l] \in {"accepted", "duplicate_skipped"} /\ handled[l][position[l]] > 0
  /\ \A r \in audit : r.loop = l =>
       /\ r.offset <= Len(topic[l])
       /\ \/ r.outcome = "rejected" /\ topic[l][r.offset].kind = "invalid"
          \/ r.outcome \in {"accepted", "duplicate_skipped"} /\ handled[l][r.offset] > 0
  /\ Undisturbed =>
       /\ stage[l] = "down" => committed[l] = NoOffset
       /\ stage[l] # "down" =>
            \A i \in 1 .. position[l] : Accounted(l, i) \/ (InEvent(l) /\ i = position[l])

\* The ids of s that a cache rebuilt from it is sure to know.
Sure(s) == {s[i] : i \in {i \in DOMAIN s : Len(s) <= LRU_SIZE \/ i = Len(s)}}

\* The tracker's topic as it will be when the id in hand has been written.
Log(l) == IF stage[l] = "persisting" THEN touch(processed[l], position[l]) ELSE processed[l]

\* As long as nothing failed, the cache knows ids of the topic only, and the
\* sure ones all the time; the event in the handler is not in it.
Tracked(l) ==
  /\ Distinct(lru[l]) /\ Distinct(processed[l])
  /\ stage[l] = "handling" => position[l] \notin Elements(lru[l])
  /\ faults = 0 =>
       /\ Elements(lru[l]) \subseteq Elements(Log(l))
       /\ stage[l] # "down" => Sure(Log(l)) \subseteq Elements(lru[l])

\* ParkedMeansForgotten, with the cases that may yet get a result.
Remembered ==
  /\ ParkedMeansForgotten
  /\ requested \subseteq cases \cup orphans
  /\ \A i \in DOMAIN topic["results"] : topic["results"][i].case \in requested
  /\ stage["intake"] = "handling" => topic["intake"][position["intake"]].case \in cases

LoopInv(l) == Where(l) /\ Explained(l) /\ Recorded(l) /\ Tracked(l)

ConsumerInv == TypeOK /\ Remembered /\ \A l \in Loop : LoopInv(l)

-----------------------------------------------------------------------------
\* Types.

LEMMA InitType == Init => TypeOK
  BY ConsumerAssumption, TrackerAssumption, EmptySeq
     DEF Init, TypeOK, Loop, Offsets, Cases, NoOffset, Stage

\* A topic gets one more event.
LEMMA PublishType ==
  ASSUME TypeOK, NEW l \in Loop, NEW c \in Cases, NEW kind \in EventKind,
         Len(topic[l]) < MaxCases, Publish(l, c, kind)
  PROVE  TypeOK'
  <1> DEFINE E == [case : Cases, kind : EventKind]
             e == [case |-> c, kind |-> kind]
             new == Append(topic[l], e)
  <1>1. e \in E
    OBVIOUS
  <1>a. topic \in [Loop -> Seq(E)] /\ \A m \in Loop : Len(topic[m]) <= MaxCases
    BY DEF TypeOK
  <1>b. topic' = [topic EXCEPT ![l] = new]
    BY DEF Publish
  <1> HIDE DEF E, e
  <1>c. new \in Seq(E) /\ Len(new) = Len(topic[l]) + 1
    BY <1>1, <1>a
  <1>d. Len(new) <= MaxCases
    BY <1>a, <1>c, ConsumerAssumption
  <1> HIDE DEF new
  <1>2. topic' \in [Loop -> Seq(E)]
    BY <1>a, <1>b, <1>c
  <1>3. \A m \in Loop : Len(topic'[m]) <= MaxCases
    BY <1>a, <1>b, <1>d
  <1> USE DEF E
  <1> QED
    BY <1>2, <1>3 DEF TypeOK, Publish, process, history

\* The offsets of a topic.
LEMMA InTopic ==
  ASSUME TypeOK, NEW l \in Loop
  PROVE  /\ Len(topic[l]) \in Nat /\ Len(topic[l]) <= MaxCases
         /\ DOMAIN topic[l] = 1 .. Len(topic[l])
         /\ MaxCases \in Nat /\ 1 .. Len(topic[l]) \subseteq Offsets
         /\ position[l] \in Nat /\ position[l] <= MaxCases /\ committed[l] \in Int
         /\ \A i \in 1 .. Len(topic[l]) : topic[l][i].case \in Cases
  <1>1. topic[l] \in Seq([case : Cases, kind : EventKind]) /\ Len(topic[l]) <= MaxCases
    BY DEF TypeOK
  <1> DEFINE E == [case : Cases, kind : EventKind]
  <1>a. \A e \in E : e.case \in Cases
    OBVIOUS
  <1> HIDE DEF E
  <1>b. topic[l] \in Seq(E)
    BY <1>1 DEF E
  <1>2. /\ Len(topic[l]) \in Nat /\ DOMAIN topic[l] = 1 .. Len(topic[l])
        /\ \A i \in 1 .. Len(topic[l]) : topic[l][i].case \in Cases
    BY <1>a, <1>b
  <1>3. /\ MaxCases \in Nat /\ position[l] \in {0} \cup Offsets
        /\ committed[l] \in {NoOffset} \cup {0} \cup Offsets
    BY ConsumerAssumption DEF TypeOK
  <1>4. position[l] \in Nat /\ position[l] <= MaxCases /\ committed[l] \in Int
    BY <1>3 DEF Offsets, NoOffset
  <1>5. 1 .. Len(topic[l]) \subseteq Offsets
    BY <1>1, <1>2, <1>3 DEF Offsets
  <1> QED
    BY <1>1, <1>2, <1>3, <1>4, <1>5

LEMMA StartType ==
  ASSUME TypeOK, NEW l \in Loop, Where(l), StartLoop(l)
  PROVE  TypeOK'
  <1>0. PICK mode \in Modes[l] : \E p \in start_positions(l, mode) :
          /\ position' = [position EXCEPT ![l] = p]
          /\ excused' = [excused EXCEPT ![l] =
               IF mode = "latest" /\ committed[l] # NoOffset THEN @ ELSE @ \cup 1 .. p]
    BY DEF StartLoop
  <1>1. PICK p \in start_positions(l, mode) :
          /\ position' = [position EXCEPT ![l] = p]
          /\ excused' = [excused EXCEPT ![l] =
               IF mode = "latest" /\ committed[l] # NoOffset THEN @ ELSE @ \cup 1 .. p]
    BY <1>0
  <1>2. mode \in Mode
    BY ConsumerAssumption
  <1>3. p \in 0 .. Len(topic[l])
    <2>1. /\ Len(topic[l]) \in Nat /\ committed[l] \in {NoOffset} \cup {0} \cup Offsets
          /\ committed[l] <= Len(topic[l]) /\ MaxCases \in Nat
      BY InTopic DEF Where, TypeOK
    <2> QED
      BY <1>2, <2>1 DEF start_positions, Mode, NoOffset, Offsets
  <1>4. position' \in [Loop -> {0} \cup Offsets] /\ excused' \in [Loop -> SUBSET Offsets]
    <2>1. p \in {0} \cup Offsets /\ 1 .. p \subseteq Offsets
      BY <1>3, InTopic DEF Offsets
    <2> QED
      BY <1>1, <2>1 DEF TypeOK
  <1>5. PICK c : lru' = [lru EXCEPT ![l] = c] /\ c \in Seq(Offsets) /\ Len(c) <= LRU_SIZE
    <2>1. processed[l] \in Seq(Offsets)
      BY DEF TypeOK
    <2>2. CASE lru' = [lru EXCEPT ![l] = rebuild(processed[l])]
      BY <2>1, <2>2, RebuildProperties
    <2>3. CASE \E ids \in partial_rebuilds(processed[l]) : lru' = [lru EXCEPT ![l] = ids]
      BY <2>1, <2>3, PartialRebuildProperties
    <2> QED
      BY <2>2, <2>3 DEF StartLoop
  <1>6. lru' \in [Loop -> Seq(Offsets)] /\ \A m \in Loop : Len(lru'[m]) <= LRU_SIZE
    BY <1>5 DEF TypeOK
  <1>7. faults' \in 0 .. MaxFaults
    BY ConsumerAssumption DEF StartLoop, Fault, TypeOK
  <1>8. stage' \in [Loop -> Stage]
    BY DEF StartLoop, TypeOK, Stage
  <1> QED
    BY <1>4, <1>6, <1>7, <1>8 DEF TypeOK, StartLoop, broker

LEMMA VanishType ==
  ASSUME TypeOK, Vanish,
         committed' \in [Loop -> {NoOffset} \cup {0} \cup Offsets],
         excused' \in [Loop -> SUBSET Offsets]
  PROVE  TypeOK'
  <1>1. lru' \in [Loop -> Seq(Offsets)] /\ \A m \in Loop : Len(lru'[m]) <= LRU_SIZE
    BY TrackerAssumption, EmptySeq DEF Vanish
  <1>2. parked' \in Seq(Cases) /\ Len(parked') <= PARKED_MAX
    BY ConsumerAssumption, EmptySeq DEF Vanish
  <1>3. stops' \in 0 .. MaxStops
    BY ConsumerAssumption DEF TypeOK, Vanish
  <1>4. /\ stage' \in [Loop -> Stage] /\ position' \in [Loop -> {0} \cup Offsets]
        /\ outcome' \in [Loop -> AuditOutcome \cup {"none"}]
        /\ cases' \subseteq Cases /\ orphans' \subseteq Cases
    BY DEF TypeOK, Vanish, Stage
  <1> QED
    BY <1>1, <1>2, <1>3, <1>4 DEF TypeOK, Vanish

\* A loop's step between two events, or one that takes the next event.
LEMMA TakeType ==
  ASSUME TypeOK, NEW l \in Loop, NEW go \in Stage, Take(l, go)
  PROVE  /\ position' \in [Loop -> {0} \cup Offsets]
         /\ position[l] + 1 \in Offsets /\ position[l] + 1 <= Len(topic[l])
         /\ stage' \in [Loop -> Stage]
  <1>1. /\ Len(topic[l]) \in Nat /\ Len(topic[l]) <= MaxCases /\ MaxCases \in Nat
        /\ position[l] \in Nat /\ position[l] < Len(topic[l])
    BY InTopic DEF Take
  <1>2. position[l] + 1 \in Offsets /\ position[l] + 1 <= Len(topic[l])
    BY <1>1 DEF Offsets
  <1> QED
    BY <1>2 DEF TypeOK, Take

LEMMA ConsumeType ==
  ASSUME TypeOK, NEW l \in Loop, Where(l), Consume(l)
  PROVE  TypeOK'
  <1>0. "idle" \in Stage /\ "handling" \in Stage /\ "auditing" \in Stage /\ "persisting" \in Stage
    BY DEF Stage
  <1>1. CASE Discard(l)
    BY <1>0, <1>1, TakeType DEF Discard, TypeOK, Take, broker, history
  <1>2. CASE SkipDuplicate(l)
    <2>1. position[l] + 1 \in Offsets /\ position' \in [Loop -> {0} \cup Offsets] /\ stage' \in [Loop -> Stage]
      BY <1>0, <1>2, TakeType DEF SkipDuplicate
    <2>2. /\ touch(lru[l], position[l] + 1) \in Seq(Offsets)
          /\ Len(touch(lru[l], position[l] + 1)) <= LRU_SIZE
      BY <1>2, <2>1, TouchProperties DEF SkipDuplicate, Duplicate, TypeOK
    <2>3. lru' \in [Loop -> Seq(Offsets)] /\ \A m \in Loop : Len(lru'[m]) <= LRU_SIZE
      BY <1>2, <2>2 DEF SkipDuplicate, TypeOK
    <2>4. outcome' \in [Loop -> AuditOutcome \cup {"none"}]
      BY <1>2 DEF SkipDuplicate, TypeOK, AuditOutcome
    <2> QED
      BY <1>2, <2>1, <2>3, <2>4 DEF SkipDuplicate, Take, TypeOK, broker, history
  <1>3. CASE Reject(l)
    <2>1. outcome' \in [Loop -> AuditOutcome \cup {"none"}]
      BY <1>3 DEF Reject, TypeOK, AuditOutcome
    <2> QED
      BY <1>0, <1>3, <2>1, TakeType DEF Reject, TypeOK, Take, broker, history
  <1>4. CASE Accept(l)
    <2>1. cases' \subseteq Cases
      <3>1. Event(l).case \in Cases
        BY <1>0, <1>4, TakeType, InTopic DEF Accept, Event
      <3> QED
        BY <1>4, <3>1 DEF Accept, TypeOK
    <2> QED
      BY <1>0, <1>4, <2>1, TakeType DEF Accept, TypeOK, Take, broker, history
  <1>5. CASE l = "intake" /\ Delegate
    <2>1. InHand(l) \in Cases
      <3>1. position[l] \in 1 .. Len(topic[l])
        BY <1>5, InTopic DEF Delegate, Where, InEvent
      <3> QED
        BY <3>1, InTopic DEF InHand
    <2> QED
      BY <1>5, <2>1 DEF Delegate, TypeOK, process, history
  <1>6. CASE Succeed(l)
    <2>1. position[l] \in Offsets /\ position[l] \in 1 .. Len(topic[l])
      BY <1>6, InTopic DEF Succeed, Where, InEvent
    <2>2. /\ lru_add(lru[l], position[l]) \in Seq(Offsets)
          /\ Len(lru_add(lru[l], position[l])) <= LRU_SIZE
      BY <2>1, LruAddProperties DEF TypeOK
    <2>3. lru' \in [Loop -> Seq(Offsets)] /\ \A m \in Loop : Len(lru'[m]) <= LRU_SIZE
      BY <1>6, <2>2 DEF Succeed, TypeOK
    <2>4. handled' \in [Loop -> [Offsets -> Nat]]
      BY <1>6, <2>1 DEF Succeed, TypeOK
    <2>5. parked' \in Seq(Cases) /\ Len(parked') <= PARKED_MAX
      <3>1. InHand(l) \in Cases /\ PARKED_MAX \in Nat
        BY <2>1, InTopic, ConsumerAssumption DEF InHand
      <3>2. Append(parked, InHand(l)) \in Seq(Cases)
        BY <3>1 DEF TypeOK
      <3> QED
        BY <1>6, <3>1, <3>2, NewestProperties DEF Succeed, TypeOK
    <2>6. stage' \in [Loop -> Stage]
      BY <1>0, <1>6 DEF Succeed, TypeOK
    <2> QED
      BY <1>6, <2>3, <2>4, <2>5, <2>6 DEF Succeed, TypeOK, broker
  <1>7. CASE Fail(l)
    <2>1. position[l] \in Offsets
      BY <1>7, InTopic DEF Fail, Where, InEvent
    <2>2. excused' \in [Loop -> SUBSET Offsets] /\ stage' \in [Loop -> Stage]
      BY <1>0, <1>7, <2>1 DEF Fail, TypeOK
    <2>3. faults' \in 0 .. MaxFaults
      BY <1>7, ConsumerAssumption DEF Fail, Fault, TypeOK
    <2> QED
      BY <1>7, <2>2, <2>3 DEF Fail, TypeOK, broker
  <1>8. CASE Persist(l)
    <2>1. position[l] \in Offsets
      BY <1>8, InTopic DEF Persist, Where, InEvent
    <2>2. touch(processed[l], position[l]) \in Seq(Offsets)
      BY <2>1, TouchProperties DEF TypeOK
    <2>3. processed' \in [Loop -> Seq(Offsets)] /\ faults' \in 0 .. MaxFaults
      <3>1. faults' \in 0 .. MaxFaults
        BY <1>8, ConsumerAssumption DEF Persist, Fault, TypeOK
      <3>2. processed \in [Loop -> Seq(Offsets)]
        BY DEF TypeOK
      <3> QED
        BY <1>8, <2>2, <3>1, <3>2 DEF Persist
    <2>4. stage' \in [Loop -> Stage] /\ outcome' \in [Loop -> AuditOutcome \cup {"none"}]
      BY <1>0, <1>8 DEF Persist, TypeOK, AuditOutcome
    <2> QED
      BY <1>8, <2>3, <2>4 DEF Persist, TypeOK, history
  <1>9. CASE WriteAudit(l)
    <2>1. position[l] \in Offsets /\ outcome[l] \in AuditOutcome
      BY <1>9, InTopic DEF WriteAudit, Where, InEvent
    <2>2. audit' \subseteq [loop : Loop, offset : Offsets, outcome : AuditOutcome]
      BY <1>9, <2>1 DEF WriteAudit, TypeOK
    <2>3. faults' \in 0 .. MaxFaults
      BY <1>9, ConsumerAssumption DEF WriteAudit, Fault, TypeOK
    <2>4. stage' \in [Loop -> Stage] /\ outcome' \in [Loop -> AuditOutcome \cup {"none"}]
      BY <1>0, <1>9 DEF WriteAudit, TypeOK
    <2> QED
      BY <1>9, <2>2, <2>3, <2>4 DEF WriteAudit, TypeOK, history
  <1> QED
    BY <1>1, <1>2, <1>3, <1>4, <1>5, <1>6, <1>7, <1>8, <1>9 DEF Consume

-----------------------------------------------------------------------------
\* A loop that a step leaves alone.

\* The topic of loop l keeps its events.
Grows(l) ==
  /\ Len(topic'[l]) \in Nat /\ Len(topic[l]) <= Len(topic'[l])
  /\ \A i \in 1 .. Len(topic[l]) : topic'[l][i] = topic[l][i]

\* Its records are the same.
SameRecords(l) == \A r : r.loop = l => (r \in audit' <=> r \in audit)

Untouched(l) ==
  /\ Grows(l) /\ SameRecords(l)
  /\ committed'[l] = committed[l] /\ processed'[l] = processed[l]
  /\ position'[l] = position[l] /\ stage'[l] = stage[l] /\ outcome'[l] = outcome[l]
  /\ lru'[l] = lru[l] /\ handled'[l] = handled[l] /\ excused'[l] = excused[l]
  /\ faults' = 0 => faults = 0
  /\ stops' = stops

LEMMA Frame ==
  ASSUME TypeOK, NEW l \in Loop, LoopInv(l), Untouched(l)
  PROVE  LoopInv(l)'
  <1>1. /\ Len(topic[l]) \in Nat /\ Len(topic'[l]) \in Nat /\ Len(topic[l]) <= Len(topic'[l])
        /\ \A i \in 1 .. Len(topic[l]) : topic'[l][i] = topic[l][i]
        /\ position[l] \in Nat /\ committed[l] \in Int
        /\ MaxCases \in Nat /\ Offsets = 1 .. MaxCases
    BY InTopic DEF Untouched, Grows, Offsets
  <1>2. InEvent(l)' <=> InEvent(l)
    BY DEF Untouched, InEvent
  <1>3. Where(l)'
    <2>1. stage[l] = "handling" => position[l] \in 1 .. Len(topic[l])
      BY <1>1 DEF LoopInv, Where, InEvent
    <2> QED
      BY <1>1, <1>2, <2>1 DEF LoopInv, Where, Untouched
  <1>4. Explained(l)'
    BY <1>1 DEF LoopInv, Explained, Untouched, Where
  <1>5. Recorded(l)'
    <2>0. \A r \in audit : r.offset \in Offsets
      BY DEF TypeOK
    <2>1. \A r \in audit' : r.loop = l =>
            /\ r.offset <= Len(topic'[l])
            /\ \/ r.outcome = "rejected" /\ topic'[l][r.offset].kind = "invalid"
               \/ r.outcome \in {"accepted", "duplicate_skipped"} /\ handled'[l][r.offset] > 0
      BY <1>1, <2>0 DEF LoopInv, Recorded, Untouched, SameRecords
    <2>2. \A i \in 1 .. position[l] : Accounted(l, i) => Accounted(l, i)'
      BY <1>1 DEF Accounted, LoopInv, Where, Untouched, SameRecords
    <2>3. Undisturbed' => Undisturbed
      BY DEF Undisturbed, Untouched
    <2>4. stage[l] = "auditing" => position[l] \in 1 .. Len(topic[l])
      BY <1>1 DEF LoopInv, Where, InEvent
    <2> QED
      BY <1>1, <1>2, <2>1, <2>2, <2>3, <2>4 DEF LoopInv, Recorded, Untouched
  <1>6. Tracked(l)'
    BY DEF LoopInv, Tracked, Untouched, Log
  <1> QED
    BY <1>3, <1>4, <1>5, <1>6 DEF LoopInv

\* What a step does to the other loop when it changes the functions at l only.
LEMMA Others ==
  ASSUME TypeOK, NEW l \in Loop, Consume(l) \/ StartLoop(l) \/ AutoCommit(l) \/ Break(l),
         NEW m \in Loop, m # l
  PROVE  Untouched(m)
  <1>1. Grows(m) /\ stops' = stops /\ (faults' = 0 => faults = 0)
    <2>1. UNCHANGED <<topic, stops>>
      BY DEF Consume, Discard, SkipDuplicate, Reject, Accept, Delegate, Succeed, Fail, Persist,
             WriteAudit, Take, StartLoop, AutoCommit, Break, broker, process, history
    <2>2. faults' = faults \/ faults' = faults + 1
      BY DEF Consume, Discard, SkipDuplicate, Reject, Accept, Delegate, Succeed, Fail, Persist,
             WriteAudit, Take, StartLoop, AutoCommit, Break, broker, process, history, Fault
    <2>3. faults \in Nat
      BY ConsumerAssumption DEF TypeOK
    <2> QED
      BY <2>1, <2>2, <2>3, InTopic DEF Grows
  <1>2. SameRecords(m)
    <2>1. audit' = audit \/ \E o : audit' = audit \cup {[loop |-> l, offset |-> position[l], outcome |-> o]}
      BY DEF Consume, Discard, SkipDuplicate, Reject, Accept, Delegate, Succeed, Fail, Persist,
             WriteAudit, Take, StartLoop, AutoCommit, Break, broker, process, history
    <2> QED
      BY <2>1 DEF SameRecords
  <1>3. committed'[m] = committed[m] /\ processed'[m] = processed[m]
    BY DEF Consume, Discard, SkipDuplicate, Reject, Accept, Delegate, Succeed, Fail, Persist,
           WriteAudit, Take, StartLoop, AutoCommit, Break, broker, process, history, TypeOK
  <1>4. position'[m] = position[m] /\ stage'[m] = stage[m] /\ outcome'[m] = outcome[m]
    BY DEF Consume, Discard, SkipDuplicate, Reject, Accept, Delegate, Succeed, Fail, Persist,
           WriteAudit, Take, StartLoop, AutoCommit, Break, broker, process, history, TypeOK
  <1>5. lru'[m] = lru[m] /\ handled'[m] = handled[m] /\ excused'[m] = excused[m]
    BY DEF Consume, Discard, SkipDuplicate, Reject, Accept, Delegate, Succeed, Fail, Persist,
           WriteAudit, Take, StartLoop, AutoCommit, Break, broker, process, history, TypeOK
  <1> QED
    BY <1>1, <1>2, <1>3, <1>4, <1>5 DEF Untouched

-----------------------------------------------------------------------------
\* The loop that takes a step.

\* Numbers that the lemmas below compute with.
LEMMA Numbers ==
  ASSUME TypeOK, NEW l \in Loop, LoopInv(l)
  PROVE  /\ Len(topic[l]) \in Nat /\ MaxCases \in Nat /\ Offsets = 1 .. MaxCases
         /\ 1 .. Len(topic[l]) \subseteq Offsets
         /\ position[l] \in 0 .. Len(topic[l]) /\ committed[l] \in Int
         /\ committed[l] <= Len(topic[l])
         /\ InEvent(l) => position[l] \in 1 .. Len(topic[l]) /\ position[l] \in Offsets
         /\ \A i \in Offsets : handled[l][i] \in Nat
         /\ faults \in Nat /\ stops \in Nat
  <1>1. faults \in Nat /\ stops \in Nat /\ \A i \in Offsets : handled[l][i] \in Nat
    BY ConsumerAssumption DEF TypeOK
  <1> QED
    BY <1>1, InTopic DEF LoopInv, Where, Offsets

\* The next event is taken: what all four cases have in common.
LEMMA TakeKeeps ==
  ASSUME TypeOK, NEW l \in Loop, LoopInv(l), NEW go \in Stage \ {"down", "persisting"},
         Take(l, go)
  PROVE  /\ stage'[l] = go /\ position'[l] = position[l] + 1
         /\ position[l] + 1 \in 1 .. Len(topic[l]) /\ position[l] + 1 \in Offsets
         /\ stage[l] = "idle"
         /\ Event(l) = topic[l][position[l] + 1]
         /\ UNCHANGED <<topic, committed, processed, audit, handled, excused, faults, stops>>
  <1>1. stage'[l] = go /\ position'[l] = position[l] + 1
    BY DEF TypeOK, Take
  <1>2. position[l] < Len(topic[l])
    BY DEF Take
  <1> QED
    BY <1>1, <1>2, Numbers DEF Take, Event, broker, history

LEMMA TakeInv ==
  ASSUME TypeOK, NEW l \in Loop, LoopInv(l), NEW go \in {"idle", "handling", "auditing"},
         Take(l, go),
         \/ go = "idle" /\ Event(l).kind = "garbage" /\ lru'[l] = lru[l]
         \/ /\ go = "handling" /\ Event(l).kind = "good" /\ lru'[l] = lru[l]
            /\ position[l] + 1 \notin Elements(lru[l])
         \/ /\ go = "auditing" /\ Event(l).kind = "invalid" /\ lru'[l] = lru[l]
            /\ outcome'[l] = "rejected"
         \/ /\ go = "auditing" /\ position[l] + 1 \in Elements(lru[l])
            /\ lru'[l] = touch(lru[l], position[l] + 1) /\ outcome'[l] = "duplicate_skipped"
  PROVE  LoopInv(l)'
  <1>0. go \in Stage \ {"down", "persisting"}
    BY DEF Stage
  <1>1. /\ stage'[l] = go /\ position'[l] = position[l] + 1
        /\ position[l] + 1 \in 1 .. Len(topic[l]) /\ position[l] + 1 \in Offsets
        /\ stage[l] = "idle"
        /\ Event(l) = topic[l][position[l] + 1]
        /\ UNCHANGED <<topic, committed, processed, audit, handled, excused, faults, stops>>
    BY <1>0, TakeKeeps, Zenon
  <1>2. /\ Len(topic[l]) \in Nat /\ MaxCases \in Nat /\ Offsets = 1 .. MaxCases
        /\ position[l] \in 0 .. Len(topic[l]) /\ committed[l] \in Int
        /\ committed[l] <= Len(topic[l])
    BY Numbers, Zenon
  <1>3. lru[l] \in Seq(Offsets)
    BY DEF TypeOK
  <1>4. Elements(lru'[l]) = Elements(lru[l]) /\ (Distinct(lru[l]) => Distinct(lru'[l]))
    <2> DEFINE t == touch(lru[l], position[l] + 1)
    <2>1. Elements(t) = Elements(lru[l]) \cup {position[l] + 1}
      BY <1>1, <1>3, TouchProperties
    <2>2. Distinct(lru[l]) => Distinct(t)
      BY <1>1, <1>3, TouchProperties
    <2>3. lru'[l] = lru[l] \/ (lru'[l] = t /\ position[l] + 1 \in Elements(lru[l]))
      BY Zenon
    <2> QED
      BY <2>1, <2>2, <2>3
  <1>5. handled[l][position[l] + 1] > 0 \/ position[l] + 1 \notin Elements(lru[l])
    BY <1>1 DEF LoopInv, Recorded
  <1>6. Where(l)'
    BY <1>1, <1>2 DEF LoopInv, Where, InEvent, AuditOutcome
  <1>7. Explained(l)'
    BY <1>1, <1>2, <1>5 DEF LoopInv, Explained
  <1>8. Recorded(l)'
    BY <1>1, <1>2, <1>4, <1>5 DEF LoopInv, Recorded, Undisturbed, Accounted, InEvent
  <1>9. Tracked(l)'
    BY <1>1, <1>4 DEF LoopInv, Tracked, Log
  <1> QED
    BY <1>6, <1>7, <1>8, <1>9 DEF LoopInv

\* The sure ids of a topic are in the cache that is rebuilt from it.
LEMMA RebuiltIsSure ==
  ASSUME NEW s \in Seq(Offsets)
  PROVE  Sure(s) \subseteq Elements(rebuild(s)) /\ Elements(rebuild(s)) \subseteq Elements(s)
  <1>0. DOMAIN s = 1 .. Len(s) /\ Len(s) \in Nat
    OBVIOUS
  <1>1. Elements(rebuild(s)) \subseteq Elements(s) /\ (Len(s) <= LRU_SIZE => rebuild(s) = s)
        /\ (Len(s) > 0 => s[Len(s)] \in Elements(rebuild(s)))
    BY RebuildProperties
  <1>2. ASSUME NEW i \in DOMAIN s, Len(s) <= LRU_SIZE \/ i = Len(s)
        PROVE  s[i] \in Elements(rebuild(s))
    <2>1. CASE Len(s) <= LRU_SIZE
      BY <1>1, <2>1 DEF Elements
    <2>2. CASE i = Len(s)
      BY <1>0, <1>1, <2>2
    <2> QED
      BY <1>2, <2>1, <2>2
  <1> QED
    BY <1>1, <1>2 DEF Sure

LEMMA StartInv ==
  ASSUME TypeOK, NEW l \in Loop, LoopInv(l), StartLoop(l)
  PROVE  LoopInv(l)'
  <1>0. PICK mode \in Modes[l] : \E p \in start_positions(l, mode) :
          /\ position' = [position EXCEPT ![l] = p]
          /\ excused' = [excused EXCEPT ![l] =
               IF mode = "latest" /\ committed[l] # NoOffset THEN @ ELSE @ \cup 1 .. p]
    BY DEF StartLoop
  <1>1. PICK p \in start_positions(l, mode) :
          /\ position' = [position EXCEPT ![l] = p]
          /\ excused' = [excused EXCEPT ![l] =
               IF mode = "latest" /\ committed[l] # NoOffset THEN @ ELSE @ \cup 1 .. p]
    BY <1>0
  <1>2. /\ Len(topic[l]) \in Nat /\ MaxCases \in Nat /\ Offsets = 1 .. MaxCases
        /\ committed[l] \in Int /\ committed[l] <= Len(topic[l])
    BY Numbers, Zenon
  <1>3. /\ p \in 0 .. Len(topic[l])
        /\ mode = "latest" /\ committed[l] # NoOffset => p = committed[l]
    <2>1. mode \in Mode /\ committed[l] \in {NoOffset} \cup {0} \cup Offsets
      BY ConsumerAssumption DEF TypeOK
    <2> QED
      BY <1>2, <2>1 DEF start_positions, Mode, NoOffset
  <1>4. /\ stage[l] = "down" /\ stage'[l] = "idle" /\ position'[l] = p
        /\ excused'[l] = IF mode = "latest" /\ committed[l] # NoOffset
                           THEN excused[l] ELSE excused[l] \cup 1 .. p
        /\ UNCHANGED <<topic, committed, processed, audit, handled, stops>>
    BY <1>1 DEF StartLoop, TypeOK, broker
  <1>5. Where(l)'
    BY <1>2, <1>3, <1>4 DEF LoopInv, Where, InEvent
  <1>6. Explained(l)'
    BY <1>2, <1>3, <1>4 DEF LoopInv, Explained
  <1>7. processed[l] \in Seq(Offsets) /\ faults \in Nat
    BY Numbers DEF TypeOK
  <1>8. /\ Elements(lru'[l]) \subseteq Elements(processed[l])
        /\ Distinct(processed[l]) => Distinct(lru'[l])
        /\ faults' = 0 => faults = 0 /\ Sure(processed[l]) \subseteq Elements(lru'[l])
    <2>1. CASE lru' = [lru EXCEPT ![l] = rebuild(processed[l])] /\ UNCHANGED faults
      <3>1. lru'[l] = rebuild(processed[l])
        BY <2>1 DEF TypeOK
      <3>2. Distinct(processed[l]) => Distinct(rebuild(processed[l]))
        BY <1>7, RebuildProperties
      <3> QED
        BY <1>7, <2>1, <3>1, <3>2, RebuiltIsSure
    <2>2. CASE Fault /\ \E ids \in partial_rebuilds(processed[l]) : lru' = [lru EXCEPT ![l] = ids]
      <3>1. PICK ids \in partial_rebuilds(processed[l]) : lru' = [lru EXCEPT ![l] = ids]
        BY <2>2
      <3>2. lru'[l] = ids
        BY <3>1 DEF TypeOK
      <3>3. /\ Elements(ids) \subseteq Elements(processed[l])
            /\ Distinct(processed[l]) => Distinct(ids)
        BY <1>7, PartialRebuildProperties
      <3>4. faults' # 0
        BY <1>7, <2>2 DEF Fault
      <3> QED
        BY <3>2, <3>3, <3>4
    <2> QED
      BY <2>1, <2>2 DEF StartLoop
  <1>9. Recorded(l)'
    <2>1. Undisturbed' => \A i \in 1 .. position'[l] : Accounted(l, i)'
      BY <1>4, <1>8 DEF LoopInv, Recorded, Undisturbed, Accounted
    <2> QED
      BY <1>4, <1>8, <2>1 DEF LoopInv, Recorded, Accounted
  <1>10. Tracked(l)'
    BY <1>4, <1>8 DEF LoopInv, Tracked, Log
  <1> QED
    BY <1>5, <1>6, <1>9, <1>10 DEF LoopInv

\* The position is committed, and the loop may end.
LEMMA CommitInv ==
  ASSUME TypeOK, NEW l \in Loop, LoopInv(l), AutoCommit(l) \/ Break(l)
  PROVE  LoopInv(l)'
  <1>1. /\ committed'[l] = position[l] /\ stage[l] # "down"
        /\ \/ stage'[l] = stage[l] /\ (faults' = 0 => faults = 0)
           \/ stage[l] = "idle" /\ stage'[l] = "ended" /\ faults' # 0
        /\ UNCHANGED <<topic, processed, audit, position, outcome, lru, handled, excused, stops>>
    <2>1. faults \in Nat
      BY Numbers
    <2>2. CASE AutoCommit(l)
      BY <2>2 DEF AutoCommit, TypeOK, process, history
    <2>3. CASE Break(l)
      BY <2>1, <2>3 DEF Break, TypeOK, history, Fault
    <2> QED
      BY <2>2, <2>3
  <1>2. /\ Len(topic[l]) \in Nat /\ MaxCases \in Nat /\ Offsets = 1 .. MaxCases
        /\ position[l] \in 0 .. Len(topic[l])
    BY Numbers, Zenon
  <1>3. Where(l)'
    BY <1>1, <1>2 DEF LoopInv, Where, InEvent
  <1>4. Explained(l)'
    BY <1>1, <1>2 DEF LoopInv, Explained
  <1>5. Recorded(l)'
    BY <1>1, <1>2 DEF LoopInv, Recorded, Undisturbed, Accounted, InEvent
  <1>6. Tracked(l)'
    BY <1>1 DEF LoopInv, Tracked, Log
  <1> QED
    BY <1>3, <1>4, <1>5, <1>6 DEF LoopInv

\* A cache that knows the sure ids still does when it gets the id that is about
\* to be written.
LEMMA AddedIsSure ==
  ASSUME NEW c \in Seq(Offsets), NEW s \in Seq(Offsets), NEW t \in Offsets, Distinct(c),
         Elements(c) \subseteq Elements(s), Sure(s) \subseteq Elements(c)
  PROVE  /\ Sure(touch(s, t)) \subseteq Elements(lru_add(c, t))
         /\ Elements(lru_add(c, t)) \subseteq Elements(touch(s, t))
  <1> DEFINE r == touch(s, t)
  <1>0. Len(s) \in Nat /\ LRU_SIZE \in Nat
    BY TrackerAssumption
  <1>1. /\ r \in Seq(Offsets) /\ r[Len(r)] = t /\ Elements(r) = Elements(s) \cup {t}
        /\ Len(r) = IF t \in Elements(s) THEN Len(s) ELSE Len(s) + 1
    BY TouchProperties
  <1>2. /\ t \in Elements(lru_add(c, t))
        /\ Elements(lru_add(c, t)) \subseteq Elements(c) \cup {t}
    BY LruAddProperties
  <1>3. ASSUME Len(r) <= LRU_SIZE PROVE Elements(r) \subseteq Elements(lru_add(c, t))
    <2>1. Len(s) <= LRU_SIZE
      BY <1>0, <1>1, <1>3
    <2>2. Elements(s) \subseteq Elements(c)
      BY <2>1 DEF Sure, Elements
    <2>3. Elements(lru_add(c, t)) = Elements(c) \cup {t}
      BY <1>3, NoEviction
    <2> QED
      BY <1>1, <2>2, <2>3
  <1> HIDE DEF r
  <1>4. Sure(r) \subseteq Elements(lru_add(c, t))
    <2>1. CASE Len(r) <= LRU_SIZE
      BY <1>3, <2>1 DEF Sure, Elements
    <2>2. CASE ~(Len(r) <= LRU_SIZE)
      BY <1>1, <1>2, <2>2 DEF Sure
    <2> QED
      BY <2>1, <2>2
  <1> QED
    BY <1>1, <1>2, <1>4 DEF r

LEMMA SucceedInv ==
  ASSUME TypeOK, NEW l \in Loop, LoopInv(l), Succeed(l)
  PROVE  LoopInv(l)'
  <1> DEFINE p == position[l]
  <1>1. /\ Len(topic[l]) \in Nat /\ MaxCases \in Nat /\ Offsets = 1 .. MaxCases
        /\ p \in 1 .. Len(topic[l]) /\ p \in Offsets /\ committed[l] \in Int
        /\ \A i \in Offsets : handled[l][i] \in Nat
    BY Numbers DEF InEvent, Succeed
  <1>2. /\ stage[l] = "handling" /\ stage'[l] = "persisting"
        /\ lru'[l] = lru_add(lru[l], p)
        /\ UNCHANGED <<topic, committed, processed, audit, position, excused, faults, stops>>
    BY DEF Succeed, TypeOK, broker
  <1>3. \A i \in Offsets : handled'[l][i] = IF i = p THEN handled[l][i] + 1 ELSE handled[l][i]
    BY <1>1 DEF Succeed, TypeOK
  <1>4. lru[l] \in Seq(Offsets) /\ processed[l] \in Seq(Offsets)
    BY DEF TypeOK
  <1>5. /\ Elements(lru'[l]) \subseteq Elements(lru[l]) \cup {p}
        /\ Distinct(lru[l]) => Distinct(lru'[l])
    <2>1. /\ Elements(lru_add(lru[l], p)) \subseteq Elements(lru[l]) \cup {p}
          /\ (Distinct(lru[l]) => Distinct(lru_add(lru[l], p)))
      BY <1>1, <1>4, LruAddProperties
    <2> QED
      BY <1>2, <2>1
  <1>6. Where(l)'
    BY <1>1, <1>2, <1>3 DEF LoopInv, Where, InEvent
  <1>7. Explained(l)'
    BY <1>1, <1>2, <1>3 DEF LoopInv, Explained
  <1>8. Recorded(l)'
    <2>1. \A r \in audit : r.offset \in Offsets
      BY DEF TypeOK
    <2>2. \A i \in Offsets : handled[l][i] > 0 => handled'[l][i] > 0
      BY <1>1, <1>3
    <2>3. handled'[l][p] > 0
      BY <1>1, <1>3
    <2> QED
      BY <1>1, <1>2, <1>5, <2>1, <2>2, <2>3 DEF LoopInv, Recorded, Undisturbed, Accounted, InEvent
  <1>9. Tracked(l)'
    <2>1. ASSUME faults = 0
          PROVE  /\ Elements(lru'[l]) \subseteq Elements(touch(processed[l], p))
                 /\ Sure(touch(processed[l], p)) \subseteq Elements(lru'[l])
      <3>1. /\ Distinct(lru[l]) /\ Elements(lru[l]) \subseteq Elements(processed[l])
            /\ Sure(processed[l]) \subseteq Elements(lru[l])
        BY <1>2, <2>1 DEF LoopInv, Tracked, Log
      <3> QED
        BY <1>1, <1>2, <1>4, <3>1, AddedIsSure
    <2> QED
      BY <1>2, <1>5, <2>1 DEF LoopInv, Tracked, Log
  <1> QED
    BY <1>6, <1>7, <1>8, <1>9 DEF LoopInv

LEMMA FailInv ==
  ASSUME TypeOK, NEW l \in Loop, LoopInv(l), Fail(l)
  PROVE  LoopInv(l)'
  <1>1. /\ stage[l] = "handling" /\ stage'[l] = "idle" /\ faults' # 0
        /\ excused'[l] = excused[l] \cup {position[l]}
        /\ UNCHANGED <<topic, committed, processed, audit, position, lru, handled, stops>>
    BY Numbers DEF Fail, TypeOK, broker, Fault
  <1>2. Where(l)' /\ Explained(l)' /\ Tracked(l)'
    BY <1>1 DEF LoopInv, Where, InEvent, Explained, Tracked
  <1>3. Recorded(l)'
    BY <1>1 DEF LoopInv, Recorded, Undisturbed
  <1> QED
    BY <1>2, <1>3 DEF LoopInv

LEMMA PersistInv ==
  ASSUME TypeOK, NEW l \in Loop, LoopInv(l), Persist(l)
  PROVE  LoopInv(l)'
  <1> DEFINE p == position[l]
  <1>1. p \in Offsets /\ processed[l] \in Seq(Offsets) /\ faults \in Nat
    BY Numbers DEF InEvent, Persist, TypeOK
  <1>2. /\ stage[l] = "persisting" /\ stage'[l] = "auditing" /\ outcome'[l] = "accepted"
        /\ UNCHANGED <<topic, committed, audit, position, lru, handled, excused, stops>>
    BY DEF Persist, TypeOK, history
  <1>3. \/ processed'[l] = touch(processed[l], p) /\ faults' = faults
        \/ processed'[l] = processed[l] /\ faults' # 0
    BY <1>1 DEF Persist, TypeOK, Fault
  <1>4. /\ Elements(processed'[l]) \subseteq Elements(processed[l]) \cup {p}
        /\ Distinct(processed[l]) => Distinct(processed'[l])
    <2>1. /\ Elements(touch(processed[l], p)) = Elements(processed[l]) \cup {p}
          /\ (Distinct(processed[l]) => Distinct(touch(processed[l], p)))
      BY <1>1, TouchProperties
    <2> QED
      BY <1>3, <2>1
  <1>5. Where(l)' /\ Explained(l)'
    BY <1>2 DEF LoopInv, Where, InEvent, Explained, AuditOutcome
  <1>6. Recorded(l)'
    BY <1>2, <1>3, <1>4 DEF LoopInv, Recorded, Undisturbed, Accounted, InEvent
  <1>7. Tracked(l)'
    BY <1>2, <1>3, <1>4 DEF LoopInv, Tracked, Log
  <1> QED
    BY <1>5, <1>6, <1>7 DEF LoopInv

LEMMA WriteAuditInv ==
  ASSUME TypeOK, NEW l \in Loop, LoopInv(l), WriteAudit(l)
  PROVE  LoopInv(l)'
  <1> DEFINE rec == [loop |-> l, offset |-> position[l], outcome |-> outcome[l]]
  <1>1. /\ position[l] \in 1 .. Len(topic[l]) /\ position[l] \in Offsets /\ faults \in Nat
        /\ position[l] <= Len(topic[l])
    BY Numbers DEF InEvent, WriteAudit
  <1>2. /\ stage[l] = "auditing" /\ stage'[l] = "idle"
        /\ UNCHANGED <<topic, committed, processed, position, lru, handled, excused, stops>>
        /\ \/ audit' = audit \cup {rec} /\ faults' = faults
           \/ audit' = audit /\ faults' # 0
    BY <1>1 DEF WriteAudit, TypeOK, history, Fault
  <1>3. rec.loop = l /\ rec.offset = position[l] /\ rec.outcome = outcome[l]
    OBVIOUS
  <1> HIDE DEF rec
  <1>4. Where(l)' /\ Explained(l)'
    BY <1>2 DEF LoopInv, Where, InEvent, Explained
  <1>5. Recorded(l)'
    <2>1. \A r \in audit' : r.loop = l =>
            /\ r.offset <= Len(topic[l])
            /\ \/ r.outcome = "rejected" /\ topic[l][r.offset].kind = "invalid"
               \/ r.outcome \in {"accepted", "duplicate_skipped"} /\ handled[l][r.offset] > 0
      BY <1>1, <1>2, <1>3 DEF LoopInv, Recorded
    <2>2. Undisturbed' => \A i \in 1 .. position[l] : Accounted(l, i)'
      BY <1>1, <1>2, <1>3 DEF LoopInv, Recorded, Undisturbed, Accounted
    <2> QED
      BY <1>2, <2>1, <2>2 DEF LoopInv, Recorded
  <1>6. Tracked(l)'
    BY <1>2 DEF LoopInv, Tracked, Log
  <1> QED
    BY <1>4, <1>5, <1>6 DEF LoopInv

\* The process ends: every loop is down.
LEMMA VanishInv ==
  ASSUME TypeOK, NEW l \in Loop, LoopInv(l), Crash \/ Shutdown
  PROVE  LoopInv(l)'
  <1>1. /\ stage'[l] = "down" /\ position'[l] = 0 /\ lru'[l] = <<>>
        /\ stops' # 0
        /\ UNCHANGED <<topic, processed, audit, handled, faults>>
    BY Numbers DEF Crash, Shutdown, Vanish
  <1>2. \/ /\ committed'[l] = committed[l]
           /\ excused'[l] = IF stage[l] = "handling" THEN excused[l] \cup {position[l]} ELSE excused[l]
        \/ /\ committed'[l] = IF stage[l] = "idle" THEN position[l] ELSE committed[l]
           /\ excused'[l] = excused[l] /\ stage[l] # "handling"
    BY DEF Crash, Shutdown
  <1>3. Where(l)' /\ Explained(l)'
    BY <1>1, <1>2, Numbers DEF LoopInv, Where, InEvent, Explained
  <1>4. Elements(lru'[l]) = {} /\ Distinct(lru'[l])
    BY <1>1 DEF Elements, Distinct
  <1>5. Recorded(l)'
    BY <1>1, <1>4 DEF LoopInv, Recorded, Undisturbed
  <1>6. Tracked(l)'
    BY <1>1, <1>4 DEF LoopInv, Tracked
  <1> QED
    BY <1>3, <1>5, <1>6 DEF LoopInv

-----------------------------------------------------------------------------
\* The case store and the results without a case.

\* A topic that grew has its old events and at most one new one.
LEMMA PublishStep ==
  ASSUME TypeOK, NEW l \in Loop, NEW c \in Cases, NEW kind, Publish(l, c, kind)
  PROVE  /\ \A m \in Loop : Grows(m) /\ (m # l => topic'[m] = topic[m])
         /\ DOMAIN topic'[l] = 1 .. Len(topic[l]) + 1
         /\ topic'[l][Len(topic[l]) + 1].case = c
         /\ \A i \in 1 .. Len(topic[l]) : topic'[l][i] = topic[l][i]
  <1> DEFINE e == [case |-> c, kind |-> kind]
             E == [case : Cases, kind : EventKind]
  <1>1. topic' = [topic EXCEPT ![l] = Append(topic[l], e)]
    BY DEF Publish
  <1>2. e.case = c
    OBVIOUS
  <1>3. topic \in [Loop -> Seq(E)]
    BY DEF TypeOK
  <1> HIDE DEF E, e
  <1>4. topic'[l] = Append(topic[l], e) /\ \A m \in Loop : m # l => topic'[m] = topic[m]
    BY <1>1, <1>3
  <1>5. /\ DOMAIN topic'[l] = 1 .. Len(topic[l]) + 1 /\ Len(topic'[l]) = Len(topic[l]) + 1
        /\ topic'[l][Len(topic[l]) + 1] = e /\ Len(topic[l]) \in Nat
        /\ \A i \in 1 .. Len(topic[l]) : topic'[l][i] = topic[l][i]
    BY <1>3, <1>4
  <1>6. Grows(l)
    BY <1>5 DEF Grows
  <1>7. \A m \in Loop : m # l => Grows(m)
    BY <1>4, InTopic DEF Grows
  <1> QED
    BY <1>2, <1>4, <1>5, <1>6, <1>7

\* A result is published only for a case that was asked about.
LEMMA PublishInv ==
  ASSUME ConsumerInv,
         \/ \E kind \in EventKinds : PublishTicket(kind)
         \/ \E c \in Cases : PublishResult(c)
  PROVE  ConsumerInv'
  <1>0. "intake" \in Loop /\ "results" \in Loop /\ TypeOK
    BY DEF Loop, ConsumerInv
  <1>1. PICK l \in Loop, c \in Cases, kind \in EventKind :
          /\ Publish(l, c, kind) /\ Len(topic[l]) < MaxCases
          /\ l = "results" => c \in requested
    <2>1. CASE \E kind \in EventKinds : PublishTicket(kind)
      <3>1. Len(topic["intake"]) + 1 \in Cases
        BY <1>0, <2>1, InTopic DEF PublishTicket, Cases
      <3> QED
        BY <1>0, <2>1, <3>1, ConsumerAssumption DEF PublishTicket
    <2>2. CASE \E c \in Cases : PublishResult(c)
      <3>1. Len(topic["results"]) < MaxResults => Len(topic["results"]) < MaxCases
        BY <1>0, ConsumerAssumption, InTopic
      <3> QED
        BY <1>0, <2>2, <3>1 DEF PublishResult, EventKind
    <2> QED
      BY <2>1, <2>2
  <1>2. TypeOK'
    BY <1>0, <1>1, PublishType
  <1>3. /\ \A m \in Loop : Grows(m) /\ (m # l => topic'[m] = topic[m])
        /\ DOMAIN topic'[l] = 1 .. Len(topic[l]) + 1
        /\ topic'[l][Len(topic[l]) + 1].case = c
        /\ \A i \in 1 .. Len(topic[l]) : topic'[l][i] = topic[l][i]
    BY <1>0, <1>1, PublishStep
  <1>4. UNCHANGED <<committed, processed, audit, requested, position, stage, outcome, lru,
                    cases, parked, handled, excused, orphans, faults, stops>>
    BY <1>1 DEF Publish, process, history
  <1>5. \A m \in Loop : Untouched(m)
    BY <1>3, <1>4 DEF Untouched, SameRecords
  <1>6. \A m \in Loop : LoopInv(m)'
    BY <1>0, <1>5, Frame DEF ConsumerInv
  <1>7. Remembered'
    <2>1. \A m \in Loop : Len(topic[m]) \in Nat /\ DOMAIN topic[m] = 1 .. Len(topic[m])
      BY <1>0, InTopic
    <2>2. \A i \in DOMAIN topic'["results"] : topic'["results"][i].case \in requested
      <3>1. CASE l = "results"
        BY <1>0, <1>1, <1>3, <2>1, <3>1 DEF ConsumerInv, Remembered
      <3>2. CASE l # "results"
        BY <1>0, <1>3, <3>2 DEF ConsumerInv, Remembered
      <3> QED
        BY <3>1, <3>2
    <2>3. stage["intake"] = "handling" =>
            topic'["intake"][position["intake"]] = topic["intake"][position["intake"]]
      BY <1>0, <1>3, <2>1, Numbers DEF ConsumerInv, Grows, InEvent
    <2> QED
      BY <1>4, <2>2, <2>3 DEF ConsumerInv, Remembered, ParkedMeansForgotten
  <1> QED
    BY <1>2, <1>6, <1>7 DEF ConsumerInv

LEMMA RememberedStep ==
  ASSUME ConsumerInv, NEW l \in Loop, Consume(l) \/ StartLoop(l) \/ AutoCommit(l) \/ Break(l)
  PROVE  Remembered'
  <1>0. "intake" \in Loop /\ "results" \in Loop /\ TypeOK
    BY DEF Loop, ConsumerInv
  <1>1. CASE Accept(l)
    <2>1. /\ stage'[l] = "handling" /\ position'[l] = position[l] + 1
          /\ Event(l) = topic[l][position[l] + 1]
          /\ UNCHANGED <<topic, requested, parked, orphans>>
      BY <1>0, <1>1, TakeKeeps DEF Accept, ConsumerInv, Take, Stage, broker, history
    <2>2. l # "intake" => stage'["intake"] = stage["intake"]
                          /\ position'["intake"] = position["intake"] /\ cases' = cases
      BY <1>0, <1>1, Others DEF Accept, Untouched, Consume
    <2>3. cases \subseteq cases' /\ (l = "intake" => Event(l).case \in cases')
      BY <1>1 DEF Accept
    <2> QED
      BY <2>1, <2>2, <2>3 DEF ConsumerInv, Remembered, ParkedMeansForgotten
  <1>2. CASE l = "intake" /\ Delegate
    BY <1>2 DEF Delegate, InHand, ConsumerInv, Remembered, ParkedMeansForgotten, process, history
  <1>3. CASE Succeed(l)
    <2>1. UNCHANGED <<topic, requested, cases, orphans, position>>
      BY <1>3 DEF Succeed, broker
    <2>2. stage'["intake"] = "handling" => stage["intake"] = "handling"
      BY <1>0, <1>3 DEF Succeed, TypeOK
    <2>3. Elements(parked') \subseteq orphans
      <3>1. parked \in Seq(Cases) /\ PARKED_MAX \in Nat /\ Elements(parked) \subseteq orphans
        BY <1>0, ConsumerAssumption DEF TypeOK, ConsumerInv, Remembered, ParkedMeansForgotten
      <3>2. CASE l = "results" /\ InHand(l) \notin cases
        <4>1. position[l] \in DOMAIN topic[l]
          BY <1>0, <1>3, Numbers, InTopic DEF ConsumerInv, InEvent, Succeed
        <4>2. InHand(l) \in orphans
          BY <3>2, <4>1 DEF InHand, ConsumerInv, Remembered
        <4>3. InHand(l) \in Cases
          BY <1>0, <4>2 DEF TypeOK
        <4> DEFINE q == Append(parked, InHand(l))
        <4>4. q \in Seq(Cases)
          BY <3>1, <4>3
        <4>5. Elements(q) = Elements(parked) \cup {InHand(l)}
          BY <3>1, <4>3, ElementsAppend
        <4> HIDE DEF q
        <4>6. Elements(newest(q, PARKED_MAX)) \subseteq Elements(q)
          BY <3>1, <4>4, NewestProperties
        <4>7. parked' = newest(q, PARKED_MAX)
          BY <1>3, <3>2 DEF Succeed, q
        <4> QED
          BY <3>1, <4>2, <4>5, <4>6, <4>7
      <3>3. CASE ~(l = "results" /\ InHand(l) \notin cases)
        BY <1>3, <3>1, <3>3 DEF Succeed
      <3> QED
        BY <3>2, <3>3
    <2> QED
      BY <2>1, <2>2, <2>3 DEF ConsumerInv, Remembered, ParkedMeansForgotten
  <1>4. CASE \/ Discard(l) \/ SkipDuplicate(l) \/ Reject(l) \/ Fail(l) \/ Persist(l)
             \/ WriteAudit(l) \/ StartLoop(l) \/ AutoCommit(l) \/ Break(l)
    <2>1. UNCHANGED <<topic, requested, cases, parked, orphans>>
      BY <1>4 DEF Discard, SkipDuplicate, Reject, Fail, Persist, WriteAudit, StartLoop, AutoCommit,
                  Break, Take, broker, process, history
    <2>2. stage'["intake"] = "handling" =>
            stage["intake"] = "handling" /\ position'["intake"] = position["intake"]
      BY <1>0, <1>4 DEF Discard, SkipDuplicate, Reject, Fail, Persist, WriteAudit, StartLoop,
                        AutoCommit, Break, Take, broker, process, history, TypeOK
    <2> QED
      BY <2>1, <2>2 DEF ConsumerInv, Remembered, ParkedMeansForgotten
  <1> QED
    BY <1>1, <1>2, <1>3, <1>4 DEF Consume

-----------------------------------------------------------------------------
\* The invariant.

LEMMA InitInv == Init => ConsumerInv
  <1> SUFFICES ASSUME Init PROVE ConsumerInv
    OBVIOUS
  <1>1. TypeOK
    BY InitType
  <1>2. Elements(<<>>) = {} /\ Distinct(<<>>) /\ DOMAIN <<>> = {} /\ Len(<<>>) = 0
    BY DEF Elements, Distinct
  <1>3. ASSUME NEW l \in Loop PROVE LoopInv(l)
    <2>1. /\ topic[l] = <<>> /\ committed[l] = NoOffset /\ processed[l] = <<>> /\ audit = {}
          /\ position[l] = 0 /\ stage[l] = "down" /\ lru[l] = <<>>
          /\ \A i \in Offsets : handled[l][i] = 0
      BY DEF Init
    <2>2. Where(l)
      BY <1>2, <2>1 DEF Where, InEvent, NoOffset
    <2>3. Explained(l)
      BY <1>1, <1>2, <2>1, InTopic DEF Explained, NoOffset, Offsets
    <2>4. Recorded(l)
      BY <1>2, <2>1 DEF Recorded
    <2>5. Tracked(l)
      BY <1>2, <2>1 DEF Tracked, Log
    <2> QED
      BY <2>2, <2>3, <2>4, <2>5 DEF LoopInv
  <1>4. Remembered
    <2>1. /\ parked = <<>> /\ requested = {} /\ topic["results"] = <<>>
          /\ stage["intake"] = "down"
      BY DEF Init, Loop
    <2> QED
      BY <1>2, <2>1 DEF Remembered, ParkedMeansForgotten
  <1> QED
    BY <1>1, <1>3, <1>4 DEF ConsumerInv

\* A step of loop l.
LEMMA LoopStep ==
  ASSUME ConsumerInv, NEW l \in Loop, Consume(l) \/ StartLoop(l) \/ AutoCommit(l) \/ Break(l)
  PROVE  ConsumerInv'
  <1>0. TypeOK /\ LoopInv(l) /\ Where(l)
    BY DEF ConsumerInv, LoopInv
  <1>1. TypeOK'
    <2>1. CASE AutoCommit(l)
      BY <1>0, <2>1 DEF AutoCommit, TypeOK, process, history
    <2>2. CASE Break(l)
      <3>1. faults' \in 0 .. MaxFaults
        BY <1>0, <2>2, ConsumerAssumption DEF Break, Fault, TypeOK
      <3>2. stage' \in [Loop -> Stage] /\ committed' \in [Loop -> {NoOffset} \cup {0} \cup Offsets]
        BY <1>0, <2>2 DEF Break, TypeOK, Stage
      <3> QED
        BY <1>0, <2>2, <3>1, <3>2 DEF Break, TypeOK, history
    <2> QED
      BY <1>0, <2>1, <2>2, ConsumeType, StartType
  <1>2. LoopInv(l)'
    <2>0. "idle" \in Stage /\ "handling" \in Stage /\ "auditing" \in Stage
      BY DEF Stage
    <2>1. CASE Discard(l)
      BY <1>0, <2>1, TakeInv DEF Discard
    <2>2. CASE SkipDuplicate(l)
      <3>1. outcome'[l] = "duplicate_skipped" /\ lru'[l] = touch(lru[l], position[l] + 1)
        BY <1>0, <2>2 DEF SkipDuplicate, TypeOK
      <3> QED
        BY <1>0, <2>2, <3>1, TakeInv DEF SkipDuplicate, Duplicate
    <2>3. CASE Reject(l)
      <3>1. outcome'[l] = "rejected" /\ lru'[l] = lru[l]
        BY <1>0, <2>3 DEF Reject, TypeOK
      <3> QED
        BY <1>0, <2>3, <3>1, TakeInv DEF Reject
    <2>4. CASE Accept(l)
      BY <1>0, <2>4, TakeInv DEF Accept, Duplicate
    <2>5. CASE l = "intake" /\ Delegate
      <3>1. Untouched(l)
        BY <1>0, <2>5, InTopic DEF Delegate, Untouched, Grows, SameRecords, process, history
      <3> QED
        BY <1>0, <3>1, Frame
    <2> QED
      BY <1>0, <2>1, <2>2, <2>3, <2>4, <2>5, SucceedInv, FailInv, PersistInv, WriteAuditInv,
         StartInv, CommitInv DEF Consume
  <1>3. \A m \in Loop : m # l => LoopInv(m)'
    BY <1>0, Others, Frame DEF ConsumerInv
  <1>4. Remembered'
    BY RememberedStep
  <1> QED
    BY <1>1, <1>2, <1>3, <1>4 DEF ConsumerInv

\* The end of the process.
LEMMA EndStep ==
  ASSUME ConsumerInv, Crash \/ Shutdown
  PROVE  ConsumerInv'
  <1>0. TypeOK /\ \A l \in Loop : LoopInv(l)
    BY DEF ConsumerInv
  <1>1. TypeOK'
    <2>1. \A l \in Loop : stage[l] = "handling" => position[l] \in Offsets
      BY <1>0, Numbers DEF InEvent
    <2>2. excused' \in [Loop -> SUBSET Offsets]
      <3>1. excused \in [Loop -> SUBSET Offsets]
        BY <1>0 DEF TypeOK
      <3>2. CASE Crash
        BY <2>1, <3>1, <3>2 DEF Crash
      <3>3. CASE Shutdown
        BY <3>1, <3>3 DEF Shutdown
      <3> QED
        BY <3>2, <3>3
    <2>3. committed' \in [Loop -> {NoOffset} \cup {0} \cup Offsets]
      BY <1>0 DEF Crash, Shutdown, TypeOK
    <2> QED
      BY <1>0, <2>2, <2>3, VanishType DEF Crash, Shutdown
  <1>2. \A l \in Loop : LoopInv(l)'
    BY <1>0, VanishInv
  <1>3. Remembered'
    <2>1. /\ parked' = <<>> /\ stage'["intake"] = "down"
          /\ requested' = requested /\ topic' = topic /\ orphans' = orphans \cup cases
      BY DEF Crash, Shutdown, Vanish, Loop
    <2> QED
      BY <2>1 DEF ConsumerInv, Remembered, ParkedMeansForgotten, Elements
  <1> QED
    BY <1>1, <1>2, <1>3 DEF ConsumerInv

LEMMA StutterStep ==
  ASSUME ConsumerInv, UNCHANGED vars
  PROVE  ConsumerInv'
  <1>1. /\ UNCHANGED <<topic, committed, processed, audit, requested, position, stage, outcome>>
        /\ UNCHANGED <<lru, cases, parked, handled, excused, orphans, faults, stops>>
    BY DEF vars, broker, process, history
  <1>2. TypeOK'
    BY <1>1 DEF ConsumerInv, TypeOK
  <1>3. \A l \in Loop : Untouched(l)
    BY <1>1, InTopic DEF ConsumerInv, Untouched, Grows, SameRecords
  <1>4. \A l \in Loop : LoopInv(l)'
    BY <1>3, Frame DEF ConsumerInv
  <1> QED
    BY <1>1, <1>2, <1>4 DEF ConsumerInv, Remembered, ParkedMeansForgotten

LEMMA NextInv ==
  ASSUME ConsumerInv, [Next]_vars
  PROVE  ConsumerInv'
  BY PublishInv, LoopStep, EndStep, StutterStep DEF Next

\* ConsumerInv is an invariant of the consumers.
THEOREM ConsumerInvariance == Spec => []ConsumerInv
  <1>1. ConsumerInv /\ [Next]_vars => ConsumerInv'
    BY NextInv
  <1> QED
    BY InitInv, <1>1, PTL DEF Spec

-----------------------------------------------------------------------------
\* What the runs check.

\* Every variable of the consumers has its type, for every number of cases,
\* faults and stops.
THEOREM TypeCorrect == Spec => []TypeOK
  <1>1. ConsumerInv => TypeOK
    BY DEF ConsumerInv
  <1> QED
    BY ConsumerInvariance, <1>1, PTL

\* A good event before the position of a loop was handled, is in the handler or
\* was given up by a known cause, whatever was committed and whenever.
THEOREM NoUnexplainedLoss == Spec => []LossIsExplained
  <1>1. ConsumerInv => LossIsExplained
    <2> SUFFICES ASSUME ConsumerInv, NEW l \in Loop, NEW i \in Due(l)
                 PROVE  \/ handled[l][i] > 0
                        \/ i \in excused[l]
                        \/ stage[l] = "handling" /\ i = position[l]
      BY DEF LossIsExplained
    <2>1. /\ i \in 1 .. position[l] /\ topic[l][i].kind = "good"
          /\ i \in Offsets /\ i <= Len(topic[l]) /\ i <= position[l]
      BY Numbers DEF Due, ConsumerInv
    <2> QED
      BY <2>1 DEF ConsumerInv, LoopInv, Explained
  <1> QED
    BY ConsumerInvariance, <1>1, PTL

\* The records of run() are true, and complete while nothing is disturbed.
THEOREM RecordsAreTrue == Spec => []AuditIsTrue
  <1>1. ConsumerInv => AuditIsTrue
    <2> SUFFICES ASSUME ConsumerInv PROVE AuditIsTrue
      OBVIOUS
    <2>1. ASSUME NEW r \in audit
          PROVE  /\ r.outcome \in {"accepted", "duplicate_skipped"} => handled[r.loop][r.offset] > 0
                 /\ r.outcome = "rejected" => handled[r.loop][r.offset] = 0
      <3>1. r.loop \in Loop /\ r.offset \in Offsets
        BY DEF ConsumerInv, TypeOK
      <3>2. LoopInv(r.loop) /\ handled[r.loop][r.offset] \in Nat
        BY <3>1, Numbers DEF ConsumerInv
      <3> QED
        BY <3>1, <3>2 DEF LoopInv, Recorded, Where
    <2>2. ASSUME NEW l \in Loop, Undisturbed, stage[l] = "idle", NEW i \in 1 .. position[l]
          PROVE  \/ topic[l][i].kind = "garbage" \/ i \in excused[l]
                 \/ \E r \in audit : r.loop = l /\ r.offset = i
      BY <2>2 DEF ConsumerInv, LoopInv, Recorded, Accounted, InEvent
    <2> QED
      BY <2>1, <2>2 DEF AuditIsTrue
  <1> QED
    BY ConsumerInvariance, <1>1, PTL

\* A parked result is one of a case that went with an earlier process.
THEOREM OnlyForgottenParked == Spec => []ParkedMeansForgotten
  <1>1. ConsumerInv => ParkedMeansForgotten
    BY DEF ConsumerInv, Remembered
  <1> QED
    BY ConsumerInvariance, <1>1, PTL

\* handled changes only when a handler returns.
LEMMA HandledStep ==
  ASSUME [Next]_vars
  PROVE  handled' = handled \/ \E l \in Loop : Succeed(l)
  BY DEF Next, PublishTicket, PublishResult, Publish, Consume, Discard, SkipDuplicate, Reject, Accept,
         Delegate, Fail, Persist, WriteAudit, Take, StartLoop, AutoCommit, Break, Crash, Shutdown,
         Vanish, vars, broker, process, history

\* No start, seek or crash makes a loop handle a recognised event again.
THEOREM ReplayIsHarmless == Spec => ReplayHasNoEffect
  <1> DEFINE Kept == \A l \in Loop : \A i \in Recognised(l) :
                       faults = 0 => handled'[l][i] = handled[l][i]
  <1>1. ASSUME ConsumerInv, [Next]_vars PROVE Kept
    <2> SUFFICES ASSUME NEW l \in Loop, NEW i \in Recognised(l), faults = 0
                 PROVE  handled'[l][i] = handled[l][i]
      OBVIOUS
    <2>1. CASE handled' = handled
      BY <2>1
    <2>2. CASE \E m \in Loop : Succeed(m)
      <3>1. PICK m \in Loop : Succeed(m)
        BY <2>2
      <3>2. CASE m # l
        BY <1>1, <3>1, <3>2 DEF Succeed, ConsumerInv, TypeOK
      <3>3. CASE m = l
        <4>1. stage[l] = "handling" /\ position[l] \notin Elements(lru[l])
              /\ Sure(processed[l]) \subseteq Elements(lru[l])
          BY <1>1, <3>1, <3>3 DEF Succeed, ConsumerInv, LoopInv, Tracked, Log
        <4>2. i # position[l]
          BY <4>1 DEF Recognised, Sure
        <4> QED
          BY <1>1, <3>1, <3>3, <4>2 DEF Succeed, ConsumerInv, TypeOK
      <3> QED
        BY <3>2, <3>3
    <2> QED
      BY <1>1, <2>1, <2>2, HandledStep
  <1>2. ConsumerInv /\ [Next]_vars => [Kept]_vars
    BY <1>1
  <1>3. [][Kept]_vars => ReplayHasNoEffect
    BY PTL DEF ReplayHasNoEffect
  <1> QED
    BY ConsumerInvariance, <1>2, <1>3, PTL DEF Spec
=============================================================================
