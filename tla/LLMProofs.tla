------------------------------ MODULE LLMProofs ------------------------------
(***************************************************************************)
(* The LLM runtime and what the agents make of its results, for any number *)
(* of calls, crashes and entries of the store and every configuration.     *)
(* A call changes its own variables only, and a call that has returned     *)
(* changes no more: the invariant of a call speaks of the others only as   *)
(* far as they have a result.                                              *)
(***************************************************************************)
EXTENDS AssistedReplies, SequenceTheorems, TLAPS

\* Call c reached the model or the store.
Answering(c) == result[c].path \in {"model", "cache"}

\* The variables of a call agree with where it is.
CallOK(c) ==
  /\ pc[c] = "idle" => result[c] = NoResult /\ request[c] = NoRequest /\ before[c] = {}
  /\ pc[c] # "idle" => request[c] \in Requests
  /\ pc[c] \in {"asking", "repairing", "raised"} => result[c] = NoResult
  /\ pc[c] = "persisting" => result[c].path = "model"
  /\ pc[c] = "returned" => result[c].path \in {"model", "cache", "fallback"}
  /\ pc[c] = "asking" => asked[c] = 1
  /\ pc[c] = "idle" => asked[c] = 0
  /\ asked[c] <= 2 + max_repairs
  /\ \A d \in before[c] : pc[d] = "returned"

\* A result holds what fits the request; only drafts come from the store.
ResultFits(c) ==
  \/ result[c] \in {NoResult, fallback_result}
  \/ \E v \in Content(request[c].kind) :
       \/ result[c] = model_result(v)
       \/ result[c] = cached_result(v) /\ shared(request[c]) /\ pc[c] = "returned"

\* An entry of the store is what a model answered to its request.
StoreOK ==
  \A i \in DOMAIN store :
    /\ store[i].key \in Requests /\ shared(store[i].key)
    /\ \E d \in Calls : request[d] = store[i].key /\ result[d] = model_result(store[i].value)

\* What was answered is in the store, unless that forgot it.
Kept ==
  \A d \in Calls :
    Answering(d) /\ shared(request[d]) /\ request[d] \notin forgotten => request[d] \in Recorded

LLMInv ==
  /\ TypeOK /\ StoreOK /\ Kept /\ NoSecondReasoning /\ ReplayIsAnAnswer
  /\ \A c \in Calls : CallOK(c) /\ ResultFits(c)

-----------------------------------------------------------------------------
\* The store.

Entry == [key : Requests, value : Contents]

KeysOf(s) == {s[i].key : i \in DOMAIN s}

\* Positions of a sequence of length n from which the i-th element is taken.
LEMMA Positions ==
  ASSUME NEW n \in Nat, NEW i \in 1 .. n
  PROVE  /\ n \in 1 .. n /\ n > 0
         /\ \A j \in 1 .. n : j < i \/ (i <= j /\ j < n) \/ j = n
         /\ \A j \in 1 .. n : j < n => j + 1 \in 1 .. n
         /\ \A j \in 1 .. n : j < i \/ j > i \/ j = i
         /\ \A j \in 1 .. n : j > i => /\ j - 1 \in 1 .. n /\ i <= j - 1 /\ j - 1 < n
                                       /\ (j - 1) + 1 = j
  OBVIOUS

\* The entry is last, and the others stay.
LEMMA MoveToEnd ==
  ASSUME NEW s \in Seq(Entry), NEW e \in Entry
  PROVE  LET t == move_to_end(s, e)
         IN  /\ t \in Seq(Entry) /\ Len(t) \in {Len(s), Len(s) + 1} /\ Len(t) > 0
             /\ t[Len(t)] = e
             /\ \A i \in DOMAIN t : t[i] = e \/ \E j \in DOMAIN s : t[i] = s[j]
             /\ \A j \in DOMAIN s : s[j].key \in KeysOf(t)
             /\ e.key \in KeysOf(s) => Len(t) = Len(s)
  <1> DEFINE t == move_to_end(s, e)
  <1>0. Len(s) \in Nat /\ DOMAIN s = 1 .. Len(s)
    OBVIOUS
  <1>1. CASE \A i \in DOMAIN s : s[i].key # e.key
    <2>1. t = Append(s, e)
      BY <1>1 DEF move_to_end
    <2> HIDE DEF t
    <2>2. /\ t \in Seq(Entry) /\ Len(t) = Len(s) + 1 /\ t[Len(s) + 1] = e
          /\ DOMAIN t = 1 .. Len(s) + 1
          /\ \A j \in 1 .. Len(s) : t[j] = s[j]
      BY <2>1
    <2>3. \A i \in DOMAIN t : t[i] = e \/ \E j \in DOMAIN s : t[i] = s[j]
      <3> TAKE i \in DOMAIN t
      <3>1. i = Len(s) + 1 \/ i \in DOMAIN s
        BY <1>0, <2>2
      <3> QED
        BY <1>0, <2>2, <3>1, Zenon
    <2>4. \A j \in DOMAIN s : j \in DOMAIN t /\ t[j] = s[j]
      BY <1>0, <2>2
    <2>5. \A j \in DOMAIN s : s[j].key \in KeysOf(t)
      BY <2>4 DEF KeysOf
    <2>6. e.key \notin KeysOf(s)
      BY <1>1, Zenon DEF KeysOf
    <2>7. Len(t) \in {Len(s), Len(s) + 1} /\ Len(t) > 0 /\ t[Len(t)] = e
      BY <1>0, <2>2
    <2> QED
      BY <2>2, <2>3, <2>5, <2>6, <2>7, Zenon DEF t
  <1>2. CASE \E i \in DOMAIN s : s[i].key = e.key
    <2> DEFINE i == CHOOSE i \in DOMAIN s : s[i].key = e.key
    <2>1. i \in 1 .. Len(s) /\ s[i].key = e.key
      BY <1>0, <1>2
    <2> DEFINE At(j) == CASE j < i -> s[j]
                          [] i <= j /\ j < Len(s) -> s[j + 1]
                          [] j = Len(s) -> e
    <2>2. t = [j \in DOMAIN s |-> At(j)]
      BY <1>2, Zenon DEF move_to_end
    <2> HIDE DEF i, t
    <2>a. /\ Len(s) \in 1 .. Len(s) /\ Len(s) > 0
          /\ \A j \in 1 .. Len(s) : j < i \/ (i <= j /\ j < Len(s)) \/ j = Len(s)
          /\ \A j \in 1 .. Len(s) : j < Len(s) => j + 1 \in 1 .. Len(s)
          /\ \A j \in 1 .. Len(s) : j < i \/ j > i \/ j = i
          /\ \A j \in 1 .. Len(s) :
               j > i => /\ j - 1 \in 1 .. Len(s) /\ i <= j - 1 /\ j - 1 < Len(s)
                        /\ (j - 1) + 1 = j
      BY <1>0, <2>1, Positions
    <2>3. \A j \in 1 .. Len(s) : /\ j < i => t[j] = s[j]
                                 /\ i <= j /\ j < Len(s) => t[j] = s[j + 1]
                                 /\ j = Len(s) => t[j] = e
      BY <1>0, <2>1, <2>2
    <2>4. \A j \in 1 .. Len(s) : t[j] = e \/ \E k \in 1 .. Len(s) : t[j] = s[k]
      <3> TAKE j \in 1 .. Len(s)
      <3>1. j < i \/ (i <= j /\ j < Len(s) /\ j + 1 \in 1 .. Len(s)) \/ j = Len(s)
        BY <2>a, Zenon
      <3> QED
        BY <2>3, <3>1, Zenon
    <2>5. t \in [1 .. Len(s) -> Entry]
      <3>1. \A k \in 1 .. Len(s) : s[k] \in Entry
        BY <1>0
      <3>2. \A j \in 1 .. Len(s) : t[j] \in Entry
        BY <2>4, <3>1
      <3>3. DOMAIN t = 1 .. Len(s)
        BY <1>0, <2>2, Zenon
      <3>4. t = [j \in DOMAIN t |-> t[j]]
        <4> HIDE DEF At
        <4> QED
          BY <2>2
      <3> QED
        BY <3>2, <3>3, <3>4
    <2>6. t \in Seq(Entry) /\ Len(t) = Len(s) /\ DOMAIN t = 1 .. Len(s)
      BY <1>0, <2>5, SeqDef
    <2>7. ASSUME NEW k \in DOMAIN s PROVE s[k].key \in KeysOf(t)
      <3>1. CASE k < i
        <4>1. k \in DOMAIN t /\ t[k] = s[k]
          BY <1>0, <2>1, <2>3, <2>6, <3>1
        <4> QED
          BY <4>1 DEF KeysOf
      <3>2. CASE k > i
        <4>1. k - 1 \in DOMAIN t /\ t[k - 1] = s[k]
          <5>1. k - 1 \in 1 .. Len(s) /\ t[k - 1] = s[(k - 1) + 1] /\ (k - 1) + 1 = k
            BY <1>0, <2>a, <2>3, <3>2, Zenon
          <5> QED
            BY <2>6, <5>1, Zenon
        <4> QED
          BY <4>1 DEF KeysOf
      <3>3. CASE k = i
        <4>1. Len(s) \in DOMAIN t /\ t[Len(s)] = e
          BY <2>a, <2>3, <2>6, Zenon
        <4> QED
          BY <2>1, <3>3, <4>1 DEF KeysOf
      <3> QED
        BY <1>0, <2>a, <3>1, <3>2, <3>3, Zenon
    <2>8. t[Len(t)] = e /\ Len(t) > 0 /\ Len(t) \in {Len(s), Len(s) + 1}
      BY <2>a, <2>3, <2>6, Zenon
    <2> QED
      BY <1>0, <2>4, <2>6, <2>7, <2>8, Zenon DEF t
  <1> QED
    BY <1>1, <1>2

\* The store stays within its size and gets the new entry.
LEMMA LruPut ==
  ASSUME NEW s \in Seq(Entry), NEW e \in Entry, Len(s) <= LRU_SIZE
  PROVE  LET u == lru_put(s, e)
         IN  /\ u \in Seq(Entry) /\ Len(u) <= LRU_SIZE
             /\ e.key \in KeysOf(u)
             /\ \A i \in DOMAIN u : u[i] = e \/ \E j \in DOMAIN s : u[i] = s[j]
  <1> DEFINE t == move_to_end(s, e)
             u == lru_put(s, e)
  <1>0. Len(s) \in Nat /\ DOMAIN s = 1 .. Len(s) /\ LRU_SIZE \in Nat /\ LRU_SIZE > 0
    BY LLMAssumption
  <1>1. /\ t \in Seq(Entry) /\ Len(t) \in {Len(s), Len(s) + 1} /\ Len(t) > 0
        /\ t[Len(t)] = e
        /\ \A i \in DOMAIN t : t[i] = e \/ \E j \in DOMAIN s : t[i] = s[j]
    BY MoveToEnd
  <1>2. u = IF Len(t) > LRU_SIZE THEN Tail(t) ELSE t
    BY DEF lru_put
  <1> HIDE DEF t, u
  <1>3. CASE Len(t) <= LRU_SIZE
    <2>1. u = t /\ Len(t) \in DOMAIN t
      BY <1>0, <1>1, <1>2, <1>3
    <2> QED
      BY <1>1, <1>3, <2>1 DEF KeysOf, u
  <1>4. CASE Len(t) > LRU_SIZE
    <2>1. u = Tail(t) /\ t # <<>>
      BY <1>0, <1>1, <1>2, <1>4
    <2>2. /\ u \in Seq(Entry) /\ Len(u) = Len(t) - 1 /\ DOMAIN u = 1 .. Len(t) - 1
          /\ \A i \in 1 .. Len(t) - 1 : u[i] = t[i + 1]
      BY <1>1, <2>1
    <2>3. Len(t) - 1 \in DOMAIN u /\ u[Len(t) - 1] = e /\ Len(u) <= LRU_SIZE
      <3>1. /\ Len(t) - 1 \in 1 .. Len(t) - 1 /\ (Len(t) - 1) + 1 = Len(t)
            /\ Len(t) - 1 <= LRU_SIZE
        BY <1>0, <1>1, <1>4
      <3> QED
        BY <1>1, <2>2, <3>1, Zenon
    <2>4. \A i \in DOMAIN u : i + 1 \in DOMAIN t /\ u[i] = t[i + 1]
      BY <1>1, <2>2
    <2> QED
      BY <1>1, <2>2, <2>3, <2>4 DEF KeysOf, u
  <1> QED
    BY <1>0, <1>1, <1>3, <1>4

-----------------------------------------------------------------------------
\* Results and configurations.

LEMMA ResultFields ==
  /\ NoResult.path = "none"
  /\ fallback_result.path = "fallback" /\ fallback_result.form = "object"
  /\ \A v : /\ model_result(v).path = "model" /\ model_result(v).form = "object"
            /\ model_result(v).value = v
            /\ cached_result(v).path = "cache" /\ cached_result(v).form = "dict"
            /\ cached_result(v).value = v
  BY DEF NoResult, fallback_result, model_result, cached_result

\* What fits a request is content.
LEMMA ContentOfKind ==
  ASSUME NEW r \in Requests
  PROVE  r.kind \in Kind /\ Content(r.kind) \subseteq Contents
  <1>1. r.kind \in Kind
    BY LLMAssumption
  <1> QED
    BY <1>1, Zenon DEF Contents

\* A draft is content of the drafter's requests.
LEMMA ContentOfDraft ==
  ASSUME NEW r, shared(r)
  PROVE  Content(r.kind) = Drafts
  BY DEF shared, Content

LEMMA ResultsOfContent ==
  ASSUME NEW r \in Requests, NEW v \in Content(r.kind)
  PROVE  /\ v \in Contents /\ model_result(v) \in Result /\ cached_result(v) \in Result
  <1>1. v \in Contents
    BY ContentOfKind
  <1> QED
    BY <1>1, Zenon DEF Result

\* Every configuration resolves to a number of repairs.
LEMMA RepairsAreNatural ==
  ASSUME settings \in Settings
  PROVE  max_repairs \in Nat
  <1>1. settings \in Setting
    BY LLMAssumption
  <1>2. settings.environment \in Nat \cup {Absent}
    BY <1>1 DEF Setting
  <1>3. \A v : build_profile(v) \in Nat
    BY DEF build_profile, DEFAULT_MAX_REPAIRS
  <1>4. \A t, v : merged(t, v) \in Nat
    BY <1>3, Zenon DEF merged
  <1>5. DEFAULT_MAX_REPAIRS \in Nat
    BY DEF DEFAULT_MAX_REPAIRS
  <1>6. base_profile(settings) \in Nat
    <2>1. CASE settings.task # Absent
      BY <1>4, <2>1 DEF base_profile
    <2>2. CASE settings.task = Absent /\ settings.agent # Absent
      BY <1>4, <2>2 DEF base_profile
    <2>3. CASE settings.task = Absent /\ settings.agent = Absent
      BY <1>3, <1>5, <2>3 DEF base_profile
    <2> QED
      BY <2>1, <2>2, <2>3
  <1> QED
    BY <1>2, <1>6 DEF max_repairs, resolve_profile

\* No outcome of a reasoning step is one of the audit's.
LEMMA RecordIsDropped ==
  ASSUME NEW c, NEW res, res.path \in {"model", "cache", "fallback"},
         emit_audit(c, res)
  PROVE  audit' = audit
  <1>1. audit_outcome(res) \in {"produced", "served_from_cache", "unable_to_produce"}
    BY DEF audit_outcome
  <1>2. audit_outcome(res) \notin AuditOutcome
    BY <1>1 DEF AuditOutcome
  <1> QED
    BY <1>2 DEF emit_audit, write_reasoning_audit

-----------------------------------------------------------------------------
\* A step of one call.

\* What NoSecondReasoning says of call c.
NoSecond(c) ==
  \A d \in Calls :
    /\ d \in before[c] /\ request[c] = request[d] /\ shared(request[c])
    /\ result[d].path \in {"model", "cache"}
    /\ request[c] \notin forgotten
    => pc[c] = "idle" \/ result[c].path = "cache"

\* A call that has not ended takes a step: what the invariant says of the other
\* calls still holds, and of the call only what is left open here is to be shown.
LEMMA StepOfOne ==
  ASSUME LLMInv, TypeOK', NEW c \in Calls,
         pc[c] \in {"idle", "asking", "repairing", "persisting"},
         \A d \in Calls \ {c} : /\ pc'[d] = pc[d] /\ request'[d] = request[d]
                                /\ before'[d] = before[d] /\ asked'[d] = asked[d]
                                /\ result'[d] = result[d],
         settings' = settings, forgotten \subseteq forgotten',
         result[c].path = "model" => result'[c] = result[c],
         pc[c] # "idle" => request'[c] = request[c] /\ before'[c] = before[c],
         CallOK(c)', ResultFits(c)', StoreOK', Kept',
         pc[c] = "idle" => NoSecond(c)',
         result'[c].path = "cache" =>
           \E d \in Calls \ {c} : /\ request[d] = request'[c] /\ result[d].path = "model"
                                  /\ result[d].value = result'[c].value
  PROVE  LLMInv'
  <1>0. \A d \in Calls : CallOK(d) /\ ResultFits(d)
    BY DEF LLMInv
  <1>1. \A d \in Calls : \A e \in before[d] : e \in Calls /\ e # c /\ pc[e] = "returned"
    <2>1. \A d \in Calls : before[d] \subseteq Calls
      BY DEF LLMInv, TypeOK
    <2> QED
      BY <1>0, <2>1 DEF CallOK
  <1>2. pc[c] = "idle" => result[c].path = "none"
    BY <1>0, ResultFields DEF CallOK
  <1>3. \A d \in Calls : (CallOK(d) /\ ResultFits(d))'
    <2> SUFFICES ASSUME NEW d \in Calls \ {c} PROVE (CallOK(d) /\ ResultFits(d))'
      OBVIOUS
    <2>1. max_repairs' = max_repairs
      BY DEF max_repairs
    <2>2. \A e \in before'[d] : pc'[e] = "returned"
      BY <1>1
    <2>3. CallOK(d)'
      BY <1>0, <2>1, <2>2 DEF CallOK
    <2>4. ResultFits(d)'
      <3>1. result'[d] = result[d] /\ request'[d] = request[d] /\ pc'[d] = pc[d]
        OBVIOUS
      <3>2. ResultFits(d)
        BY <1>0
      <3> QED
        BY <3>1, <3>2 DEF ResultFits
    <2> QED
      BY <2>3, <2>4
  <1>4. NoSecondReasoning'
    <2> SUFFICES ASSUME NEW a \in Calls, NEW d \in Calls,
                        d \in before'[a], request'[a] = request'[d], shared(request'[a]),
                        result'[d].path \in {"model", "cache"},
                        request'[a] \notin forgotten'
                 PROVE  pc'[a] = "idle" \/ result'[a].path = "cache"
      BY Zenon DEF NoSecondReasoning
    <2>1. CASE a = c /\ pc[c] = "idle"
      BY <2>1, Zenon DEF NoSecond
    <2>2. CASE a = c /\ pc[c] # "idle"
      <3>1. d \in before[c] /\ d # c
        BY <1>1, <2>2
      <3>2. request[c] = request[d] /\ shared(request[c])
            /\ result[d].path \in {"model", "cache"} /\ request[c] \notin forgotten
        BY <2>2, <3>1
      <3>3. result[c].path = "cache"
        BY <2>2, <3>1, <3>2 DEF LLMInv, NoSecondReasoning
      <3>4. result[c].path \in {"none", "model"}
        BY <1>0, <2>2, ResultFields DEF CallOK
      <3> QED
        BY <3>3, <3>4
    <2>3. CASE a # c
      <3>1. d \in before[a] /\ d # c
        BY <1>1, <2>3
      <3>2. /\ request[a] = request[d] /\ shared(request[a])
            /\ result[d].path \in {"model", "cache"} /\ request[a] \notin forgotten
        BY <2>3, <3>1
      <3>3. pc[a] = "idle" \/ result[a].path = "cache"
        BY <3>1, <3>2 DEF LLMInv, NoSecondReasoning
      <3> QED
        BY <2>3, <3>3
    <2> QED
      BY <2>1, <2>2, <2>3
  <1>5. ReplayIsAnAnswer'
    <2> SUFFICES ASSUME NEW a \in Calls, result'[a].path = "cache"
                 PROVE  \E d \in Calls \ {a} :
                          /\ request'[d] = request'[a] /\ result'[d].path = "model"
                          /\ result'[d].value = result'[a].value
      BY Zenon DEF ReplayIsAnAnswer
    <2>1. CASE a = c
      BY <2>1
    <2>2. CASE a # c
      <3>1. PICK d \in Calls \ {a} : /\ request[d] = request[a] /\ result[d].path = "model"
                                     /\ result[d].value = result[a].value
        BY <2>2 DEF LLMInv, ReplayIsAnAnswer
      <3>2. CASE d # c
        BY <2>2, <3>1, <3>2
      <3>3. CASE d = c
        <4>1. result'[c] = result[c] /\ request'[c] = request[c]
          BY <1>2, <3>1, <3>3
        <4> QED
          BY <2>2, <3>1, <3>3, <4>1
      <3> QED
        BY <3>2, <3>3
    <2> QED
      BY <2>1, <2>2
  <1> QED
    BY <1>3, <1>4, <1>5 DEF LLMInv

\* An entry of the store fits its request, which a model answered.
LEMMA StoredFits ==
  ASSUME LLMInv, NEW i \in DOMAIN store
  PROVE  /\ store[i] \in Entry /\ store[i].key \in Requests /\ shared(store[i].key)
         /\ store[i].value \in Content(store[i].key.kind)
         /\ \E d \in Calls : /\ request[d] = store[i].key
                             /\ result[d] = model_result(store[i].value)
  <1>0. store \in Seq(Entry)
    BY DEF LLMInv, TypeOK, Entry
  <1>1. store[i] \in Entry
    BY <1>0
  <1>2. store[i].key \in Requests /\ shared(store[i].key)
    BY Zenon DEF LLMInv, StoreOK
  <1>3. PICK d \in Calls : /\ request[d] = store[i].key
                           /\ result[d] = model_result(store[i].value)
    BY Zenon DEF LLMInv, StoreOK
  <1>4. ResultFits(d)
    BY Zenon DEF LLMInv
  <1>5. result[d].path = "model" /\ result[d].value = store[i].value
    BY <1>3, ResultFields
  <1>6. result[d] \notin {NoResult, fallback_result} /\ \A v : result[d] # cached_result(v)
    BY <1>5, ResultFields
  <1>7. PICK v \in Content(request[d].kind) : result[d] = model_result(v)
    BY <1>4, <1>6, Zenon DEF ResultFits
  <1>8. v = store[i].value
    BY <1>5, <1>7, ResultFields
  <1> QED
    BY <1>1, <1>2, <1>3, <1>7, <1>8

\* What the invariant's types are for a step of one call.
LEMMA Types ==
  ASSUME LLMInv
  PROVE  /\ settings \in Settings /\ max_repairs \in Nat
         /\ pc \in [Calls -> Stage] /\ request \in [Calls -> Requests \cup {NoRequest}]
         /\ before \in [Calls -> SUBSET Calls] /\ asked \in [Calls -> Nat]
         /\ result \in [Calls -> Result]
         /\ store \in Seq(Entry) /\ Len(store) <= LRU_SIZE
         /\ forgotten \subseteq Requests
  BY RepairsAreNatural DEF LLMInv, TypeOK, Entry

\* The results that are in the store, and the requests that are answered, when
\* one call gets no result of a model and the store keeps its keys.
LEMMA StoreKept ==
  ASSUME LLMInv, NEW c \in Calls,
         \A d \in Calls \ {c} : request'[d] = request[d] /\ result'[d] = result[d],
         result[c].path = "model" => result'[c] = result[c] /\ request'[c] = request[c],
         Answering(c)' /\ shared(request'[c]) /\ request'[c] \notin forgotten'
           => request'[c] \in Recorded',
         \A i \in DOMAIN store' : \E j \in DOMAIN store : store'[i] = store[j],
         Recorded \subseteq Recorded', forgotten' = forgotten
  PROVE  StoreOK' /\ Kept'
  <1>1. StoreOK'
    <2> SUFFICES ASSUME NEW i \in DOMAIN store'
                 PROVE  /\ store'[i].key \in Requests /\ shared(store'[i].key)
                        /\ \E d \in Calls : /\ request'[d] = store'[i].key
                                            /\ result'[d] = model_result(store'[i].value)
      BY Zenon DEF StoreOK
    <2>1. PICK j \in DOMAIN store : store'[i] = store[j]
      OBVIOUS
    <2>2. PICK d \in Calls : /\ request[d] = store[j].key
                             /\ result[d] = model_result(store[j].value)
      BY Zenon DEF LLMInv, StoreOK
    <2>3. request'[d] = request[d] /\ result'[d] = result[d]
      BY <2>2, ResultFields
    <2>4. store[j].key \in Requests /\ shared(store[j].key)
      BY Zenon DEF LLMInv, StoreOK
    <2> QED
      BY <2>1, <2>2, <2>3, <2>4
  <1>2. Kept'
    <2> SUFFICES ASSUME NEW d \in Calls, Answering(d)', shared(request'[d]),
                        request'[d] \notin forgotten'
                 PROVE  request'[d] \in Recorded'
      BY Zenon DEF Kept
    <2>1. CASE d = c
      BY <2>1
    <2>2. CASE d # c
      <3>1. Answering(d) /\ shared(request[d]) /\ request[d] \notin forgotten
        BY <2>2 DEF Answering
      <3>2. request[d] \in Recorded
        BY <3>1, Zenon DEF LLMInv, Kept
      <3> QED
        BY <2>2, <3>2
    <2> QED
      BY <2>1, <2>2
  <1> QED
    BY <1>1, <1>2

LEMMA StepServe ==
  ASSUME LLMInv, NEW c \in Calls, ServeFromCache(c)
  PROVE  LLMInv'
  <1>1. PICK i \in DOMAIN store :
          /\ Begin(c, store[i].key)
          /\ Return(c, cached_result(store[i].value))
          /\ store' = move_to_end(store, store[i])
          /\ forgotten' = forgotten
    BY Zenon DEF ServeFromCache
  <1> DEFINE e == store[i]
             r == e.key
  <1>2. /\ e \in Entry /\ r \in Requests /\ shared(r) /\ e.value \in Content(r.kind)
        /\ \E d \in Calls : request[d] = r /\ result[d] = model_result(e.value)
    BY StoredFits
  <1>3. PICK d \in Calls : request[d] = r /\ result[d] = model_result(e.value)
    BY <1>2
  <1>4. /\ settings \in Settings /\ max_repairs \in Nat
        /\ pc \in [Calls -> Stage] /\ request \in [Calls -> Requests \cup {NoRequest}]
        /\ before \in [Calls -> SUBSET Calls] /\ asked \in [Calls -> Nat]
        /\ result \in [Calls -> Result]
        /\ store \in Seq(Entry) /\ Len(store) <= LRU_SIZE
        /\ forgotten \subseteq Requests
    BY Types
  <1>5. /\ store' \in Seq(Entry) /\ Len(store') <= LRU_SIZE
        /\ \A k \in DOMAIN store' : \E j \in DOMAIN store : store'[k] = store[j]
        /\ Recorded \subseteq Recorded' /\ r \in Recorded'
    <2> DEFINE t == move_to_end(store, e)
    <2>1. /\ t \in Seq(Entry)
          /\ \A k \in DOMAIN t : t[k] = e \/ \E j \in DOMAIN store : t[k] = store[j]
          /\ \A j \in DOMAIN store : store[j].key \in KeysOf(t)
          /\ r \in KeysOf(store) => Len(t) = Len(store)
      BY <1>2, <1>4, MoveToEnd
    <2>2. r \in KeysOf(store)
      BY Zenon DEF KeysOf
    <2>3. Recorded = KeysOf(store) /\ Recorded' = KeysOf(t)
      BY <1>1 DEF Recorded, KeysOf
    <2>4. \A k \in DOMAIN t : \E j \in DOMAIN store : t[k] = store[j]
      BY <2>1, Zenon
    <2>5. KeysOf(store) \subseteq KeysOf(t)
      BY <2>1, Zenon DEF KeysOf
    <2> HIDE DEF t
    <2> QED
      BY <1>1, <1>4, <2>1, <2>2, <2>3, <2>4, <2>5 DEF t
  <1> HIDE DEF e, r
  <1>6. pc[c] = "idle" /\ result[c] = NoResult
    BY <1>1 DEF Begin, LLMInv, CallOK
  <1>7. d # c
    BY <1>3, <1>6, ResultFields
  <1>8. /\ settings' = settings /\ crashes' = crashes
        /\ pc' = [pc EXCEPT ![c] = "returned"]
        /\ request' = [request EXCEPT ![c] = r]
        /\ before' = [before EXCEPT ![c] = {b \in Calls : pc[b] = "returned"}]
        /\ asked' = [asked EXCEPT ![c] = 0]
        /\ result' = [result EXCEPT ![c] = cached_result(e.value)]
    BY <1>1, Zenon DEF Begin, Return, e, r
  <1>9. audit' = audit
    BY <1>1, ResultFields, RecordIsDropped DEF Return, e
  <1>10. cached_result(e.value) \in Result
    BY <1>2, ResultsOfContent
  <1>11. TypeOK'
    BY <1>1, <1>2, <1>4, <1>5, <1>8, <1>9, <1>10 DEF LLMInv, TypeOK, Stage, Entry
  <1>12. /\ pc'[c] = "returned" /\ request'[c] = r /\ asked'[c] = 0
         /\ before'[c] = {b \in Calls : pc[b] = "returned"}
         /\ result'[c] = cached_result(e.value)
         /\ \A b \in Calls \ {c} : /\ pc'[b] = pc[b] /\ request'[b] = request[b]
                                   /\ before'[b] = before[b] /\ asked'[b] = asked[b]
                                   /\ result'[b] = result[b]
    BY <1>4, <1>8
  <1>13. result'[c].path = "cache" /\ result'[c].value = e.value
    BY <1>12, ResultFields
  <1>14. CallOK(c)'
    BY <1>2, <1>4, <1>6, <1>8, <1>12, <1>13 DEF CallOK, max_repairs
  <1>15. ResultFits(c)'
    BY <1>2, <1>12, Zenon DEF ResultFits
  <1>16. StoreOK' /\ Kept'
    BY <1>1, <1>5, <1>6, <1>12, ResultFields, StoreKept
  <1>17. NoSecond(c)'
    BY <1>13, Zenon DEF NoSecond
  <1>18. /\ request[d] = request'[c] /\ result[d].path = "model"
         /\ result[d].value = result'[c].value
    BY <1>3, <1>12, <1>13, ResultFields
  <1> QED
    BY <1>1, <1>6, <1>7, <1>8, <1>11, <1>12, <1>14, <1>15, <1>16, <1>17, <1>18,
       ResultFields, StepOfOne

LEMMA StepAsk ==
  ASSUME LLMInv, NEW c \in Calls, Ask(c)
  PROVE  LLMInv'
  <1>1. PICK r \in Requests : Begin(c, r) /\ ~(shared(r) /\ r \in Recorded)
    BY Zenon DEF Ask
  <1>2. /\ settings \in Settings /\ max_repairs \in Nat
        /\ pc \in [Calls -> Stage] /\ request \in [Calls -> Requests \cup {NoRequest}]
        /\ before \in [Calls -> SUBSET Calls] /\ asked \in [Calls -> Nat]
        /\ result \in [Calls -> Result]
        /\ store \in Seq(Entry) /\ Len(store) <= LRU_SIZE
        /\ forgotten \subseteq Requests
    BY Types
  <1>3. pc[c] = "idle" /\ result[c] = NoResult /\ asked[c] = 0
    BY <1>1 DEF Begin, LLMInv, CallOK
  <1>4. /\ settings' = settings /\ crashes' = crashes
        /\ pc' = [pc EXCEPT ![c] = "asking"]
        /\ request' = [request EXCEPT ![c] = r]
        /\ before' = [before EXCEPT ![c] = {b \in Calls : pc[b] = "returned"}]
        /\ asked' = [asked EXCEPT ![c] = @ + 1]
        /\ result' = result /\ store' = store /\ audit' = audit /\ forgotten' = forgotten
    BY <1>1, Zenon DEF Begin, Ask, Invoke
  <1>5. TypeOK'
    BY <1>2, <1>4 DEF LLMInv, TypeOK, Stage
  <1>6. /\ pc'[c] = "asking" /\ request'[c] = r /\ asked'[c] = 1
        /\ before'[c] = {b \in Calls : pc[b] = "returned"}
        /\ result'[c] = NoResult
        /\ \A b \in Calls \ {c} : /\ pc'[b] = pc[b] /\ request'[b] = request[b]
                                  /\ before'[b] = before[b] /\ asked'[b] = asked[b]
                                  /\ result'[b] = result[b]
    BY <1>2, <1>3, <1>4
  <1>7. result'[c].path = "none"
    BY <1>6, ResultFields
  <1>8. CallOK(c)'
    BY <1>2, <1>3, <1>4, <1>6 DEF CallOK, max_repairs
  <1>9. ResultFits(c)'
    BY <1>6, Zenon DEF ResultFits
  <1>10. StoreOK' /\ Kept'
    <2>1. Recorded' = Recorded
      BY <1>4 DEF Recorded
    <2>2. \A i \in DOMAIN store' : \E j \in DOMAIN store : store'[i] = store[j]
      BY <1>4
    <2>3. ~Answering(c)'
      BY <1>7 DEF Answering
    <2> QED
      BY <1>3, <1>4, <1>6, <2>1, <2>2, <2>3, ResultFields, StoreKept
  <1>11. NoSecond(c)'
    <2> SUFFICES ASSUME NEW d \in Calls, d \in before'[c], r = request'[d], shared(r),
                        result'[d].path \in {"model", "cache"}, r \notin forgotten'
                 PROVE  FALSE
      BY <1>6, Zenon DEF NoSecond
    <2>1. d # c
      BY <1>7
    <2>2. Answering(d) /\ request[d] = r /\ r \notin forgotten
      BY <1>4, <1>6, <2>1 DEF Answering
    <2>3. r \in Recorded
      BY <2>2, Zenon DEF LLMInv, Kept
    <2> QED
      BY <1>1, <2>3
  <1> QED
    BY <1>3, <1>4, <1>5, <1>6, <1>7, <1>8, <1>9, <1>10, <1>11, ResultFields, StepOfOne

\* A call that goes on, without touching the store: it asks again, ends with a
\* fallback or an exception, or returns what it recorded.
Goes(c, stage, n, res) ==
  /\ pc[c] \in {"asking", "repairing", "persisting"}
  /\ pc' = [pc EXCEPT ![c] = stage] /\ asked' = [asked EXCEPT ![c] = n]
  /\ result' = [result EXCEPT ![c] = res] /\ n <= 2 + max_repairs
  /\ audit' = audit /\ store' = store /\ forgotten' = forgotten
  /\ settings' = settings /\ request' = request /\ before' = before /\ crashes' = crashes
  /\ \/ pc[c] # "persisting" /\ stage \in {"repairing", "raised"} /\ res = NoResult
     \/ pc[c] # "persisting" /\ stage = "returned" /\ res = fallback_result
     \/ pc[c] = "persisting" /\ stage = "returned" /\ res = result[c]

LEMMA StepOn ==
  ASSUME LLMInv, NEW c \in Calls, NEW stage, NEW n \in Nat, NEW res, Goes(c, stage, n, res)
  PROVE  LLMInv'
  <1> USE DEF Goes
  <1>1. /\ settings \in Settings /\ max_repairs \in Nat
        /\ pc \in [Calls -> Stage] /\ request \in [Calls -> Requests \cup {NoRequest}]
        /\ before \in [Calls -> SUBSET Calls] /\ asked \in [Calls -> Nat]
        /\ result \in [Calls -> Result]
        /\ store \in Seq(Entry) /\ Len(store) <= LRU_SIZE
        /\ forgotten \subseteq Requests
    BY Types
  <1>2. CallOK(c) /\ ResultFits(c)
    BY DEF LLMInv
  <1>3. /\ request[c] \in Requests /\ \A d \in before[c] : d # c /\ pc[d] = "returned"
        /\ pc[c] # "persisting" => result[c] = NoResult
        /\ pc[c] = "persisting" => result[c].path = "model"
    BY <1>2 DEF CallOK
  <1>4. res \in Result /\ stage \in {"repairing", "raised", "returned"}
    BY <1>1 DEF Result
  <1>5. TypeOK'
    BY <1>1, <1>4 DEF LLMInv, TypeOK, Stage
  <1>6. /\ pc'[c] = stage /\ asked'[c] = n /\ result'[c] = res
        /\ \A b \in Calls \ {c} : /\ pc'[b] = pc[b] /\ request'[b] = request[b]
                                  /\ before'[b] = before[b] /\ asked'[b] = asked[b]
                                  /\ result'[b] = result[b]
    BY <1>1
  <1>7. /\ res.path \in {"none", "fallback", "model"}
        /\ res.path = "none" => res = NoResult /\ stage # "returned"
        /\ res.path = "model" => res = result[c] /\ pc[c] = "persisting"
        /\ result[c].path = "model" => res = result[c]
    BY <1>3, ResultFields
  <1>8. CallOK(c)'
    <2>1. max_repairs' = max_repairs
      BY DEF max_repairs
    <2>2. \A d \in before'[c] : pc'[d] = "returned"
      <3>1. before[c] \subseteq Calls
        BY <1>1
      <3> QED
        BY <1>3, <1>6, <3>1
    <2>3. stage \in {"repairing", "raised"} => res = NoResult
      BY <1>7, ResultFields
    <2>4. stage = "returned" => res.path \in {"model", "cache", "fallback"}
      BY <1>7
    <2> QED
      BY <1>3, <1>4, <1>6, <2>1, <2>2, <2>3, <2>4 DEF CallOK
  <1>9. ResultFits(c)'
    <2>1. CASE res \in {NoResult, fallback_result}
      BY <1>6, <2>1, Zenon DEF ResultFits
    <2>2. CASE res = result[c] /\ pc[c] = "persisting"
      BY <1>2, <1>6, <2>2 DEF ResultFits
    <2> QED
      BY <2>1, <2>2
  <1>10. StoreOK' /\ Kept'
    <2>1. Recorded' = Recorded
      BY DEF Recorded
    <2>2. \A i \in DOMAIN store' : \E j \in DOMAIN store : store'[i] = store[j]
      OBVIOUS
    <2>3. Answering(c)' /\ shared(request'[c]) /\ request'[c] \notin forgotten'
          => request'[c] \in Recorded'
      <3> SUFFICES ASSUME Answering(c)', shared(request[c]), request[c] \notin forgotten
                   PROVE  request[c] \in Recorded
        BY <2>1
      <3>1. Answering(c)
        BY <1>6, <1>7 DEF Answering
      <3> QED
        BY <3>1, Zenon DEF LLMInv, Kept
    <2> QED
      BY <1>6, <1>7, <2>1, <2>2, <2>3, StoreKept
  <1> QED
    BY <1>5, <1>6, <1>7, <1>8, <1>9, <1>10, StepOfOne

\* The result of a model is recorded; what the store evicts is forgotten.
LEMMA StepRecord ==
  ASSUME LLMInv, NEW c \in Calls, pc[c] \in {"asking", "repairing"},
         NEW v \in Content(request[c].kind), Record(c, v),
         settings' = settings, request' = request, before' = before, crashes' = crashes
  PROVE  LLMInv'
  <1> DEFINE r == request[c]
             e == [key |-> r, value |-> v]
  <1>1. /\ settings \in Settings /\ max_repairs \in Nat
        /\ pc \in [Calls -> Stage] /\ request \in [Calls -> Requests \cup {NoRequest}]
        /\ before \in [Calls -> SUBSET Calls] /\ asked \in [Calls -> Nat]
        /\ result \in [Calls -> Result]
        /\ store \in Seq(Entry) /\ Len(store) <= LRU_SIZE
        /\ forgotten \subseteq Requests
    BY Types
  <1>2. CallOK(c)
    BY DEF LLMInv
  <1>3. /\ r \in Requests /\ \A d \in before[c] : d # c /\ pc[d] = "returned"
        /\ result[c] = NoResult /\ asked[c] <= 2 + max_repairs
    BY <1>2 DEF CallOK
  <1>4. v \in Contents /\ model_result(v) \in Result
    BY <1>3, ResultsOfContent
  <1>5. e \in Entry /\ e.key = r /\ e.value = v
    BY <1>3, <1>4 DEF Entry
  <1> HIDE DEF e, r
  <1>6. /\ pc' = [pc EXCEPT ![c] = "persisting"] /\ asked' = asked /\ audit' = audit
        /\ result' = [result EXCEPT ![c] = model_result(v)]
        /\ store' = IF shared(r) THEN lru_put(store, e) ELSE store
        /\ forgotten' = forgotten \cup (Recorded \ Recorded')
    BY DEF Record, Recorded, e, r
  <1>7. /\ store' \in Seq(Entry) /\ Len(store') <= LRU_SIZE
        /\ shared(r) => r \in Recorded'
        /\ \A i \in DOMAIN store' : \/ store'[i] = e /\ shared(r)
                                    \/ \E j \in DOMAIN store : store'[i] = store[j]
    <2>1. CASE shared(r)
      <3> DEFINE u == lru_put(store, e)
      <3>1. /\ u \in Seq(Entry) /\ Len(u) <= LRU_SIZE /\ e.key \in KeysOf(u)
            /\ \A i \in DOMAIN u : u[i] = e \/ \E j \in DOMAIN store : u[i] = store[j]
        BY <1>1, <1>5, LruPut
      <3>2. store' = u
        BY <1>6, <2>1
      <3>3. Recorded' = KeysOf(u)
        BY <3>2 DEF Recorded, KeysOf
      <3> HIDE DEF u
      <3> QED
        BY <1>5, <2>1, <3>1, <3>2, <3>3, Zenon
    <2>2. CASE ~shared(r)
      BY <1>1, <1>6, <2>2
    <2> QED
      BY <2>1, <2>2
  <1>8. Recorded \subseteq Requests
    <2>1. \A i \in DOMAIN store : store[i].key \in Requests
      BY DEF LLMInv, StoreOK
    <2> QED
      BY <2>1, Zenon DEF Recorded
  <1>9. TypeOK'
    BY <1>1, <1>4, <1>6, <1>7, <1>8 DEF LLMInv, TypeOK, Stage, Entry
  <1>10. /\ pc'[c] = "persisting" /\ result'[c] = model_result(v) /\ request'[c] = r
         /\ asked'[c] = asked[c] /\ before'[c] = before[c]
         /\ \A b \in Calls \ {c} : /\ pc'[b] = pc[b] /\ request'[b] = request[b]
                                   /\ before'[b] = before[b] /\ asked'[b] = asked[b]
                                   /\ result'[b] = result[b]
    BY <1>1, <1>6 DEF r
  <1>11. result'[c].path = "model" /\ result[c].path = "none"
    BY <1>3, <1>10, ResultFields
  <1>12. CallOK(c)'
    <2>1. max_repairs' = max_repairs
      BY DEF max_repairs
    <2>2. before[c] \subseteq Calls
      BY <1>1
    <2>3. \A d \in before'[c] : pc'[d] = "returned"
      BY <1>3, <1>10, <2>2
    <2> QED
      BY <1>3, <1>10, <1>11, <2>1, <2>3 DEF CallOK
  <1>13. ResultFits(c)'
    BY <1>10, Zenon DEF ResultFits, r
  <1>14. StoreOK'
    <2> SUFFICES ASSUME NEW i \in DOMAIN store'
                 PROVE  /\ store'[i].key \in Requests /\ shared(store'[i].key)
                        /\ \E d \in Calls : /\ request'[d] = store'[i].key
                                            /\ result'[d] = model_result(store'[i].value)
      BY Zenon DEF StoreOK
    <2>1. CASE store'[i] = e /\ shared(r)
      BY <1>3, <1>5, <1>10, <2>1
    <2>2. CASE \E j \in DOMAIN store : store'[i] = store[j]
      <3>1. PICK j \in DOMAIN store : store'[i] = store[j]
        BY <2>2
      <3>2. store[j].key \in Requests /\ shared(store[j].key)
        BY Zenon DEF LLMInv, StoreOK
      <3>3. PICK d \in Calls : /\ request[d] = store[j].key
                               /\ result[d] = model_result(store[j].value)
        BY Zenon DEF LLMInv, StoreOK
      <3>4. d # c
        BY <1>11, <3>3, ResultFields
      <3> QED
        BY <1>10, <3>1, <3>2, <3>3, <3>4
    <2> QED
      BY <1>7, <2>1, <2>2
  <1>15. Kept'
    <2> SUFFICES ASSUME NEW d \in Calls, Answering(d)', shared(request'[d]),
                        request'[d] \notin forgotten'
                 PROVE  request'[d] \in Recorded'
      BY Zenon DEF Kept
    <2>1. CASE d = c
      BY <1>7, <1>10, <2>1
    <2>2. CASE d # c
      <3>1. Answering(d) /\ shared(request[d]) /\ request[d] \notin forgotten
        BY <1>6, <1>10, <2>2 DEF Answering
      <3>2. request[d] \in Recorded
        BY <3>1, Zenon DEF LLMInv, Kept
      <3> QED
        BY <1>6, <1>10, <2>2, <3>2
    <2> QED
      BY <2>1, <2>2
  <1>16. forgotten \subseteq forgotten' /\ pc[c] # "idle" /\ result'[c].path # "cache"
    BY <1>6, <1>11
  <1> QED
    BY <1>9, <1>10, <1>11, <1>12, <1>13, <1>14, <1>15, <1>16, StepOfOne

\* An answer that fits has content that fits the request.
LEMMA AnswerFits ==
  ASSUME NEW kind, NEW a \in Answer(kind), a.fits
  PROVE  a.content \in Content(kind)
  <1>1. CASE a = Malformed
    BY <1>1 DEF Malformed
  <1>2. CASE a \in [fits : {TRUE}, grounded : BOOLEAN, content : Content(kind)]
    BY <1>2
  <1> QED
    BY <1>1, <1>2 DEF Answer

\* A call ends with a fallback.
LEMMA StepFallback ==
  ASSUME LLMInv, NEW c \in Calls, pc[c] \in {"asking", "repairing"}, Fallback(c),
         settings' = settings, request' = request, before' = before, crashes' = crashes
  PROVE  LLMInv'
  <1>1. /\ result' = [result EXCEPT ![c] = fallback_result]
        /\ pc' = [pc EXCEPT ![c] = "returned"] /\ asked' = [asked EXCEPT ![c] = 0]
        /\ emit_audit(c, fallback_result)
        /\ store' = store /\ forgotten' = forgotten
    BY DEF Fallback, Return
  <1>2. audit' = audit
    BY <1>1, ResultFields, RecordIsDropped
  <1>3. max_repairs \in Nat
    BY Types
  <1>4. Goes(c, "returned", 0, fallback_result)
    BY <1>1, <1>2, <1>3 DEF Goes
  <1> QED
    BY <1>4, StepOn

\* A call asks once more, while its budget lasts.
LEMMA StepInvoke ==
  ASSUME LLMInv, NEW c \in Calls, Invoke(c, "repairing"),
         pc[c] = "asking" \/ (pc[c] = "repairing" /\ budget_left(c)),
         settings' = settings, request' = request, before' = before, crashes' = crashes
  PROVE  LLMInv'
  <1>1. /\ pc' = [pc EXCEPT ![c] = "repairing"]
        /\ asked' = [asked EXCEPT ![c] = asked[c] + 1]
        /\ result' = result /\ store' = store /\ audit' = audit /\ forgotten' = forgotten
    BY DEF Invoke
  <1>2. asked[c] \in Nat /\ max_repairs \in Nat /\ result \in [Calls -> Result]
    BY Types
  <1>3. CallOK(c)
    BY DEF LLMInv
  <1>4. result[c] = NoResult /\ (pc[c] = "asking" => asked[c] = 1)
    BY <1>3 DEF CallOK
  <1>5. asked[c] + 1 \in Nat /\ asked[c] + 1 <= 2 + max_repairs
    BY <1>2, <1>4 DEF budget_left
  <1>6. result' = [result EXCEPT ![c] = NoResult]
    BY <1>1, <1>2, <1>4
  <1>7. Goes(c, "repairing", asked[c] + 1, NoResult)
    BY <1>1, <1>5, <1>6 DEF Goes
  <1> QED
    BY <1>5, <1>7, StepOn

LEMMA StepProgress ==
  ASSUME LLMInv, NEW c \in Calls, Progress(c)
  PROVE  LLMInv'
  <1>1. CASE Answered(c)
    <2>1. /\ pc[c] = "asking" /\ settings' = settings /\ request' = request
          /\ before' = before /\ crashes' = crashes
      BY <1>1, Zenon DEF Answered
    <2>2. PICK a \in Answer(request[c].kind) : \/ a.fits /\ Record(c, a.content)
                                               \/ ~a.fits /\ Invoke(c, "repairing")
      BY <1>1, Zenon DEF Answered
    <2>3. CASE a.fits /\ Record(c, a.content)
      <3>1. a.content \in Content(request[c].kind)
        BY <2>3, AnswerFits
      <3> QED
        BY <2>1, <2>3, <3>1, StepRecord
    <2>4. CASE Invoke(c, "repairing")
      BY <2>1, <2>4, StepInvoke
    <2> QED
      BY <2>2, <2>3, <2>4
  <1>2. CASE Fails(c)
    <2>1. /\ pc[c] = "asking" /\ settings' = settings /\ request' = request
          /\ before' = before /\ crashes' = crashes /\ Fallback(c)
      BY <1>2, Zenon DEF Fails
    <2> QED
      BY <2>1, StepFallback
  <1>3. CASE Repaired(c)
    <2>1. /\ pc[c] = "repairing" /\ settings' = settings /\ request' = request
          /\ before' = before /\ crashes' = crashes
      BY <1>3, Zenon DEF Repaired
    <2>2. PICK a \in Answer(request[c].kind) :
            \/ a.fits /\ a.grounded /\ Record(c, a.content)
            \/ budget_left(c) /\ Invoke(c, "repairing")
            \/ Fallback(c)
      BY <1>3, Zenon DEF Repaired
    <2>3. CASE a.fits /\ Record(c, a.content)
      <3>1. a.content \in Content(request[c].kind)
        BY <2>3, AnswerFits
      <3> QED
        BY <2>1, <2>3, <3>1, StepRecord
    <2>4. CASE budget_left(c) /\ Invoke(c, "repairing")
      BY <2>1, <2>4, StepInvoke
    <2>5. CASE Fallback(c)
      BY <2>1, <2>5, StepFallback
    <2> QED
      BY <2>2, <2>3, <2>4, <2>5
  <1>4. CASE Raises(c)
    <2>1. max_repairs \in Nat /\ result \in [Calls -> Result]
      BY Types
    <2>2. pc[c] = "repairing" /\ CallOK(c)
      BY <1>4 DEF Raises, LLMInv
    <2>3. result[c] = NoResult
      BY <2>2 DEF CallOK
    <2>4. result' = [result EXCEPT ![c] = NoResult]
      BY <1>4, <2>1, <2>3 DEF Raises
    <2>5. /\ pc' = [pc EXCEPT ![c] = "raised"] /\ asked' = [asked EXCEPT ![c] = 0]
          /\ settings' = settings /\ request' = request /\ before' = before
          /\ store' = store /\ audit' = audit /\ forgotten' = forgotten
          /\ crashes' = crashes /\ pc[c] = "repairing"
      BY <1>4, Zenon DEF Raises
    <2>6. 0 <= 2 + max_repairs
      BY <2>1
    <2>7. Goes(c, "raised", 0, NoResult)
      BY <2>4, <2>5, <2>6, Zenon DEF Goes
    <2> QED
      BY <2>7, StepOn
  <1>5. CASE Persisted(c)
    <2>1. pc[c] = "persisting" /\ CallOK(c)
      BY <1>5 DEF Persisted, LLMInv
    <2>2. result[c].path = "model"
      BY <2>1 DEF CallOK
    <2>3. audit' = audit
      BY <1>5, <2>2, RecordIsDropped DEF Persisted, Return
    <2>4. max_repairs \in Nat
      BY Types
    <2>5. Goes(c, "returned", 0, result[c])
      BY <1>5, <2>1, <2>3, <2>4 DEF Persisted, Return, Goes
    <2> QED
      BY <2>5, StepOn
  <1> QED
    BY <1>1, <1>2, <1>3, <1>4, <1>5 DEF Progress

\* After a crash the store is empty and all that it held is forgotten.
LEMMA StepCrash ==
  ASSUME LLMInv, Crash
  PROVE  LLMInv'
  <1>1. /\ settings \in Settings /\ max_repairs \in Nat
        /\ pc \in [Calls -> Stage] /\ request \in [Calls -> Requests \cup {NoRequest}]
        /\ before \in [Calls -> SUBSET Calls] /\ asked \in [Calls -> Nat]
        /\ result \in [Calls -> Result]
        /\ store \in Seq(Entry) /\ Len(store) <= LRU_SIZE
        /\ forgotten \subseteq Requests
    BY Types
  <1>2. /\ crashes < MaxCrashes /\ crashes' = crashes + 1 /\ store' = <<>>
        /\ pc' = [c \in Calls |-> IF pc[c] \in {"asking", "repairing", "persisting"}
                                    THEN "lost" ELSE pc[c]]
        /\ forgotten' = forgotten \cup Recorded
        /\ asked' = [c \in Calls |-> 0]
        /\ settings' = settings /\ request' = request /\ before' = before
        /\ result' = result /\ audit' = audit
    BY DEF Crash
  <1>3. Recorded \subseteq Requests
    <2>1. \A i \in DOMAIN store : store[i].key \in Requests
      BY DEF LLMInv, StoreOK
    <2> QED
      BY <2>1, Zenon DEF Recorded
  <1>4. crashes' \in 0 .. MaxCrashes
    BY <1>2, LLMAssumption DEF LLMInv, TypeOK
  <1>5. pc' \in [Calls -> Stage]
    BY <1>1, <1>2 DEF Stage
  <1>6. store' \in Seq([key : Requests, value : Contents]) /\ Len(store') <= LRU_SIZE
    BY <1>2, LLMAssumption
  <1>7. TypeOK'
    BY <1>1, <1>2, <1>3, <1>4, <1>5, <1>6 DEF LLMInv, TypeOK
  <1>8. \A c \in Calls : /\ asked'[c] = 0
                         /\ pc'[c] = pc[c] \/ (pc'[c] = "lost" /\ pc[c] \notin {"idle", "returned"})
    BY <1>2
  <1>9. ASSUME NEW c \in Calls PROVE (CallOK(c) /\ ResultFits(c))'
    <2>1. CallOK(c) /\ ResultFits(c) /\ before[c] \subseteq Calls
      BY <1>1 DEF LLMInv
    <2>2. max_repairs' = max_repairs
      BY <1>2 DEF max_repairs
    <2>3. \A d \in before'[c] : pc'[d] = "returned"
      BY <1>2, <1>8, <2>1 DEF CallOK
    <2>4. pc'[c] # "asking"
      BY <1>2
    <2>5. CallOK(c)'
      BY <1>1, <1>2, <1>8, <2>1, <2>2, <2>3, <2>4 DEF CallOK
    <2>6. ResultFits(c)'
      BY <1>2, <1>8, <2>1 DEF ResultFits
    <2> QED
      BY <2>5, <2>6
  <1>10. StoreOK'
    BY <1>2 DEF StoreOK
  <1>11. Kept'
    BY <1>2, Zenon DEF LLMInv, Kept, Answering
  <1>12. NoSecondReasoning'
    <2> SUFFICES ASSUME NEW c \in Calls, NEW d \in Calls,
                        d \in before[c], request[c] = request[d], shared(request[c]),
                        result[d].path \in {"model", "cache"}, request[c] \notin forgotten'
                 PROVE  pc'[c] = "idle" \/ result[c].path = "cache"
      BY <1>2, Zenon DEF NoSecondReasoning
    <2>1. request[c] \notin forgotten
      BY <1>2
    <2>2. pc[c] = "idle" \/ result[c].path = "cache"
      BY <2>1, Zenon DEF LLMInv, NoSecondReasoning
    <2> QED
      BY <1>8, <2>2
  <1>13. ReplayIsAnAnswer'
    BY <1>2, Zenon DEF LLMInv, ReplayIsAnAnswer
  <1> QED
    BY <1>7, <1>9, <1>10, <1>11, <1>12, <1>13 DEF LLMInv

LEMMA InitLLM ==
  ASSUME Init
  PROVE  LLMInv
  <1>1. /\ settings \in Settings
        /\ \A c \in Calls : /\ pc[c] = "idle" /\ request[c] = NoRequest /\ before[c] = {}
                            /\ asked[c] = 0 /\ result[c] = NoResult
        /\ store = <<>> /\ forgotten = {}
    BY DEF Init
  <1>2. max_repairs \in Nat
    BY <1>1, RepairsAreNatural
  <1>3. TypeOK
    BY LLMAssumption DEF Init, TypeOK, Stage, Result
  <1>4. StoreOK
    BY <1>1 DEF StoreOK
  <1>5. \A c \in Calls : result[c].path = "none"
    BY <1>1, ResultFields
  <1>6. Kept /\ NoSecondReasoning /\ ReplayIsAnAnswer
    BY <1>1, <1>5 DEF Kept, NoSecondReasoning, ReplayIsAnAnswer, Answering
  <1>7. \A c \in Calls : CallOK(c)
    BY <1>1, <1>2 DEF CallOK
  <1>8. \A c \in Calls : ResultFits(c)
    BY <1>1, Zenon DEF ResultFits
  <1> QED
    BY <1>3, <1>4, <1>6, <1>7, <1>8 DEF LLMInv

-----------------------------------------------------------------------------
\* What the invariant implies.

\* A call that returned has an answer of the model to its request, or its
\* caller's fallback, or, if it is a draft, an answer from the store.
LEMMA ReturnedFits ==
  ASSUME LLMInv, NEW c \in Calls, pc[c] = "returned"
  PROVE  \/ result[c] = fallback_result
         \/ \E v \in Content(request[c].kind) :
              \/ result[c] = model_result(v)
              \/ result[c] = cached_result(v) /\ shared(request[c])
  <1>1. CallOK(c) /\ ResultFits(c)
    BY DEF LLMInv
  <1>2. result[c] # NoResult
    BY <1>1, ResultFields DEF CallOK
  <1> QED
    BY <1>1, <1>2, Zenon DEF ResultFits

LEMMA BoundFromInv ==
  ASSUME LLMInv
  PROVE  CallsAreBounded
  <1>1. \A c \in Calls : asked[c] <= 2 + max_repairs
    BY Zenon DEF LLMInv, CallOK
  <1>2. settings.environment # Absent => max_repairs = settings.environment
    BY DEF max_repairs, resolve_profile
  <1>3. max_repairs \in Nat
    BY RepairsAreNatural DEF LLMInv, TypeOK
  <1>4. DocumentedBudget(max_repairs) + 1 = 2 + max_repairs
    BY <1>3 DEF DocumentedBudget
  <1>5. \A c \in Calls : asked[c] <= DocumentedBudget(max_repairs) + 1
    BY <1>1, <1>4, Zenon
  <1> QED
    BY <1>2, <1>5, Zenon DEF CallsAreBounded

\* A triage is its own triage if its ambiguity is what its confidence implies.
LEMMA TriageFields ==
  ASSUME NEW k, NEW review, NEW ambiguous, NEW confidence, (confidence < 7) = ambiguous
  PROVE  LET v == triage(k, review, ambiguous, confidence)
         IN  to_triage(v.issue_type, v) = v
  <1> DEFINE v == triage(k, review, ambiguous, confidence)
  <1>1. /\ v.issue_type = k /\ v.needs_refund_review = review
        /\ v.confidence = confidence
    BY Zenon DEF triage
  <1>2. to_triage(v.issue_type, v)
          = triage(v.issue_type, v.needs_refund_review, v.confidence < 7, v.confidence)
    BY Zenon DEF to_triage
  <1> HIDE DEF v
  <1>3. to_triage(v.issue_type, v) = triage(k, review, ambiguous, confidence)
    BY <1>1, <1>2, Zenon
  <1> QED
    BY <1>3, Zenon DEF v

\* Deriving ambiguity again from the confidence gives what classify() said.
LEMMA TriageOfFallback ==
  ASSUME NEW reason \in Reason
  PROVE  to_triage(classify(reason).issue_type, classify(reason)) = classify(reason)
  <1>1. CASE reason = "signal"
    <2>1. classify(reason) = triage("refund_request", TRUE, FALSE, 10)
      BY <1>1 DEF classify
    <2>2. (10 < 7) = FALSE
      BY SMT
    <2> QED
      BY <2>1, <2>2, TriageFields, Zenon
  <1>2. CASE reason = "short"
    <2>1. classify(reason) = triage("unknown", TRUE, TRUE, 5)
      BY <1>2 DEF classify
    <2>2. (5 < 7) = TRUE
      BY SMT
    <2> QED
      BY <2>1, <2>2, TriageFields, Zenon
  <1>3. CASE reason = "other"
    <2>1. classify(reason) = triage("general_inquiry", FALSE, FALSE, 9)
      BY <1>3 DEF classify
    <2>2. (9 < 7) = FALSE
      BY SMT
    <2> QED
      BY <2>1, <2>2, TriageFields, Zenon
  <1> QED
    BY <1>1, <1>2, <1>3 DEF Reason

LEMMA TriageFromInv ==
  ASSUME LLMInv
  PROVE  FailureKeepsTriage
  <1> SUFFICES ASSUME NEW c \in Returned("classify") \cup Raised("classify"),
                      NEW reason \in Reason, result[c].path # "model"
               PROVE  intake_triage(c, reason) = classify(reason)
    BY DEF FailureKeepsTriage
  <1>1. CASE pc[c] = "raised"
    BY <1>1 DEF intake_triage
  <1>2. CASE pc[c] # "raised"
    <2>1. c \in Calls /\ pc[c] = "returned" /\ request[c].kind = "classify"
      BY <1>2 DEF Returned, Raised
    <2>2. ~shared(request[c])
      BY <2>1 DEF shared
    <2>3. \/ result[c] = fallback_result
          \/ \E v \in Content(request[c].kind) : result[c] = model_result(v)
      BY <2>1, <2>2, ReturnedFits
    <2>4. result[c] = fallback_result
      BY <2>3, ResultFields
    <2>5. result[c].form # "dict" /\ result[c].path = "fallback"
      BY <2>4, ResultFields
    <2>6. classify_with_llm(reason, result[c])
            = to_triage(classify(reason).issue_type, classify(reason))
      BY <2>5 DEF classify_with_llm
    <2> QED
      BY <1>2, <2>6, TriageOfFallback DEF intake_triage
  <1> QED
    BY <1>1, <1>2

LEMMA DraftFromInv ==
  ASSUME LLMInv
  PROVE  DraftIsSafe
  <1> SUFFICES ASSUME NEW c \in Returned("draft_response"), NEW outcome \in Outcome
               PROVE  LET draft == draft_with_llm(outcome, result[c])
                      IN  /\ ~draft.leaks
                          /\ draft.body = "template" /\ outcome \in HUMAN_APPROVAL_OUTCOMES
                               => draft.requires_human_approval
                          /\ draft.body = "template" /\ result[c].path # "cache"
                               => draft.requires_human_approval
    BY DEF DraftIsSafe
  <1> DEFINE template == draft_structured_response(outcome)
             safe == with_approval(template)
             draft == draft_with_llm(outcome, result[c])
  <1>1. c \in Calls /\ pc[c] = "returned" /\ request[c].kind = "draft_response"
    BY DEF Returned
  <1>2. /\ template.leaks = FALSE /\ template.body = "template"
        /\ outcome \in HUMAN_APPROVAL_OUTCOMES => template.requires_human_approval
    BY DEF draft_structured_response
  <1>3. safe.leaks = FALSE /\ safe.body = "template" /\ safe.requires_human_approval
    BY DEF draft_structured_response, with_approval
  <1>4. CASE result[c] = fallback_result
    <2>1. result[c].form # "dict" /\ result[c].path = "fallback"
      BY <1>4, ResultFields
    <2>2. drafted(outcome, result[c]) = template
      BY <2>1 DEF drafted
    <2>3. draft = safe
      BY <1>2, <2>1, <2>2 DEF draft_with_llm
    <2> HIDE DEF draft, safe
    <2> QED
      BY <1>3, <2>3 DEF draft
  <1>5. ASSUME NEW v \in Content(request[c].kind), result[c] = cached_result(v)
        PROVE  /\ ~draft.leaks
               /\ outcome \in HUMAN_APPROVAL_OUTCOMES => draft.requires_human_approval
               /\ result[c].path = "cache"
    <2>1. result[c].form = "dict" /\ result[c].path = "cache"
      BY <1>5, ResultFields
    <2>2. draft = template
      BY <2>1 DEF draft_with_llm
    <2> HIDE DEF draft, template
    <2> QED
      BY <1>2, <2>1, <2>2
  <1>6. ASSUME NEW v \in Content(request[c].kind), result[c] = model_result(v)
        PROVE  /\ ~draft.leaks
               /\ draft.body = "template" => draft.requires_human_approval
    <2>1. result[c].form # "dict" /\ result[c].path = "model" /\ result[c].value = v
      BY <1>6, ResultFields
    <2>2. v.leaks \in BOOLEAN
      <3>1. Content(request[c].kind) = Drafts
        BY <1>1 DEF Content
      <3>2. v \in Draft
        BY <3>1, LLMAssumption
      <3> QED
        BY <3>2 DEF Draft
    <2> DEFINE d == drafted(outcome, result[c])
    <2>3. d.leaks = v.leaks /\ d.body = "model"
      BY <2>1 DEF drafted
    <2>4. CASE v.leaks
      <3>1. draft = safe
        BY <2>1, <2>3, <2>4 DEF draft_with_llm
      <3> HIDE DEF draft, safe
      <3> QED
        BY <1>3, <3>1
    <2>5. CASE ~v.leaks
      <3>1. draft = d
        BY <2>1, <2>3, <2>5 DEF draft_with_llm
      <3> HIDE DEF draft, d
      <3> QED
        BY <2>3, <2>5, <3>1
    <2> QED
      BY <2>2, <2>4, <2>5
  <1> HIDE DEF draft, safe, template
  <1>7. \/ result[c] = fallback_result
        \/ \E v \in Content(request[c].kind) :
             result[c] = model_result(v) \/ result[c] = cached_result(v)
    BY <1>1, ReturnedFits
  <1> QED
    BY <1>4, <1>5, <1>6, <1>7 DEF draft

LEMMA SummaryFromInv ==
  ASSUME LLMInv
  PROVE  SummaryNeverFailsTask
  <1> SUFFICES ASSUME NEW c \in Returned("summarize_reasoning") \cup Raised("summarize_reasoning")
               PROVE  report_is_built(narrative(c))
    BY DEF SummaryNeverFailsTask
  <1>1. CASE pc[c] = "raised"
    BY <1>1 DEF narrative, report_is_built
  <1>2. CASE pc[c] # "raised"
    <2>1. c \in Calls /\ pc[c] = "returned" /\ request[c].kind = "summarize_reasoning"
      BY <1>2 DEF Returned, Raised
    <2>2. ~shared(request[c])
      BY <2>1 DEF shared
    <2>3. \/ result[c] = fallback_result
          \/ \E v \in Content(request[c].kind) : result[c] = model_result(v)
      BY <2>1, <2>2, ReturnedFits
    <2>4. result[c].form = "object"
      BY <2>3, ResultFields
    <2>5. narrative(c).form = "object"
      BY <1>2, <2>4 DEF narrative
    <2> QED
      BY <2>5 DEF report_is_built
  <1> QED
    BY <1>1, <1>2

-----------------------------------------------------------------------------
\* The theorems.

\* Between any two steps of concurrent calls, and across crashes, the variables
\* of a call agree with its stage, its result fits its request, an entry of the
\* store is a model's answer to its key, and what was answered is in the store
\* unless it was evicted or lost.
THEOREM LLMInvariance == Spec => []LLMInv
  <1>1. Init => LLMInv
    BY InitLLM
  <1>2. LLMInv /\ [Next]_vars => LLMInv'
    <2> SUFFICES ASSUME LLMInv, [Next]_vars PROVE LLMInv'
      OBVIOUS
    <2>1. CASE \E c \in Calls : ServeFromCache(c) \/ Ask(c) \/ Progress(c)
      <3>1. PICK c \in Calls : ServeFromCache(c) \/ Ask(c) \/ Progress(c)
        BY <2>1
      <3> QED
        BY <3>1, StepServe, StepAsk, StepProgress
    <2>2. CASE Crash
      BY <2>2, StepCrash
    <2>3. CASE UNCHANGED vars
      <3>1. /\ settings' = settings /\ pc' = pc /\ request' = request /\ before' = before
            /\ asked' = asked /\ result' = result /\ store' = store /\ audit' = audit
            /\ forgotten' = forgotten /\ crashes' = crashes
        BY <2>3, Zenon DEF vars, call
      <3>2. TypeOK' = TypeOK
        BY <3>1 DEF TypeOK
      <3>3. StoreOK' = StoreOK
        BY <3>1 DEF StoreOK
      <3>4. Kept' = Kept
        BY <3>1 DEF Kept, Answering, Recorded
      <3>5. NoSecondReasoning' = NoSecondReasoning
        BY <3>1 DEF NoSecondReasoning
      <3>6. ReplayIsAnAnswer' = ReplayIsAnAnswer
        BY <3>1 DEF ReplayIsAnAnswer
      <3>7. \A c \in Calls : CallOK(c)' = CallOK(c)
        BY <3>1 DEF CallOK, max_repairs
      <3>8. \A c \in Calls : ResultFits(c)' = ResultFits(c)
        BY <3>1 DEF ResultFits
      <3> QED
        BY <3>2, <3>3, <3>4, <3>5, <3>6, <3>7, <3>8 DEF LLMInv
    <2> QED
      BY <2>1, <2>2, <2>3 DEF Next
  <1> QED
    BY <1>1, <1>2, PTL DEF Spec

\* The store of reason() never holds more than LRU_SIZE results, and no call
\* leaves its stages.
THEOREM TypeCorrect == Spec => []TypeOK
  <1>1. LLMInv => TypeOK
    BY DEF LLMInv
  <1> QED
    BY <1>1, LLMInvariance, PTL

\* No call of reason() asks the model more than once beyond the documented
\* budget of its profile, for every profile; AGENT_LLM_MAX_REPAIRS overrides
\* whatever the profiles file says.
THEOREM CostIsBounded == Spec => []CallsAreBounded
  <1> QED
    BY BoundFromInv, LLMInvariance, PTL

\* A request that reason() answered is not reasoned about by a call that begins
\* afterwards, as long as the store has not evicted or lost the answer.
THEOREM AnswerIsReused == Spec => []NoSecondReasoning
  <1>1. LLMInv => NoSecondReasoning
    BY DEF LLMInv
  <1> QED
    BY <1>1, LLMInvariance, PTL

\* What reason() replays is a model's answer to the same request.
THEOREM ReplayIsFaithful == Spec => []ReplayIsAnAnswer
  <1>1. LLMInv => ReplayIsAnAnswer
    BY DEF LLMInv
  <1> QED
    BY <1>1, LLMInvariance, PTL

\* Whatever fails in reason(), a ticket gets the triage of classify().
THEOREM TriageSurvivesFailure == Spec => []FailureKeepsTriage
  <1> QED
    BY TriageFromInv, LLMInvariance, PTL

\* No draft that the drafter returns leaks, and what replaces a model's text
\* waits for a human.
THEOREM DraftsAreSafe == Spec => []DraftIsSafe
  <1> QED
    BY DraftFromInv, LLMInvariance, PTL

\* A peer can always build its report from what reason() gave.
THEOREM ReportIsAlwaysBuilt == Spec => []SummaryNeverFailsTask
  <1> QED
    BY SummaryFromInv, LLMInvariance, PTL
=============================================================================
