------------------------- MODULE IdempotencyTracker -------------------------
(***************************************************************************)
(* The tracker of processed ids that the A2A runtime and the event         *)
(* consumers use: a bounded LRU cache, as a sequence with the least        *)
(* recently used id first, and a compacted Kafka topic, as the sequence of *)
(* ids in the order of their last writes.                                  *)
(***************************************************************************)
EXTENDS Integers, Sequences

CONSTANT LRU_SIZE   \* _LRUCache maxsize

ASSUME TrackerAssumption == LRU_SIZE \in Nat \ {0}

Elements(s) == {s[i] : i \in DOMAIN s}

\* A sequence without its key t, which it holds once at most.
without(s, t) ==
  IF t \notin Elements(s) THEN s
  ELSE LET i == CHOOSE i \in DOMAIN s : s[i] = t
       IN  SubSeq(s, 1, i - 1) \o SubSeq(s, i + 1, Len(s))

\* Key t moved to, or added at, the end.
touch(s, t) == Append(without(s, t), t)

\* The last n elements of a sequence: an OrderedDict after popitem(last=False),
\* a deque with a maximal length.
newest(s, n) == IF Len(s) <= n THEN s ELSE SubSeq(s, Len(s) - n + 1, Len(s))

\* Mutant: nothing is evicted.
lru_add_unbounded(s, t) == touch(s, t)

lru_add(s, t) == newest(touch(s, t), LRU_SIZE)

\* Mutant: the cache starts empty.
rebuild_nothing(ids) == <<>>

\* _rebuild_from_topic adds the ids in the order of the topic.
rebuild(ids) == newest(ids, LRU_SIZE)

\* A rebuild that fails, or meets an empty poll too early, has read a prefix.
partial_rebuilds(ids) == {rebuild(SubSeq(ids, 1, n)) : n \in 0 .. Len(ids)}
=============================================================================
