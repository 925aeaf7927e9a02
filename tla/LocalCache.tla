----------------------------- MODULE LocalCache -----------------------------
(* The process-local layer (internal/local-cache.ts): an lru-cache bounded   *)
(* by entry count, whose entries carry a time to live read off a monotonic   *)
(* clock that is floored to whole milliseconds.  Time is counted in ticks of *)
(* a fraction of a millisecond, because both the floor and the boundary      *)
(* "expired at exactly the TTL" matter.                                      *)
EXTENDS Integers, Sequences, FiniteSets

CONSTANTS Keys, Values,
          MaxSizes,     \* values of localMaxSize; zero turns the layer off
          TtlSecs,      \* the TTLs that resolved policies carry
          MsPerSec,     \* milliseconds in a second (scaled down for TLC)
          TicksPerMs,   \* clock readings per millisecond
          MaxTime,      \* bound on time
          None

\* What is stored under a key, and what a put asked for.
Entries == [value : Values, start : Nat, ttl : Nat]
Puts == [value : Values, at : Nat, ttlMs : Nat]

\* The constructor validates localMaxSize, and resolved policies carry TTLs of at
\* least a second.
ASSUME LocalAssumption ==
    /\ MaxSizes \subseteq Nat /\ TtlSecs \subseteq Nat \ {0}
    /\ MsPerSec \in Nat /\ MsPerSec > 1
    /\ TicksPerMs \in Nat \ {0}
    /\ None \notin Entries /\ None \notin Puts

VARIABLES
    maxSize,    \* localMaxSize, fixed by the constructor
    clock,      \* performance.now(), in ticks
    order,      \* lru-cache's list, least recently used first
    entries,    \* the stored entry of every key in the list
    answer,     \* what the last operation of the layer was and returned
    puts,       \* history: the last put of every key
    since       \* history: the other keys used since the last use of a key

localVars == <<maxSize, clock, order, entries, answer, puts, since>>

NoAnswer == [op |-> "none"]

(* The clock lru-cache is given: whole milliseconds, never zero, because     *)
(* lru-cache takes a zero start for "no TTL".                                *)
now == (clock \div TicksPerMs) + 1

cacheTtlSecToMs(ttlSec) == ttlSec * MsPerSec

(* lru-cache's staleness test: an entry without TTL or start never expires.  *)
isStale(e) == e.ttl # 0 /\ e.start # 0 /\ now - e.start > e.ttl

Linked(s, k) == \E i \in 1..Len(s) : s[i] = k

Cached(k) == Linked(order, k)

(* Unlinking a key from the list, if it is there.                            *)
Without(s, k) ==
    IF Linked(s, k)
    THEN LET p == CHOOSE i \in 1..Len(s) : s[i] = k
         IN  [i \in 1..(Len(s) - 1) |-> IF i < p THEN s[i] ELSE s[i + 1]]
    ELSE s

(* Moving a key to the recently used end of the list.                        *)
Touch(s, k) == Append(Without(s, k), k)

(* lru-cache's set: the entry goes to the recently used end, and the least   *)
(* recently used ones leave while there are more than maxSize.               *)
Evicted(s) == SubSeq(s, Len(s) - maxSize + 1, Len(s))

lruSet(k, e) ==
    LET s == Touch(order, k)
        kept == IF Len(s) > maxSize THEN Evicted(s) ELSE s
    IN  /\ order' = kept
        /\ entries' = [j \in Keys |-> IF ~Linked(kept, j) THEN None
                                      ELSE IF j = k THEN e ELSE entries[j]]

Used(k) ==
    since' = [j \in Keys |-> IF j = k THEN {} ELSE since[j] \cup {k}]

LocalInit ==
    /\ maxSize \in MaxSizes
    /\ clock = 0
    /\ order = <<>>
    /\ entries = [k \in Keys |-> None]
    /\ answer = NoAnswer
    /\ puts = [k \in Keys |-> None]
    /\ since = [k \in Keys |-> {}]

Tick ==
    /\ clock < MaxTime
    /\ clock' = clock + 1
    /\ answer' = NoAnswer
    /\ UNCHANGED <<maxSize, order, entries, puts, since>>

Stored(k, v, ttlSec, ttlMs) ==
    /\ answer' = NoAnswer
    /\ IF maxSize = 0
       THEN UNCHANGED <<order, entries>>
       ELSE lruSet(k, [value |-> v, start |-> now, ttl |-> ttlMs])
    /\ puts' = [puts EXCEPT ![k] =
           [value |-> v, at |-> clock, ttlMs |-> cacheTtlSecToMs(ttlSec)]]
    /\ Used(k)
    /\ UNCHANGED <<maxSize, clock>>

(* Faulty variant: the TTL itself.                                           *)
put_WholeTtl(k, v, ttlSec) == Stored(k, v, ttlSec, cacheTtlSecToMs(ttlSec))

(* put: lru-cache expires an entry when its age exceeds the TTL, so the TTL  *)
(* handed to it is one millisecond short.                                    *)
put(k, v, ttlSec) == Stored(k, v, ttlSec, cacheTtlSecToMs(ttlSec) - 1)

Answer(k, hit, value) ==
    answer' = [op |-> "get", key |-> k, hit |-> hit, value |-> value]

(* A hit moves its key to the recently used end.                             *)
GetHit(k) ==
    /\ Cached(k)
    /\ ~isStale(entries[k])
    /\ Answer(k, TRUE, entries[k].value)
    /\ order' = Touch(order, k)
    /\ Used(k)
    /\ UNCHANGED <<maxSize, clock, entries, puts>>

(* A get that finds a stale entry deletes it and misses.                     *)
GetStale(k) ==
    /\ Cached(k)
    /\ isStale(entries[k])
    /\ Answer(k, FALSE, None)
    /\ order' = Without(order, k)
    /\ entries' = [entries EXCEPT ![k] = None]
    /\ UNCHANGED <<maxSize, clock, puts, since>>

GetAbsent(k) ==
    /\ ~Cached(k)
    /\ Answer(k, FALSE, None)
    /\ UNCHANGED <<maxSize, clock, order, entries, puts, since>>

LocalNext ==
    \/ Tick
    \/ \E k \in Keys :
        \/ GetHit(k)
        \/ GetStale(k)
        \/ GetAbsent(k)
        \/ \E v \in Values, ttlSec \in TtlSecs : put(k, v, ttlSec)

LocalSpec == LocalInit /\ [][LocalNext]_localVars

-----------------------------------------------------------------------------
Age(k) == clock - puts[k].at

(* A get never returns a value as old as its TTL: it returns what the last   *)
(* put of the key stored, and only while the real age, not the floored one,  *)
(* is below the TTL in force at the put (put's "- 1", and the clock's floor  *)
(* and "+ 1").  Nor does the layer lose what it should keep: it never holds  *)
(* more than localMaxSize entries, and a key that was put, has more than a   *)
(* millisecond to live and has seen fewer than localMaxSize other keys used  *)
(* since it was last used is not missed.                                     *)
HitsAreExact ==
    /\ answer.op = "get" /\ answer.hit =>
          /\ answer.value = puts[answer.key].value
          /\ Age(answer.key) < puts[answer.key].ttlMs * TicksPerMs
    /\ Len(order) <= maxSize
    /\ \A k \in Keys :
          /\ puts[k] # None
          /\ Age(k) <= (puts[k].ttlMs - 1) * TicksPerMs
          /\ Cardinality(since[k]) < maxSize
          => Cached(k) /\ ~isStale(entries[k])
=============================================================================
