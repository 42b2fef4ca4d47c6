------------------------------ MODULE BufferPool -----------------------------
(***************************************************************************)
(* The LRU cache of page payloads: pool maps the ids of the cached pages   *)
(* to their contents, lru lists them with the most recently used first.    *)
(***************************************************************************)
EXTENDS Naturals, Sequences, FiniteSets

CONSTANT Capacity

ASSUME CapacityAssumption == Capacity \in Nat \ {0}

VARIABLES pool, lru

poolVars == <<pool, lru>>

PoolInit == pool = << >> /\ lru = << >>

Listed(list) == {list[i] : i \in DOMAIN list}

\* touch(): the page moves from its place in the list to the front.
Touched(p) ==
  LET i == CHOOSE i \in DOMAIN lru : lru[i] = p
  IN  <<p>> \o SubSeq(lru, 1, i - 1) \o SubSeq(lru, i + 1, Len(lru))

\* An off-by-one in the loop's condition.
EvictedLate(list) == IF Len(list) > Capacity + 1 THEN SubSeq(list, 1, Capacity + 1) ELSE list

\* evictIfNeeded(): a list longer than the capacity loses its end.
Evicted(list) == IF Len(list) > Capacity THEN SubSeq(list, 1, Capacity) ELSE list

put(p, page) ==
  IF p \in DOMAIN pool
  THEN lru' = Touched(p) /\ pool' = [pool EXCEPT ![p] = page]
  ELSE LET list == Evicted(<<p>> \o lru)
       IN  /\ lru' = list
           /\ pool' = [q \in Listed(list) |-> IF q = p THEN page ELSE pool[q]]

=============================================================================
