------------------------------- MODULE Cache --------------------------------
(***************************************************************************)
(* internal/cache/cache.go: the TTL-respecting LRU.                        *)
(*                                                                         *)
(* Every method holds c.mu from beginning to end, so each one is one       *)
(* action.  The linked list is the sequence ll of its keys (front = most   *)
(* recently used) and the map with its list elements is the function       *)
(* items from the keys present to their entries.  The code never looks at  *)
(* the time itself, only at Expires.Sub(now): an entry keeps that          *)
(* difference, `left', in clock units, and Tick makes it shrink.  It stops *)
(* at 0, where the entry has expired, because every test is `<= 0'.        *)
(***************************************************************************)
EXTENDS Naturals, Sequences, FiniteSets, FiniteSetsExt

CONSTANTS
  Key,         \* the (name, qtype) pairs asked for
  MaxEntries,  \* cache.max_entries
  Second,      \* clock units in a second
  Value        \* the values stored: records with a field ttl, in seconds

ASSUME CacheAssumption ==
  /\ MaxEntries \in Nat \ {0}
  /\ Second \in Nat \ {0}
  /\ \A v \in Value : v.ttl \in Nat

VARIABLES ll, items

cacheVars == <<ll, items>>

Entry == [value : Value, left : Nat]

EmptyMap == [k \in {} |-> 0]

Expired(e) == e.left = 0

\* The remaining lifetime Get reports, rounded up to whole seconds.
RemainingTTL(e) == (e.left + Second - 1) \div Second

\* list.Remove of k's element, if there is one.
Without(l, k) ==
  LET at == CHOOSE i \in DOMAIN l : l[i] = k
  IN  IF \E i \in DOMAIN l : l[i] = k
      THEN [i \in 1..(Len(l) - 1) |-> l[IF i < at THEN i ELSE i + 1]]
      ELSE l

\* The list without the keys outside S: f[i] is what the first i leave.
Only(l, S) ==
  LET f[i \in 0..Len(l)] ==
        IF i = 0 THEN <<>>
        ELSE IF l[i] \in S THEN Append(f[i - 1], l[i]) ELSE f[i - 1]
  IN  f[Len(l)]

MoveToFront(l, k) == <<k>> \o Without(l, k)

Put(m, k, e) == [x \in DOMAIN m \cup {k} |-> IF x = k THEN e ELSE m[x]]

Keep(m, S) == [x \in DOMAIN m \cap S |-> m[x]]

-----------------------------------------------------------------------------
\* Get finds an unexpired entry.
Present(k) == k \in DOMAIN items /\ ~ Expired(items[k])

\* A mutated form: a hit renews the entry.
TouchRenewing(k) ==
  /\ ll' = MoveToFront(ll, k)
  /\ items' = Put(items, k, [items[k] EXCEPT !.left = @ + 1])

\* What Get does to a live entry, and to one that is missing or expired.
Touch(k) ==
  /\ ll' = MoveToFront(ll, k)
  /\ items' = items

DropExpired(k) ==
  /\ ll' = Without(ll, k)
  /\ items' = Keep(items, Key \ {k})

Get(k) ==
  \/ Present(k) /\ Touch(k)
  \/ ~ Present(k) /\ DropExpired(k)

\* A mutated form: the scan for expired entries is left out.
VictimLRU(l, m) == l[Len(l)]

\* The entry evictLocked removes: the expired one nearest the LRU end of the
\* list, else the LRU tail.
Victim(l, m) ==
  LET dead == { i \in DOMAIN l : Expired(m[l[i]]) }
  IN  IF dead # {} THEN l[Max(dead)] ELSE l[Len(l)]

\* What evictLocked leaves of the list and the map.  setLocked has just added
\* one entry to a cache within its capacity, so the loop's body runs at most
\* once.
EvictLocked(l, m) ==
  LET victim == Victim(l, m)
  IN  IF Len(l) > MaxEntries
      THEN [ll |-> Without(l, victim), items |-> Keep(m, Key \ {victim})]
      ELSE [ll |-> l, items |-> m]

\* The entry setLocked makes of a value.
Fresh(v) == [value |-> v, left |-> v.ttl * Second]

\* A mutated form: the entry replaced keeps its old place and a second list
\* element is pushed.
SetLockedPushing(k, v) ==
  LET after == EvictLocked(<<k>> \o ll, Put(items, k, Fresh(v)))
  IN  ll' = after.ll /\ items' = after.items

SetLocked(k, v) ==
  LET stored == Put(items, k, Fresh(v))
      after  == EvictLocked(<<k>> \o ll, stored)
  IN  \/ /\ k \in DOMAIN items
         /\ ll' = MoveToFront(ll, k)
         /\ items' = stored
      \/ /\ k \notin DOMAIN items
         /\ ll' = after.ll
         /\ items' = after.items

Flush ==
  /\ ll' = <<>>
  /\ items' = EmptyMap

\* A mutated form: the sweep unlinks list elements and leaves them in the map.
SweepListOnly ==
  /\ ll' = Only(ll, { k \in DOMAIN items : ~ Expired(items[k]) })
  /\ items' = items

\* The janitor's sweep.
Sweep ==
  LET live == { k \in DOMAIN items : ~ Expired(items[k]) }
  IN  /\ ll' = Only(ll, live)
      /\ items' = Keep(items, live)

\* Time passes: one clock unit.
Tick ==
  /\ items' = [k \in DOMAIN items |->
                 [items[k] EXCEPT !.left = IF @ = 0 THEN 0 ELSE @ - 1]]
  /\ ll' = ll

CacheInit ==
  /\ ll = <<>>
  /\ items = EmptyMap

CacheNext ==
  \/ \E k \in Key : Get(k)
  \/ \E k \in Key, v \in Value : SetLocked(k, v)
  \/ Flush
  \/ Sweep
  \/ Tick

CacheSpec == CacheInit /\ [][CacheNext]_cacheVars

-----------------------------------------------------------------------------
\* The map holds entries of known keys.
CacheTypeOK ==
  /\ DOMAIN items \subseteq Key
  /\ \A k \in DOMAIN items : items[k] \in Entry

\* remove, setLocked, Flush and sweep keep the list and the map in step: each
\* key of the map is in the list once, and nothing else is; the capacity
\* configured is never exceeded.
ListMatchesMap ==
  /\ { ll[i] : i \in DOMAIN ll } = DOMAIN items
  /\ \A i, j \in DOMAIN ll : ll[i] = ll[j] => i = j
  /\ Len(ll) <= MaxEntries

\* evictLocked's order, for any insertion into any cache that the operations
\* can produce: the entry just stored is there afterwards unless its TTL is
\* zero, and another live entry is given up only when no expired one is left.
\* It speaks of what the insertion leaves and not of a step, because giving up
\* the entry just stored leaves the cache as it was.
EvictsExpiredFirst ==
  \A k \in Key \ DOMAIN items, v \in Value :
    LET after == EvictLocked(<<k>> \o ll, Put(items, k, Fresh(v))).items
    IN  /\ v.ttl > 0 => k \in DOMAIN after /\ after[k] = Fresh(v)
        /\ (\E x \in DOMAIN items \ DOMAIN after : ~ Expired(items[x]))
             => \A y \in DOMAIN after : ~ Expired(after[y])

\* An entry's life is fixed when it is stored: reading it, sweeping and the
\* operations on other keys never prolong it.
LifeNeverExtended ==
  [][ \A k \in DOMAIN items \cap DOMAIN items' :
        items'[k].left > items[k].left => \E v \in Value : SetLocked(k, v)
    ]_cacheVars
=============================================================================
