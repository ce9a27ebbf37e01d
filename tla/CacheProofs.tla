---------------------------- MODULE CacheProofs -----------------------------
(***************************************************************************)
(* Proofs about Cache, for any keys and values, any capacity and any clock *)
(* resolution.                                                             *)
(***************************************************************************)
EXTENDS Cache, NatFacts, TLAPS

\* Every entry of the map after the step was there before it, with the same
\* value and no more to live.
OnlyShrinks ==
  \A x \in DOMAIN items' :
    /\ x \in DOMAIN items
    /\ items'[x].value = items[x].value
    /\ items'[x].left <= items[x].left

\* The life of a value that has just been stored, in clock units.
Life(v) == v.ttl * Second

-----------------------------------------------------------------------------
\* Get, Flush, the sweep and the clock add nothing to the cache.
LEMMA ShrinkingSteps ==
  ASSUME CacheTypeOK,
         \/ UNCHANGED cacheVars
         \/ \E k \in Key : Touch(k) \/ DropExpired(k)
         \/ Flush \/ Sweep \/ Tick
  PROVE  CacheTypeOK' /\ OnlyShrinks
<1>1. CASE UNCHANGED cacheVars
  BY <1>1 DEF CacheTypeOK, OnlyShrinks, cacheVars, Entry
<1>2. ASSUME NEW k \in Key, Touch(k) PROVE CacheTypeOK' /\ OnlyShrinks
  BY <1>2 DEF CacheTypeOK, OnlyShrinks, Touch, Entry
<1>3. ASSUME NEW S, items' = Keep(items, S) PROVE CacheTypeOK' /\ OnlyShrinks
  BY <1>3 DEF CacheTypeOK, OnlyShrinks, Keep, Entry
<1>4. CASE Flush
  BY <1>4 DEF CacheTypeOK, OnlyShrinks, Flush, EmptyMap
<1>5. CASE Tick
  BY <1>5 DEF CacheTypeOK, OnlyShrinks, Tick, Entry
<1>6. QED
  BY <1>1, <1>2, <1>3, <1>4, <1>5 DEF DropExpired, Sweep

\* setLocked adds one entry, under its key and with its full life; eviction
\* only takes entries away.
LEMMA SetLockedEffect ==
  ASSUME CacheTypeOK, NEW k \in Key, NEW v \in Value, SetLocked(k, v)
  PROVE  /\ CacheTypeOK'
         /\ Life(v) \in Nat
         /\ \A x \in DOMAIN items' :
              \/ x = k /\ items'[x].value = v /\ items'[x].left = Life(v)
              \/ x # k /\ x \in DOMAIN items /\ items'[x] = items[x]
<1> DEFINE e == [value |-> v, left |-> Life(v)]
           m == Put(items, k, e)
<1>1. Life(v) \in Nat /\ e \in Entry
  BY CacheAssumption DEF Entry, Life
<1>2. /\ DOMAIN m \subseteq Key
      /\ \A x \in DOMAIN m :
           \/ x = k /\ m[x] = e
           \/ x # k /\ x \in DOMAIN items /\ m[x] = items[x]
  <2> HIDE DEF e
  <2> QED BY DEF CacheTypeOK, Put
<1>3. \E S : items' = Keep(m, S)
  <2> HIDE DEF e
  <2>1. m = Keep(m, DOMAIN m)
    BY DEF Keep, Put
  <2>2. CASE items' = m
    BY <2>1, <2>2
  <2>3. CASE \E x : items' = Keep(m, Key \ {x})
    BY <2>3
  <2>4. QED
    BY <2>2, <2>3 DEF SetLocked, EvictLocked, Fresh, e, Life
<1>e. e.value = v /\ e.left = Life(v)
  OBVIOUS
<1> HIDE DEF m, e
<1>4. \A x \in DOMAIN items' : x \in DOMAIN m /\ items'[x] = m[x]
  BY <1>3 DEF Keep
<1>5. QED
  BY <1>1, <1>2, <1>e, <1>4 DEF CacheTypeOK

-----------------------------------------------------------------------------
\* The keys of a list, and that none is there twice.
Keys(l) == { l[i] : i \in DOMAIN l }

Distinct(l) == \A i, j \in DOMAIN l : l[i] = l[j] => i = j

\* The list holds keys and matches the map.
ListInv == ll \in Seq(Key) /\ ListMatchesMap

\* list.Remove takes away one key, and shortens the list by one if it was there.
LEMMA WithoutFacts ==
  ASSUME NEW l \in Seq(Key), Distinct(l), NEW k
  PROVE  /\ Without(l, k) \in Seq(Key) /\ Distinct(Without(l, k))
         /\ Keys(Without(l, k)) = Keys(l) \ {k}
         /\ Len(Without(l, k)) <= Len(l)
         /\ k \in Keys(l) => Len(Without(l, k)) = Len(l) - 1
<1> DEFINE n == Len(l)
<1>1. n \in Nat /\ DOMAIN l = 1..n /\ \A i \in 1..n : l[i] \in Key
  OBVIOUS
<1>2. CASE k \notin Keys(l)
  <2>1. Without(l, k) = l
    BY <1>2 DEF Without, Keys
  <2>2. Keys(l) = Keys(l) \ {k} /\ Len(l) <= Len(l)
    BY <1>1, <1>2
  <2>3. QED
    BY <1>2, <2>1, <2>2
<1>3. CASE k \in Keys(l)
  <2> DEFINE at == CHOOSE i \in DOMAIN l : l[i] = k
             g(i) == IF i < at THEN i ELSE i + 1
             w == [i \in 1..(n - 1) |-> l[g(i)]]
  <2>1. at \in 1..n /\ l[at] = k
    BY <1>1, <1>3 DEF Keys
  <2>2. Without(l, k) = w
    BY <1>3 DEF Without, Keys
  <2> HIDE DEF at
  <2>3. \A i \in 1..(n - 1) : g(i) \in 1..n /\ g(i) # at
    BY <1>1, <2>1
  <2>4. \A i, j \in 1..(n - 1) : g(i) = g(j) => i = j
    BY <1>1, <2>1
  <2>5. \A j \in 1..n : j # at => \E i \in 1..(n - 1) : g(i) = j
    <3> SUFFICES ASSUME NEW j \in 1..n, j # at PROVE \E i \in 1..(n - 1) : g(i) = j
      OBVIOUS
    <3>1. CASE j < at
      <4>1. j \in 1..(n - 1) /\ g(j) = j
        BY <1>1, <2>1, <3>1
      <4>2. QED
        BY <4>1
    <3>2. CASE j > at
      <4>1. j - 1 \in 1..(n - 1) /\ g(j - 1) = j
        BY <1>1, <2>1, <3>2
      <4>2. QED
        BY <4>1
    <3>3. QED
      BY <1>1, <2>1, <3>1, <3>2
  <2> HIDE DEF g
  <2>6. n - 1 \in Nat /\ \A i \in 1..(n - 1) : w[i] = l[g(i)] /\ w[i] \in Key
    BY <1>1, <2>1, <2>3
  <2>7. w \in Seq(Key) /\ Len(w) = n - 1 /\ DOMAIN w = 1..(n - 1)
    BY <2>6
  <2> HIDE DEF w
  <2>8. Distinct(w)
    BY <1>1, <2>3, <2>4, <2>6, <2>7 DEF Distinct
  <2>9. Keys(w) = Keys(l) \ {k}
    <3>1. ASSUME NEW x \in Keys(w) PROVE x \in Keys(l) /\ x # k
      BY <1>1, <2>1, <2>3, <2>6, <2>7, <3>1 DEF Distinct, Keys
    <3>2. ASSUME NEW x \in Keys(l), x # k PROVE x \in Keys(w)
      <4>1. PICK j \in 1..n : x = l[j]
        BY <1>1, <3>2 DEF Keys
      <4>2. PICK i \in 1..(n - 1) : g(i) = j
        BY <2>1, <2>5, <3>2, <4>1
      <4>3. QED
        BY <2>6, <2>7, <4>1, <4>2 DEF Keys
    <3>3. QED
      BY <3>1, <3>2
  <2>10. Len(w) <= Len(l) /\ Len(w) = Len(l) - 1
    BY <1>1, <2>7
  <2>11. QED
    BY <2>2, <2>7, <2>8, <2>9, <2>10
<1>4. QED
  BY <1>2, <1>3

\* PushFront of a key that is not there.
LEMMA FrontFacts ==
  ASSUME NEW l \in Seq(Key), Distinct(l), NEW k \in Key, k \notin Keys(l)
  PROVE  /\ <<k>> \o l \in Seq(Key) /\ Distinct(<<k>> \o l)
         /\ Keys(<<k>> \o l) = Keys(l) \cup {k}
         /\ Len(<<k>> \o l) = Len(l) + 1
<1> DEFINE n == Len(l)
           w == <<k>> \o l
<1>1. n \in Nat /\ DOMAIN l = 1..n
  OBVIOUS
<1>2. w \in Seq(Key) /\ Len(w) = n + 1 /\ DOMAIN w = 1..(n + 1)
  OBVIOUS
<1>3. w[1] = k /\ \A i \in 2..(n + 1) : w[i] = l[i - 1]
  OBVIOUS
<1> HIDE DEF w
<1>4. \A i \in 2..(n + 1) : i - 1 \in 1..n /\ w[i] # k
  BY <1>1, <1>3 DEF Keys
<1>5. Distinct(w)
  <2> SUFFICES ASSUME NEW i \in 1..(n + 1), NEW j \in 1..(n + 1), w[i] = w[j] PROVE i = j
    BY <1>2 DEF Distinct
  <2>1. i = 1 <=> j = 1
    BY <1>1, <1>3, <1>4
  <2>2. CASE i # 1 /\ j # 1
    <3>1. i \in 2..(n + 1) /\ j \in 2..(n + 1)
      BY <1>1, <2>2
    <3>2. l[i - 1] = l[j - 1] /\ i - 1 \in 1..n /\ j - 1 \in 1..n
      BY <1>3, <1>4, <3>1
    <3>3. i - 1 = j - 1
      BY <1>1, <3>2 DEF Distinct
    <3>4. QED
      BY <3>1, <3>3
  <2>3. QED
    BY <2>1, <2>2
<1>6. Keys(w) = Keys(l) \cup {k}
  <2>1. ASSUME NEW x \in Keys(w) PROVE x \in Keys(l) \cup {k}
    <3>1. PICK i \in 1..(n + 1) : x = w[i]
      BY <1>2, <2>1 DEF Keys
    <3>2. CASE i = 1
      BY <1>3, <3>1, <3>2
    <3>3. CASE i \in 2..(n + 1)
      BY <1>1, <1>3, <1>4, <3>1, <3>3 DEF Keys
    <3>4. QED
      BY <1>1, <3>2, <3>3
  <2>2. k \in Keys(w)
    BY <1>1, <1>2, <1>3 DEF Keys
  <2>3. ASSUME NEW i \in 1..n PROVE l[i] \in Keys(w)
    <3>1. i + 1 \in 2..(n + 1) /\ (i + 1) - 1 = i /\ i + 1 \in 1..(n + 1)
      BY <1>1
    <3>2. w[i + 1] = l[i]
      BY <1>3, <3>1
    <3>3. QED
      BY <1>2, <3>1, <3>2 DEF Keys
  <2>4. QED
    BY <1>1, <2>1, <2>2, <2>3 DEF Keys
<1>7. QED
  BY <1>2, <1>5, <1>6 DEF w
\* The loop of sweep as an equation.
LEMMA OnlyTable ==
  ASSUME NEW l \in Seq(Key), NEW S
  PROVE  \E f :
           /\ f[0] = <<>>
           /\ \A i \in 1..Len(l) : f[i] = IF l[i] \in S THEN Append(f[i - 1], l[i]) ELSE f[i - 1]
           /\ Only(l, S) = f[Len(l)]
<1> DEFINE n == Len(l)
           B(f, i) == IF i = 0 THEN <<>>
                      ELSE IF l[i] \in S THEN Append(f[i - 1], l[i]) ELSE f[i - 1]
           G(f, k) == [i \in 0..k |-> B(f, i)]
           T == { k \in Nat : \E f : f = G(f, k) }
<1>1. n \in Nat
  OBVIOUS
<1>2. 0 \in T
  <2>1. [i \in 0..0 |-> <<>>] = G([i \in 0..0 |-> <<>>], 0)
    OBVIOUS
  <2>2. QED
    BY <2>1
<1>3. ASSUME NEW k \in Nat, k \in T PROVE k + 1 \in T
  <2>1. PICK f : f = G(f, k)
    BY <1>3
  <2> DEFINE g == [i \in 0..(k + 1) |-> IF i = k + 1 THEN B(f, i) ELSE f[i]]
  <2>2. \A i \in 0..(k + 1) : B(g, i) = B(f, i)
    <3>1. ASSUME NEW i \in 0..(k + 1), i # 0 PROVE g[i - 1] = f[i - 1]
      <4>1. i - 1 \in 0..(k + 1) /\ i - 1 # k + 1
        BY <3>1
      <4>2. QED
        BY <4>1
    <3> HIDE DEF g
    <3>2. QED
      BY <3>1
  <2>3. \A i \in 0..k : f[i] = B(f, i)
    BY <2>1
  <2>4. g = G(g, k + 1)
    <3> HIDE DEF B
    <3>1. g = [i \in 0..(k + 1) |-> B(f, i)]
      BY <2>3
    <3> HIDE DEF g
    <3>2. QED
      BY <2>2, <3>1
  <2> HIDE DEF g, G
  <2>5. QED
    BY <2>4
<1>4. \E f : f = G(f, n)
  <2> HIDE DEF G
  <2>1. 0 \in T /\ \A k \in Nat : k \in T => k + 1 \in T
    BY <1>2, <1>3
  <2>2. Nat \subseteq T
    <3> HIDE DEF T
    <3> QED BY <2>1, NatInduct
  <2>3. QED
    BY <1>1, <2>2
<1> DEFINE f == CHOOSE f : f = G(f, n)
<1>5. f = G(f, n)
  <2> HIDE DEF G
  <2> QED BY <1>4
<1>6. Only(l, S) = f[n]
  BY DEF Only
<1> HIDE DEF f
<1>7. \A i \in 0..n : f[i] = B(f, i)
  BY <1>5
<1>8. QED
  BY <1>1, <1>6, <1>7

\* What the loop keeps: the keys of S, in a list that is no longer and has none
\* twice.
LEMMA OnlyFacts ==
  ASSUME NEW l \in Seq(Key), Distinct(l), NEW S
  PROVE  /\ Only(l, S) \in Seq(Key) /\ Distinct(Only(l, S))
         /\ Keys(Only(l, S)) = Keys(l) \cap S
         /\ Len(Only(l, S)) <= Len(l)
<1> DEFINE n == Len(l)
           K(k) == { l[i] : i \in 1..k }
<1>1. n \in Nat /\ DOMAIN l = 1..n /\ \A i \in 1..n : l[i] \in Key
  OBVIOUS
<1>2. PICK f : /\ f[0] = <<>>
               /\ \A i \in 1..n : f[i] = IF l[i] \in S THEN Append(f[i - 1], l[i]) ELSE f[i - 1]
               /\ Only(l, S) = f[n]
  BY OnlyTable
<1> DEFINE P(k) == f[k] \in Seq(Key) /\ Distinct(f[k]) /\ Keys(f[k]) = K(k) \cap S /\ Len(f[k]) <= k
           T == { k \in Nat : k <= n => P(k) }
<1>3. 0 \in T
  <2>1. f[0] \in Seq(Key) /\ Distinct(f[0]) /\ Keys(f[0]) = {} /\ Len(f[0]) = 0
    BY <1>2 DEF Keys, Distinct
  <2>2. K(0) = {}
    OBVIOUS
  <2> HIDE DEF K
  <2>3. QED
    BY <2>1, <2>2
<1>4. ASSUME NEW k \in Nat, k \in T PROVE k + 1 \in T
  <2> SUFFICES ASSUME k + 1 <= n PROVE P(k + 1)
    OBVIOUS
  <2> DEFINE c == l[k + 1]
             t == f[k]
  <2>1. k + 1 \in 1..n /\ k <= n /\ (k + 1) - 1 = k
    BY <1>1
  <2>2. t \in Seq(Key) /\ Distinct(t) /\ Keys(t) = K(k) \cap S /\ Len(t) <= k
    BY <1>4, <2>1
  <2>3. f[k + 1] = IF c \in S THEN Append(t, c) ELSE t
    BY <1>2, <2>1
  <2>4. c \in Key /\ c \notin K(k)
    BY <1>1, <2>1 DEF Distinct
  <2>5. K(k + 1) = K(k) \cup {c}
    <3>1. 1..(k + 1) = (1..k) \cup {k + 1}
      OBVIOUS
    <3>2. QED
      BY <3>1
  <2> HIDE DEF K, c, t
  <2>6. CASE c \notin S
    <3>1. f[k + 1] = t /\ K(k + 1) \cap S = K(k) \cap S
      BY <2>3, <2>5, <2>6
    <3>2. Len(t) \in Nat /\ Len(t) <= k + 1
      BY <2>2
    <3>3. QED
      BY <2>2, <3>1, <3>2
  <2>7. CASE c \in S
    <3> DEFINE a == Append(t, c)
               m == Len(t)
    <3>1. m \in Nat /\ DOMAIN t = 1..m
      BY <2>2
    <3>2. a \in Seq(Key) /\ Len(a) = m + 1 /\ DOMAIN a = 1..(m + 1)
      BY <2>2, <2>4
    <3>3. a[m + 1] = c /\ \A i \in 1..m : a[i] = t[i]
      BY <2>2, <2>4
    <3>4. 1..(m + 1) = (1..m) \cup {m + 1} /\ m + 1 \notin 1..m
      BY <3>1
    <3> HIDE DEF a, m
    <3>5. \A i \in 1..m : t[i] # c
      BY <2>2, <2>4, <3>1 DEF Keys
    <3>6. Distinct(a)
      BY <2>2, <3>1, <3>2, <3>3, <3>4, <3>5 DEF Distinct
    <3>7. Keys(a) = Keys(t) \cup {c}
      BY <3>1, <3>2, <3>3, <3>4 DEF Keys
    <3>8. Keys(a) = K(k + 1) \cap S
      BY <2>2, <2>5, <2>7, <3>7
    <3>9. Len(a) <= k + 1
      BY <2>2, <3>1, <3>2 DEF m
    <3>10. f[k + 1] = a
      BY <2>3, <2>7 DEF a
    <3>11. QED
      BY <3>2, <3>6, <3>8, <3>9, <3>10
  <2>8. QED
    BY <2>6, <2>7
<1>5. Nat \subseteq T
  <2> HIDE DEF T
  <2> QED BY <1>3, <1>4, NatInduct
<1>6. P(n)
  <2>1. n \in T
    <3> HIDE DEF T, n
    <3> QED BY <1>1, <1>5
  <2>2. n <= n
    BY <1>1
  <2> HIDE DEF P
  <2>3. QED
    BY <2>1, <2>2
<1>7. K(n) = Keys(l)
  BY <1>1 DEF Keys
<1>8. QED
  BY <1>2, <1>6, <1>7
\* A nonempty set of positions has a greatest one, and Max is it.
LEMMA GreatestPosition ==
  ASSUME NEW n \in Nat, NEW D \in SUBSET (1..n), D # {}
  PROVE  Max(D) \in D /\ \A i \in D : Max(D) >= i
<1> DEFINE M == { n - i : i \in D }
<1>1. M \in SUBSET Nat /\ M # {}
  <2>1. \A i \in D : n - i \in Nat
    OBVIOUS
  <2>2. QED
    BY <2>1
<1>2. PICK x \in M : \A y \in M : x <= y
  <2> HIDE DEF M
  <2> QED BY <1>1, NatMin
<1>3. PICK i \in D : x = n - i
  OBVIOUS
<1>4. \A j \in D : i >= j
  <2> SUFFICES ASSUME NEW j \in D PROVE i >= j
    OBVIOUS
  <2>1. n - i <= n - j
    BY <1>2, <1>3
  <2>2. QED
    BY <2>1
<1>5. QED
  BY <1>3, <1>4 DEF Max

\* What evictLocked removes is in the list, and expired if anything there is.
LEMMA VictimFacts ==
  ASSUME NEW l \in Seq(Key), Len(l) > 0, NEW m
  PROVE  /\ Victim(l, m) \in Keys(l)
         /\ \A x \in Keys(l) : Expired(m[x]) => Expired(m[Victim(l, m)])
<1> DEFINE dead == { i \in DOMAIN l : Expired(m[l[i]]) }
<1>1. Len(l) \in Nat /\ DOMAIN l = 1..Len(l) /\ dead \in SUBSET (1..Len(l))
  OBVIOUS
<1>2. CASE dead = {}
  <2>1. Victim(l, m) = l[Len(l)]
    BY <1>2 DEF Victim
  <2>2. Len(l) \in DOMAIN l
    BY <1>1
  <2>3. QED
    BY <1>2, <2>1, <2>2 DEF Keys
<1>3. CASE dead # {}
  <2>1. Victim(l, m) = l[Max(dead)]
    BY <1>3 DEF Victim
  <2>2. Max(dead) \in dead
    <3> HIDE DEF dead
    <3> QED BY <1>1, <1>3, GreatestPosition
  <2>3. QED
    BY <2>1, <2>2 DEF Keys
<1>4. QED
  BY <1>2, <1>3

\* What an insertion leaves: at most one key is gone, the victim, which has
\* expired if anything has, and which is not a live entry at the front.
LEMMA EvictFacts ==
  ASSUME NEW l \in Seq(Key), Distinct(l), NEW m, Keys(l) = DOMAIN m, DOMAIN m \subseteq Key,
         Len(l) <= MaxEntries + 1, NEW L, NEW M,
         L = EvictLocked(l, m).ll, M = EvictLocked(l, m).items
  PROVE  /\ L \in Seq(Key) /\ Distinct(L) /\ Keys(L) = DOMAIN M /\ Len(L) <= MaxEntries
         /\ \A x \in DOMAIN M : x \in DOMAIN m /\ M[x] = m[x]
         /\ \A x \in DOMAIN m \ DOMAIN M :
              /\ \A y \in DOMAIN m : Expired(m[y]) => Expired(m[x])
              /\ ~ Expired(m[x]) => x # l[1]
<1>0. MaxEntries \in Nat /\ MaxEntries > 0 /\ Len(l) \in Nat /\ DOMAIN l = 1..Len(l)
  BY CacheAssumption
<1>1. CASE Len(l) <= MaxEntries
  <2>1. L = l /\ M = m
    BY <1>0, <1>1 DEF EvictLocked
  <2>2. QED
    BY <1>1, <2>1
<1>2. CASE Len(l) > MaxEntries
  <2> DEFINE v == Victim(l, m)
  <2>1. L = Without(l, v) /\ M = Keep(m, Key \ {v})
    BY <1>2 DEF EvictLocked
  <2>2. v \in Keys(l) /\ \A y \in Keys(l) : Expired(m[y]) => Expired(m[v])
    <3>1. Len(l) > 0
      BY <1>0, <1>2
    <3>2. QED
      BY <3>1, VictimFacts
  <2>3. ASSUME ~ Expired(m[v]) PROVE v # l[1]
    <3>1. { i \in DOMAIN l : Expired(m[l[i]]) } = {}
      BY <2>2, <2>3 DEF Keys
    <3>2. v = l[Len(l)]
      BY <3>1 DEF Victim
    <3>3. 1 \in DOMAIN l /\ Len(l) \in DOMAIN l /\ Len(l) # 1
      BY <1>0, <1>2
    <3>4. QED
      BY <3>2, <3>3 DEF Distinct
  <2> HIDE DEF v
  <2>4. /\ Without(l, v) \in Seq(Key) /\ Distinct(Without(l, v))
        /\ Keys(Without(l, v)) = Keys(l) \ {v}
        /\ Len(Without(l, v)) = Len(l) - 1
    BY <2>2, WithoutFacts
  <2>5. DOMAIN M = DOMAIN m \ {v} /\ \A x \in DOMAIN M : M[x] = m[x]
    BY <2>1 DEF Keep
  <2>6. Len(l) - 1 <= MaxEntries
    BY <1>0
  <2>7. L \in Seq(Key) /\ Distinct(L) /\ Keys(L) = DOMAIN M /\ Len(L) <= MaxEntries
    BY <2>1, <2>4, <2>5, <2>6
  <2>8. \A x \in DOMAIN m \ DOMAIN M : x = v
    BY <2>5
  <2>9. QED
    BY <2>2, <2>3, <2>5, <2>7, <2>8
<1>3. QED
  BY <1>0, <1>1, <1>2

\* Every operation of the cache keeps list and map in step.
LEMMA ListStep ==
  ASSUME CacheTypeOK, ListInv,
         \/ UNCHANGED cacheVars
         \/ \E k \in Key : \/ k \in DOMAIN items /\ Touch(k)
                          \/ DropExpired(k)
                          \/ \E v \in Value : SetLocked(k, v)
         \/ Flush \/ Sweep \/ Tick
  PROVE  ListInv'
<1>0. /\ ll \in Seq(Key) /\ Distinct(ll) /\ Keys(ll) = DOMAIN items /\ DOMAIN items \subseteq Key
      /\ Len(ll) \in Nat /\ Len(ll) <= MaxEntries /\ MaxEntries \in Nat /\ MaxEntries > 0
  BY CacheAssumption DEF ListInv, ListMatchesMap, Distinct, Keys, CacheTypeOK
<1> SUFFICES ll' \in Seq(Key) /\ Distinct(ll') /\ Keys(ll') = DOMAIN items' /\ Len(ll') <= MaxEntries
  BY DEF ListInv, ListMatchesMap, Distinct, Keys
<1> DEFINE Good == ll' \in Seq(Key) /\ Distinct(ll') /\ Keys(ll') = DOMAIN items' /\ Len(ll') <= MaxEntries
<1>1. ASSUME NEW k \in Key, k \in DOMAIN items
      PROVE  LET l == MoveToFront(ll, k)
             IN  l \in Seq(Key) /\ Distinct(l) /\ Keys(l) = DOMAIN items /\ Len(l) <= MaxEntries
  <2> DEFINE w == Without(ll, k)
  <2>1. w \in Seq(Key) /\ Distinct(w) /\ Keys(w) = DOMAIN items \ {k} /\ Len(w) = Len(ll) - 1
    BY <1>0, <1>1, WithoutFacts
  <2> HIDE DEF w
  <2>2. k \notin Keys(w)
    BY <2>1
  <2>3. /\ <<k>> \o w \in Seq(Key) /\ Distinct(<<k>> \o w)
        /\ Keys(<<k>> \o w) = Keys(w) \cup {k}
        /\ Len(<<k>> \o w) = Len(w) + 1
    BY <1>1, <2>1, <2>2, FrontFacts
  <2>4. Keys(w) \cup {k} = DOMAIN items
    BY <1>1, <2>1
  <2>5. Len(w) + 1 <= MaxEntries
    BY <1>0, <2>1
  <2>6. MoveToFront(ll, k) = <<k>> \o w
    BY DEF MoveToFront, w
  <2>7. QED
    BY <2>3, <2>4, <2>5, <2>6
<1>2. CASE UNCHANGED cacheVars
  BY <1>0, <1>2 DEF cacheVars
<1>3. ASSUME NEW k \in Key, k \in DOMAIN items, Touch(k) PROVE Good
  BY <1>1, <1>3 DEF Touch
<1>4. ASSUME NEW k \in Key, DropExpired(k) PROVE Good
  <2>1. /\ ll' \in Seq(Key) /\ Distinct(ll') /\ Keys(ll') = DOMAIN items \ {k} /\ Len(ll') <= Len(ll)
    BY <1>0, <1>4, WithoutFacts DEF DropExpired
  <2>2. DOMAIN items' = DOMAIN items \ {k}
    BY <1>0, <1>4 DEF DropExpired, Keep
  <2>3. Len(ll') \in Nat
    BY <2>1
  <2>4. Len(ll') <= MaxEntries
    BY <1>0, <2>1, <2>3
  <2>5. QED
    BY <2>1, <2>2, <2>4
<1>5. ASSUME NEW k \in Key, NEW v \in Value, SetLocked(k, v) PROVE Good
  <2> DEFINE m == Put(items, k, Fresh(v))
  <2>1. DOMAIN m = DOMAIN items \cup {k}
    BY DEF Put
  <2>2. CASE k \in DOMAIN items
    <3>1. ll' = MoveToFront(ll, k) /\ items' = m
      BY <1>5, <2>2 DEF SetLocked
    <3> HIDE DEF m
    <3>2. DOMAIN items' = DOMAIN items
      BY <2>1, <2>2, <3>1
    <3>3. QED
      BY <1>1, <2>2, <3>1, <3>2
  <2>3. CASE k \notin DOMAIN items
    <3> DEFINE l == <<k>> \o ll
    <3>1. ll' = EvictLocked(l, m).ll /\ items' = EvictLocked(l, m).items
      BY <1>5, <2>3 DEF SetLocked
    <3> HIDE DEF m
    <3>2. l \in Seq(Key) /\ Distinct(l) /\ Keys(l) = Keys(ll) \cup {k} /\ Len(l) = Len(ll) + 1
      BY <1>0, <2>3, FrontFacts
    <3> HIDE DEF l
    <3>3. Keys(l) = DOMAIN m /\ DOMAIN m \subseteq Key /\ Len(l) <= MaxEntries + 1
      BY <1>0, <2>1, <3>2
    <3>4. QED
      BY <3>1, <3>2, <3>3, EvictFacts
  <2>4. QED
    BY <2>2, <2>3
<1>6. CASE Flush
  <2>1. ll' = <<>> /\ DOMAIN items' = {}
    BY <1>6 DEF Flush, EmptyMap
  <2>2. QED
    BY <1>0, <2>1 DEF Keys, Distinct
<1>7. CASE Sweep
  <2> DEFINE live == { k \in DOMAIN items : ~ Expired(items[k]) }
  <2>1. ll' = Only(ll, live) /\ items' = Keep(items, live)
    BY <1>7 DEF Sweep
  <2>2. DOMAIN items' = DOMAIN items \cap live
    BY <2>1 DEF Keep
  <2> HIDE DEF live
  <2>3. ll' \in Seq(Key) /\ Distinct(ll') /\ Keys(ll') = Keys(ll) \cap live /\ Len(ll') <= Len(ll)
    BY <1>0, <2>1, OnlyFacts
  <2>4. Len(ll') \in Nat
    BY <2>3
  <2>5. Len(ll') <= MaxEntries
    BY <1>0, <2>3, <2>4
  <2>6. QED
    BY <1>0, <2>2, <2>3, <2>5
<1>8. CASE Tick
  <2>1. ll' = ll /\ DOMAIN items' = DOMAIN items
    BY <1>8 DEF Tick
  <2>2. QED
    BY <1>0, <2>1
<1>9. QED
  BY <1>2, <1>3, <1>4, <1>5, <1>6, <1>7, <1>8

\* The types and ListInv are invariants of the cache.
LEMMA CacheInvariant == CacheSpec => [](CacheTypeOK /\ ListInv)
<1>1. CacheInit => CacheTypeOK /\ ListInv
  BY CacheAssumption DEF CacheInit, EmptyMap, CacheTypeOK, ListInv, ListMatchesMap
<1>2. CacheTypeOK /\ ListInv /\ [CacheNext]_cacheVars => CacheTypeOK' /\ ListInv'
  <2> SUFFICES ASSUME CacheTypeOK, ListInv, [CacheNext]_cacheVars PROVE CacheTypeOK' /\ ListInv'
    OBVIOUS
  <2>1. CacheTypeOK'
    BY ShrinkingSteps, SetLockedEffect DEF CacheNext, Get
  <2>2. ListInv'
    BY ListStep DEF CacheNext, Get, Present
  <2>3. QED
    BY <2>1, <2>2
<1>3. QED
  BY <1>1, <1>2, PTL DEF CacheSpec

\* ListMatchesMap: after any sequence of Get, Set, Flush, sweep and time, the
\* list holds each key of the map once and nothing else, within the capacity.
THEOREM ListInStep == CacheSpec => []ListMatchesMap
<1>1. ListInv => ListMatchesMap
  BY DEF ListInv
<1>2. QED
  BY <1>1, CacheInvariant, PTL

\* EvictsExpiredFirst: after any insertion the entry just stored is there unless
\* its TTL is zero, and another live entry is gone only if none left has
\* expired: evictLocked scans from the back, where the new entry is not.
THEOREM ExpiredFirst == CacheSpec => []EvictsExpiredFirst
<1>1. ASSUME CacheTypeOK, ListInv, NEW k \in Key \ DOMAIN items, NEW v \in Value
      PROVE  LET after == EvictLocked(<<k>> \o ll, Put(items, k, Fresh(v))).items
             IN  /\ v.ttl > 0 => k \in DOMAIN after /\ after[k] = Fresh(v)
                 /\ (\E x \in DOMAIN items \ DOMAIN after : ~ Expired(items[x]))
                      => \A y \in DOMAIN after : ~ Expired(after[y])
  <2> DEFINE m == Put(items, k, Fresh(v))
             l == <<k>> \o ll
             M == EvictLocked(l, m).items
  <2>1. /\ DOMAIN m = DOMAIN items \cup {k}
        /\ \A y \in DOMAIN items : m[y] = items[y]
        /\ m[k] = Fresh(v)
    BY DEF Put
  <2>2. /\ ll \in Seq(Key) /\ Distinct(ll) /\ Keys(ll) = DOMAIN items /\ DOMAIN items \subseteq Key
        /\ Len(ll) \in Nat /\ Len(ll) <= MaxEntries /\ MaxEntries \in Nat
    BY <1>1, CacheAssumption DEF ListInv, ListMatchesMap, Distinct, Keys, CacheTypeOK
  <2>3. l \in Seq(Key) /\ Distinct(l) /\ Keys(l) = Keys(ll) \cup {k} /\ Len(l) = Len(ll) + 1
    BY <2>2, FrontFacts
  <2>4. l[1] = k
    BY <2>2
  <2> HIDE DEF m, l
  <2>5. Keys(l) = DOMAIN m /\ DOMAIN m \subseteq Key /\ Len(l) <= MaxEntries + 1
    BY <2>1, <2>2, <2>3
  <2>6. /\ \A x \in DOMAIN M : x \in DOMAIN m /\ M[x] = m[x]
        /\ \A x \in DOMAIN m \ DOMAIN M :
             /\ \A y \in DOMAIN m : Expired(m[y]) => Expired(m[x])
             /\ ~ Expired(m[x]) => x # l[1]
    BY <2>3, <2>5, EvictFacts
  <2> HIDE DEF M
  <2>7. ASSUME v.ttl > 0 PROVE k \in DOMAIN M /\ M[k] = Fresh(v)
    <3>1. v.ttl * Second # 0
      BY <2>7, CacheAssumption
    <3>2. ~ Expired(m[k])
      BY <2>1, <3>1 DEF Fresh, Expired
    <3>3. QED
      BY <2>1, <2>4, <2>6, <3>2
  <2>8. ASSUME NEW x \in DOMAIN items \ DOMAIN M, ~ Expired(items[x])
        PROVE  \A y \in DOMAIN M : ~ Expired(M[y])
    <3>1. x \in DOMAIN m \ DOMAIN M /\ ~ Expired(m[x])
      BY <2>1, <2>8
    <3>2. QED
      BY <2>6, <3>1
  <2>9. QED
    BY <2>7, <2>8 DEF M, m, l
<1>2. CacheTypeOK /\ ListInv => EvictsExpiredFirst
  BY <1>1 DEF EvictsExpiredFirst
<1>3. QED
  BY <1>2, CacheInvariant, PTL

\* LifeNeverExtended: only setLocked of its own key gives an entry more time.
THEOREM LifeFixed == CacheSpec => LifeNeverExtended
<1> DEFINE Fixed == \A k \in DOMAIN items \cap DOMAIN items' :
                      items'[k].left > items[k].left => \E v \in Value : SetLocked(k, v)
<1>1. ASSUME CacheTypeOK, CacheNext PROVE Fixed
  <2> SUFFICES ASSUME NEW k \in DOMAIN items \cap DOMAIN items', items'[k].left > items[k].left
               PROVE  \E v \in Value : SetLocked(k, v)
    OBVIOUS
  <2>1. items[k].left \in Nat /\ k \in Key
    BY <1>1 DEF CacheTypeOK, Entry
  <2>2. ASSUME OnlyShrinks, CacheTypeOK' PROVE FALSE
    <3>1. items'[k].left <= items[k].left /\ items'[k].left \in Nat
      BY <2>2 DEF OnlyShrinks, CacheTypeOK, Entry
    <3>2. QED
      BY <2>1, <3>1
  <2>3. PICK x \in Key, v \in Value : SetLocked(x, v)
    BY <1>1, <2>2, ShrinkingSteps DEF CacheNext, Get
  <2>4. k = x
    <3> SUFFICES ASSUME k # x PROVE FALSE
      OBVIOUS
    <3>1. items'[k] = items[k]
      BY <1>1, <2>3, SetLockedEffect
    <3>2. QED
      BY <2>1, <3>1
  <2>5. QED
    BY <2>3, <2>4
<1>2. CacheTypeOK /\ [CacheNext]_cacheVars => [Fixed]_cacheVars
  BY <1>1
<1>3. CacheTypeOK /\ ListInv => CacheTypeOK
  OBVIOUS
<1>4. QED
  BY <1>2, <1>3, CacheInvariant, PTL DEF CacheSpec, LifeNeverExtended

-----------------------------------------------------------------------------
\* The rounding of Get: the TTL it reports is the least number of seconds that
\* covers what is left.
LEMMA RemainingTTLRounds ==
  ASSUME NEW left \in Nat, NEW s \in Nat \ {0}
  PROVE  LET ttl == (left + s - 1) \div s
         IN  /\ ttl \in Nat
             /\ left <= ttl * s
             /\ ttl * s < left + s
             /\ ttl > 1 => left > s
<1> DEFINE x == left + s - 1
           q == x \div s
           r == x % s
<1>1. x \in Nat
  OBVIOUS
<1>2. q \in Nat /\ r \in 0..(s - 1) /\ x = s * q + r
  BY <1>1
<1> HIDE DEF q, r
<1>3. left <= q * s /\ q * s < left + s
  BY <1>2
<1>4. ASSUME q > 1 PROVE left > s
  <2>1. q * s >= 2 * s
    BY <1>2, <1>4
  <2>2. QED
    BY <1>2, <1>3, <2>1
<1>5. QED
  BY <1>2, <1>3, <1>4 DEF q
=============================================================================
