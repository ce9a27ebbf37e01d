---------------------------- MODULE ChaseProofs -----------------------------
(***************************************************************************)
(* Proofs about Chase, for any set of names, any hop limit and any replies *)
(* an upstream may send.                                                   *)
(***************************************************************************)
EXTENDS Chase, NatFacts, FiniteSetTheorems, SequenceTheorems

\* The index set and the elements of a sequence.
LEMMA SeqFacts ==
  ASSUME NEW T, NEW s \in Seq(T)
  PROVE  /\ Len(s) \in Nat /\ DOMAIN s = 1..Len(s)
         /\ \A i \in 1..Len(s) : s[i] \in T
         /\ Elems(s) \subseteq T
         /\ s = <<>> <=> Len(s) = 0
BY DEF Elems

\* What appending a query to the history does to its elements.
LEMMA ElemsAppend ==
  ASSUME NEW T, NEW s \in Seq(T), NEW x \in T
  PROVE  /\ Append(s, x) \in Seq(T)
         /\ Elems(Append(s, x)) = Elems(s) \cup {x}
         /\ Append(s, x)[Len(s) + 1] = x /\ \A i \in 1..Len(s) : Append(s, x)[i] = s[i]
<1>1. Len(s) \in Nat /\ DOMAIN s = 1..Len(s) /\ DOMAIN Append(s, x) = 1..(Len(s) + 1)
  OBVIOUS
<1>2. Append(s, x)[Len(s) + 1] = x /\ \A i \in 1..Len(s) : Append(s, x)[i] = s[i]
  OBVIOUS
<1>3. 1..(Len(s) + 1) = 1..Len(s) \cup {Len(s) + 1}
  BY <1>1
<1>4. Append(s, x) \in Seq(T)
  OBVIOUS
<1> DEFINE a == Append(s, x)
<1> HIDE DEF a
<1>5. Elems(a) = Elems(s) \cup {x}
  BY <1>1, <1>2, <1>3 DEF Elems, a
<1>6. QED
  BY <1>2, <1>4, <1>5 DEF a

\* Enqueue, `pending = append(pending, targets...)', adds the targets and keeps
\* what was queued.
LEMMA ElemsConcat ==
  ASSUME NEW T, NEW s \in Seq(T), NEW t \in Seq(T)
  PROVE  /\ s \o t \in Seq(T)
         /\ Elems(s \o t) = Elems(s) \cup Elems(t)
<1> DEFINE m == Len(s)
           n == Len(t)
           c == s \o t
<1>1. m \in Nat /\ n \in Nat /\ DOMAIN s = 1..m /\ DOMAIN t = 1..n /\ DOMAIN c = 1..(m + n)
  OBVIOUS
<1>2. c \in Seq(T)
  OBVIOUS
<1>3. \A i \in 1..m : c[i] = s[i]
  OBVIOUS
<1>4. \A i \in 1..n : c[m + i] = t[i]
  OBVIOUS
<1>5. \A i \in (m + 1)..(m + n) : i - m \in 1..n /\ c[i] = t[i - m]
  OBVIOUS
<1> HIDE DEF c, m, n
<1>6. 1..(m + n) = (1..m) \cup ((m + 1)..(m + n))
  BY <1>1
<1>7. Elems(c) \subseteq Elems(s) \cup Elems(t)
  BY <1>1, <1>3, <1>5, <1>6, Zenon DEF Elems
<1>8. Elems(s) \subseteq Elems(c)
  BY <1>1, <1>3, <1>6 DEF Elems
<1>9. \A i \in 1..n : m + i \in 1..(m + n)
  BY <1>1
<1>10. Elems(t) \subseteq Elems(c)
  BY <1>1, <1>4, <1>9 DEF Elems
<1>11. QED
  BY <1>2, <1>7, <1>8, <1>10 DEF c

\* Taking the head off the queue: what was queued is the head or still queued.
LEMMA ElemsTail ==
  ASSUME NEW T, NEW s \in Seq(T), s # <<>>
  PROVE  /\ Tail(s) \in Seq(T) /\ Head(s) \in T
         /\ Elems(s) = {Head(s)} \cup Elems(Tail(s))
<1> DEFINE n == Len(s)
           t == Tail(s)
<1>1. n \in Nat /\ n > 0 /\ DOMAIN s = 1..n /\ DOMAIN t = 1..(n - 1) /\ Head(s) = s[1]
  OBVIOUS
<1>2. \A i \in 1..(n - 1) : t[i] = s[i + 1] /\ i + 1 \in 1..n
  OBVIOUS
<1>3. t \in Seq(T) /\ Head(s) \in T
  OBVIOUS
<1> HIDE DEF n, t
<1>4. \A i \in 1..n : i = 1 \/ (i - 1 \in 1..(n - 1) /\ t[i - 1] = s[i])
  BY <1>1, <1>2
<1>5. 1 \in 1..n
  BY <1>1
<1>6. Elems(s) \subseteq {Head(s)} \cup Elems(t)
  BY <1>1, <1>4 DEF Elems
<1>7. Elems(t) \subseteq Elems(s)
  BY <1>1, <1>2 DEF Elems
<1>8. Head(s) \in Elems(s)
  BY <1>1, <1>5 DEF Elems
<1>9. QED
  BY <1>3, <1>6, <1>7, <1>8 DEF t

-----------------------------------------------------------------------------
\* The loop that collects the targets, as an equation: the table of what the
\* first i records give exists, and NewTargets is its last entry.
LEMMA TargetTable ==
  ASSUME NEW r \in Message, NEW done
  PROVE  \E ts :
           /\ DOMAIN ts = 0..Len(r.cnames)
           /\ ts[0] = <<>>
           /\ \A i \in 1..Len(r.cnames) :
                ts[i] = IF r.cnames[i].own /\ r.cnames[i].target \notin done \cup Elems(ts[i - 1])
                        THEN Append(ts[i - 1], r.cnames[i].target)
                        ELSE ts[i - 1]
           /\ NewTargets(r, done) = ts[Len(r.cnames)]
<1> DEFINE cn == r.cnames
           n == Len(cn)
           B(f, i) == IF i = 0 THEN <<>>
                      ELSE IF cn[i].own /\ cn[i].target \notin done \cup Elems(f[i - 1])
                           THEN Append(f[i - 1], cn[i].target)
                           ELSE f[i - 1]
           G(f, k) == [i \in 0..k |-> B(f, i)]
           S == { k \in Nat : \E f : f = G(f, k) }
<1>1. n \in Nat
  BY DEF Message
<1>2. 0 \in S
  <2>1. [i \in 0..0 |-> <<>>] = G([i \in 0..0 |-> <<>>], 0)
    OBVIOUS
  <2>2. QED
    BY <2>1, Zenon
<1>3. ASSUME NEW k \in Nat, k \in S PROVE k + 1 \in S
  <2>1. PICK f : f = G(f, k)
    BY <1>3
  <2> DEFINE g == [i \in 0..(k + 1) |-> IF i = k + 1 THEN B(f, i) ELSE f[i]]
  <2>2. \A i \in 0..(k + 1) : B(g, i) = B(f, i)
    <3>1. ASSUME NEW i \in 0..(k + 1), i # 0 PROVE g[i - 1] = f[i - 1]
      <4>1. i - 1 \in 0..(k + 1) /\ i - 1 # k + 1
        BY <3>1
      <4>2. QED
        BY <4>1
    <3> HIDE DEF g
    <3>2. QED
      BY <3>1
  <2>3. \A i \in 0..k : f[i] = B(f, i)
    BY <2>1, Zenon
  <2>4. g = G(g, k + 1)
    <3> HIDE DEF B
    <3>1. g = [i \in 0..(k + 1) |-> B(f, i)]
      BY <2>3
    <3> HIDE DEF g
    <3>2. QED
      BY <2>2, <3>1
  <2> HIDE DEF g, G
  <2>5. QED
    BY <2>4
<1>4. \E f : f = G(f, n)
  <2> HIDE DEF G
  <2>1. 0 \in S /\ \A k \in Nat : k \in S => k + 1 \in S
    BY <1>2, <1>3
  <2>2. Nat \subseteq S
    <3> HIDE DEF S
    <3> QED BY <2>1, NatInduct
  <2>3. QED
    BY <1>1, <2>2
<1> DEFINE ts == CHOOSE f : f = G(f, n)
<1>5. ts = G(ts, n)
  <2> HIDE DEF G
  <2> QED BY <1>4
<1>6. NewTargets(r, done) = ts[n]
  BY DEF NewTargets
<1> HIDE DEF ts
<1>7. DOMAIN ts = 0..n /\ \A i \in 0..n : ts[i] = B(ts, i)
  BY <1>5, Zenon
<1>8. QED
  BY <1>1, <1>6, <1>7

\* What the loop enqueues: names, namely the targets of the reply's own CNAMEs
\* that have not been looked up.
LEMMA NewTargetsElems ==
  ASSUME NEW r \in Message, NEW done
  PROVE  /\ NewTargets(r, done) \in Seq(Name)
         /\ Elems(NewTargets(r, done)) = TargetSet(r) \ done
<1> DEFINE cn == r.cnames
           n == Len(cn)
           T(k) == { cn[i].target : i \in { j \in 1..k : cn[j].own } } \ done
<1>1. PICK ts :
        /\ DOMAIN ts = 0..n
        /\ ts[0] = <<>>
        /\ \A i \in 1..n :
             ts[i] = IF cn[i].own /\ cn[i].target \notin done \cup Elems(ts[i - 1])
                     THEN Append(ts[i - 1], cn[i].target)
                     ELSE ts[i - 1]
        /\ NewTargets(r, done) = ts[n]
  BY TargetTable
<1>2. n \in Nat /\ DOMAIN cn = 1..n /\ \A i \in 1..n : cn[i].own \in BOOLEAN /\ cn[i].target \in Name
  <2> DEFINE R == [own : BOOLEAN, target : Name]
  <2>1. cn \in Seq(R)
    BY DEF Message
  <2>2. \A x \in R : x.own \in BOOLEAN /\ x.target \in Name
    OBVIOUS
  <2> HIDE DEF cn, R
  <2>3. n \in Nat /\ DOMAIN cn = 1..n /\ \A i \in 1..n : cn[i] \in R
    BY <2>1, SeqFacts
  <2>4. QED
    BY <2>2, <2>3
<1> DEFINE P(k) == ts[k] \in Seq(Name) /\ Elems(ts[k]) = T(k)
           S == { k \in Nat : k <= n => P(k) }
<1>3. 0 \in S
  <2>1. ts[0] \in Seq(Name) /\ Elems(ts[0]) = {}
    BY <1>1 DEF Elems
  <2>2. T(0) = {}
    OBVIOUS
  <2> HIDE DEF T
  <2>3. QED
    BY <2>1, <2>2, Zenon
<1>4. ASSUME NEW k \in Nat, k \in S PROVE k + 1 \in S
  <2> SUFFICES ASSUME k + 1 <= n PROVE P(k + 1)
    OBVIOUS
  <2> DEFINE c == cn[k + 1]
             t == ts[k]
  <2>1. k + 1 \in 1..n /\ k <= n /\ P(k) /\ (k + 1) - 1 = k
    BY <1>2, <1>4
  <2>2. ts[k + 1] = IF c.own /\ c.target \notin done \cup Elems(t)
                    THEN Append(t, c.target) ELSE t
    BY <1>1, <2>1, Zenon
  <2>3. c.own \in BOOLEAN /\ c.target \in Name
    BY <1>2, <2>1
  <2>4. T(k + 1) = IF c.own THEN T(k) \cup ({c.target} \ done) ELSE T(k)
    <3>1. 1..(k + 1) = (1..k) \cup {k + 1}
      OBVIOUS
    <3>2. QED
      BY <3>1
  <2> HIDE DEF T
  <2>5. Elems(Append(t, c.target)) = Elems(t) \cup {c.target} /\ Append(t, c.target) \in Seq(Name)
    BY <2>1, <2>3, ElemsAppend
  <2>6. t \in Seq(Name) /\ Elems(t) = T(k)
    BY <2>1
  <2> HIDE DEF c, t
  <2>7. CASE c.own /\ c.target \notin done \cup Elems(t)
    BY <2>2, <2>4, <2>5, <2>6, <2>7, Zenon
  <2>8. CASE ~ (c.own /\ c.target \notin done \cup Elems(t))
    <3>1. ts[k + 1] = t
      BY <2>2, <2>8
    <3>2. T(k + 1) = T(k)
      BY <2>3, <2>4, <2>6, <2>8, Zenon
    <3>3. QED
      BY <2>6, <3>1, <3>2
  <2>9. QED
    BY <2>7, <2>8
<1>5. Nat \subseteq S
  <2> HIDE DEF S
  <2> QED BY <1>3, <1>4, NatInduct
<1>6. P(n)
  <2>1. n \in S
    <3> HIDE DEF S, n
    <3> QED BY <1>2, <1>5
  <2>2. n <= n
    BY <1>2
  <2> HIDE DEF P
  <2>3. QED
    BY <2>1, <2>2
<1>7. T(n) = TargetSet(r) \ done
  BY <1>2 DEF TargetSet
<1>8. QED
  BY <1>1, <1>6, <1>7

\* The minTTL loop as an equation.
LEMMA TTLTable ==
  ASSUME NEW rrs \in Seq([ip : Addr, ttl : Nat])
  PROVE  \E m :
           /\ DOMAIN m = 0..Len(rrs)
           /\ m[0] = 0
           /\ \A i \in 1..Len(rrs) :
                m[i] = IF m[i - 1] = 0 \/ rrs[i].ttl < m[i - 1] THEN rrs[i].ttl ELSE m[i - 1]
           /\ MinTTL(rrs) = m[Len(rrs)]
<1> DEFINE n == Len(rrs)
           B(f, i) == IF i = 0 THEN 0
                      ELSE IF f[i - 1] = 0 \/ rrs[i].ttl < f[i - 1] THEN rrs[i].ttl
                      ELSE f[i - 1]
           G(f, k) == [i \in 0..k |-> B(f, i)]
           S == { k \in Nat : \E f : f = G(f, k) }
<1>1. n \in Nat
  OBVIOUS
<1>2. 0 \in S
  <2>1. [i \in 0..0 |-> 0] = G([i \in 0..0 |-> 0], 0)
    OBVIOUS
  <2>2. QED
    BY <2>1, Zenon
<1>3. ASSUME NEW k \in Nat, k \in S PROVE k + 1 \in S
  <2>1. PICK f : f = G(f, k)
    BY <1>3
  <2> DEFINE g == [i \in 0..(k + 1) |-> IF i = k + 1 THEN B(f, i) ELSE f[i]]
  <2>2. \A i \in 0..(k + 1) : B(g, i) = B(f, i)
    <3>1. ASSUME NEW i \in 0..(k + 1), i # 0 PROVE g[i - 1] = f[i - 1]
      <4>1. i - 1 \in 0..(k + 1) /\ i - 1 # k + 1
        BY <3>1
      <4>2. QED
        BY <4>1
    <3> HIDE DEF g
    <3>2. QED
      BY <3>1
  <2>3. \A i \in 0..k : f[i] = B(f, i)
    BY <2>1
  <2>4. g = G(g, k + 1)
    <3> HIDE DEF B
    <3>1. g = [i \in 0..(k + 1) |-> B(f, i)]
      BY <2>3
    <3> HIDE DEF g
    <3>2. QED
      BY <2>2, <3>1
  <2> HIDE DEF g, G
  <2>5. QED
    BY <2>4
<1>4. \E f : f = G(f, n)
  <2> HIDE DEF G
  <2>1. 0 \in S /\ \A k \in Nat : k \in S => k + 1 \in S
    BY <1>2, <1>3
  <2>2. Nat \subseteq S
    <3> HIDE DEF S
    <3> QED BY <2>1, NatInduct, Zenon
  <2>3. QED
    BY <1>1, <2>2
<1> DEFINE m == CHOOSE f : f = G(f, n)
<1>5. m = G(m, n)
  <2> HIDE DEF G
  <2> QED BY <1>4
<1>6. MinTTL(rrs) = m[n]
  BY DEF MinTTL
<1> HIDE DEF m
<1>7. DOMAIN m = 0..n /\ \A i \in 0..n : m[i] = B(m, i)
  BY <1>5
<1>8. \A i \in 1..n : i \in 0..n /\ i # 0
  BY <1>1
<1>9. m[0] = 0
  <2>1. 0 \in 0..n
    BY <1>1
  <2>2. m[0] = B(m, 0)
    <3> HIDE DEF B
    <3> QED BY <1>7, <2>1
  <2>3. QED
    BY <2>2
<1>10. QED
  <2> WITNESS m
  <2> QED BY <1>6, <1>7, <1>8, <1>9

\* What the minTTL loop computes: a TTL of the records, the least one when none
\* of them is zero.
LEMMA MinTTLFacts ==
  ASSUME NEW rrs \in Seq([ip : Addr, ttl : Nat]), rrs # <<>>
  PROVE  LET ttls == { rr.ttl : rr \in Elems(rrs) }
         IN  /\ MinTTL(rrs) \in Nat
             /\ MinTTL(rrs) \in ttls
             /\ 0 \notin ttls => \A t \in ttls : MinTTL(rrs) <= t
<1> DEFINE n == Len(rrs)
<1>1. PICK m :
        /\ DOMAIN m = 0..n
        /\ m[0] = 0
        /\ \A i \in 1..n :
             m[i] = IF m[i - 1] = 0 \/ rrs[i].ttl < m[i - 1] THEN rrs[i].ttl ELSE m[i - 1]
        /\ MinTTL(rrs) = m[n]
  BY TTLTable, Zenon
<1>2. n \in Nat /\ n # 0 /\ DOMAIN rrs = 1..n /\ \A i \in 1..n : rrs[i].ttl \in Nat
  <2> DEFINE R == [ip : Addr, ttl : Nat]
  <2>1. \A x \in R : x.ttl \in Nat
    OBVIOUS
  <2>2. rrs \in Seq(R)
    OBVIOUS
  <2> HIDE DEF R
  <2>3. n \in Nat /\ n # 0 /\ DOMAIN rrs = 1..n /\ \A i \in 1..n : rrs[i] \in R
    BY <2>2, SeqFacts
  <2>4. QED
    BY <2>1, <2>3
<1> DEFINE P(k) == /\ m[k] \in Nat
                   /\ k # 0 => \E i \in 1..k : m[k] = rrs[i].ttl
                   /\ (\A i \in 1..k : rrs[i].ttl # 0) => \A i \in 1..k : m[k] <= rrs[i].ttl
           S == { k \in Nat : k <= n => P(k) }
<1>3. 0 \in S
  BY <1>1, <1>2
<1>4. ASSUME NEW k \in Nat, k \in S PROVE k + 1 \in S
  <2> SUFFICES ASSUME k + 1 <= n PROVE P(k + 1)
    OBVIOUS
  <2> DEFINE x == rrs[k + 1].ttl
  <2>1. k + 1 \in 1..n /\ k <= n /\ P(k) /\ (k + 1) - 1 = k
    BY <1>2, <1>4
  <2>2. m[k + 1] = IF m[k] = 0 \/ x < m[k] THEN x ELSE m[k]
    BY <1>1, <2>1
  <2>3. x \in Nat
    BY <1>2, <2>1
  <2>4. 1..(k + 1) = (1..k) \cup {k + 1}
    OBVIOUS
  <2>5. \A i \in 1..k : rrs[i].ttl \in Nat
    BY <1>2, <2>1
  <2>6. m[k + 1] \in Nat /\ \E i \in 1..(k + 1) : m[k + 1] = rrs[i].ttl
    <3>1. k = 0 => m[k] = 0
      BY <1>1
    <3>2. CASE m[k + 1] = x
      BY <2>3, <2>4, <3>2
    <3>3. CASE m[k + 1] = m[k] /\ k # 0
      BY <2>1, <2>4, <3>3
    <3>4. QED
      BY <2>2, <3>1, <3>2, <3>3
  <2>7. ASSUME \A i \in 1..(k + 1) : rrs[i].ttl # 0
        PROVE  \A i \in 1..(k + 1) : m[k + 1] <= rrs[i].ttl
    <3>1. \A i \in 1..k : m[k] <= rrs[i].ttl
      BY <2>1, <2>4, <2>7
    <3>2. k # 0 => m[k] # 0
      BY <2>1, <2>4, <2>7
    <3>3. k = 0 => 1..k = {}
      OBVIOUS
    <3>4. m[k + 1] <= x /\ (k # 0 => m[k + 1] <= m[k])
      BY <2>1, <2>2, <2>3, <3>2
    <3>5. ASSUME NEW i \in 1..k PROVE m[k + 1] <= rrs[i].ttl
      <4>1. k # 0 /\ m[k + 1] <= m[k] /\ m[k] <= rrs[i].ttl
        BY <3>1, <3>4
      <4>2. m[k + 1] \in Nat /\ m[k] \in Nat /\ rrs[i].ttl \in Nat
        BY <2>1, <2>5, <2>6
      <4>3. QED
        BY <4>1, <4>2
    <3>6. QED
      BY <2>4, <3>4, <3>5
  <2>8. QED
    BY <2>6, <2>7
<1>5. Nat \subseteq S
  <2> HIDE DEF S
  <2> QED BY <1>3, <1>4, NatInduct
<1>6. P(n)
  <2>1. n \in S
    <3> HIDE DEF S, n
    <3> QED BY <1>2, <1>5
  <2>2. n <= n
    BY <1>2
  <2> HIDE DEF P
  <2>3. QED
    BY <2>1, <2>2
<1> HIDE DEF n
<1>7. \A t : t \in { rr.ttl : rr \in Elems(rrs) } <=> \E i \in 1..n : t = rrs[i].ttl
  BY <1>2 DEF Elems
<1> DEFINE ttls == { rr.ttl : rr \in Elems(rrs) }
<1> HIDE DEF ttls
<1>8. /\ MinTTL(rrs) \in Nat
      /\ MinTTL(rrs) \in ttls
      /\ 0 \notin ttls => \A t \in ttls : MinTTL(rrs) <= t
  <2>1. \A t : t \in ttls <=> \E i \in 1..n : t = rrs[i].ttl
    BY <1>7, Zenon DEF ttls
  <2>2. MinTTL(rrs) = m[n]
    BY <1>1
  <2>3. QED
    BY <1>2, <1>6, <2>1, <2>2
<1>9. QED
  BY <1>8 DEF ttls

-----------------------------------------------------------------------------
\* What a reply does: the chase goes on with the reply's new targets at the end
\* of the queue, or ends with a result that reflects the reply.
LEMMA UseReplyCases ==
  ASSUME NEW r \in Reply, pending \in Seq(Name), UseReply(r)
  PROVE  \/ /\ pc' = "loop" /\ res' = res
            /\ ~ HasAddrs(r) /\ TargetSet(r) # {}
            /\ pending' \in Seq(Name)
            /\ Elems(pending') = Elems(pending) \cup (TargetSet(r) \ seen)
         \/ /\ pc' = "done" /\ pending' = pending
            /\ \/ \E state \in {"nxdomain", "nodata"} :
                    res' = Result(state, {}, r.soa, 0, "") /\ (state = "nodata" => TargetSet(r) = {})
               \/ res' = Result("failure", {}, NoSOA, 0, "rcode")
               \/ /\ r.rrs # <<>>
                  /\ res' = Result("answer", { rr.ip : rr \in Elems(r.rrs) }, NoSOA,
                                   MinTTL(r.rrs), "")
<1>1. r \in Message
  BY ChaseAssumption
<1>2. CASE r.rcode = "success" /\ ~ HasAddrs(r) /\ TargetSet(r) # {}
           /\ Enqueue(NewTargets(r, seen)) /\ pc' = "loop" /\ res' = res
  <2>1. NewTargets(r, seen) \in Seq(Name) /\ Elems(NewTargets(r, seen)) = TargetSet(r) \ seen
    BY <1>1, NewTargetsElems
  <2>2. QED
    BY <1>2, <2>1, ElemsConcat DEF Enqueue
<1>3. { r.rrs[i].ip : i \in DOMAIN r.rrs } = { rr.ip : rr \in Elems(r.rrs) }
  BY DEF Elems
<1>4. QED
  BY <1>2, <1>3, Zenon DEF UseReply, Return, Fail, HasAddrs

\* The fields of the messages used.
LEMMA MessageFacts ==
  ASSUME NEW r \in Reply
  PROVE  /\ r \in Message /\ r.soa \in SOA \cup {NoSOA}
         /\ r.rrs \in Seq([ip : Addr, ttl : Nat])
         /\ TargetSet(r) \subseteq Name
         /\ { rr.ip : rr \in Elems(r.rrs) } \subseteq Addr
         /\ r.rrs # <<>> => { rr.ip : rr \in Elems(r.rrs) } # {} /\ MinTTL(r.rrs) \in Nat
<1>1. r \in Message
  BY ChaseAssumption
<1>2. /\ r.soa \in SOA \cup {NoSOA}
      /\ r.rrs \in Seq([ip : Addr, ttl : Nat])
      /\ r.cnames \in Seq([own : BOOLEAN, target : Name])
  BY <1>1 DEF Message
<1>3. TargetSet(r) \subseteq Name
  <2> DEFINE R == [own : BOOLEAN, target : Name]
             cn == r.cnames
  <2>1. \A x \in R : x.target \in Name
    OBVIOUS
  <2>2. cn \in Seq(R)
    BY <1>2
  <2> HIDE DEF R, cn
  <2>3. DOMAIN cn = 1..Len(cn) /\ \A i \in 1..Len(cn) : cn[i] \in R
    BY <2>2, SeqFacts
  <2>4. \A i \in DOMAIN cn : cn[i].target \in Name
    BY <2>1, <2>3
  <2>5. QED
    BY <2>4 DEF TargetSet, cn
<1>4. { rr.ip : rr \in Elems(r.rrs) } \subseteq Addr
  <2> DEFINE R == [ip : Addr, ttl : Nat]
  <2>1. \A x \in R : x.ip \in Addr
    OBVIOUS
  <2>2. r.rrs \in Seq(R)
    BY <1>2
  <2> HIDE DEF R
  <2>3. Elems(r.rrs) \subseteq R
    BY <2>2, SeqFacts
  <2>4. QED
    BY <2>1, <2>3
<1>5. ASSUME r.rrs # <<>> PROVE { rr.ip : rr \in Elems(r.rrs) } # {} /\ MinTTL(r.rrs) \in Nat
  <2>1. r.rrs[1] \in Elems(r.rrs)
    BY <1>2, <1>5 DEF Elems
  <2>2. MinTTL(r.rrs) \in Nat
    BY <1>2, <1>5, MinTTLFacts, Zenon
  <2>3. QED
    BY <2>1, <2>2
<1>6. QED
  BY <1>1, <1>2, <1>3, <1>4, <1>5

-----------------------------------------------------------------------------
\* The part of TypeOK about the result and the program counter.
ResultOK ==
  /\ res \in [state : {"none", "failure", "nodata", "nxdomain", "answer"},
              addrs : SUBSET Addr, soa : SOA \cup {NoSOA}, minTTL : Nat, category : Categories]
  /\ pc = "done" <=> res.state # "none"
  /\ res.state = "answer" <=> res.addrs # {}
  /\ res.state # "answer" => res.minTTL = 0
  /\ res.soa # NoSOA => res.state \in {"nodata", "nxdomain"}
  /\ res.state = "failure" <=> res.category # ""

\* Each way of ending a step keeps ResultOK.
LEMMA ResultKept ==
  ASSUME ResultOK, pc # "done"
  PROVE  /\ pc' # "done" /\ res' = res => ResultOK'
         /\ \A c \in Categories \ {""} : Fail(c) => ResultOK'
         /\ \A state \in {"nodata", "nxdomain"}, soa \in SOA \cup {NoSOA} :
              Return(state, {}, soa, 0, "") => ResultOK'
         /\ \A addrs \in (SUBSET Addr) \ {{}}, ttl \in Nat :
              Return("answer", addrs, NoSOA, ttl, "") => ResultOK'
<1> USE DEF ResultOK, Categories, Return, Result
<1>1. pc' # "done" /\ res' = res => ResultOK'
  BY Zenon
<1>2. ASSUME NEW c \in Categories \ {""}, Fail(c) PROVE ResultOK'
  BY <1>2, Zenon DEF Fail
<1>3. ASSUME NEW state \in {"nodata", "nxdomain"}, NEW soa \in SOA \cup {NoSOA},
             Return(state, {}, soa, 0, "")
      PROVE  ResultOK'
  BY <1>3, Zenon
<1>4. ASSUME NEW addrs \in (SUBSET Addr) \ {{}}, NEW ttl \in Nat,
             Return("answer", addrs, NoSOA, ttl, "")
      PROVE  ResultOK'
  BY <1>4, Zenon
<1>5. QED
  BY <1>1, <1>2, <1>3, <1>4, Zenon

\* The type invariant without the result.
StateOK ==
  /\ pc \in {"loop", "budget", "exchange", "udp", "truncated", "tcp", "done"}
  /\ pending \in Seq(Name)
  /\ seen \subseteq Name
  /\ lookups = Cardinality(seen)
  /\ cur \in Name
  /\ err \in BOOLEAN /\ late \in BOOLEAN
  /\ sent \in Seq(Name \X {"udp", "tcp"})
  /\ DOMAIN replies \subseteq Name
  /\ \A x \in DOMAIN replies : replies[x] \in Reply

\* Type correctness of Chase, and the shape of what it returns to the engine.
THEOREM ChaseTypeCorrect == Spec => []TypeOK
<1>1. TypeOK <=> StateOK /\ ResultOK
  BY Zenon DEF TypeOK, StateOK, ResultOK
<1>2. Init => StateOK /\ ResultOK
  <2> SUFFICES ASSUME Init PROVE StateOK /\ ResultOK
    OBVIOUS
  <2>1. ResultOK
    BY Zenon DEF Init, ResultOK, NoResult, Result, Categories
  <2>2. StateOK
    <3>1. <<qname>> \in Seq(Name) /\ qname \in Name
      BY ChaseAssumption
    <3>2. Cardinality({}) = 0
      BY FS_EmptySet
    <3>3. <<>> \in Seq(Name \X {"udp", "tcp"})
      OBVIOUS
    <3>4. QED
      BY <3>1, <3>2, <3>3, Zenon DEF Init, StateOK
  <2>3. QED
    BY <2>1, <2>2
<1>3. StateOK /\ ResultOK /\ [Next]_vars => StateOK' /\ ResultOK'
  <2> SUFFICES ASSUME StateOK, ResultOK, [Next]_vars PROVE StateOK' /\ ResultOK'
    OBVIOUS
  <2> USE DEF ctxVars
  <2>1. CASE LoopCanceled
    BY <2>1, ResultKept, Zenon DEF LoopCanceled, StateOK, Categories, Fail, Return
  <2>2. CASE LoopSkip
    <3>1. pending' \in Seq(Name)
      BY <2>2, ElemsTail DEF LoopSkip, StateOK
    <3>2. ResultOK'
      BY <2>2, ResultKept DEF LoopSkip
    <3>3. QED
      BY <2>2, <3>1, <3>2 DEF LoopSkip, StateOK
  <2>3. CASE LoopVisit
    <3>1. pending' \in Seq(Name) /\ Head(pending) \in Name
      BY <2>3, ElemsTail DEF LoopVisit, StateOK
    <3>2. Cardinality(seen \cup {Head(pending)}) = Cardinality(seen) + 1
      <4>1. IsFiniteSet(seen)
        BY ChaseAssumption, FS_Subset DEF StateOK
      <4>2. QED
        BY <2>3, <4>1, FS_AddElement DEF LoopVisit
    <3>3. ResultOK'
      BY <2>3, ResultKept, Zenon DEF LoopVisit, Categories
    <3>4. pc' \in {"budget", "done"}
      BY <2>3 DEF LoopVisit, Fail, Return
    <3>5. QED
      BY <2>3, <3>1, <3>2, <3>3, <3>4 DEF LoopVisit, StateOK
  <2>4. CASE LoopExhausted
    BY <2>4, ResultKept, Zenon DEF LoopExhausted, StateOK, Return
  <2>5. CASE HopBudget
    BY <2>5, ResultKept, Zenon DEF HopBudget, StateOK, Categories, Fail, Return
  <2>6. ASSUME NEW from, NEW transport \in {"udp", "tcp"}, Send(from, transport), from # "done"
        PROVE  StateOK' /\ ResultOK'
    <3>1. sent' \in Seq(Name \X {"udp", "tcp"})
      <4>1. <<cur, transport>> \in Name \X {"udp", "tcp"}
        BY DEF StateOK
      <4> DEFINE R == Name \X {"udp", "tcp"}
                 q == <<cur, transport>>
      <4>2. sent \in Seq(R) /\ q \in R /\ (sent' = sent \/ sent' = Append(sent, q))
        BY <2>6, <4>1 DEF Send, StateOK
      <4> HIDE DEF R, q
      <4>3. sent' \in Seq(R)
        BY <4>2, ElemsAppend
      <4>4. QED
        BY <4>3 DEF R
    <3>2. ResultOK'
      BY <2>6, ResultKept, Zenon DEF Send, Categories
    <3>3. pc' \in {"udp", "tcp", "done"}
      BY <2>6 DEF Send, Fail, Return
    <3>4. QED
      BY <2>6, <3>1, <3>2, <3>3 DEF Send, StateOK
  <2>7. CASE ExchangeError
    BY <2>7, ResultKept, Zenon DEF ExchangeError, StateOK, Categories, Fail, Return
  <2>8. ASSUME NEW r \in Reply, Replied(r), pc # "done",
               UNCHANGED <<seen, lookups, cur, ctxVars, sent>>
        PROVE  StateOK' /\ ResultOK'
    <3>1. ResultOK'
      <4>1. CASE pc' # "done" /\ res' = res
        BY <2>8, <4>1, ResultKept
      <4>2. ASSUME NEW state \in {"nxdomain", "nodata"}, pc' = "done",
                   res' = Result(state, {}, r.soa, 0, "")
            PROVE  ResultOK'
        BY <2>8, <4>2, ResultKept, MessageFacts, Zenon DEF Return
      <4>3. CASE pc' = "done" /\ res' = Result("failure", {}, NoSOA, 0, "rcode")
        BY <2>8, <4>3, ResultKept, Zenon DEF Fail, Return, Categories
      <4>4. CASE /\ pc' = "done" /\ r.rrs # <<>>
                 /\ res' = Result("answer", { rr.ip : rr \in Elems(r.rrs) }, NoSOA,
                                  MinTTL(r.rrs), "")
        BY <2>8, <4>4, ResultKept, MessageFacts, Zenon DEF Return
      <4>5. QED
        BY <2>8, <4>1, <4>2, <4>3, <4>4, UseReplyCases, Zenon DEF Replied, StateOK
    <3>2. pending' \in Seq(Name) /\ pc' \in {"loop", "done"}
      BY <2>8, UseReplyCases, Zenon DEF Replied, StateOK
    <3>3. QED
      BY <2>8, <3>1, <3>2 DEF Replied, StateOK
  <2>9. CASE UDPReply
    <3>1. CASE pc' = "truncated" /\ UNCHANGED <<pending, res, replies>>
      BY <2>9, <3>1, ResultKept DEF UDPReply, StateOK
    <3>2. QED
      BY <2>8, <2>9, <3>1 DEF UDPReply
  <2>10. CASE TCPReply
    BY <2>8, <2>10 DEF TCPReply
  <2>11. CASE Deadline \/ ContextEnds \/ UNCHANGED vars
    BY <2>11, Zenon DEF Deadline, ContextEnds, vars, StateOK, ResultOK
  <2>12. QED
    BY <2>1, <2>2, <2>3, <2>4, <2>5, <2>6, <2>7, <2>9, <2>10, <2>11
       DEF Next, Step, ExchangeUDP, ExchangeTCP
<1>4. QED
  BY <1>1, <1>2, <1>3, PTL DEF Spec

-----------------------------------------------------------------------------
\* Where the chase stands: which names have been asked and answered at each
\* place of the loop.
AskInv ==
  /\ Asked \subseteq seen
  /\ pc # "done" => lookups <= MaxHops
  /\ pc = "loop" => Asked = seen /\ DOMAIN replies = seen
  /\ pc \in {"budget", "exchange"} =>
       cur \in seen /\ Asked = seen \ {cur} /\ DOMAIN replies = seen \ {cur}
  /\ pc \in {"udp", "truncated", "tcp"} =>
       cur \in seen /\ Asked = seen /\ DOMAIN replies = seen \ {cur}
  /\ pc \in {"udp", "truncated"} =>
       <<cur, "udp">> \in Elems(sent) /\ <<cur, "tcp">> \notin Elems(sent)

\* The queries sent after one more.
LEMMA SentAppend ==
  ASSUME TypeOK, NEW transport \in {"udp", "tcp"}, sent' = Append(sent, <<cur, transport>>)
  PROVE  /\ Elems(sent') = Elems(sent) \cup {<<cur, transport>>}
         /\ Asked' = Asked \cup {cur}
         /\ <<cur, transport>> \notin Elems(sent) /\ (\A i, j \in DOMAIN sent : sent[i] = sent[j] => i = j)
              => \A i, j \in DOMAIN sent' : sent'[i] = sent'[j] => i = j
<1> DEFINE R == Name \X {"udp", "tcp"}
           q == <<cur, transport>>
<1>1. q \in R /\ sent \in Seq(R) /\ q[1] = cur /\ sent' = Append(sent, q)
  BY Zenon DEF TypeOK
<1> HIDE DEF R, q
<1>2. Elems(sent') = Elems(sent) \cup {q}
  BY <1>1, ElemsAppend
<1>3. Asked' = Asked \cup {cur}
  BY <1>1, <1>2 DEF Asked
<1>4. ASSUME q \notin Elems(sent), \A i, j \in DOMAIN sent : sent[i] = sent[j] => i = j,
             NEW i \in DOMAIN sent', NEW j \in DOMAIN sent', sent'[i] = sent'[j]
      PROVE  i = j
  <2> DEFINE n == Len(sent)
  <2>1. n \in Nat /\ DOMAIN sent = 1..n /\ DOMAIN sent' = 1..(n + 1)
    BY <1>1
  <2>2. sent'[n + 1] = q /\ \A k \in 1..n : sent'[k] = sent[k]
    <3>1. q \in R /\ sent \in Seq(R)
      BY <1>1
    <3>2. Append(sent, q)[n + 1] = q /\ \A k \in 1..n : Append(sent, q)[k] = sent[k]
      BY <3>1, ElemsAppend
    <3>3. QED
      BY <1>1, <3>2, Zenon
  <2>3. \A k \in 1..n : sent[k] # q
    BY <1>4, <2>1 DEF Elems
  <2> HIDE DEF n
  <2>4. \A k \in 1..(n + 1) : k = n + 1 \/ k \in 1..n
    BY <2>1
  <2>5. QED
    BY <1>4, <2>1, <2>2, <2>3, <2>4
<1>5. QED
  BY <1>2, <1>3, <1>4, Zenon DEF q

\* AskInv and AskedOnce hold together.
LEMMA AskInvariant == Spec => [](AskInv /\ AskedOnce)
<1>1. Init => AskInv /\ AskedOnce
  <2> SUFFICES ASSUME Init PROVE AskInv /\ AskedOnce
    OBVIOUS
  <2>1. Elems(sent) = {} /\ Asked = {}
    BY DEF Init, Elems, Asked
  <2>2. Cardinality({}) = 0
    BY FS_EmptySet
  <2>3. AskedOnce
    BY <2>1, <2>2, ChaseAssumption DEF AskedOnce, Init
  <2>4. AskInv
    BY <2>1, ChaseAssumption DEF AskInv, Init
  <2>5. QED
    BY <2>3, <2>4
<1>2. TypeOK /\ AskInv /\ AskedOnce /\ [Next]_vars => AskInv' /\ AskedOnce'
  <2> SUFFICES ASSUME TypeOK, AskInv, AskedOnce, [Next]_vars PROVE AskInv' /\ AskedOnce'
    OBVIOUS
  <2> USE DEF ctxVars
  <2>0. ASSUME sent' = sent PROVE AskedOnce' /\ Asked' = Asked /\ Elems(sent') = Elems(sent)
    BY <2>0 DEF AskedOnce, Asked, Elems
  <2>a. lookups \in Nat /\ MaxHops \in Nat /\ IsFiniteSet(seen)
    <3>1. IsFiniteSet(seen)
      BY ChaseAssumption, FS_Subset, Zenon DEF TypeOK
    <3>2. QED
      BY <3>1, FS_CardinalityType, ChaseAssumption, Zenon DEF TypeOK
  <2>1. CASE LoopCanceled \/ LoopExhausted \/ ExchangeError
    BY <2>0, <2>1, Zenon DEF LoopCanceled, LoopExhausted, ExchangeError, Fail, Return, AskInv
  <2>2. CASE LoopSkip
    BY <2>0, <2>2 DEF LoopSkip, AskInv
  <2>3. CASE LoopVisit
    BY <2>0, <2>3, <2>a DEF LoopVisit, OverCap, Fail, Return, AskInv
  <2>4. CASE HopBudget
    BY <2>0, <2>4 DEF HopBudget, Fail, Return, AskInv
  <2>5. ASSUME NEW from, NEW transport \in {"udp", "tcp"}, Send(from, transport), err
        PROVE  AskInv' /\ AskedOnce'
    BY <2>0, <2>5 DEF Send, Fail, Return, AskInv
  <2>6. ASSUME NEW from, NEW transport \in {"udp", "tcp"}, Send(from, transport), ~ err,
               <<from, transport>> \in {<<"exchange", "udp">>, <<"truncated", "tcp">>}
        PROVE  AskInv' /\ AskedOnce'
    <3> DEFINE q == <<cur, transport>>
    <3>1. /\ pc = from /\ pc' = transport /\ sent' = Append(sent, q)
          /\ UNCHANGED <<seen, lookups, cur, replies>>
      BY <2>6 DEF Send
    <3>2. Elems(sent') = Elems(sent) \cup {q} /\ Asked' = Asked \cup {cur}
      BY <3>1, SentAppend, Zenon
    <3>3. \A x : x \notin Asked => <<x, "udp">> \notin Elems(sent) /\ <<x, "tcp">> \notin Elems(sent)
      BY DEF Asked
    <3>4. q \notin Elems(sent) /\ Asked' = seen /\ cur \in seen
      BY <2>6, <3>1, <3>2, <3>3, Zenon DEF AskInv
    <3>5. AskInv'
      <4>1. transport = "udp" => <<cur, "tcp">> \notin Elems(sent')
        BY <2>6, <3>1, <3>2, <3>3 DEF AskInv
      <4>2. QED
        BY <2>6, <3>1, <3>2, <3>4, <4>1 DEF AskInv
    <3>6. Cardinality(Asked') <= MaxHops
      BY <2>6, <3>1, <3>4, Zenon DEF AskInv, TypeOK
    <3>7. \A i, j \in DOMAIN sent' : sent'[i] = sent'[j] => i = j
      BY <3>1, <3>4, SentAppend, Zenon DEF AskedOnce
    <3>8. \A x \in Name : <<x, "tcp">> \in Elems(sent') => <<x, "udp">> \in Elems(sent')
      BY <2>6, <3>1, <3>2, Zenon DEF AskedOnce, AskInv
    <3>9. QED
      BY <3>5, <3>6, <3>7, <3>8 DEF AskedOnce
  <2>7. ASSUME NEW r \in Reply, Replied(r), pc \in {"udp", "tcp"},
               UNCHANGED <<seen, lookups, cur, ctxVars, sent>>
        PROVE  AskInv' /\ AskedOnce'
    <3>1. pc' \in {"loop", "done"}
      BY <2>7, UseReplyCases, Zenon DEF Replied, TypeOK
    <3>2. DOMAIN replies' = DOMAIN replies \cup {cur}
      BY <2>7 DEF Replied
    <3>3. QED
      BY <2>0, <2>7, <3>1, <3>2 DEF AskInv
  <2>8. CASE UDPReply
    <3>1. CASE pc' = "truncated" /\ UNCHANGED <<pending, res, replies>>
      BY <2>0, <2>8, <3>1 DEF UDPReply, AskInv
    <3>2. QED
      BY <2>7, <2>8, <3>1 DEF UDPReply
  <2>9. CASE TCPReply
    BY <2>7, <2>9 DEF TCPReply
  <2>10. CASE Deadline \/ ContextEnds \/ UNCHANGED vars
    BY <2>0, <2>10 DEF Deadline, ContextEnds, vars, AskInv
  <2>11. CASE ExchangeUDP \/ ExchangeTCP
    BY <2>5, <2>6, <2>11 DEF ExchangeUDP, ExchangeTCP
  <2>12. QED
    BY <2>1, <2>2, <2>3, <2>4, <2>8, <2>9, <2>10, <2>11 DEF Next, Step
<1>3. QED
  BY <1>1, <1>2, ChaseTypeCorrect, PTL DEF Spec

\* No name is asked twice over a transport, and no more names than the limit.
THEOREM AskedAtMostOnce == Spec => []AskedOnce
BY AskInvariant, PTL

-----------------------------------------------------------------------------
Frontier == seen \cup Elems(pending)

\* A name reached from qname by the CNAMEs received: it is in every set that
\* holds qname and is closed under them.
Reached(x) == \A S \in SUBSET Name : qname \in S /\ Closed(S) => x \in S

\* What has been found: every name taken or queued is reached, the frontier
\* holds qname, and until Chase returns each reply held only CNAMEs, whose
\* targets are in the frontier.
ReachInv ==
  /\ \A x \in Frontier : Reached(x)
  /\ qname \in Frontier
  /\ pc # "done" => \A x \in DOMAIN replies :
       /\ ~ HasAddrs(replies[x]) /\ TargetSet(replies[x]) # {}
       /\ TargetSet(replies[x]) \subseteq Frontier

\* A step that leaves the queue's names and the replies alone keeps ReachInv.
LEMMA ReachKept ==
  ASSUME ReachInv, replies' = replies, Frontier' = Frontier, pc # "done" \/ pc' = pc
  PROVE  ReachInv'
<1>1. \A x \in Frontier : Reached(x)'
  BY DEF ReachInv, Reached, Closed
<1>2. ASSUME pc' # "done", NEW x \in DOMAIN replies'
      PROVE  /\ ~ HasAddrs(replies'[x]) /\ TargetSet(replies'[x]) # {}
             /\ TargetSet(replies'[x]) \subseteq Frontier'
  BY <1>2 DEF ReachInv
<1>3. \A x \in Frontier' : Reached(x)'
  BY <1>1
<1>4. qname \in Frontier'
  BY DEF ReachInv
<1>5. QED
  BY <1>2, <1>3, <1>4, Zenon DEF ReachInv, HasAddrs, TargetSet

\* ReachInv is an invariant.
LEMMA ReachInvariant == Spec => []ReachInv
<1>1. Init => ReachInv
  <2> SUFFICES ASSUME Init PROVE ReachInv
    OBVIOUS
  <2>1. Frontier = {qname}
    BY DEF Init, Frontier, Elems
  <2>2. QED
    BY <2>1 DEF Init, ReachInv, Reached
<1>2. TypeOK /\ AskInv /\ ReachInv /\ [Next]_vars => ReachInv'
  <2> SUFFICES ASSUME TypeOK, AskInv, ReachInv, [Next]_vars PROVE ReachInv'
    OBVIOUS
  <2> USE DEF ctxVars
  <2>1. ASSUME UNCHANGED <<seen, pending, replies>>, pc # "done" \/ pc' = pc
        PROVE  ReachInv'
    BY <2>1, ReachKept DEF Frontier, Elems
  <2>2. CASE LoopSkip \/ LoopVisit
    <3>1. Elems(pending) = {Head(pending)} \cup Elems(Tail(pending))
      BY <2>2, ElemsTail, Zenon DEF LoopSkip, LoopVisit, TypeOK
    <3>2. pending' = Tail(pending) /\ seen' = seen \cup {Head(pending)} /\ replies' = replies
      BY <2>2 DEF LoopSkip, LoopVisit
    <3>3. Frontier' = Frontier
      <4>1. Elems(pending') = Elems(Tail(pending))
        BY <3>2 DEF Elems
      <4>2. QED
        BY <3>1, <3>2, <4>1 DEF Frontier
    <3>4. QED
      BY <2>2, <3>2, <3>3, ReachKept DEF LoopSkip, LoopVisit
  <2>3. ASSUME NEW r \in Reply, Replied(r), pc \in {"udp", "tcp"},
               UNCHANGED <<seen, lookups, cur, ctxVars, sent>>
        PROVE  ReachInv'
    <3>1. cur \in seen /\ cur \notin DOMAIN replies /\ seen \subseteq Name
      BY <2>3, Zenon DEF AskInv, TypeOK
    <3>2. /\ DOMAIN replies' = DOMAIN replies \cup {cur} /\ replies'[cur] = r
          /\ \A x \in DOMAIN replies : replies'[x] = replies[x]
      BY <2>3, <3>1 DEF Replied
    <3>3. \A S \in SUBSET Name : Closed(S)' => Closed(S)
      BY <3>2 DEF Closed
    <3>4. \A x \in Frontier : Reached(x)'
      BY <3>3 DEF ReachInv, Reached
    <3>5. \A x \in TargetSet(r) : Reached(x)'
      <4> SUFFICES ASSUME NEW x \in TargetSet(r), NEW S \in SUBSET Name, qname \in S, Closed(S)'
                   PROVE  x \in S
        BY DEF Reached
      <4>1. cur \in S
        BY <3>1, <3>4 DEF Reached, Frontier
      <4>2. QED
        BY <3>2, <4>1 DEF Closed
    <3>6. CASE /\ pc' = "loop" /\ ~ HasAddrs(r) /\ TargetSet(r) # {}
               /\ Elems(pending') = Elems(pending) \cup (TargetSet(r) \ seen)
      <4>1. Frontier' = Frontier \cup TargetSet(r)
        BY <2>3, <3>6 DEF Frontier
      <4>2. ASSUME NEW x \in DOMAIN replies'
            PROVE  /\ ~ HasAddrs(replies'[x]) /\ TargetSet(replies'[x]) # {}
                   /\ TargetSet(replies'[x]) \subseteq Frontier'
        <5>1. CASE x = cur
          BY <3>2, <3>6, <4>1, <5>1
        <5>2. CASE x # cur
          <6>1. x \in DOMAIN replies /\ replies'[x] = replies[x]
            BY <3>2, <4>2, <5>2
          <6>2. QED
            BY <2>3, <4>1, <6>1 DEF ReachInv
        <5>3. QED
          BY <5>1, <5>2
      <4>3. \A x \in Frontier' : Reached(x)'
        BY <3>4, <3>5, <4>1
      <4>4. qname \in Frontier'
        BY <4>1 DEF ReachInv
      <4>5. QED
        BY <4>2, <4>3, <4>4, Zenon DEF ReachInv, HasAddrs, TargetSet
    <3>7. CASE pc' = "done" /\ pending' = pending
      <4>1. Frontier' = Frontier
        BY <2>3, <3>7 DEF Frontier, Elems
      <4>2. QED
        BY <3>4, <3>7, <4>1 DEF ReachInv
    <3>8. QED
      BY <2>3, <3>6, <3>7, UseReplyCases, Zenon DEF Replied, TypeOK
  <2>4. CASE UDPReply
    BY <2>1, <2>3, <2>4 DEF UDPReply
  <2>5. CASE TCPReply
    BY <2>3, <2>5 DEF TCPReply
  <2>6. CASE LoopCanceled \/ LoopExhausted \/ HopBudget \/ ExchangeError
             \/ ExchangeUDP \/ ExchangeTCP \/ Deadline \/ ContextEnds
    BY <2>1, <2>6, Zenon DEF LoopCanceled, LoopExhausted, HopBudget, ExchangeError, ExchangeUDP,
         ExchangeTCP, Send, Deadline, ContextEnds
  <2>7. CASE UNCHANGED vars
    BY <2>1, <2>7 DEF vars
  <2>8. QED
    BY <2>2, <2>4, <2>5, <2>6, <2>7 DEF Next, Step
<1>3. QED
  BY <1>1, <1>2, ChaseTypeCorrect, AskInvariant, PTL DEF Spec

-----------------------------------------------------------------------------
\* An answer reflects the reply to the last name asked.
AnswerInv ==
  res.state = "answer" =>
    /\ cur \in Asked /\ replies[cur] \in Reply /\ replies[cur].rrs # <<>>
    /\ res.addrs = { rr.ip : rr \in Elems(replies[cur].rrs) }
    /\ res.minTTL = MinTTL(replies[cur].rrs)

\* What the three kinds of result say of the chase.
DoneInv == AnswerInv /\ DepthCapExact /\ ExhaustedIsClosed

\* Before the chase returns, and after some failures, DoneInv says nothing.
LEMMA DoneTrivially ==
  ASSUME res.state \notin {"answer", "nodata"}, res.category # "cname-maxdepth"
  PROVE  DoneInv
BY DEF DoneInv, AnswerInv, DepthCapExact, ExhaustedIsClosed

\* DoneInv is an invariant.
LEMMA DoneInvariant == Spec => []DoneInv
<1>1. Init => DoneInv
  <2> SUFFICES ASSUME Init PROVE DoneInv
    OBVIOUS
  <2>1. res.state = "none" /\ res.category = ""
    BY Zenon DEF Init, NoResult, Result
  <2>2. QED
    BY <2>1, DoneTrivially, Zenon
<1>2. TypeOK /\ AskInv /\ AskedOnce /\ ReachInv /\ DoneInv /\ [Next]_vars => DoneInv'
  <2> SUFFICES ASSUME TypeOK, AskInv, AskedOnce, ReachInv, DoneInv, [Next]_vars PROVE DoneInv'
    OBVIOUS
  <2> USE DEF ctxVars
  <2>1. ASSUME res'.state \notin {"answer", "nodata"}, res'.category # "cname-maxdepth"
        PROVE  DoneInv'
    BY <2>1 DEF DoneInv, AnswerInv, DepthCapExact, ExhaustedIsClosed
  <2>2. pc # "done" => res.state = "none" /\ res.category = ""
    BY Zenon DEF TypeOK
  <2>3. ASSUME NEW c \in Categories, c # "cname-maxdepth", Fail(c) PROVE DoneInv'
    BY <2>1, <2>3 DEF Fail, Return, Result
  <2>4. CASE LoopCanceled \/ ExchangeError
    BY <2>3, <2>4, Zenon DEF LoopCanceled, ExchangeError, Categories
  <2>5. ASSUME res' = res, pc # "done" PROVE DoneInv'
    BY <2>1, <2>2, <2>5, Zenon
  <2>6. CASE LoopSkip \/ Deadline \/ ContextEnds
    BY <2>5, <2>6 DEF LoopSkip, Deadline, ContextEnds
  <2>7. CASE HopBudget \/ ExchangeUDP \/ ExchangeTCP
    BY <2>3, <2>5, <2>7, Zenon DEF HopBudget, ExchangeUDP, ExchangeTCP, Send, Categories
  <2>8. CASE LoopVisit
    <3>1. CASE res' = res
      BY <2>5, <2>8, <3>1 DEF LoopVisit
    <3>2. CASE OverCap(lookups + 1) /\ Fail("cname-maxdepth")
      <4>1. Asked = seen /\ DOMAIN replies = seen /\ lookups <= MaxHops
        BY <2>8 DEF AskInv, LoopVisit
      <4>2. IsFiniteSet(seen) /\ lookups \in Nat /\ lookups = Cardinality(seen)
        BY ChaseAssumption, FS_Subset, FS_CardinalityType, Zenon DEF TypeOK
      <4>3. lookups = MaxHops
        BY <3>2, <4>1, <4>2, ChaseAssumption DEF OverCap
      <4>4. cur' \notin Asked /\ sent' = sent /\ replies' = replies
        BY <2>8, <4>1 DEF LoopVisit
      <4>5. Asked' = Asked
        BY <4>4 DEF Asked, Elems
      <4>6. \A x \in Asked : x \in DOMAIN replies /\ TargetSet(replies[x]) # {}
        BY <2>8, <4>1 DEF ReachInv, LoopVisit
      <4>7. res'.state = "failure"
        BY <3>2 DEF Fail, Return, Result
      <4>8. DepthCapExact'
        <5>1. Cardinality(Asked') = MaxHops /\ cur' \notin Asked'
          BY <4>1, <4>2, <4>3, <4>4, <4>5, Zenon
        <5>2. \A x \in Asked' : x \in DOMAIN replies' /\ TargetSet(replies'[x]) # {}
          BY <4>4, <4>5, <4>6
        <5>3. QED
          BY <5>1, <5>2, Zenon DEF DepthCapExact, TargetSet
      <4>9. QED
        BY <4>7, <4>8 DEF DoneInv, AnswerInv, ExhaustedIsClosed
    <3>3. QED
      BY <2>8, <3>1, <3>2 DEF LoopVisit
  <2>9. CASE LoopExhausted
    <3>0. Elems(pending) = {}
      <4>1. pending = <<>>
        BY <2>9, Zenon DEF LoopExhausted
      <4>2. Elems(<<>>) = {}
        BY DEF Elems
      <4>3. QED
        BY <4>1, <4>2, Zenon
    <3>1. Asked = seen /\ DOMAIN replies = seen /\ Elems(pending) = {}
      BY <2>9, <3>0, Zenon DEF AskInv, LoopExhausted
    <3>2. Frontier = seen
      BY <3>1 DEF Frontier
    <3>3. \A x \in seen : /\ ~ HasAddrs(replies[x]) /\ TargetSet(replies[x]) # {}
                          /\ TargetSet(replies[x]) \subseteq seen
      BY <2>9, <3>1, <3>2, Zenon DEF ReachInv, LoopExhausted
    <3>4. qname \in seen /\ Closed(seen)
      BY <3>2, <3>3 DEF ReachInv, Closed
    <3>5. UNCHANGED <<sent, seen, replies>> /\ res'.state = "nodata" /\ res'.category = ""
      BY <2>9, Zenon DEF LoopExhausted, Return, Result
    <3>6. Asked' = Asked
      BY <3>5, Zenon DEF Asked, Elems
    <3>7. Closed(seen)'
      BY <3>4, <3>5, Zenon DEF Closed
    <3>8. \A x \in seen' : ~ HasAddrs(replies'[x]) /\ TargetSet(replies'[x]) # {}
      BY <3>3, <3>5, Zenon
    <3>9. ExhaustedIsClosed'
      BY <3>1, <3>4, <3>5, <3>6, <3>7, <3>8, Zenon DEF ExhaustedIsClosed, HasAddrs, TargetSet
    <3>10. QED
      BY <3>5, <3>9, Zenon DEF DoneInv, AnswerInv, DepthCapExact
  <2>10. ASSUME NEW r \in Reply, Replied(r), pc \in {"udp", "tcp"},
                UNCHANGED <<seen, lookups, cur, ctxVars, sent>>
         PROVE  DoneInv'
    <3>1. replies'[cur] = r /\ cur' = cur
      BY <2>10 DEF Replied
    <3>2. CASE res' = res
      BY <2>5, <2>10, <3>2
    <3>3. CASE res' = Result("failure", {}, NoSOA, 0, "rcode")
      BY <2>1, <3>3 DEF Result
    <3>4. ASSUME NEW state \in {"nxdomain", "nodata"}, res' = Result(state, {}, r.soa, 0, ""),
                 state = "nodata" => TargetSet(r) = {}
          PROVE  DoneInv'
      <4>1. res'.state = state /\ res'.category = ""
        BY <3>4, Zenon DEF Result
      <4>2. state = "nodata" => ~ (TargetSet(replies[cur]) # {})'
        BY <3>1, <3>4, Zenon DEF TargetSet
      <4>3. ExhaustedIsClosed'
        BY <4>1, <4>2, Zenon DEF ExhaustedIsClosed
      <4>4. QED
        BY <4>1, <4>3, Zenon DEF DoneInv, AnswerInv, DepthCapExact
    <3>5. CASE /\ r.rrs # <<>>
               /\ res' = Result("answer", { rr.ip : rr \in Elems(r.rrs) }, NoSOA,
                                MinTTL(r.rrs), "")
      <4>1. cur \in Asked
        BY <2>10 DEF AskInv
      <4>2. cur' \in Asked'
        BY <2>10, <4>1 DEF Asked, Elems
      <4>3. /\ res'.state = "answer" /\ res'.category = ""
            /\ res'.addrs = { rr.ip : rr \in Elems(r.rrs) } /\ res'.minTTL = MinTTL(r.rrs)
        BY <3>5, Zenon DEF Result
      <4>4. AnswerInv'
        BY <3>1, <3>5, <4>2, <4>3, Zenon DEF AnswerInv
      <4>5. QED
        BY <4>3, <4>4, Zenon DEF DoneInv, DepthCapExact, ExhaustedIsClosed
    <3>6. QED
      BY <2>10, <3>2, <3>3, <3>4, <3>5, UseReplyCases, Zenon DEF Replied, TypeOK
  <2>11. CASE UDPReply
    BY <2>5, <2>10, <2>11 DEF UDPReply
  <2>12. CASE TCPReply
    BY <2>10, <2>12 DEF TCPReply
  <2>13. CASE UNCHANGED vars
    <3>1. UNCHANGED <<res, cur, seen, replies>> /\ Asked' = Asked /\ Closed(seen)' = Closed(seen)
      BY <2>13 DEF vars, Asked, Elems, Closed
    <3>2. AnswerInv'
      BY <3>1 DEF DoneInv, AnswerInv
    <3>3. DepthCapExact'
      <4>1. ASSUME res'.category = "cname-maxdepth"
            PROVE  /\ Cardinality(Asked') = MaxHops /\ cur' \notin Asked'
                   /\ \A x \in Asked' : x \in DOMAIN replies' /\ TargetSet(replies'[x]) # {}
        BY <3>1, <4>1 DEF DoneInv, DepthCapExact
      <4>2. QED
        BY <4>1, Zenon DEF DepthCapExact, TargetSet
    <3>4. ExhaustedIsClosed'
      <4>1. ASSUME res'.state = "nodata", TargetSet(replies'[cur']) # {}
            PROVE  /\ Asked' = seen' /\ qname \in seen' /\ Closed(seen)'
                   /\ \A x \in seen' : ~ HasAddrs(replies'[x]) /\ TargetSet(replies'[x]) # {}
        <5>1. res.state = "nodata" /\ TargetSet(replies[cur]) # {}
          BY <3>1, <4>1
        <5>2. /\ Asked = seen /\ qname \in seen /\ Closed(seen)
              /\ \A x \in seen : ~ HasAddrs(replies[x]) /\ TargetSet(replies[x]) # {}
          BY <5>1 DEF DoneInv, ExhaustedIsClosed
        <5>3. QED
          BY <3>1, <5>2
      <4>2. QED
        BY <4>1, Zenon DEF ExhaustedIsClosed, TargetSet, HasAddrs
    <3>5. QED
      BY <3>2, <3>3, <3>4 DEF DoneInv
  <2>14. QED
    BY <2>4, <2>6, <2>7, <2>8, <2>9, <2>11, <2>12, <2>13 DEF Next, Step
<1>3. QED
  BY <1>1, <1>2, ChaseTypeCorrect, AskInvariant, ReachInvariant, PTL DEF Spec

\* Chase asks only for names on the chain, and answers from one of them.
THEOREM ChainOnly == Spec => []OnlyTheChain
<1>1. TypeOK /\ AskInv /\ ReachInv /\ DoneInv => OnlyTheChain
  BY Zenon DEF TypeOK, AskInv, ReachInv, Reached, Frontier, DoneInv, AnswerInv, OnlyTheChain
<1>2. QED
  BY <1>1, ChaseTypeCorrect, AskInvariant, ReachInvariant, DoneInvariant, PTL

\* The hop limit is exact.
THEOREM CapExact == Spec => []DepthCapExact
BY DoneInvariant, PTL DEF DoneInv

\* An exhausted queue means that the chain only leads back into itself.
THEOREM ExhaustedClosed == Spec => []ExhaustedIsClosed
BY DoneInvariant, PTL DEF DoneInv

\* The TTL of an answer is one of its records', the least if none is zero.
THEOREM AnswerTTLCorrect == Spec => []AnswerTTL
<1>1. DoneInv => AnswerTTL
  <2> SUFFICES ASSUME DoneInv, res.state = "answer"
               PROVE  LET ttls == { rr.ttl : rr \in Elems(replies[cur].rrs) }
                      IN  /\ res.minTTL \in ttls
                          /\ 0 \notin ttls => \A t \in ttls : res.minTTL <= t
    BY DEF AnswerTTL
  <2>1. /\ replies[cur] \in Reply /\ replies[cur].rrs # <<>>
        /\ res.minTTL = MinTTL(replies[cur].rrs)
    BY DEF DoneInv, AnswerInv
  <2>2. replies[cur].rrs \in Seq([ip : Addr, ttl : Nat])
    BY <2>1, MessageFacts, Zenon
  <2>3. QED
    BY <2>1, <2>2, MinTTLFacts, Zenon
<1>2. QED
  BY <1>1, DoneInvariant, PTL

-----------------------------------------------------------------------------
Depth == 0..Cardinality(Name)

\* Within, for any table of replies.
WithinOf(R) ==
  LET w[d \in 0..Cardinality(Name)] ==
        IF d = 0 THEN {qname}
        ELSE LET near == w[d - 1]
             IN  near \cup UNION { TargetSet(R[x]) : x \in near \cap DOMAIN R }
  IN  w

\* The equations of Within.
LEMMA WithinTable ==
  ASSUME NEW R
  PROVE  /\ Cardinality(Name) \in Nat
         /\ WithinOf(R)[0] = {qname}
         /\ \A d \in 1..Cardinality(Name) :
              WithinOf(R)[d] = WithinOf(R)[d - 1]
                \cup UNION { TargetSet(R[x]) : x \in WithinOf(R)[d - 1] \cap DOMAIN R }
<1> DEFINE n == Cardinality(Name)
           E(near) == near \cup UNION { TargetSet(R[x]) : x \in near \cap DOMAIN R }
           B(f, d) == IF d = 0 THEN {qname} ELSE E(f[d - 1])
           G(f, k) == [d \in 0..k |-> B(f, d)]
           T == { k \in Nat : \E f : f = G(f, k) }
<1>1. n \in Nat
  BY ChaseAssumption, FS_CardinalityType
<1> HIDE DEF E
<1>2. 0 \in T
  <2>1. [d \in 0..0 |-> {qname}] = G([d \in 0..0 |-> {qname}], 0)
    OBVIOUS
  <2>2. QED
    BY <2>1, Zenon
<1>3. ASSUME NEW k \in Nat, k \in T PROVE k + 1 \in T
  <2>1. PICK f : f = G(f, k)
    BY <1>3
  <2> DEFINE g == [d \in 0..(k + 1) |-> IF d = k + 1 THEN B(f, d) ELSE f[d]]
  <2>2. \A d \in 0..(k + 1) : B(g, d) = B(f, d)
    <3>1. ASSUME NEW d \in 0..(k + 1), d # 0 PROVE g[d - 1] = f[d - 1]
      <4>1. d - 1 \in 0..(k + 1) /\ d - 1 # k + 1
        BY <3>1
      <4>2. QED
        BY <4>1
    <3> HIDE DEF g
    <3>2. QED
      BY <3>1
  <2>3. \A d \in 0..k : f[d] = B(f, d)
    BY <2>1, Zenon
  <2>4. g = G(g, k + 1)
    <3> HIDE DEF B
    <3>1. g = [d \in 0..(k + 1) |-> B(f, d)]
      BY <2>3
    <3> HIDE DEF g
    <3>2. QED
      BY <2>2, <3>1
  <2> HIDE DEF g, G
  <2>5. QED
    BY <2>4
<1>4. \E f : f = G(f, n)
  <2> HIDE DEF G, n
  <2>1. 0 \in T /\ \A k \in Nat : k \in T => k + 1 \in T
    BY <1>2, <1>3
  <2>2. Nat \subseteq T
    <3> HIDE DEF T
    <3> QED BY <2>1, NatInduct
  <2>3. QED
    BY <1>1, <2>2
<1> DEFINE f == CHOOSE f : f = G(f, n)
<1>5. f = G(f, n)
  <2> HIDE DEF G
  <2> QED BY <1>4
<1>6. WithinOf(R) = f
  BY DEF WithinOf, E
<1> HIDE DEF f
<1>7. \A d \in 0..n : f[d] = B(f, d)
  BY <1>5, Zenon
<1> HIDE DEF n
<1>8. f[0] = {qname} /\ \A d \in 1..n : f[d] = E(f[d - 1])
  BY <1>1, <1>7
<1>9. QED
  BY <1>1, <1>6, <1>8 DEF E, n

\* The sets grow with the distance, hold qname, and stay inside every set that
\* holds qname and is closed under the replies.
LEMMA WithinInside ==
  ASSUME NEW R, NEW F, qname \in F, \A x \in F \cap DOMAIN R : TargetSet(R[x]) \subseteq F
  PROVE  \A d \in Depth : WithinOf(R)[d] \subseteq F /\ qname \in WithinOf(R)[d]
<1> DEFINE W == WithinOf(R)
           n == Cardinality(Name)
           T == { d \in Nat : d <= n => W[d] \subseteq F /\ qname \in W[d] }
<1>1. /\ n \in Nat /\ W[0] = {qname}
      /\ \A d \in 1..n : W[d] = W[d - 1] \cup UNION { TargetSet(R[x]) : x \in W[d - 1] \cap DOMAIN R }
  BY WithinTable
<1> HIDE DEF W, n
<1>2. 0 \in T
  BY <1>1
<1>3. ASSUME NEW d \in Nat, d \in T PROVE d + 1 \in T
  <2> SUFFICES ASSUME d + 1 <= n PROVE W[d + 1] \subseteq F /\ qname \in W[d + 1]
    OBVIOUS
  <2>1. d <= n /\ d + 1 \in 1..n /\ (d + 1) - 1 = d
    BY <1>1
  <2>2. W[d] \subseteq F /\ qname \in W[d]
    BY <1>3, <2>1
  <2>3. W[d + 1] = W[d] \cup UNION { TargetSet(R[x]) : x \in W[d] \cap DOMAIN R }
    BY <1>1, <2>1
  <2>4. QED
    BY <2>2, <2>3
<1>4. Nat \subseteq T
  <2> HIDE DEF T
  <2> QED BY <1>2, <1>3, NatInduct
<1>5. QED
  BY <1>1, <1>4 DEF Depth, W, n

\* Q is R with a reply to c; all of S is as near as c.
Answers(R, Q, c) ==
  /\ c \notin DOMAIN R /\ DOMAIN Q = DOMAIN R \cup {c}
  /\ \A x \in DOMAIN R : Q[x] = R[x]

Nearest(R, c, S) == \A d \in Depth : c \in WithinOf(R)[d] => S \subseteq WithinOf(R)[d]

\* The targets of the reply to c are one step further than c; nothing else has
\* changed.
Spreads(R, Q, c) ==
  \A d \in Depth : WithinOf(Q)[d] = WithinOf(R)[d] \cup
    { x \in TargetSet(Q[c]) : d # 0 /\ c \in WithinOf(R)[d - 1] }

\* What a reply to c changes when every name taken before it is at least as
\* near.
LEMMA WithinSpreads ==
  ASSUME NEW R, NEW Q, NEW c, NEW S, Answers(R, Q, c), DOMAIN Q \subseteq S, Nearest(R, c, S)
  PROVE  Spreads(R, Q, c)
<1> USE DEF Answers
<1> DEFINE W == WithinOf(R)
           V == WithinOf(Q)
           n == Cardinality(Name)
           New(d) == { x \in TargetSet(Q[c]) : d # 0 /\ c \in W[d - 1] }
           T == { d \in Nat : d <= n => V[d] = W[d] \cup New(d) }
<1>1. /\ n \in Nat /\ W[0] = {qname}
      /\ \A d \in 1..n : W[d] = W[d - 1] \cup UNION { TargetSet(R[x]) : x \in W[d - 1] \cap DOMAIN R }
  BY WithinTable
<1>2. /\ V[0] = {qname}
      /\ \A d \in 1..n : V[d] = V[d - 1] \cup UNION { TargetSet(Q[x]) : x \in V[d - 1] \cap DOMAIN Q }
  BY WithinTable
<1>a. \A d \in 0..n : c \in W[d] => S \subseteq W[d]
  BY DEF Depth, Nearest
<1> HIDE DEF W, V, n
<1>3. 0 \in T
  BY <1>1, <1>2
<1>4. ASSUME NEW d \in Nat, d \in T PROVE d + 1 \in T
  <2> SUFFICES ASSUME d + 1 <= n PROVE V[d + 1] = W[d + 1] \cup New(d + 1)
    OBVIOUS
  <2>1. d <= n /\ d \in 0..n /\ d + 1 \in 1..n /\ (d + 1) - 1 = d /\ d + 1 # 0 /\ (d # 0 => d - 1 \in 0..n /\ d \in 1..n)
    BY <1>1
  <2>2. V[d] = W[d] \cup New(d)
    BY <1>4, <2>1
  <2>3. V[d + 1] = V[d] \cup UNION { TargetSet(Q[x]) : x \in V[d] \cap DOMAIN Q }
    BY <1>2, <2>1
  <2>4. W[d + 1] = W[d] \cup UNION { TargetSet(R[x]) : x \in W[d] \cap DOMAIN R }
    BY <1>1, <2>1
  <2>5. New(d + 1) = { x \in TargetSet(Q[c]) : c \in W[d] }
    BY <2>1
  <2>6. New(d) # {} => c \in W[d] /\ S \subseteq W[d]
    <3> SUFFICES ASSUME New(d) # {} PROVE c \in W[d]
      BY <1>a, <2>1
    <3>1. d # 0 /\ c \in W[d - 1]
      OBVIOUS
    <3>2. QED
      BY <1>1, <2>1, <3>1
  <2>7. V[d] \cap DOMAIN Q = W[d] \cap DOMAIN Q
    <3> HIDE DEF New
    <3> QED BY <2>2, <2>6
  <2>8. New(d) \subseteq New(d + 1)
    <3>1. New(d) \subseteq TargetSet(Q[c])
      OBVIOUS
    <3> HIDE DEF New
    <3>2. CASE New(d) = {}
      BY <3>2
    <3>3. CASE c \in W[d]
      BY <2>5, <3>1, <3>3
    <3>4. QED
      BY <2>6, <3>2, <3>3
  <2>9. UNION { TargetSet(Q[x]) : x \in W[d] \cap DOMAIN Q }
          = New(d + 1) \cup UNION { TargetSet(R[x]) : x \in W[d] \cap DOMAIN R }
    <3> HIDE DEF New
    <3>1. ASSUME NEW y, NEW x \in W[d] \cap DOMAIN Q, y \in TargetSet(Q[x])
          PROVE  y \in New(d + 1) \cup UNION { TargetSet(R[z]) : z \in W[d] \cap DOMAIN R }
      <4>1. CASE x = c
        <5>1. c \in W[d] /\ y \in TargetSet(Q[c])
          BY <3>1, <4>1
        <5>2. y \in New(d + 1)
          BY <2>5, <5>1
        <5>3. QED
          BY <5>2
      <4>2. CASE x # c
        <5>1. x \in W[d] \cap DOMAIN R /\ Q[x] = R[x]
          BY <3>1, <4>2
        <5>2. QED
          BY <3>1, <5>1
      <4>3. QED
        BY <4>1, <4>2
    <3>2. ASSUME NEW y, NEW x \in W[d] \cap DOMAIN R, y \in TargetSet(R[x])
          PROVE  y \in UNION { TargetSet(Q[z]) : z \in W[d] \cap DOMAIN Q }
      <4>1. x \in W[d] \cap DOMAIN Q /\ Q[x] = R[x]
        BY <3>2
      <4>2. QED
        BY <3>2, <4>1
    <3>3. ASSUME NEW y \in New(d + 1)
          PROVE  y \in UNION { TargetSet(Q[z]) : z \in W[d] \cap DOMAIN Q }
      <4>1. c \in W[d] \cap DOMAIN Q /\ y \in TargetSet(Q[c])
        BY <2>5, <3>3
      <4>2. QED
        BY <4>1
    <3> DEFINE A == UNION { TargetSet(Q[x]) : x \in W[d] \cap DOMAIN Q }
               P == UNION { TargetSet(R[x]) : x \in W[d] \cap DOMAIN R }
    <3>4. A \subseteq New(d + 1) \cup P
      <4> SUFFICES ASSUME NEW y \in A PROVE y \in P \cup New(d + 1)
        OBVIOUS
      <4>1. PICK x \in W[d] \cap DOMAIN Q : y \in TargetSet(Q[x])
        OBVIOUS
      <4>2. QED
        BY <3>1, <4>1
    <3>5. P \subseteq A
      <4> SUFFICES ASSUME NEW y \in P PROVE y \in A
        OBVIOUS
      <4>1. PICK x \in W[d] \cap DOMAIN R : y \in TargetSet(R[x])
        OBVIOUS
      <4>2. QED
        BY <3>2, <4>1
    <3>6. New(d + 1) \subseteq A
      BY <3>3
    <3> HIDE DEF A, P
    <3>7. A = P \cup New(d + 1)
      BY <3>4, <3>5, <3>6
    <3>8. QED
      BY <3>7 DEF A, P
  <2> HIDE DEF New
  <2>10. V[d + 1] = V[d] \cup UNION { TargetSet(Q[x]) : x \in W[d] \cap DOMAIN Q }
    BY <2>3, <2>7, Zenon
  <2> DEFINE P == UNION { TargetSet(R[x]) : x \in W[d] \cap DOMAIN R }
  <2>11. V[d + 1] = V[d] \cup P \cup New(d + 1) /\ W[d + 1] = W[d] \cup P
    BY <2>4, <2>9, <2>10
  <2> HIDE DEF P
  <2>12. QED
    BY <2>2, <2>8, <2>11
<1>5. Nat \subseteq T
  <2> HIDE DEF T
  <2> QED BY <1>3, <1>4, NatInduct
<1>6. QED
  BY <1>1, <1>5 DEF Depth, W, V, n, Spreads

\* The queue's names in front of position i.
Ahead(i) == { pending[k] : k \in 1..(i - 1) }

\* The queue is in order of distance, duplicates aside: the names taken are
\* nearest, a queued name outside a distance has all of that distance taken or
\* in front of it, and no name taken is further than the one being asked.
InOrder(d) ==
  /\ Within[d] \subseteq seen \/ seen \subseteq Within[d]
  /\ \A i \in DOMAIN pending : pending[i] \in Within[d] \/ Within[d] \subseteq seen \cup Ahead(i)
  /\ pc # "loop" /\ cur \in Within[d] => seen \subseteq Within[d]

\* What is queued is one step further than the names taken.
OneFurther(d) ==
  d + 1 \in Depth /\ seen \subseteq Within[d] => Elems(pending) \subseteq Within[d + 1]

BreadthInv ==
  /\ BreadthFirst
  /\ pc # "done" => \A d \in Depth : InOrder(d) /\ OneFurther(d)

\* Within before and after a step.
LEMMA WithinStates ==
  /\ Within = WithinOf(replies)
  /\ Within' = WithinOf(replies')
BY DEF Within, WithinOf

\* A step that leaves the names, the queue and the replies alone.
LEMMA BreadthKept ==
  ASSUME BreadthInv, UNCHANGED <<seen, pending, replies, sent, cur>>,
         pc # "done" \/ pc' = pc, pc = "loop" => pc' \in {"loop", "done"}
  PROVE  BreadthInv'
<1>1. Within' = Within
  BY WithinStates
<1>2. BreadthFirst'
  BY <1>1 DEF BreadthInv, BreadthFirst
<1>3. ASSUME pc' # "done", NEW d \in Depth PROVE InOrder(d)' /\ OneFurther(d)'
  <2>1. InOrder(d) /\ OneFurther(d) /\ pc # "done"
    BY <1>3 DEF BreadthInv
  <2>2. \A i : Ahead(i)' = Ahead(i)
    BY DEF Ahead
  <2>3. InOrder(d)'
    BY <1>1, <1>3, <2>1, <2>2 DEF InOrder
  <2>4. OneFurther(d)'
    BY <1>1, <2>1 DEF OneFurther, Elems
  <2>5. QED
    BY <2>3, <2>4
<1>4. QED
  BY <1>2, <1>3 DEF BreadthInv

\* Taking the head off the queue moves every position by one.
LEMMA AheadTail ==
  ASSUME pending \in Seq(Name), pending # <<>>, pending' = Tail(pending)
  PROVE  /\ 1 \in DOMAIN pending /\ pending[1] = Head(pending) /\ Ahead(1) = {}
         /\ \A i \in DOMAIN pending' :
              /\ i + 1 \in DOMAIN pending /\ pending'[i] = pending[i + 1]
              /\ Ahead(i + 1) = {Head(pending)} \cup Ahead(i)'
<1> DEFINE n == Len(pending)
           t == Tail(pending)
<1>1. n \in Nat /\ n > 0 /\ DOMAIN pending = 1..n /\ DOMAIN t = 1..(n - 1) /\ Head(pending) = pending[1]
  OBVIOUS
<1>2. \A i \in 1..(n - 1) : t[i] = pending[i + 1]
  OBVIOUS
<1> HIDE DEF n, t
<1>3. Ahead(1) = {}
  BY DEF Ahead
<1>4. ASSUME NEW i \in 1..(n - 1)
      PROVE  { pending[k] : k \in 1..((i + 1) - 1) } = {pending[1]} \cup { t[k] : k \in 1..(i - 1) }
  <2>1. \A k \in 1..((i + 1) - 1) : k = 1 \/ (k - 1 \in 1..(i - 1) /\ t[k - 1] = pending[k])
    BY <1>1, <1>2
  <2>2. \A k \in 1..(i - 1) : k + 1 \in 1..((i + 1) - 1) /\ t[k] = pending[k + 1]
    BY <1>1, <1>2
  <2>3. 1 \in 1..((i + 1) - 1)
    BY <1>1
  <2> DEFINE P == { pending[k] : k \in 1..((i + 1) - 1) }
             Q == { t[k] : k \in 1..(i - 1) }
  <2>4. P \subseteq {pending[1]} \cup Q
    BY <2>1
  <2>5. Q \subseteq P
    BY <2>2
  <2>6. pending[1] \in P
    BY <2>3
  <2>7. QED
    BY <2>4, <2>5, <2>6, Zenon
<1>5. pending' = t
  BY DEF t
<1>6. \A i \in 1..(n - 1) : i + 1 \in 1..n
  BY <1>1
<1>7. 1 \in DOMAIN pending
  BY <1>1
<1>8. ASSUME NEW i \in DOMAIN pending' PROVE Ahead(i + 1) = {Head(pending)} \cup Ahead(i)'
  <2>1. i \in 1..(n - 1)
    BY <1>1, <1>5, <1>8
  <2>2. Ahead(i)' = { t[k] : k \in 1..(i - 1) }
    BY <1>5, Zenon DEF Ahead
  <2>3. Ahead(i + 1) = { pending[k] : k \in 1..((i + 1) - 1) }
    BY DEF Ahead
  <2>4. QED
    BY <1>1, <1>4, <2>1, <2>2, <2>3, Zenon
<1>9. QED
  BY <1>1, <1>2, <1>3, <1>5, <1>6, <1>7, <1>8

\* Appending targets leaves the positions of the queue as they are, and puts
\* all that was queued in front of the new ones.
LEMMA AheadConcat ==
  ASSUME pending \in Seq(Name), NEW ts \in Seq(Name), pending' = pending \o ts
  PROVE  \A i \in DOMAIN pending' :
           \/ i \in DOMAIN pending /\ pending'[i] = pending[i] /\ Ahead(i)' = Ahead(i)
           \/ pending'[i] \in Elems(ts) /\ Elems(pending) \subseteq Ahead(i)'
<1> DEFINE m == Len(pending)
           c == pending \o ts
<1>1. /\ m \in Nat /\ Len(ts) \in Nat /\ DOMAIN pending = 1..m /\ DOMAIN ts = 1..Len(ts)
      /\ DOMAIN c = 1..(m + Len(ts))
  OBVIOUS
<1>2. \A i \in 1..m : c[i] = pending[i]
  OBVIOUS
<1>3. \A i \in (m + 1)..(m + Len(ts)) : i - m \in 1..Len(ts) /\ c[i] = ts[i - m]
  OBVIOUS
<1>4. pending' = c
  OBVIOUS
<1> HIDE DEF m, c
<1>5. \A i : Ahead(i)' = { c[k] : k \in 1..(i - 1) }
  BY <1>4 DEF Ahead
<1>6. ASSUME NEW i \in 1..m
      PROVE  i \in DOMAIN pending /\ pending'[i] = pending[i] /\ Ahead(i)' = Ahead(i)
  <2>1. \A k \in 1..(i - 1) : c[k] = pending[k]
    BY <1>1, <1>2
  <2>2. { c[k] : k \in 1..(i - 1) } = { pending[k] : k \in 1..(i - 1) }
    BY <2>1, Zenon
  <2>3. Ahead(i)' = Ahead(i)
    BY <1>5, <2>2, Zenon DEF Ahead
  <2>4. QED
    BY <1>1, <1>2, <1>4, <2>3
<1>7. ASSUME NEW i \in (m + 1)..(m + Len(ts))
      PROVE  pending'[i] \in Elems(ts) /\ Elems(pending) \subseteq Ahead(i)'
  <2>1. pending'[i] \in Elems(ts)
    BY <1>1, <1>3, <1>4 DEF Elems
  <2>2. \A k \in 1..m : k \in 1..(i - 1) /\ c[k] = pending[k]
    BY <1>1, <1>2
  <2>3. Elems(pending) \subseteq { c[k] : k \in 1..(i - 1) }
    BY <1>1, <2>2 DEF Elems
  <2>4. QED
    BY <1>5, <2>1, <2>3, Zenon
<1>8. \A i \in 1..(m + Len(ts)) : i \in 1..m \/ i \in (m + 1)..(m + Len(ts))
  BY <1>1
<1>9. QED
  BY <1>1, <1>4, <1>6, <1>7, <1>8

\* A visit: the head of the queue is as near as anything not yet taken.
LEMMA BreadthVisit ==
  ASSUME TypeOK, BreadthInv, LoopVisit PROVE BreadthInv'
<1> DEFINE h == Head(pending)
<1>1. /\ pending \in Seq(Name) /\ pending # <<>> /\ pending' = Tail(pending)
      /\ h \notin seen /\ seen' = seen \cup {h} /\ cur' = h
      /\ replies' = replies /\ sent' = sent /\ pc # "done"
  BY Zenon DEF LoopVisit, TypeOK
<1>2. Within' = Within
  BY <1>1, WithinStates
<1>3. BreadthFirst'
  BY <1>1, <1>2 DEF BreadthInv, BreadthFirst
<1>4. /\ 1 \in DOMAIN pending /\ pending[1] = h /\ Ahead(1) = {}
      /\ \A i \in DOMAIN pending' :
           /\ i + 1 \in DOMAIN pending /\ pending'[i] = pending[i + 1]
           /\ Ahead(i + 1) = {h} \cup Ahead(i)'
  BY <1>1, AheadTail
<1>5. Elems(pending') \subseteq Elems(pending)
  <2>1. Elems(pending) = {Head(pending)} \cup Elems(Tail(pending))
    BY <1>1, ElemsTail
  <2>2. Elems(pending') = Elems(Tail(pending))
    BY <1>1 DEF Elems
  <2>3. QED
    BY <2>1, <2>2
<1> HIDE DEF h
<1>6. ASSUME NEW d \in Depth PROVE InOrder(d)' /\ OneFurther(d)'
  <2>1. InOrder(d) /\ OneFurther(d)
    BY <1>1 DEF BreadthInv
  <2>2. h \in Within[d] => seen \cup {h} \subseteq Within[d]
    BY <1>1, <2>1 DEF InOrder
  <2>3. h \notin Within[d] => Within[d] \subseteq seen
    BY <1>4, <2>1 DEF InOrder
  <2>4. \A i \in DOMAIN pending' :
          pending'[i] \in Within[d] \/ Within[d] \subseteq (seen \cup {h}) \cup Ahead(i)'
    <3> SUFFICES ASSUME NEW i \in DOMAIN pending', pending'[i] \notin Within[d]
                 PROVE  Within[d] \subseteq (seen \cup {h}) \cup Ahead(i)'
      OBVIOUS
    <3>1. Within[d] \subseteq seen \cup Ahead(i + 1)
      BY <1>4, <2>1 DEF InOrder
    <3>2. Ahead(i + 1) = {h} \cup Ahead(i)'
      BY <1>4
    <3>3. QED
      BY <3>1, <3>2
  <2>5. InOrder(d)'
    BY <1>1, <1>2, <2>2, <2>3, <2>4 DEF InOrder
  <2>6. OneFurther(d)'
    BY <1>1, <1>2, <1>5, <2>1 DEF OneFurther
  <2>7. QED
    BY <2>5, <2>6
<1>7. QED
  BY <1>3, <1>6 DEF BreadthInv

\* A name already taken leaves the queue.
LEMMA BreadthSkip ==
  ASSUME TypeOK, BreadthInv, LoopSkip PROVE BreadthInv'
<1> DEFINE h == Head(pending)
<1>1. /\ pending \in Seq(Name) /\ pending # <<>> /\ pending' = Tail(pending)
      /\ h \in seen /\ seen' = seen /\ cur' = cur /\ pc = "loop" /\ pc' = "loop"
      /\ replies' = replies /\ sent' = sent
  BY Zenon DEF LoopSkip, TypeOK
<1>2. Within' = Within
  BY <1>1, WithinStates
<1>3. BreadthFirst'
  BY <1>1, <1>2 DEF BreadthInv, BreadthFirst
<1>4. \A i \in DOMAIN pending' :
        /\ i + 1 \in DOMAIN pending /\ pending'[i] = pending[i + 1]
        /\ Ahead(i + 1) = {h} \cup Ahead(i)'
  BY <1>1, AheadTail
<1>5. Elems(pending') \subseteq Elems(pending)
  <2>1. Elems(pending) = {Head(pending)} \cup Elems(Tail(pending))
    BY <1>1, ElemsTail
  <2>2. Elems(pending') = Elems(Tail(pending))
    BY <1>1 DEF Elems
  <2>3. QED
    BY <2>1, <2>2
<1> HIDE DEF h
<1>6. ASSUME NEW d \in Depth PROVE InOrder(d)' /\ OneFurther(d)'
  <2>1. InOrder(d) /\ OneFurther(d)
    BY <1>1 DEF BreadthInv
  <2>2. \A i \in DOMAIN pending' :
          pending'[i] \in Within[d] \/ Within[d] \subseteq seen \cup Ahead(i)'
    <3> SUFFICES ASSUME NEW i \in DOMAIN pending', pending'[i] \notin Within[d]
                 PROVE  Within[d] \subseteq seen \cup Ahead(i)'
      OBVIOUS
    <3>1. Within[d] \subseteq seen \cup Ahead(i + 1)
      BY <1>4, <2>1 DEF InOrder
    <3>2. Ahead(i + 1) = {h} \cup Ahead(i)'
      BY <1>4
    <3>3. QED
      BY <1>1, <3>1, <3>2
  <2>3. InOrder(d)'
    BY <1>1, <1>2, <2>1, <2>2 DEF InOrder
  <2>4. OneFurther(d)'
    BY <1>1, <1>2, <1>5, <2>1 DEF OneFurther
  <2>5. QED
    BY <2>3, <2>4
<1>7. QED
  BY <1>3, <1>6 DEF BreadthInv

\* A query for the name just taken: all names asked before are as near.
LEMMA BreadthSend ==
  ASSUME TypeOK, AskInv, BreadthInv, NEW transport \in {"udp", "tcp"},
         pc \in {"exchange", "truncated"}, pc' = transport,
         sent' = Append(sent, <<cur, transport>>), UNCHANGED <<seen, pending, replies, cur>>
  PROVE  BreadthInv'
<1> DEFINE q == <<cur, transport>>
           n == Len(sent)
           R == Name \X {"udp", "tcp"}
<1>0. q \in R /\ sent \in Seq(R) /\ q[1] = cur /\ sent' = Append(sent, q)
  BY Zenon DEF TypeOK
<1> HIDE DEF R, q
<1>1. /\ n \in Nat /\ DOMAIN sent = 1..n /\ DOMAIN sent' = 1..(n + 1)
      /\ sent'[n + 1] = q /\ (\A k \in 1..n : sent'[k] = sent[k])
      /\ q[1] = cur
  <2>1. Append(sent, q)[n + 1] = q /\ \A k \in 1..n : Append(sent, q)[k] = sent[k]
    BY <1>0, ElemsAppend
  <2>2. n \in Nat /\ DOMAIN sent = 1..n /\ DOMAIN sent' = 1..(n + 1)
    BY <1>0
  <2>3. sent'[n + 1] = q /\ \A k \in 1..n : sent'[k] = sent[k]
    BY <1>0, <2>1, Zenon
  <2>4. QED
    BY <1>0, <2>2, <2>3
<1>2. Within' = Within
  BY WithinStates
<1>3. \A i \in 1..n : sent[i][1] \in seen
  BY <1>1 DEF AskInv, Asked, Elems
<1>4. \A d \in Depth : InOrder(d) /\ OneFurther(d)
  BY DEF BreadthInv
<1>5. \A d \in Depth : cur \in Within[d] => seen \subseteq Within[d]
  BY <1>4 DEF InOrder
<1> HIDE DEF n
<1>6. ASSUME NEW d \in Depth, NEW i \in DOMAIN sent', NEW j \in DOMAIN sent',
             i < j, sent'[j][1] \in Within[d]
      PROVE  sent'[i][1] \in Within[d]
  <2>1. i \in 1..n /\ sent'[i] = sent[i]
    BY <1>1, <1>6
  <2>2. CASE j = n + 1
    BY <1>1, <1>3, <1>5, <1>6, <2>1, <2>2
  <2>3. CASE j # n + 1
    <3>1. j \in 1..n /\ sent'[j] = sent[j]
      BY <1>1, <1>6, <2>3
    <3>2. QED
      BY <1>1, <1>6, <2>1, <3>1 DEF BreadthInv, BreadthFirst, Depth
  <2>4. QED
    BY <2>2, <2>3
<1>7. BreadthFirst'
  BY <1>2, <1>6 DEF BreadthFirst, Depth
<1>8. \A i : Ahead(i)' = Ahead(i)
  BY DEF Ahead
<1>9. ASSUME NEW d \in Depth PROVE InOrder(d)' /\ OneFurther(d)'
  <2>1. InOrder(d)'
    BY <1>2, <1>4, <1>8 DEF InOrder
  <2>2. OneFurther(d)'
    BY <1>2, <1>4 DEF OneFurther, Elems
  <2>3. QED
    BY <2>1, <2>2
<1>10. QED
  BY <1>7, <1>9 DEF BreadthInv

\* A reply puts its targets one step further than the name asked, behind all
\* that is queued, and moves none of the names taken.
LEMMA BreadthReply ==
  ASSUME TypeOK, AskInv, ReachInv, BreadthInv, NEW r \in Reply, Replied(r),
         pc \in {"udp", "tcp"}, UNCHANGED <<seen, cur, sent>>
  PROVE  BreadthInv'
<1> DEFINE T == TargetSet(r)
           New(d) == { x \in T : d # 0 /\ cur \in Within[d - 1] }
<1>1. cur \in seen /\ cur \notin DOMAIN replies /\ DOMAIN replies = seen \ {cur} /\ pc # "done" /\ pc # "loop"
  BY DEF AskInv
<1>2. /\ DOMAIN replies' = DOMAIN replies \cup {cur} /\ replies'[cur] = r
      /\ \A x \in DOMAIN replies : replies'[x] = replies[x]
  BY <1>1 DEF Replied
<1>3. \A d \in Depth : InOrder(d) /\ OneFurther(d)
  BY <1>1 DEF BreadthInv
<1>4. \A d \in Depth : cur \in Within[d] => seen \subseteq Within[d]
  BY <1>1, <1>3 DEF InOrder
<1>5. \A d \in Depth : Within'[d] = Within[d] \cup New(d)
  <2>1. Nearest(replies, cur, seen)
    BY <1>4, WithinStates DEF Nearest
  <2>2. DOMAIN replies' \subseteq seen
    BY <1>1, <1>2
  <2>3. Answers(replies, replies', cur)
    BY <1>1, <1>2 DEF Answers
  <2>4. Spreads(replies, replies', cur)
    BY <2>1, <2>2, <2>3, WithinSpreads
  <2>5. QED
    BY <1>2, <2>4, WithinStates DEF Spreads
<1>6. ASSUME NEW d \in Depth, d # 0, cur \in Within[d - 1]
      PROVE  /\ d - 1 \in Depth /\ seen \subseteq Within[d] /\ Elems(pending) \subseteq Within[d]
  <2>1. Cardinality(Name) \in Nat
    BY WithinTable
  <2>2. d - 1 \in Depth /\ (d - 1) + 1 = d /\ d \in 1..Cardinality(Name)
    BY <1>6, <2>1 DEF Depth
  <2>3. Within[d - 1] \subseteq Within[d]
    BY <2>2, WithinTable, WithinStates
  <2>4. seen \subseteq Within[d - 1]
    BY <1>4, <1>6, <2>2
  <2>5. OneFurther(d - 1)
    BY <1>3, <2>2
  <2>6. Elems(pending) \subseteq Within[d]
    BY <2>2, <2>4, <2>5 DEF OneFurther
  <2>7. QED
    BY <2>2, <2>3, <2>4, <2>6
<1>7. ASSUME NEW d \in Depth, New(d) # {}
      PROVE  seen \subseteq Within[d] /\ Elems(pending) \subseteq Within[d]
  <2>1. d # 0 /\ cur \in Within[d - 1]
    BY <1>7
  <2>2. QED
    BY <1>6, <2>1
<1>8. \A d \in Depth : \A x \in seen : x \in Within'[d] <=> x \in Within[d]
  <2> HIDE DEF New
  <2> QED BY <1>5, <1>7
<1>9. BreadthFirst'
  <2>1. \A i \in DOMAIN sent : sent[i][1] \in seen
    BY DEF AskInv, Asked, Elems
  <2>2. QED
    BY <1>8, <2>1 DEF BreadthInv, BreadthFirst, Depth
<1>10. CASE pc' = "done"
  BY <1>9, <1>10 DEF BreadthInv
<1>11. CASE pc' = "loop"
  <2>1. r \in Message
    BY ChaseAssumption
  <2>2. pending' = pending \o NewTargets(r, seen)
    BY <1>11 DEF Replied, UseReply, Enqueue, Return, Fail
  <2>3. pending \in Seq(Name) /\ NewTargets(r, seen) \in Seq(Name) /\ Elems(NewTargets(r, seen)) = T \ seen
    BY <2>1, NewTargetsElems, Zenon DEF TypeOK
  <2>4. Elems(pending') = Elems(pending) \cup (T \ seen)
    <3>1. Elems(pending \o NewTargets(r, seen)) = Elems(pending) \cup (T \ seen)
      BY <2>3, ElemsConcat
    <3>2. QED
      BY <2>2, <3>1, Zenon DEF Elems
  <2>5. \A i \in DOMAIN pending' :
          \/ i \in DOMAIN pending /\ pending'[i] = pending[i] /\ Ahead(i)' = Ahead(i)
          \/ pending'[i] \in T \ seen /\ Elems(pending) \subseteq Ahead(i)'
    BY <2>2, <2>3, AheadConcat, Zenon
  <2>6. \A d \in Depth : Within[d] \subseteq seen \cup Elems(pending)
    <3>1. \A x \in Frontier \cap DOMAIN replies : TargetSet(replies[x]) \subseteq Frontier
      BY <1>1 DEF ReachInv
    <3>2. qname \in Frontier
      BY DEF ReachInv
    <3>3. \A d \in Depth : WithinOf(replies)[d] \subseteq Frontier
      BY <3>1, <3>2, WithinInside
    <3>4. QED
      BY <3>3, WithinStates DEF Frontier
  <2>7. ASSUME NEW d \in Depth, NEW i \in DOMAIN pending', pending'[i] \notin Within'[d]
        PROVE  Within'[d] \subseteq seen \cup Ahead(i)'
    <3>1. pending'[i] \notin Within[d] /\ pending'[i] \notin New(d)
      BY <1>5, <2>7
    <3>2. CASE i \in DOMAIN pending /\ pending'[i] = pending[i] /\ Ahead(i)' = Ahead(i)
      <4>1. pending[i] \in Elems(pending)
        BY <3>2 DEF Elems
      <4> HIDE DEF New
      <4>2. New(d) = {}
        BY <1>7, <3>1, <3>2, <4>1
      <4>3. Within[d] \subseteq seen \cup Ahead(i)
        BY <1>3, <3>1, <3>2 DEF InOrder
      <4>4. QED
        BY <1>5, <3>2, <4>2, <4>3
    <3>3. CASE pending'[i] \in T \ seen /\ Elems(pending) \subseteq Ahead(i)'
      <4>1. New(d) = {}
        BY <3>1, <3>3
      <4> HIDE DEF New
      <4>2. QED
        BY <1>5, <2>6, <3>3, <4>1
    <3>4. QED
      BY <2>5, <2>7, <3>2, <3>3
  <2>8. ASSUME NEW d \in Depth PROVE Within'[d] \subseteq seen \/ seen \subseteq Within'[d]
    <3> HIDE DEF New
    <3>1. Within[d] \subseteq seen \/ seen \subseteq Within[d]
      BY <1>3 DEF InOrder
    <3>2. CASE New(d) = {}
      BY <1>5, <3>1, <3>2
    <3>3. CASE New(d) # {}
      BY <1>5, <1>7, <3>3
    <3>4. QED
      BY <3>2, <3>3
  <2>9. ASSUME NEW d \in Depth, d + 1 \in Depth, seen \subseteq Within'[d]
        PROVE  Elems(pending') \subseteq Within'[d + 1]
    <3>1. seen \subseteq Within[d] /\ cur \in Within[d]
      BY <1>1, <1>8, <2>9
    <3>2. Elems(pending) \subseteq Within[d + 1]
      BY <1>3, <2>9, <3>1 DEF OneFurther
    <3>3. d + 1 # 0 /\ (d + 1) - 1 = d
      <4>1. Cardinality(Name) \in Nat
        BY WithinTable
      <4>2. QED
        BY <4>1 DEF Depth
    <3>4. New(d + 1) = T
      BY <3>1, <3>3
    <3> HIDE DEF New
    <3>5. QED
      BY <1>5, <2>4, <2>9, <3>2, <3>4
  <2>10. \A d \in Depth : InOrder(d)'
    BY <1>11, <2>7, <2>8 DEF InOrder
  <2>11. \A d \in Depth : OneFurther(d)'
    BY <2>9 DEF OneFurther
  <2>12. QED
    BY <1>9, <2>10, <2>11 DEF BreadthInv
<1>12. QED
  BY <1>10, <1>11, UseReplyCases, Zenon DEF Replied, TypeOK

\* BreadthFirst: an upstream is asked for the names of a CNAME graph in order
\* of their distance from the name queried, whatever its forks and cycles.
THEOREM NearestFirst == Spec => []BreadthFirst
<1>1. Init => BreadthInv
  <2> SUFFICES ASSUME Init PROVE BreadthInv
    OBVIOUS
  <2>1. pending = <<qname>> /\ seen = {} /\ DOMAIN sent = {} /\ DOMAIN replies = {} /\ pc = "loop"
    BY DEF Init
  <2>2. \A d \in Depth : WithinOf(replies)[d] \subseteq {qname} /\ qname \in WithinOf(replies)[d]
    BY <2>1, WithinInside, Zenon
  <2>3. \A d \in Depth : Within[d] = {qname}
    BY <2>2, WithinStates
  <2>4. Elems(pending) = {qname} /\ \A i \in DOMAIN pending : pending[i] = qname
    BY <2>1 DEF Elems
  <2>5. QED
    BY <2>1, <2>3, <2>4 DEF BreadthInv, BreadthFirst, InOrder, OneFurther
<1>2. TypeOK /\ AskInv /\ ReachInv /\ BreadthInv /\ [Next]_vars => BreadthInv'
  <2> SUFFICES ASSUME TypeOK, AskInv, ReachInv, BreadthInv, [Next]_vars PROVE BreadthInv'
    OBVIOUS
  <2> USE DEF ctxVars
  <2>1. CASE LoopCanceled \/ LoopExhausted \/ HopBudget \/ ExchangeError
             \/ Deadline \/ ContextEnds \/ UNCHANGED vars
    BY <2>1, BreadthKept, Zenon DEF LoopCanceled, LoopExhausted, HopBudget, ExchangeError, Fail, Return,
         Deadline, ContextEnds, vars
  <2>2. ASSUME NEW from \in {"exchange", "truncated"}, NEW transport \in {"udp", "tcp"},
               Send(from, transport)
        PROVE  BreadthInv'
    <3>1. CASE err
      BY <2>2, <3>1, BreadthKept DEF Send, Fail, Return
    <3>2. CASE ~ err
      BY <2>2, <3>2, BreadthSend DEF Send
    <3>3. QED
      BY <3>1, <3>2
  <2>3. CASE ExchangeUDP \/ ExchangeTCP
    BY <2>2, <2>3 DEF ExchangeUDP, ExchangeTCP
  <2>4. CASE UDPReply
    <3>1. CASE pc' = "truncated" /\ UNCHANGED <<pending, res, replies>>
      BY <2>4, <3>1, BreadthKept DEF UDPReply
    <3>2. QED
      BY <2>4, <3>1, BreadthReply DEF UDPReply
  <2>5. CASE TCPReply
    BY <2>5, BreadthReply DEF TCPReply
  <2>6. QED
    BY <2>1, <2>3, <2>4, <2>5, BreadthVisit, BreadthSkip DEF Next, Step
<1>3. BreadthInv => BreadthFirst
  BY DEF BreadthInv
<1>4. QED
  BY <1>1, <1>2, <1>3, ChaseTypeCorrect, AskInvariant, ReachInvariant, PTL DEF Spec

-----------------------------------------------------------------------------
\* A reply enqueues no name twice: never more entries than there are names.
LEMMA NewTargetsShort ==
  ASSUME NEW r \in Message, NEW done
  PROVE  Len(NewTargets(r, done)) <= Cardinality(Name)
<1> DEFINE cn == r.cnames
           n == Len(cn)
<1>1. PICK ts :
        /\ DOMAIN ts = 0..n
        /\ ts[0] = <<>>
        /\ \A i \in 1..n :
             ts[i] = IF cn[i].own /\ cn[i].target \notin done \cup Elems(ts[i - 1])
                     THEN Append(ts[i - 1], cn[i].target)
                     ELSE ts[i - 1]
        /\ NewTargets(r, done) = ts[n]
  BY TargetTable
<1>2. n \in Nat /\ \A i \in 1..n : cn[i].target \in Name
  <2> DEFINE R == [own : BOOLEAN, target : Name]
  <2>1. cn \in Seq(R) /\ \A x \in R : x.target \in Name
    BY DEF Message
  <2> HIDE DEF cn, R
  <2> QED BY <2>1, SeqFacts
<1> HIDE DEF cn, n
<1> DEFINE P(k) == ts[k] \in Seq(Name) /\ Cardinality(Elems(ts[k])) = Len(ts[k])
           S == { k \in Nat : k <= n => P(k) }
<1>3. 0 \in S
  <2>1. ts[0] \in Seq(Name) /\ Elems(ts[0]) = {} /\ Len(ts[0]) = 0
    BY <1>1 DEF Elems
  <2> QED BY <2>1, FS_EmptySet
<1>4. ASSUME NEW k \in Nat, k \in S PROVE k + 1 \in S
  <2> SUFFICES ASSUME k + 1 <= n PROVE P(k + 1)
    OBVIOUS
  <2> DEFINE x == cn[k + 1].target
             t == ts[k]
  <2>1. k + 1 \in 1..n /\ (k + 1) - 1 = k /\ t \in Seq(Name) /\ Cardinality(Elems(t)) = Len(t)
    BY <1>2, <1>4
  <2>2. x \in Name
    BY <1>2, <2>1
  <2>3. ts[k + 1] = t \/ (x \notin Elems(t) /\ ts[k + 1] = Append(t, x))
    BY <1>1, <2>1
  <2> HIDE DEF x, t
  <2>4. ASSUME x \notin Elems(t) PROVE Cardinality(Elems(Append(t, x))) = Len(Append(t, x))
    <3>1. IsFiniteSet(Elems(t))
      BY <2>1, SeqFacts, ChaseAssumption, FS_Subset
    <3>2. Elems(Append(t, x)) = Elems(t) \cup {x} /\ Len(Append(t, x)) = Len(t) + 1
      BY <2>1, <2>2, ElemsAppend
    <3>3. Cardinality(Elems(t) \cup {x}) = Cardinality(Elems(t)) + 1
      BY <2>4, <3>1, FS_AddElement
    <3> QED BY <2>1, <3>2, <3>3, Zenon
  <2>5. Append(t, x) \in Seq(Name)
    BY <2>1, <2>2
  <2> QED BY <2>1, <2>3, <2>4, <2>5 DEF t
<1>5. Nat \subseteq S
  <2> HIDE DEF S
  <2> QED BY <1>3, <1>4, NatInduct
<1>6. P(n)
  <2>1. n \in S /\ n <= n
    BY <1>2, <1>5
  <2> HIDE DEF P
  <2> QED BY <2>1
<1>7. Elems(ts[n]) \subseteq Name
  BY <1>6, SeqFacts
<1>8. IsFiniteSet(Name)
  BY ChaseAssumption
<1>9. Cardinality(Elems(ts[n])) <= Cardinality(Name)
  BY <1>7, <1>8, FS_Subset
<1> QED BY <1>1, <1>6, <1>9

\* How far each place is from the head of the loop, when a reply may enqueue
\* every name.
Weight == [tcp |-> 1, truncated |-> 2, udp |-> 3, exchange |-> 4, budget |-> 5]

\* The fields of Weight.
LEMMA WeightFacts ==
  /\ Weight["tcp"] = 1 /\ Weight["truncated"] = 2 /\ Weight["udp"] = 3
  /\ Weight["exchange"] = 4 /\ Weight["budget"] = 5
BY DEF Weight

Place == IF pc = "loop" THEN 1 ELSE Cardinality(Name) + 1 + Weight[pc]

Context == (IF late THEN 0 ELSE 1) + (IF err THEN 0 ELSE 1)

\* A bound on the steps that Chase and its context can still take: the names
\* that may yet be asked, the place in the loop, the queue, and the context.
StepsLeft ==
  IF pc = "done" THEN 0
  ELSE (MaxHops - lookups) * (Cardinality(Name) + 5) + (Place + Len(pending) + Context)

PartsOK ==
  /\ Cardinality(Name) \in Nat /\ MaxHops \in Nat /\ lookups \in Nat
  /\ pending \in Seq(Name) /\ Len(pending) \in Nat /\ Context \in Nat
  /\ pc # "done" => Place \in Nat \ {0}

\* The parts of the bound are numbers.
LEMMA StepsLeftParts == TypeOK => PartsOK
<1> SUFFICES ASSUME TypeOK PROVE PartsOK
  OBVIOUS
<1>1. /\ pc \in {"loop", "budget", "exchange", "udp", "truncated", "tcp", "done"}
      /\ pending \in Seq(Name) /\ seen \subseteq Name /\ lookups = Cardinality(seen)
      /\ err \in BOOLEAN /\ late \in BOOLEAN
  BY Zenon DEF TypeOK
<1>2. Cardinality(Name) \in Nat /\ MaxHops \in Nat
  BY ChaseAssumption, FS_CardinalityType
<1>3. lookups \in Nat
  <2>1. IsFiniteSet(seen)
    BY <1>1, ChaseAssumption, FS_Subset
  <2> QED BY <1>1, <2>1, FS_CardinalityType
<1>4. pc \notin {"loop", "done"} => Weight[pc] \in 1..5
  BY <1>1, WeightFacts
<1>5. pc # "done" => Place \in Nat \ {0}
  BY <1>2, <1>4 DEF Place
<1>6. Context \in Nat
  BY DEF Context
<1> QED BY <1>1, <1>2, <1>3, <1>5, <1>6 DEF PartsOK

\* The bound is a number, and not 0 while Chase runs.
LEMMA StepsLeftType ==
  ASSUME TypeOK, AskInv
  PROVE  StepsLeft \in Nat /\ (pc # "done" => StepsLeft > 0)
<1>1. ASSUME NEW h \in Nat, NEW k \in Nat, NEW p \in Nat \ {0}, NEW q \in Nat, NEW x \in Nat
      PROVE  h * k + (p + q + x) \in Nat /\ h * k + (p + q + x) > 0
  <2>1. h * k \in Nat
    OBVIOUS
  <2> QED BY <2>1
<1>2. CASE pc # "done"
  <2>1. MaxHops - lookups \in Nat /\ Cardinality(Name) + 5 \in Nat
    BY <1>2, StepsLeftParts DEF AskInv, PartsOK
  <2> QED BY <1>1, <1>2, <2>1, StepsLeftParts DEF StepsLeft, PartsOK
<1> QED BY <1>2 DEF StepsLeft

\* The sums of two states, when one more name is taken and when not.
LEMMA StepsLeftSums ==
  ASSUME NEW h \in Int, NEW k \in Nat, NEW p \in Nat, NEW q \in Nat, NEW x \in Nat,
         NEW p1 \in Nat, NEW q1 \in Nat, NEW x1 \in Nat
  PROVE  /\ p1 + q1 + x1 < p + q + x => h * k + (p1 + q1 + x1) < h * k + (p + q + x)
         /\ p1 + q1 + x1 < p + q + x + k => (h - 1) * k + (p1 + q1 + x1) < h * k + (p + q + x)
<1>1. h * k \in Int /\ (h - 1) * k = h * k - k
  OBVIOUS
<1> QED BY <1>1

\* A step of the loop, the exchange or the context uses up some of the bound.
LEMMA StepsLeftFall ==
  ASSUME TypeOK, AskInv, TypeOK', AskInv', Next
  PROVE  StepsLeft' < StepsLeft
<1>1. pc # "done" /\ StepsLeft \in Nat /\ StepsLeft > 0
  <2>1. pc # "done"
    BY DEF Next, Step, LoopCanceled, LoopSkip, LoopVisit, LoopExhausted, HopBudget, ExchangeUDP, ExchangeTCP,
           Send, ExchangeError, UDPReply, TCPReply, Deadline, ContextEnds
  <2> QED BY <2>1, StepsLeftType
<1>2. CASE pc' = "done"
  BY <1>1, <1>2 DEF StepsLeft
<1>3. ASSUME pc' # "done" PROVE StepsLeft' < StepsLeft
  <2>1. /\ Cardinality(Name) \in Nat /\ MaxHops \in Nat /\ lookups \in Nat
        /\ pending \in Seq(Name) /\ Len(pending) \in Nat /\ Context \in Nat /\ Place \in Nat
    BY <1>1, StepsLeftParts DEF PartsOK
  <2>2. lookups' \in Nat /\ Len(pending') \in Nat /\ Context' \in Nat /\ Place' \in Nat
    <3>1. PartsOK'
      BY StepsLeftParts, PTL
    <3> QED BY <1>3, <3>1 DEF PartsOK
  <2>3. /\ StepsLeft = (MaxHops - lookups) * (Cardinality(Name) + 5) + (Place + Len(pending) + Context)
        /\ StepsLeft' = (MaxHops - lookups') * (Cardinality(Name) + 5) + (Place' + Len(pending') + Context')
    BY <1>1, <1>3 DEF StepsLeft
  <2>4. MaxHops - lookups \in Int /\ Cardinality(Name) + 5 \in Nat
    BY <2>1
  <2>5. ASSUME lookups' = lookups, Place' + Len(pending') + Context' < Place + Len(pending) + Context
        PROVE  StepsLeft' < StepsLeft
    BY <2>1, <2>2, <2>3, <2>4, <2>5, StepsLeftSums
  <2>6. ASSUME lookups' = lookups + 1,
               Place' + Len(pending') + Context' < Place + Len(pending) + Context + (Cardinality(Name) + 5)
        PROVE  StepsLeft' < StepsLeft
    <3>1. MaxHops - lookups' = (MaxHops - lookups) - 1
      BY <2>1, <2>6
    <3> QED BY <2>1, <2>2, <2>3, <2>4, <2>6, <3>1, StepsLeftSums
  <2>7. CASE LoopSkip
    <3>1. lookups' = lookups /\ pc' = pc /\ UNCHANGED <<late, err>> /\ pending # <<>> /\ pending' = Tail(pending)
      BY <2>7 DEF LoopSkip, ctxVars
    <3>2. Len(pending') = Len(pending) - 1
      BY <2>1, <3>1
    <3>3. Place' = Place /\ Context' = Context
      BY <3>1 DEF Place, Context
    <3> QED BY <2>1, <2>5, <3>1, <3>2, <3>3
  <2>8. CASE LoopVisit
    <3>1. /\ lookups' = lookups + 1 /\ pc = "loop" /\ pc' = "budget" /\ UNCHANGED <<late, err>>
          /\ pending # <<>> /\ pending' = Tail(pending)
      BY <1>3, <2>8 DEF LoopVisit, Fail, Return, ctxVars
    <3>2. Len(pending') = Len(pending) - 1
      BY <2>1, <3>1
    <3>3. Place = 1 /\ Place' = Cardinality(Name) + 1 + 5 /\ Context' = Context
      BY <3>1, WeightFacts DEF Place, Context
    <3> QED BY <2>1, <2>6, <3>1, <3>2, <3>3
  <2>9. CASE HopBudget \/ ExchangeUDP \/ ExchangeTCP \/ (UDPReply /\ pc' = "truncated")
    <3>1. /\ lookups' = lookups /\ UNCHANGED <<late, err, pending>>
          /\ \/ pc = "budget" /\ pc' = "exchange"
             \/ pc = "exchange" /\ pc' = "udp"
             \/ pc = "truncated" /\ pc' = "tcp"
             \/ pc = "udp" /\ pc' = "truncated"
      BY <1>3, <2>9 DEF HopBudget, ExchangeUDP, ExchangeTCP, Send, UDPReply, Replied, UseReply, Fail, Return, ctxVars
    <3>2. Place' < Place
      <4>1. CASE pc = "budget" /\ pc' = "exchange"
        <5>1. Place = Cardinality(Name) + 1 + 5
          BY <4>1, WeightFacts DEF Place
        <5>2. Place' = Cardinality(Name) + 1 + 4
          BY <4>1, WeightFacts DEF Place
        <5> QED BY <2>1, <5>1, <5>2
      <4>2. CASE pc = "exchange" /\ pc' = "udp"
        <5>1. Place = Cardinality(Name) + 1 + 4
          BY <4>2, WeightFacts DEF Place
        <5>2. Place' = Cardinality(Name) + 1 + 3
          BY <4>2, WeightFacts DEF Place
        <5> QED BY <2>1, <5>1, <5>2
      <4>3. CASE pc = "truncated" /\ pc' = "tcp"
        <5>1. Place = Cardinality(Name) + 1 + 2
          BY <4>3, WeightFacts DEF Place
        <5>2. Place' = Cardinality(Name) + 1 + 1
          BY <4>3, WeightFacts DEF Place
        <5> QED BY <2>1, <5>1, <5>2
      <4>4. CASE pc = "udp" /\ pc' = "truncated"
        <5>1. Place = Cardinality(Name) + 1 + 3
          BY <4>4, WeightFacts DEF Place
        <5>2. Place' = Cardinality(Name) + 1 + 2
          BY <4>4, WeightFacts DEF Place
        <5> QED BY <2>1, <5>1, <5>2
      <4> QED BY <3>1, <4>1, <4>2, <4>3, <4>4
    <3>3. Context' = Context
      BY <3>1 DEF Context
    <3> QED BY <2>1, <2>2, <2>5, <3>1, <3>2, <3>3
  <2>10. CASE (UDPReply /\ pc' # "truncated") \/ TCPReply
    <3>1. PICK r \in Reply : UseReply(r)
      BY <2>10 DEF UDPReply, TCPReply, Replied
    <3>2. pc' = "loop" /\ pending' = pending \o NewTargets(r, seen)
      BY <1>3, <3>1 DEF UseReply, Return, Fail, Enqueue
    <3>3. lookups' = lookups /\ UNCHANGED <<late, err>> /\ (pc = "udp" \/ pc = "tcp")
      BY <2>10 DEF UDPReply, TCPReply, ctxVars
    <3>4. Len(NewTargets(r, seen)) <= Cardinality(Name) /\ NewTargets(r, seen) \in Seq(Name)
      BY MessageFacts, NewTargetsShort, NewTargetsElems
    <3>5. Len(pending') = Len(pending) + Len(NewTargets(r, seen)) /\ Len(NewTargets(r, seen)) \in Nat
      BY <2>1, <3>2, <3>4
    <3>6. Place' = 1 /\ Place >= Cardinality(Name) + 2
      BY <2>1, <3>2, <3>3, WeightFacts DEF Place
    <3>7. Context' = Context
      BY <3>3 DEF Context
    <3> QED BY <2>1, <2>2, <2>5, <3>3, <3>4, <3>5, <3>6, <3>7
  <2>11. CASE Deadline \/ ContextEnds
    <3>1. lookups' = lookups /\ pending' = pending /\ Place' = Place
      BY <2>11 DEF Deadline, ContextEnds, Place
    <3>2. Context' = Context - 1
      BY <2>11 DEF Deadline, ContextEnds, Context
    <3> QED BY <2>1, <2>5, <3>1, <3>2
  <2>12. ~ LoopCanceled /\ ~ LoopExhausted /\ ~ ExchangeError
    BY <1>3 DEF LoopCanceled, LoopExhausted, ExchangeError, Fail, Return
  <2> QED BY <2>7, <2>8, <2>9, <2>10, <2>11, <2>12 DEF Next, Step
<1> QED BY <1>2, <1>3

\* Chase cannot go on for ever, whatever CNAMEs the upstream sends: every step
\* uses up some of a bound that max_cname_hops and the number of names give.
THEOREM ChaseBounded ==
  Spec => /\ StepsLeft <= MaxHops * (Cardinality(Name) + 5) + 4
          /\ [](StepsLeft \in Nat)
          /\ [][StepsLeft' < StepsLeft]_vars
<1>1. Init => StepsLeft <= MaxHops * (Cardinality(Name) + 5) + 4
  <2> SUFFICES ASSUME Init PROVE StepsLeft <= MaxHops * (Cardinality(Name) + 5) + 4
    OBVIOUS
  <2>1. Cardinality(Name) \in Nat /\ MaxHops \in Nat
    BY ChaseAssumption, FS_CardinalityType
  <2>2. StepsLeft = (MaxHops - 0) * (Cardinality(Name) + 5) + (1 + 1 + (1 + 1))
    BY DEF Init, StepsLeft, Place, Context
  <2> DEFINE M == MaxHops * (Cardinality(Name) + 5)
  <2>3. M \in Nat /\ StepsLeft = M + 4
    BY <2>1, <2>2
  <2> HIDE DEF M
  <2>4. M + 4 <= M + 4
    BY <2>3
  <2> QED BY <2>3, <2>4 DEF M
<1>2. TypeOK /\ AskInv => StepsLeft \in Nat
  BY StepsLeftType
<1>3. TypeOK /\ AskInv /\ TypeOK' /\ AskInv' /\ [Next]_vars => [StepsLeft' < StepsLeft]_vars
  BY StepsLeftFall
<1> QED BY <1>1, <1>2, <1>3, ChaseTypeCorrect, AskInvariant, PTL DEF Spec

-----------------------------------------------------------------------------
\* The TTLs that the upstream's records carry, and the engine's view of a chase.
ReplyTTL == UNION { { rr.ttl : rr \in Elems(r.rrs) } : r \in Reply }

E == INSTANCE EngineTypes WITH Server <- {}, Bundles <- {}, TTL <- ReplyTTL

\* What Chase returns is an outcome that Engine expects of an upstream.
FitsEngine ==
  pc = "done" =>
    \A s : \A china \in BOOLEAN :
      E!ChaseResult(s, china, res.state, res.addrs, res.soa, res.minTTL) \in E!Outcome(s, china)

\* Engine's assumption on its upstreams is what Chase guarantees: whatever the
\* upstream replies, and however the chase ends, the goroutine sends a failure
\* without data, a negative outcome with the SOA or none, or an answer with
\* addresses, no SOA and a TTL that a record of the replies has.
THEOREM ChaseFitsEngine == Spec => []FitsEngine
<1>1. TypeOK /\ DoneInv => FitsEngine
  <2> SUFFICES ASSUME TypeOK, DoneInv, pc = "done", NEW s, NEW china \in BOOLEAN
               PROVE  E!ChaseResult(s, china, res.state, res.addrs, res.soa, res.minTTL) \in E!Outcome(s, china)
    BY DEF FitsEngine
  <2> DEFINE R(state, addrs, soa, ttl) == E!ChaseResult(s, china, state, addrs, soa, ttl)
  <2>1. /\ res.state \in {"failure", "nodata", "nxdomain", "answer"}
        /\ res.addrs \in SUBSET Addr /\ res.soa \in SOA \cup {NoSOA}
        /\ res.state = "answer" <=> res.addrs # {}
        /\ res.state # "answer" => res.minTTL = 0
        /\ res.soa # NoSOA => res.state \in {"nodata", "nxdomain"}
    BY Zenon DEF TypeOK
  <2>2. CASE res.state = "failure"
    <3>1. res.addrs = {} /\ res.soa = NoSOA /\ res.minTTL = 0
      BY <2>1, <2>2
    <3> QED BY <2>2, <3>1 DEF E!Outcome, E!Negatives
  <2>3. CASE res.state \in {"nodata", "nxdomain"}
    <3>1. res.addrs = {} /\ res.minTTL = 0
      BY <2>1, <2>3
    <3> QED BY <2>1, <2>3, <3>1 DEF E!Outcome, E!Negatives
  <2>4. CASE res.state = "answer"
    <3>1. res.addrs \in (SUBSET Addr) \ {{}} /\ res.soa = NoSOA
      BY <2>1, <2>4
    <3>2. /\ replies[cur] \in Reply /\ replies[cur].rrs # <<>>
          /\ res.minTTL = MinTTL(replies[cur].rrs)
      BY <2>4 DEF DoneInv, AnswerInv
    <3>3. res.minTTL \in { rr.ttl : rr \in Elems(replies[cur].rrs) }
      BY <3>2, MessageFacts, MinTTLFacts
    <3>4. res.minTTL \in ReplyTTL
      BY <3>2, <3>3 DEF ReplyTTL
    <3> QED BY <2>4, <3>1, <3>4 DEF E!Outcome
  <2> QED BY <2>1, <2>2, <2>3, <2>4
<1> QED BY <1>1, ChaseTypeCorrect, DoneInvariant, PTL
=============================================================================
