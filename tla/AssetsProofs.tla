---------------------------- MODULE AssetsProofs ----------------------------
(***************************************************************************)
(* The assets of the engine, for any configuration, files and edits: the   *)
(* invariant of merge's loop and what it makes of Contains, what the lines *)
(* of the files become in the index and the override list, and that a      *)
(* reload replaces the bundle as a whole or not at all and hears every     *)
(* signal.                                                                 *)
(***************************************************************************)
EXTENDS Assets, NatFacts, TLAPS

Span == [lo : Nat, hi : Nat]

IndexTypeOK ==
  /\ all \in Seq(Prefix)
  /\ stage \in {"read", "v4", "v6", "built"}
  /\ rest \subseteq DOMAIN all
  /\ cur \in Span
  /\ out \in Seq(Span)
  /\ ix \in [{"v4", "v6"} -> Seq(Span)]

AllRegular == \A i \in DOMAIN all : Regular(all[i])

\* Spans in order and apart.
InOrder(spans) ==
  \A n \in DOMAIN spans :
    /\ spans[n].lo <= spans[n].hi
    /\ \A m \in 1..(n - 1) : spans[m].hi < spans[n].lo

Within(s, a) == s.lo <= a /\ a <= s.hi

Covered(spans, a) == \E n \in DOMAIN spans : Within(spans[n], a)

\* The prefixes at the positions I.
Given(I, a) == \E i \in I : Inside(a, all[i])

\* merge's loop for family f, before its first round and after: what the rounds
\* have made of the spans they have seen is those spans, in order and apart, and
\* the span that grows comes last and begins before everything to come.
Loop(f) ==
  /\ rest \subseteq Family(f)
  /\ cur = NoSpan => rest = Family(f) /\ out = <<>>
  /\ cur # NoSpan =>
       /\ cur.lo <= cur.hi
       /\ cur.hi \in Address /\ (Is4(cur.hi) <=> f = "v4")
       /\ \A j \in rest : cur.lo <= all[j].addr
       /\ InOrder(out)
       /\ \A n \in DOMAIN out : out[n].hi < cur.lo
       /\ \A a \in Nat : Covered(out, a) \/ Within(cur, a) <=> Given(Family(f) \ rest, a)

\* What merge has returned for family f.
Finished(f) ==
  /\ InOrder(ix[f])
  /\ \A a \in Nat : Covered(ix[f], a) <=> Given(Family(f), a)

IndexInv ==
  /\ IndexTypeOK
  /\ stage = "read" => rest = {} /\ cur = NoSpan /\ out = <<>>
  /\ AllRegular =>
       /\ stage = "v4" => Loop("v4")
       /\ stage = "v6" => Loop("v6") /\ Finished("v4")
       /\ stage = "built" => Finished("v4") /\ Finished("v6")

\* Addresses are numbers, and Unmap gives one.
LEMMA AddressFacts ==
  /\ \A a \in Address : a \in Nat /\ Unmap(a) \in Address
  /\ \A p \in Prefix : /\ p.addr \in Address /\ p.addr \in Nat /\ p.block \in Nat \ {0}
                       /\ lastAddr(p) \in Nat
                       /\ Is4(p.addr) => p.addr + p.block <= N4
                       /\ p.addr + p.block <= N4 + N6
BY IndexAssumption DEF Address, Unmap, As16, From16, Is4, Prefix, lastAddr

\* The successor of an address, when it is of the same family, leaves no gap.
LEMMA NextFacts ==
  ASSUME NEW a \in Address, NEW l \in Address, Is4(a) <=> Is4(l), nextAddr(a) = l
  PROVE  l <= a + 1
BY IndexAssumption DEF Address, nextAddr, As16, From16, Is4

\* The span of a regular prefix holds its addresses and is not empty.
LEMMA SpanFacts ==
  ASSUME NEW p \in Prefix, Regular(p)
  PROVE  /\ span(p) \in Span /\ span(p) # NoSpan
         /\ span(p).lo = p.addr /\ span(p).lo <= span(p).hi
         /\ span(p).hi \in Address /\ (Is4(span(p).hi) <=> Is4(p.addr))
         /\ \A a \in Nat : Within(span(p), a) <=> Inside(a, p)
<1>1. p.addr \in Nat /\ p.block \in Nat \ {0} /\ lastAddr(p) = p.addr + p.block - 1
  BY AddressFacts DEF Regular
<1>2. /\ Is4(p.addr) => p.addr + p.block <= N4
      /\ p.addr + p.block <= N4 + N6
  BY AddressFacts
<1>3. span(p).lo = p.addr /\ span(p).hi = p.addr + p.block - 1
  BY <1>1 DEF span
<1>4. span(p) \in Span
  BY <1>1, <1>3 DEF span, Span
<1>5. span(p) # NoSpan
  BY <1>1, <1>3 DEF NoSpan
<1>6. span(p).hi \in Address /\ (Is4(span(p).hi) <=> Is4(p.addr))
  BY <1>1, <1>2, <1>3, IndexAssumption DEF Address, Is4
<1>7. \A a \in Nat : Within(span(p), a) <=> Inside(a, p)
  BY <1>1, <1>3 DEF Within, Inside
<1> QED BY <1>1, <1>3, <1>4, <1>5, <1>6, <1>7

\* In spans that are in order, the first that does not end before an address is
\* the only one that can hold it: the search is right.
LEMMA SearchFacts ==
  ASSUME NEW spans \in Seq(Span), InOrder(spans), NEW a \in Nat
  PROVE  contains(spans, a) <=> Covered(spans, a)
<1>1. ASSUME NEW n \in DOMAIN spans PROVE n \in Nat /\ spans[n].lo \in Nat /\ spans[n].hi \in Nat
  <2>1. n \in Nat /\ spans[n] \in Span
    OBVIOUS
  <2> QED BY <2>1 DEF Span
<1>2. contains(spans, a) => Covered(spans, a)
  BY <1>1 DEF contains, Covered, Within
<1>3. ASSUME NEW n \in DOMAIN spans, Within(spans[n], a) PROVE contains(spans, a)
  <2>1. \A m \in 1..(n - 1) : spans[m].hi < a
    <3> SUFFICES ASSUME NEW m \in 1..(n - 1) PROVE spans[m].hi < a
      OBVIOUS
    <3>1. m \in DOMAIN spans
      BY <1>1
    <3>2. spans[m].hi < spans[n].lo
      BY DEF InOrder
    <3> QED BY <1>1, <1>3, <3>1, <3>2 DEF Within
  <2> QED BY <1>1, <1>3, <2>1 DEF contains, Within
<1> QED BY <1>2, <1>3 DEF Covered

\* Appending a span behind spans that are in order.
LEMMA AppendFacts ==
  ASSUME NEW spans \in Seq(Span), NEW s \in Span, InOrder(spans), s.lo <= s.hi,
         \A n \in DOMAIN spans : spans[n].hi < s.lo
  PROVE  /\ Append(spans, s) \in Seq(Span)
         /\ InOrder(Append(spans, s))
         /\ \A a \in Nat : Covered(Append(spans, s), a) <=> Covered(spans, a) \/ Within(s, a)
<1> DEFINE t == Append(spans, s)
<1>1. t \in Seq(Span) /\ Len(t) = Len(spans) + 1 /\ Len(spans) \in Nat
  OBVIOUS
<1>2. DOMAIN spans = 1..Len(spans) /\ DOMAIN t = 1..(Len(spans) + 1)
  BY <1>1
<1>3. t[Len(spans) + 1] = s /\ \A n \in 1..Len(spans) : t[n] = spans[n]
  OBVIOUS
<1> HIDE DEF t
<1>4. ASSUME NEW n \in DOMAIN t
      PROVE  t[n].lo <= t[n].hi /\ \A m \in 1..(n - 1) : t[m].hi < t[n].lo
  <2>1. CASE n = Len(spans) + 1
    BY <1>1, <1>2, <1>3, <2>1
  <2>2. CASE n \in 1..Len(spans)
    BY <1>1, <1>2, <1>3, <2>2 DEF InOrder
  <2> QED BY <1>1, <1>2, <2>1, <2>2
<1>5. ASSUME NEW a \in Nat
      PROVE  Covered(t, a) <=> Covered(spans, a) \/ Within(s, a)
  BY <1>1, <1>2, <1>3 DEF Covered
<1> QED BY <1>1, <1>4, <1>5 DEF InOrder, t

\* A round of the loop.
LEMMA MergeKeeps ==
  ASSUME IndexTypeOK, AllRegular, NEW f \in {"v4", "v6"}, stage = f, Loop(f), Merge
  PROVE  Loop(f)'
<1>1. PICK i \in rest :
        /\ \A j \in rest : span(all[i]).lo <= all[j].addr
        /\ rest' = rest \ {i}
        /\ \/ cur = NoSpan /\ cur' = span(all[i]) /\ out' = out
           \/ cur # NoSpan /\ Touches(span(all[i])) /\ cur' = Grown(span(all[i])) /\ out' = out
           \/ cur # NoSpan /\ ~ Touches(span(all[i])) /\ cur' = span(all[i]) /\ out' = Append(out, cur)
  BY DEF Merge
<1> DEFINE s == span(all[i])
<1>2. UNCHANGED <<all, stage, ix>>
  BY DEF Merge
<1>3. /\ all[i] \in Prefix /\ Regular(all[i]) /\ i \in Family(f) /\ i \in DOMAIN all
      /\ \A j \in rest : all[j].addr \in Nat
  <2>1. rest \subseteq DOMAIN all /\ \A j \in DOMAIN all : all[j] \in Prefix
    BY DEF IndexTypeOK
  <2> QED BY <2>1, AddressFacts DEF AllRegular, Loop
<1>4. /\ s \in Span /\ s # NoSpan /\ s.lo = all[i].addr /\ s.lo <= s.hi
      /\ s.hi \in Address /\ (Is4(s.hi) <=> f = "v4") /\ (Is4(s.lo) <=> f = "v4")
      /\ \A a \in Nat : Within(s, a) <=> Inside(a, all[i])
  BY <1>3, SpanFacts DEF Family
<1>5. Family(f)' = Family(f)
  BY <1>2 DEF Family
<1>6. ASSUME NEW a \in Nat
      PROVE  Given(Family(f) \ rest, a)' <=> Given(Family(f) \ rest, a) \/ Within(s, a)
  BY <1>1, <1>2, <1>3, <1>4, <1>5 DEF Given
<1>7. rest' \subseteq Family(f) /\ rest' \subseteq DOMAIN all /\ rest' \subseteq rest
  BY <1>1 DEF Loop, IndexTypeOK
<1>8. s.lo \in Nat /\ s.hi \in Nat /\ \A j \in rest' : s.lo <= all[j].addr
  BY <1>1, <1>4 DEF Span
<1> HIDE DEF s
<1>9. CASE cur = NoSpan /\ cur' = s /\ out' = out
  <2>1. out = <<>> /\ Family(f) \ rest = {}
    BY <1>9 DEF Loop
  <2>2. \A a \in Nat : ~ Given(Family(f) \ rest, a) /\ ~ Covered(out, a)
    BY <2>1 DEF Given, Covered
  <2>3. InOrder(out)' /\ \A n \in DOMAIN out' : out'[n].hi < cur'.lo
    BY <1>9, <2>1 DEF InOrder
  <2>4. \A a \in Nat : (Covered(out, a) \/ Within(cur, a) <=> Given(Family(f) \ rest, a))'
    BY <1>6, <1>9, <2>2 DEF Covered, Within
  <2> QED BY <1>4, <1>5, <1>7, <1>8, <1>9, <1>2, <2>3, <2>4 DEF Loop
<1>10. CASE cur # NoSpan /\ Touches(s) /\ cur' = Grown(s) /\ out' = out
  <2>1. /\ cur.lo \in Nat /\ cur.hi \in Nat /\ cur.lo <= cur.hi /\ cur.lo <= s.lo
        /\ cur.hi \in Address /\ (Is4(cur.hi) <=> f = "v4")
    BY <1>1, <1>3, <1>4, <1>10 DEF Loop, IndexTypeOK, Span
  <2>2. s.lo <= cur.hi + 1
    <3>1. s.lo \in Address
      BY <1>3, <1>4, AddressFacts
    <3> QED BY <1>4, <1>8, <1>10, <2>1, <3>1, NextFacts DEF Touches
  <2>3. /\ cur' \in Span /\ cur'.lo = cur.lo
        /\ cur'.hi = IF s.hi > cur.hi THEN s.hi ELSE cur.hi
    BY <1>8, <1>10, <2>1 DEF Grown, IndexTypeOK, Span
  <2>4. cur' # NoSpan /\ cur'.lo <= cur'.hi /\ cur'.hi \in Address /\ (Is4(cur'.hi) <=> f = "v4")
    BY <1>4, <1>8, <2>1, <2>3 DEF NoSpan
  <2>5. ASSUME NEW a \in Nat PROVE Within(cur', a) <=> Within(cur, a) \/ Within(s, a)
    BY <1>8, <2>1, <2>2, <2>3 DEF Within
  <2>6. InOrder(out)' /\ \A n \in DOMAIN out' : out'[n].hi < cur'.lo
    BY <1>10, <2>3 DEF Loop, InOrder
  <2>7. ASSUME NEW a \in Nat
        PROVE  (Covered(out, a) \/ Within(cur, a) <=> Given(Family(f) \ rest, a))'
    <3>1. Covered(out, a)' <=> Covered(out, a)
      BY <1>10 DEF Covered
    <3>2. Covered(out, a) \/ Within(cur, a) <=> Given(Family(f) \ rest, a)
      BY <1>10 DEF Loop
    <3>3. Within(cur, a)' <=> Within(cur, a) \/ Within(s, a)
      BY <2>5 DEF Within
    <3> QED BY <1>6, <3>1, <3>2, <3>3
  <2>8. \A j \in rest' : cur'.lo <= all'[j].addr
    BY <1>2, <1>7, <1>10, <2>3 DEF Loop
  <2> QED BY <1>2, <1>5, <1>7, <2>4, <2>6, <2>7, <2>8 DEF Loop
<1>11. CASE cur # NoSpan /\ ~ Touches(s) /\ cur' = s /\ out' = Append(out, cur)
  <2>1. /\ cur.lo \in Nat /\ cur.hi \in Nat /\ cur.lo <= cur.hi /\ cur \in Span /\ out \in Seq(Span)
        /\ InOrder(out) /\ \A n \in DOMAIN out : out[n].hi < cur.lo
    BY <1>11 DEF Loop, IndexTypeOK, Span
  <2>2. /\ out' \in Seq(Span) /\ InOrder(out)'
        /\ \A a \in Nat : Covered(out', a) <=> Covered(out, a) \/ Within(cur, a)
    BY <1>11, <2>1, AppendFacts DEF InOrder
  <2>3. cur.hi < s.lo
    BY <1>8, <1>11, <2>1 DEF Touches
  <2>4. ASSUME NEW n \in DOMAIN out' PROVE out'[n].hi < cur'.lo
    <3>1. DOMAIN out' = 1..(Len(out) + 1) /\ DOMAIN out = 1..Len(out) /\ Len(out) \in Nat
      BY <1>11, <2>1
    <3>2. CASE n \in DOMAIN out
      <4>1. out'[n] = out[n] /\ out[n] \in Span
        BY <1>11, <2>1, <3>2
      <4> QED BY <1>8, <1>11, <2>1, <2>3, <3>2, <4>1 DEF Span
    <3>3. CASE n = Len(out) + 1
      <4>1. out'[n] = cur
        BY <1>11, <2>1, <3>3
      <4> QED BY <1>11, <2>3, <4>1
    <3> QED BY <3>1, <3>2, <3>3
  <2>5. ASSUME NEW a \in Nat
        PROVE  (Covered(out, a) \/ Within(cur, a) <=> Given(Family(f) \ rest, a))'
    <3>1. Covered(out, a)' <=> Covered(out, a) \/ Within(cur, a)
      BY <2>2 DEF Covered
    <3>2. Covered(out, a) \/ Within(cur, a) <=> Given(Family(f) \ rest, a)
      BY <1>11 DEF Loop
    <3>3. Within(cur, a)' <=> Within(s, a)
      BY <1>11 DEF Within
    <3> QED BY <1>6, <3>1, <3>2, <3>3
  <2> QED BY <1>2, <1>4, <1>5, <1>7, <1>8, <1>11, <2>2, <2>4, <2>5 DEF Loop
<1> QED BY <1>1, <1>9, <1>10, <1>11 DEF s

\* merge returns.
LEMMA MergedKeeps ==
  ASSUME IndexTypeOK, AllRegular, NEW f \in {"v4", "v6"}, stage = f, Loop(f), Merged
  PROVE  Finished(f)'
<1>1. /\ rest = {} /\ all' = all
      /\ ix' = [ix EXCEPT ![f] = IF cur = NoSpan THEN out ELSE Append(out, cur)]
  BY DEF Merged
<1>2. Family(f)' = Family(f)
  BY <1>1 DEF Family
<1>3. ix'[f] = IF cur = NoSpan THEN out ELSE Append(out, cur)
  BY <1>1 DEF IndexTypeOK
<1>4. CASE cur = NoSpan
  <2>1. ix'[f] = <<>> /\ Family(f) = {}
    BY <1>1, <1>3, <1>4 DEF Loop
  <2> QED BY <1>2, <2>1 DEF Finished, InOrder, Covered, Given
<1>5. CASE cur # NoSpan
  <2>1. /\ cur \in Span /\ out \in Seq(Span) /\ cur.lo <= cur.hi /\ InOrder(out)
        /\ \A n \in DOMAIN out : out[n].hi < cur.lo
        /\ \A a \in Nat : Covered(out, a) \/ Within(cur, a) <=> Given(Family(f), a)
    BY <1>1, <1>5 DEF Loop, IndexTypeOK
  <2>2. /\ InOrder(ix'[f])
        /\ \A a \in Nat : Covered(ix'[f], a) <=> Covered(out, a) \/ Within(cur, a)
    BY <1>3, <1>5, <2>1, AppendFacts
  <2>3. ASSUME NEW a \in Nat PROVE Given(Family(f), a)' <=> Given(Family(f), a)
    BY <1>1, <1>2 DEF Given
  <2> QED BY <2>1, <2>2, <2>3 DEF Finished, InOrder, Covered
<1> QED BY <1>4, <1>5

\* Every step keeps the types.
LEMMA TypeStep ==
  ASSUME IndexTypeOK, IndexNext PROVE IndexTypeOK'
<1>1. <<>> \in Seq(Span)
  OBVIOUS
<1>2. NoSpan \in Span
  BY DEF NoSpan, Span
<1>3. ASSUME NEW ps \in Seq(Prefix), Read(ps) PROVE IndexTypeOK'
  <2>1. all \o ps \in Seq(Prefix) /\ DOMAIN all \subseteq DOMAIN (all \o ps)
    BY DEF IndexTypeOK
  <2> QED BY <1>3, <2>1 DEF Read, IndexTypeOK
<1>4. CASE Discard
  <2>1. <<>> \in Seq(Prefix)
    OBVIOUS
  <2> QED BY <1>1, <1>2, <1>4, <2>1 DEF Discard, IndexTypeOK
<1>5. CASE Build
  BY <1>5 DEF Build, Family, IndexTypeOK
<1>6. CASE Merge
  <2>1. PICK i \in rest :
          /\ rest' = rest \ {i}
          /\ \/ cur' = span(all[i]) /\ out' = out
             \/ cur' = Grown(span(all[i])) /\ out' = out
             \/ cur' = span(all[i]) /\ out' = Append(out, cur)
    BY <1>6 DEF Merge
  <2>2. all[i] \in Prefix
    BY DEF IndexTypeOK
  <2>3. span(all[i]) \in Span
    BY <2>2, AddressFacts DEF span, Span
  <2>4. Grown(span(all[i])) \in Span
    BY <2>3 DEF Grown, Span, IndexTypeOK
  <2>5. Append(out, cur) \in Seq(Span)
    BY DEF IndexTypeOK
  <2> QED BY <1>6, <2>1, <2>3, <2>4, <2>5 DEF Merge, IndexTypeOK
<1>7. CASE Merged
  <2>1. Append(out, cur) \in Seq(Span)
    BY DEF IndexTypeOK
  <2> QED BY <1>1, <1>2, <1>7, <2>1 DEF Merged, Family, IndexTypeOK
<1> QED BY <1>3, <1>4, <1>5, <1>6, <1>7 DEF IndexNext

\* Every step keeps the loop's invariant.
LEMMA IndexStep ==
  IndexInv /\ [IndexNext]_indexVars => IndexInv'
<1> SUFFICES ASSUME IndexInv, [IndexNext]_indexVars PROVE IndexInv'
  OBVIOUS
<1>1. IndexTypeOK
  BY DEF IndexInv
<1>2. ASSUME NEW ps \in Seq(Prefix), Read(ps) PROVE IndexInv'
  BY <1>1, <1>2, TypeStep DEF IndexInv, IndexNext, Read
<1>3. CASE Discard
  BY <1>1, <1>3, TypeStep DEF IndexInv, IndexNext, Discard
<1>4. CASE Build
  <2>1. rest' = Family("v4")' /\ cur' = NoSpan /\ out' = <<>> /\ stage' = "v4"
    BY <1>4 DEF Build, Family, IndexInv
  <2>2. Loop("v4")'
    BY <2>1 DEF Loop
  <2> QED BY <1>1, <1>4, <2>1, <2>2, TypeStep DEF IndexInv, IndexNext
<1>5. CASE Merge
  <2>1. IndexTypeOK' /\ stage \in {"v4", "v6"} /\ UNCHANGED <<all, stage, ix>>
    BY <1>1, <1>5, TypeStep DEF IndexNext, Merge
  <2>2. AllRegular' <=> AllRegular
    BY <2>1 DEF AllRegular
  <2>3. AllRegular => Loop(stage)'
    BY <1>1, <1>5, <2>1, MergeKeeps DEF IndexInv
  <2>4. Finished("v4") => Finished("v4")'
    BY <2>1 DEF Finished, InOrder, Covered, Given, Family
  <2> QED BY <2>1, <2>2, <2>3, <2>4 DEF IndexInv, Loop
<1>6. CASE Merged
  <2>1. /\ IndexTypeOK' /\ stage \in {"v4", "v6"} /\ all' = all
        /\ stage' = IF stage = "v4" THEN "v6" ELSE "built"
    BY <1>1, <1>6, TypeStep DEF IndexNext, Merged
  <2>2. AllRegular' <=> AllRegular
    BY <2>1 DEF AllRegular
  <2>3. CASE stage = "v4"
    <3>1. AllRegular => Finished("v4")'
      BY <1>1, <1>6, <2>3, MergedKeeps DEF IndexInv
    <3>2. rest' = Family("v6")' /\ cur' = NoSpan /\ out' = <<>>
      BY <1>6, <2>3 DEF Merged, Family
    <3>3. Loop("v6")'
      BY <3>2 DEF Loop
    <3> QED BY <2>1, <2>2, <2>3, <3>1, <3>3 DEF IndexInv
  <2>4. CASE stage = "v6"
    <3>1. AllRegular => Finished("v6")'
      BY <1>1, <1>6, <2>4, MergedKeeps DEF IndexInv
    <3>2. ix'["v4"] = ix["v4"]
      BY <1>1, <1>6, <2>4 DEF Merged, IndexTypeOK
    <3>3. AllRegular => Finished("v4")'
      BY <2>1, <2>4, <3>2 DEF IndexInv, Finished, InOrder, Covered, Given, Family
    <3> QED BY <2>1, <2>2, <2>4, <3>1, <3>3 DEF IndexInv
  <2> QED BY <2>1, <2>3, <2>4
<1>7. CASE UNCHANGED indexVars
  BY <1>7 DEF IndexInv, IndexTypeOK, AllRegular, Loop, Finished, InOrder, Covered, Given, Family, indexVars
<1> QED BY <1>2, <1>3, <1>4, <1>5, <1>6, <1>7 DEF IndexNext

\* An index that has read nothing satisfies the loop's invariant.
LEMMA IndexBegin == IndexInit => IndexInv
<1> SUFFICES ASSUME IndexInit PROVE IndexInv
  OBVIOUS
<1>1. <<>> \in Seq(Span) /\ <<>> \in Seq(Prefix)
  OBVIOUS
<1> QED BY <1>1 DEF IndexInit, IndexInv, IndexTypeOK, NoSpan, Span

\* The loop's invariant holds always.
LEMMA IndexInvariant == IndexSpec => []IndexInv
BY IndexBegin, IndexStep, PTL DEF IndexSpec

\* SearchSound: the spans that contains' binary search goes through are in order
\* and apart, for any regular prefixes: those whose last address lastAddr gets
\* right.
THEOREM SearchCorrect == IndexSpec => []SearchSound
<1>1. IndexInv => SearchSound
  BY DEF IndexInv, AllRegular, Finished, InOrder, SearchSound
<1> QED BY <1>1, IndexInvariant, PTL

\* In a built index, Contains says what the prefixes say.
LEMMA BuiltExact == IndexInv => IndexExact
<1>1. ASSUME IndexInv, stage = "built", AllRegular, NEW ip \in Address
      PROVE  Contains(ix, ip) <=> \E i \in DOMAIN all : Inside(Unmap(ip), all[i])
  <2> DEFINE a == Unmap(ip)
  <2>1. a \in Address /\ a \in Nat
    BY AddressFacts
  <2>2. \A i \in DOMAIN all : all[i] \in Prefix
    BY <1>1 DEF IndexInv, IndexTypeOK
  <2>3. ix["v4"] \in Seq(Span) /\ ix["v6"] \in Seq(Span)
    BY <1>1 DEF IndexInv, IndexTypeOK
  <2>4. Finished("v4") /\ Finished("v6")
    BY <1>1 DEF IndexInv
  <2> HIDE DEF a
  <2>5. contains(ix["v4"], a) <=> Given(Family("v4"), a)
    BY <2>1, <2>3, <2>4, SearchFacts DEF Finished
  <2>6. contains(ix["v6"], a) <=> Given(Family("v6"), a)
    BY <2>1, <2>3, <2>4, SearchFacts DEF Finished
  <2>7. ASSUME NEW i \in DOMAIN all, Inside(a, all[i]) PROVE Is4(a) <=> Is4(all[i].addr)
    <3>1. /\ all[i].addr \in Nat /\ all[i].block \in Nat
          /\ Is4(all[i].addr) => all[i].addr + all[i].block <= N4
      BY <2>2, AddressFacts
    <3> QED BY <2>1, <2>7, <3>1, IndexAssumption DEF Inside, Is4
  <2>8. CASE Is4(a)
    BY <2>5, <2>7, <2>8 DEF Contains, Given, Family, a
  <2>9. CASE ~ Is4(a)
    BY <2>6, <2>7, <2>9 DEF Contains, Given, Family, a
  <2> QED BY <2>8, <2>9 DEF a
<1> QED BY <1>1 DEF IndexExact, AllRegular

\* IndexExact: Contains is exact for any regular prefixes, in any order and
\* however they overlap, and for families of any size.
THEOREM ContainsCorrect == IndexSpec => []IndexExact
BY BuiltExact, IndexInvariant, PTL

-----------------------------------------------------------------------------
\* A number without its remainder begins a block, and the block ends where the
\* family does or before.
LEMMA BlockFacts ==
  ASSUME NEW x \in Nat, NEW b \in Nat \ {0}, NEW k \in Nat, x < k * b
  PROVE  /\ x % b \in 0..(b - 1) /\ x % b <= x
         /\ (x - (x % b)) + b <= k * b
<1> DEFINE r == x % b
           d == x \div b
<1>1. r \in 0..(b - 1) /\ d \in Nat /\ x = b * d + r
  OBVIOUS
<1> HIDE DEF r, d
<1>2. r <= x
  <2>1. b * d \in Nat
    BY <1>1
  <2> QED BY <1>1, <2>1
<1>3. d < k
  <2> SUFFICES ASSUME k <= d PROVE FALSE
    BY <1>1
  <2>1. k * b <= d * b
    BY <1>1
  <2> QED BY <1>1, <2>1
<1>4. (d + 1) * b <= k * b
  BY <1>1, <1>3
<1>5. (x - r) + b = (d + 1) * b
  BY <1>1
<1> QED BY <1>1, <1>2, <1>4, <1>5 DEF r

\* The host bits cleared, a line gives a prefix of its family.
LEMMA MaskedFacts ==
  ASSUME NEW l \in PrefixLine, l.kind = "prefix"
  PROVE  Masked(l) \in Prefix
<1>1. /\ l.addr \in Address /\ l.block \in 1..N6
      /\ \E n \in 1..N6 : n * l.block = IF Is4(l.addr) THEN N4 ELSE N6
  BY DEF PrefixLine
<1>2. PICK n \in 1..N6 : n * l.block = IF Is4(l.addr) THEN N4 ELSE N6
  BY <1>1
<1> DEFINE base == IF Is4(l.addr) THEN 0 ELSE N4
           x == l.addr - base
           b == l.block
<1>3. /\ N4 \in Nat /\ N6 \in Nat /\ b \in Nat \ {0} /\ n \in Nat /\ l.addr \in Nat
      /\ l.addr < N4 + N6
  BY <1>1, IndexAssumption DEF Address
<1>4. x \in Nat /\ x < n * b /\ base \in Nat /\ l.addr = base + x
  BY <1>2, <1>3 DEF Is4
<1>5. x % b \in 0..(b - 1) /\ x % b <= x /\ (x - (x % b)) + b <= n * b
  BY <1>3, <1>4, BlockFacts
<1>6. Masked(l) = [addr |-> l.addr - (x % b), block |-> b]
  BY DEF Masked
<1> DEFINE r == x % b
           a == l.addr - r
<1>7. r \in Nat /\ r <= x
  BY <1>3, <1>5
<1>8. a + b <= base + n * b
  <2> DEFINE e == n * b
  <2>1. e \in Nat /\ (x - r) + b <= e
    BY <1>2, <1>3, <1>5
  <2> HIDE DEF e, x, b, base, r
  <2>2. a + b <= base + e
    BY <1>3, <1>4, <1>7, <2>1
  <2> QED BY <2>2 DEF e
<1> HIDE DEF r
<1>9. a \in Nat /\ base <= a /\ a <= l.addr
  BY <1>3, <1>4, <1>7
<1>10. base + n * b = IF Is4(l.addr) THEN N4 ELSE N4 + N6
  BY <1>2, <1>3
<1>11. a \in Address /\ (Is4(a) <=> Is4(l.addr))
  BY <1>3, <1>9, IndexAssumption DEF Address, Is4
<1>12. a + b <= IF Is4(a) THEN N4 ELSE N4 + N6
  BY <1>8, <1>10, <1>11
<1>13. Masked(l) = [addr |-> a, block |-> b]
  BY <1>6 DEF r
<1> HIDE DEF a, b
<1> QED BY <1>3, <1>11, <1>12, <1>13 DEF Prefix

\* The loop of loadFile as an equation.
LEMMA PrefixesTable ==
  ASSUME NEW lines, Len(lines) \in Nat
  PROVE  \E f :
           /\ f[0] = <<>>
           /\ \A i \in 1..Len(lines) :
                f[i] = IF lines[i].kind = "prefix" THEN Append(f[i - 1], Masked(lines[i])) ELSE f[i - 1]
           /\ Prefixes(lines) = f[Len(lines)]
<1> DEFINE n == Len(lines)
           B(f, i) == IF i = 0 THEN <<>>
                      ELSE IF lines[i].kind = "prefix" THEN Append(f[i - 1], Masked(lines[i])) ELSE f[i - 1]
           G(f, k) == [i \in 0..k |-> B(f, i)]
           K == { k \in Nat : \E f : f = G(f, k) }
<1>1. 0 \in K
  <2>1. [i \in 0..0 |-> <<>>] = G([i \in 0..0 |-> <<>>], 0)
    OBVIOUS
  <2> QED BY <2>1
<1>2. ASSUME NEW k \in Nat, k \in K PROVE k + 1 \in K
  <2>1. PICK f : f = G(f, k)
    BY <1>2
  <2> DEFINE g == [i \in 0..(k + 1) |-> IF i = k + 1 THEN B(f, i) ELSE f[i]]
  <2>2. \A i \in 0..(k + 1) : B(g, i) = B(f, i)
    <3>1. ASSUME NEW i \in 0..(k + 1), i # 0 PROVE g[i - 1] = f[i - 1]
      <4>1. i - 1 \in 0..(k + 1) /\ i - 1 # k + 1
        BY <3>1
      <4> QED BY <4>1
    <3> HIDE DEF g
    <3> QED BY <3>1
  <2>3. \A i \in 0..k : f[i] = B(f, i)
    BY <2>1
  <2>4. g = G(g, k + 1)
    <3> HIDE DEF B
    <3>1. g = [i \in 0..(k + 1) |-> B(f, i)]
      BY <2>3
    <3> HIDE DEF g
    <3> QED BY <2>2, <3>1
  <2> HIDE DEF g, G
  <2> QED BY <2>4
<1>3. \E f : f = G(f, n)
  <2> HIDE DEF G
  <2>1. 0 \in K /\ \A k \in Nat : k \in K => k + 1 \in K
    BY <1>1, <1>2
  <2>2. Nat \subseteq K
    <3> HIDE DEF K
    <3> QED BY <2>1, NatInduct
  <2> QED BY <2>2
<1> DEFINE f == CHOOSE f : f = G(f, n)
<1>4. f = G(f, n)
  <2> HIDE DEF G
  <2> QED BY <1>3
<1>5. Prefixes(lines) = f[n]
  BY DEF Prefixes
<1> HIDE DEF f
<1>6. \A i \in 0..n : f[i] = B(f, i)
  BY <1>4
<1> QED BY <1>5, <1>6

\* Position k of lines has a prefix, which is p.
Gives(lines, k, p) == lines[k].kind = "prefix" /\ p = Masked(lines[k])

\* The loop finds the prefixes of the lines, and nothing else.
LEMMA PrefixesFacts ==
  ASSUME NEW lines \in Seq(PrefixLine)
  PROVE  /\ Prefixes(lines) \in Seq(Prefix)
         /\ \A j \in DOMAIN Prefixes(lines) : \E k \in DOMAIN lines : Gives(lines, k, Prefixes(lines)[j])
         /\ \A k \in DOMAIN lines : lines[k].kind = "prefix" =>
              \E j \in DOMAIN Prefixes(lines) : Prefixes(lines)[j] = Masked(lines[k])
<1> DEFINE n == Len(lines)
<1>1. n \in Nat /\ DOMAIN lines = 1..n /\ \A i \in 1..n : lines[i] \in PrefixLine
  OBVIOUS
<1>2. PICK f : /\ f[0] = <<>>
               /\ \A i \in 1..n :
                    f[i] = IF lines[i].kind = "prefix" THEN Append(f[i - 1], Masked(lines[i])) ELSE f[i - 1]
               /\ Prefixes(lines) = f[n]
  BY <1>1, PrefixesTable
<1> DEFINE From(s, m) == \A j \in DOMAIN s : \E k \in 1..m : Gives(lines, k, s[j])
           Onto(s, m) == \A k \in 1..m : lines[k].kind = "prefix" => \E j \in DOMAIN s : s[j] = Masked(lines[k])
           P(m) == f[m] \in Seq(Prefix) /\ From(f[m], m) /\ Onto(f[m], m)
           K == { m \in Nat : m <= n => P(m) }
<1>3. 0 \in K
  <2>1. f[0] \in Seq(Prefix) /\ DOMAIN f[0] = {} /\ 1..0 = {}
    BY <1>2
  <2> QED BY <2>1
<1>4. ASSUME NEW m \in Nat, m \in K PROVE m + 1 \in K
  <2> SUFFICES ASSUME m + 1 <= n PROVE P(m + 1)
    OBVIOUS
  <2> DEFINE t == f[m]
             c == Masked(lines[m + 1])
  <2>1. m + 1 \in 1..n /\ m <= n /\ (m + 1) - 1 = m /\ 1..(m + 1) = (1..m) \cup {m + 1}
    BY <1>1
  <2>2. t \in Seq(Prefix) /\ From(t, m) /\ Onto(t, m)
    BY <1>4, <2>1
  <2>3. f[m + 1] = IF lines[m + 1].kind = "prefix" THEN Append(t, c) ELSE t
    BY <1>2, <2>1
  <2> HIDE DEF t, c
  <2>4. CASE lines[m + 1].kind # "prefix"
    BY <2>1, <2>2, <2>3, <2>4
  <2>5. CASE lines[m + 1].kind = "prefix"
    <3> DEFINE a == Append(t, c)
    <3>1. c \in Prefix /\ Gives(lines, m + 1, c)
      BY <1>1, <2>1, <2>5, MaskedFacts DEF c, Gives
    <3>2. /\ a \in Seq(Prefix) /\ DOMAIN t = 1..Len(t) /\ DOMAIN a = (1..Len(t)) \cup {Len(t) + 1}
          /\ a[Len(t) + 1] = c /\ \A i \in 1..Len(t) : a[i] = t[i]
      BY <2>2, <3>1
    <3> HIDE DEF a
    <3>3. From(a, m + 1)
      BY <2>1, <2>2, <3>1, <3>2
    <3>4. Onto(a, m + 1)
      BY <2>1, <2>2, <3>2 DEF c
    <3> QED BY <2>3, <2>5, <3>2, <3>3, <3>4 DEF a
  <2> QED BY <2>4, <2>5
<1>5. n \in K
  <2>1. 0 \in K /\ \A k \in Nat : k \in K => k + 1 \in K
    BY <1>3, <1>4
  <2>2. Nat \subseteq K
    <3> HIDE DEF K
    <3> QED BY <2>1, NatInduct
  <2> QED BY <1>1, <2>2
<1> QED BY <1>1, <1>2, <1>5

-----------------------------------------------------------------------------
\* A suffix with a dot before it is what is left when at least one label is taken
\* away in front.
LEMMA SuffixFacts ==
  ASSUME NEW T, NEW s \in Seq(T), NEW t \in Seq(T)
  PROVE  HasDotSuffix(t, s) <=> \E n \in 1..Len(t) : s = SubSeq(t, n + 1, Len(t))
<1>1. Len(s) \in Nat /\ Len(t) \in Nat
  OBVIOUS
<1>2. ASSUME HasDotSuffix(t, s) PROVE \E n \in 1..Len(t) : s = SubSeq(t, n + 1, Len(t))
  <2>1. Len(t) - Len(s) \in 1..Len(t) /\ s = SubSeq(t, (Len(t) - Len(s)) + 1, Len(t))
    BY <1>1, <1>2 DEF HasDotSuffix
  <2> QED BY <2>1
<1>3. ASSUME NEW n \in 1..Len(t), s = SubSeq(t, n + 1, Len(t)) PROVE HasDotSuffix(t, s)
  <2>1. Len(s) = Len(t) - n
    BY <1>1, <1>3
  <2>2. Len(s) < Len(t) /\ (Len(t) - Len(s)) + 1 = n + 1
    BY <1>1, <2>1
  <2> QED BY <1>3, <2>2 DEF HasDotSuffix
<1> QED BY <1>2, <1>3

\* normalize keeps the length, and takes a part of a name to the same part.
LEMMA NormalizeFacts ==
  ASSUME NEW q \in Seq(Label)
  PROVE  /\ normalize(q) \in Seq(Label) /\ Len(normalize(q)) = Len(q)
         /\ normalize(q) = <<>> <=> q = <<>>
         /\ \A n \in 0..Len(q) :
              normalize(SubSeq(q, n + 1, Len(q))) = SubSeq(normalize(q), n + 1, Len(q))
<1>1. DOMAIN q = 1..Len(q) /\ Len(q) \in Nat /\ \A i \in 1..Len(q) : q[i] \in Label
  OBVIOUS
<1>2. normalize(q) = [i \in 1..Len(q) |-> ToLower[q[i]]]
  BY <1>1 DEF normalize
<1>3. normalize(q) \in Seq(Label) /\ Len(normalize(q)) = Len(q)
  BY <1>1, <1>2, OverridesAssumption
<1>4. ASSUME NEW n \in 0..Len(q)
      PROVE  normalize(SubSeq(q, n + 1, Len(q))) = SubSeq(normalize(q), n + 1, Len(q))
  <2> DEFINE p == SubSeq(q, n + 1, Len(q))
  <2>1. DOMAIN p = 1..(Len(q) - n) /\ \A i \in 1..(Len(q) - n) : p[i] = q[n + i]
    BY <1>1
  <2>2. normalize(p) = [i \in 1..(Len(q) - n) |-> ToLower[q[n + i]]]
    <3> HIDE DEF p
    <3> QED BY <2>1 DEF normalize
  <2>3. SubSeq(normalize(q), n + 1, Len(q)) = [i \in 1..(Len(q) - n) |-> ToLower[q[n + i]]]
    <3> DEFINE f == normalize(q)
    <3>1. f \in Seq(Label) /\ Len(f) = Len(q)
      BY <1>3
    <3>2. \A i \in 1..(Len(q) - n) : f[n + i] = ToLower[q[n + i]]
      BY <1>1, <1>2
    <3> HIDE DEF f
    <3>3. SubSeq(f, n + 1, Len(q)) = [i \in 1..(Len(q) - n) |-> f[n + i]]
      BY <1>1, <3>1
    <3> QED BY <3>2, <3>3 DEF f
  <2> QED BY <2>2, <2>3
<1> QED BY <1>1, <1>3, <1>4

\* The lines of which name q is on the list: exactly q, or "*." and what is left
\* of q without its first n labels.
Listed(lines, q) ==
  \E k \in DOMAIN lines :
    /\ lines[k].kind # "skip" /\ lines[k].name # <<>>
    /\ \E n \in 0..Len(q) :
         /\ normalize(SubSeq(q, n + 1, Len(q))) = normalize(lines[k].name)
         /\ n > 0 <=> lines[k].kind = "wildcard"

\* Match finds what the lines say.
LEMMA MatchFacts ==
  ASSUME NEW lines \in Seq(OverridesLine), NEW q \in Seq(Label)
  PROVE  Match(LoadFrom(lines), q) <=> Listed(lines, q)
<1> DEFINE c == normalize(q)
           list == LoadFrom(lines)
<1>1. \A k \in DOMAIN lines : lines[k] \in OverridesLine
  OBVIOUS
<1>2. ASSUME NEW k \in DOMAIN lines
      PROVE  \/ lines[k].kind = "skip"
             \/ lines[k].kind \in {"exact", "wildcard"} /\ lines[k].name \in Seq(Label)
  BY <1>1 DEF OverridesLine
<1>3. ASSUME NEW kind \in {"exact", "wildcard"}, NEW e
      PROVE  e \in Entries(lines, kind) <=>
               \E k \in DOMAIN lines :
                 /\ lines[k].kind = kind /\ lines[k].name \in Seq(Label) /\ lines[k].name # <<>>
                 /\ e = normalize(lines[k].name)
  <2>1. e \in Entries(lines, kind) <=>
          e # <<>> /\ \E k \in DOMAIN lines : lines[k].kind = kind /\ e = normalize(lines[k].name)
    BY DEF Entries
  <2>2. ASSUME NEW k \in DOMAIN lines, lines[k].kind = kind
        PROVE  lines[k].name \in Seq(Label) /\ (normalize(lines[k].name) = <<>> <=> lines[k].name = <<>>)
    BY <1>2, <2>2, NormalizeFacts
  <2> QED BY <2>1, <2>2
<1>4. list.exact = Entries(lines, "exact") /\ list.wildcard = Entries(lines, "wildcard")
  BY DEF LoadFrom
<1>5. c \in Seq(Label) /\ Len(c) = Len(q) /\ Len(q) \in Nat /\ (c = <<>> <=> q = <<>>)
  BY NormalizeFacts
<1>6. ASSUME NEW n \in 0..Len(q)
      PROVE  normalize(SubSeq(q, n + 1, Len(q))) = SubSeq(c, n + 1, Len(c))
  BY <1>5, NormalizeFacts
<1>7. SubSeq(c, 1, Len(c)) = c
  BY <1>5
<1>8. Match(list, q) <=> c # <<>> /\ (c \in list.exact \/ \E e \in list.wildcard : HasDotSuffix(c, e))
  BY DEF Match
<1> HIDE DEF c, list
<1>9. c \in list.exact => c # <<>> /\ Listed(lines, q)
  <2> SUFFICES ASSUME c \in list.exact PROVE c # <<>> /\ Listed(lines, q)
    OBVIOUS
  <2>1. PICK k \in DOMAIN lines :
          /\ lines[k].kind = "exact" /\ lines[k].name \in Seq(Label) /\ lines[k].name # <<>>
          /\ c = normalize(lines[k].name)
    BY <1>3, <1>4
  <2>2. 0 \in 0..Len(q) /\ normalize(SubSeq(q, 0 + 1, Len(q))) = c
    BY <1>5, <1>6, <1>7
  <2>3. c # <<>>
    BY <2>1, NormalizeFacts
  <2> QED BY <2>1, <2>2, <2>3 DEF Listed
<1>10. ASSUME NEW e \in list.wildcard, HasDotSuffix(c, e) PROVE c # <<>> /\ Listed(lines, q)
  <2>1. PICK k \in DOMAIN lines :
          /\ lines[k].kind = "wildcard" /\ lines[k].name \in Seq(Label) /\ lines[k].name # <<>>
          /\ e = normalize(lines[k].name)
    BY <1>3, <1>4
  <2>2. e \in Seq(Label)
    BY <2>1, NormalizeFacts
  <2>3. PICK n \in 1..Len(c) : e = SubSeq(c, n + 1, Len(c))
    <3>1. HasDotSuffix(c, e) <=> \E n \in 1..Len(c) : e = SubSeq(c, n + 1, Len(c))
      BY <1>5, <2>2, SuffixFacts
    <3> QED BY <1>10, <3>1, Zenon
  <2>4. n \in 0..Len(q) /\ n > 0 /\ normalize(SubSeq(q, n + 1, Len(q))) = e
    BY <1>5, <1>6, <2>3
  <2>5. c # <<>>
    BY <1>5, <2>3
  <2> QED BY <2>1, <2>4, <2>5 DEF Listed
<1>11. ASSUME Listed(lines, q)
       PROVE  c # <<>> /\ (c \in list.exact \/ \E e \in list.wildcard : HasDotSuffix(c, e))
  <2>1. PICK k \in DOMAIN lines :
          /\ lines[k].kind # "skip" /\ lines[k].name # <<>>
          /\ \E n \in 0..Len(q) :
               /\ normalize(SubSeq(q, n + 1, Len(q))) = normalize(lines[k].name)
               /\ n > 0 <=> lines[k].kind = "wildcard"
    BY <1>11 DEF Listed
  <2>2. PICK n \in 0..Len(q) :
          /\ normalize(SubSeq(q, n + 1, Len(q))) = normalize(lines[k].name)
          /\ n > 0 <=> lines[k].kind = "wildcard"
    BY <2>1
  <2>3. lines[k].kind \in {"exact", "wildcard"} /\ lines[k].name \in Seq(Label)
    BY <1>2, <2>1
  <2> DEFINE e == normalize(lines[k].name)
  <2>4. e \in Seq(Label) /\ e # <<>> /\ e = SubSeq(c, n + 1, Len(c))
    BY <1>6, <2>1, <2>2, <2>3, NormalizeFacts
  <2>5. e \in Entries(lines, lines[k].kind)
    BY <1>3, <2>1, <2>3
  <2> HIDE DEF e
  <2>6. CASE lines[k].kind = "exact"
    <3>1. n = 0
      BY <2>2, <2>6
    <3>2. e = c
      BY <1>7, <2>4, <3>1
    <3> QED BY <1>4, <2>4, <2>5, <2>6, <3>2
  <2>7. CASE lines[k].kind = "wildcard"
    <3>1. n \in 1..Len(c)
      BY <1>5, <2>2, <2>7
    <3>2. HasDotSuffix(c, e)
      BY <1>5, <2>4, <3>1, SuffixFacts
    <3> QED BY <1>4, <1>5, <2>5, <2>7, <3>1, <3>2
  <2> QED BY <2>3, <2>6, <2>7
<1> QED BY <1>8, <1>9, <1>10, <1>11 DEF list

-----------------------------------------------------------------------------
\* The configuration: what build accepts is used as long as the process lives.
ConfigInv ==
  /\ pc \in {"config", "load", "publish", "serve", "ended"} /\ started \in BOOLEAN
  /\ started \/ pc \in {"load", "publish", "serve"} => Accepted(raw) /\ cfg = Built(raw)
  /\ started => pc # "config" /\ ~ raw.check /\ (cfg.sweep > 0 => pc # "ended")
  /\ pc = "serve" => started
  /\ raw.sweep \in RawDuration

\* The files, whatever edits they have seen, fit their uses.
DiskInv ==
  /\ raw.prefixFiles \in Seq(DOMAIN disk)
  /\ raw.overridesFile \in DOMAIN disk \cup {NoFile} /\ NoFile \notin DOMAIN disk
  /\ \A f \in DOMAIN disk : Fits(raw, f, disk[f])
  /\ \A f \in DOMAIN Drafts : \A c \in Drafts[f] : Fits(raw, f, c)

\* The first n files were without fault, and their prefixes are those in ps.
ReadSoFar(files, n, ps) ==
  /\ \A i \in 1..n : files[i] \in PrefixFile /\ Loads(files[i])
  /\ \A j \in DOMAIN ps : \E i \in 1..n : \E k \in DOMAIN files[i].lines : Gives(files[i].lines, k, ps[j])
  /\ \A i \in 1..n : \A k \in DOMAIN files[i].lines :
       files[i].lines[k].kind = "prefix" => \E j \in DOMAIN ps : ps[j] = Masked(files[i].lines[k])

\* The lines of the overrides file among the files read.
OverridesIn(files) == IF cfg.overridesFile = NoFile THEN <<>> ELSE files[Len(files)].lines

\* A load begins with nothing, reads the files in order, and is published only
\* when it is through.
LoadInv ==
  /\ pc \in {"config", "serve"} => stage = "read" /\ all = <<>> /\ next = 1 /\ reading = <<>>
  /\ pc = "load" =>
       /\ next \in 1..(Len(cfg.prefixFiles) + 1)
       /\ reading \in Seq(PrefixFile) /\ Len(reading) = next - 1
       /\ ReadSoFar(reading, next - 1, all)
       /\ stage # "read" => next = Len(cfg.prefixFiles) + 1
  /\ pc = "publish" =>
       /\ stage = "built"
       /\ ReadSoFar(reading, Len(cfg.prefixFiles), all)
       /\ Len(reading) = Len(Files)
       /\ cfg.overridesFile # NoFile => reading[Len(reading)] \in OverridesFile
       /\ ov = LoadFrom(OverridesIn(reading))

\* The bundle that the engine has.
BundleInv ==
  /\ BundleComplete
  /\ started =>
       /\ cfg.overridesFile # NoFile => origin[Len(origin)] \in OverridesFile
       /\ bundle.ov = LoadFrom(OverridesIn(origin))

AssetsInv == IndexInv /\ ConfigInv /\ DiskInv /\ LoadInv /\ BundleInv

\* What build makes of the fields that the load and the checks use.
LEMMA BuiltFacts ==
  ASSUME NEW r
  PROVE  /\ Built(r).prefixFiles = r.prefixFiles /\ Built(r).overridesFile = r.overridesFile
         /\ Built(r).upstreams = [i \in DOMAIN r.upstreams |-> Upstream(r.upstreams[i])]
         /\ r.sweep \in RawDuration => Built(r).sweep \in Int
<1>1. Built(r).sweep = IF r.sweep.kind = "set" THEN r.sweep.value ELSE Defaults.sweep
  BY DEF Built, Duration
<1>2. Defaults.sweep = 60
  BY DEF Defaults, Second
<1>3. r.sweep \in RawDuration => Built(r).sweep \in Int
  BY <1>1, <1>2 DEF RawDuration
<1>4. /\ Built(r).prefixFiles = r.prefixFiles /\ Built(r).overridesFile = r.overridesFile
      /\ Built(r).upstreams = [i \in DOMAIN r.upstreams |-> Upstream(r.upstreams[i])]
  BY Zenon DEF Built
<1> QED BY <1>3, <1>4

\* A load keeps the configuration, however it ends.
LEMMA ConfigKept ==
  ASSUME ConfigInv, pc = "load", raw' = raw, cfg' = cfg, started' = started,
         pc' \in {"load", "publish", "serve", "ended"}, started => pc' # "ended", pc' = "serve" => started
  PROVE  ConfigInv'
<1>1. Accepted(raw) /\ cfg = Built(raw) /\ started \in BOOLEAN /\ raw.sweep \in RawDuration /\ (started => ~ raw.check)
  BY Zenon DEF ConfigInv
<1>2. Accepted(raw') /\ cfg' = Built(raw') /\ started' \in BOOLEAN /\ raw'.sweep \in RawDuration /\ (started' => ~ raw'.check)
  BY <1>1
<1>3. pc' # "config" /\ pc' \in {"config", "load", "publish", "serve", "ended"} /\ (started' => pc' # "ended") /\ (pc' = "serve" => started')
  OBVIOUS
<1> QED BY <1>2, <1>3, Zenon DEF ConfigInv

\* What LoadConfig has accepted stays in use, and a process that serves goes on.
LEMMA ConfigStep ==
  ASSUME ConfigInv, [Next]_vars
  PROVE  ConfigInv' /\ (started => inChina' = inChina /\ (cfg.sweep > 0 => pc' # "ended"))
<1> DEFINE Goal == ConfigInv' /\ (started => inChina' = inChina /\ (cfg.sweep > 0 => pc' # "ended"))
<1>1. CASE LoadConfig
  BY <1>1 DEF LoadConfig, ConfigInv
<1>2. CASE ReadFile
  <2>1. /\ pc = "load" /\ UNCHANGED <<raw, cfg, started, inChina>>
        /\ pc' = pc \/ (started /\ pc' = "serve") \/ (~ started /\ pc' = "ended")
    BY <1>2, Zenon DEF ReadFile, Fail
  <2>2. pc' \in {"load", "publish", "serve", "ended"} /\ (started => pc' # "ended") /\ (pc' = "serve" => started)
    BY <2>1
  <2>3. ConfigInv'
    BY <2>1, <2>2, ConfigKept
  <2> QED BY <2>1, <2>2, <2>3, Zenon
<1>3. CASE BuildIndex
  BY <1>3 DEF BuildIndex, processVars, ConfigInv
<1>4. CASE ReadOverrides
  <2>1. /\ pc = "load" /\ UNCHANGED <<raw, cfg, started, inChina>>
        /\ pc' = "publish" \/ (started /\ pc' = "serve") \/ (~ started /\ pc' = "ended")
    BY <1>4, Zenon DEF ReadOverrides, Fail
  <2>2. pc' \in {"load", "publish", "serve", "ended"} /\ (started => pc' # "ended") /\ (pc' = "serve" => started)
    BY <2>1
  <2>3. ConfigInv'
    BY <2>1, <2>2, ConfigKept
  <2> QED BY <2>1, <2>2, <2>3, Zenon
<1>5. CASE CheckOnly
  BY <1>5 DEF CheckOnly, ConfigInv
<1>6. CASE Publish
  BY <1>6 DEF Publish, ConfigInv
<1>7. CASE Reload
  BY <1>7 DEF Reload, ConfigInv
<1>8. CASE JanitorPanics
  <2>1. cfg.sweep \in Int
    BY <1>8, BuiltFacts DEF JanitorPanics, ConfigInv
  <2> QED BY <1>8, <2>1 DEF JanitorPanics, ConfigInv
<1>9. CASE Sighup
  BY <1>9 DEF Sighup, ConfigInv
<1>10. CASE Edit
  BY <1>10 DEF Edit, ConfigInv
<1>11. CASE UNCHANGED vars
  BY <1>11 DEF vars, processVars, ConfigInv
<1> HIDE DEF Goal
<1> QED BY <1>1, <1>2, <1>3, <1>4, <1>5, <1>6, <1>7, <1>8, <1>9, <1>10, <1>11 DEF Next, Step

\* An edit keeps the files fit, and nothing else touches them.
LEMMA DiskStep ==
  ASSUME DiskInv, [Next]_vars PROVE DiskInv'
<1>1. CASE Edit
  <2>1. PICK f \in DOMAIN Drafts : \E c \in Drafts[f] : disk' = [disk EXCEPT ![f] = c]
    BY <1>1 DEF Edit
  <2>2. PICK c \in Drafts[f] : disk' = [disk EXCEPT ![f] = c]
    BY <2>1
  <2>3. raw' = raw /\ DOMAIN disk' = DOMAIN disk
    BY <1>1, <2>2 DEF Edit
  <2>4. Fits(raw, f, c)
    BY DEF DiskInv
  <2>5. \A g \in DOMAIN disk : Fits(raw, g, disk'[g])
    BY <2>2, <2>4 DEF DiskInv
  <2> QED BY <2>3, <2>5 DEF DiskInv
<1>2. CASE UNCHANGED <<raw, disk>>
  BY <1>2 DEF DiskInv
<1>3. Edit \/ UNCHANGED <<raw, disk>>
  BY DEF Next, Step, LoadConfig, ReadFile, BuildIndex, ReadOverrides, CheckOnly, Publish, Reload,
         JanitorPanics, Sighup, Fail, vars, processVars
<1> QED BY <1>1, <1>2, <1>3

\* The files of the configuration, as a load meets them.
LEMMA FileFacts ==
  ASSUME ConfigInv, DiskInv, started \/ pc \in {"load", "publish", "serve"}
  PROVE  /\ Len(cfg.prefixFiles) \in Nat /\ DOMAIN cfg.prefixFiles = 1..Len(cfg.prefixFiles)
         /\ \A i \in DOMAIN cfg.prefixFiles : disk[cfg.prefixFiles[i]] \in PrefixFile
         /\ cfg.overridesFile # NoFile => disk[cfg.overridesFile] \in OverridesFile
<1>1. cfg.prefixFiles = raw.prefixFiles /\ cfg.overridesFile = raw.overridesFile
  BY BuiltFacts DEF ConfigInv
<1>2. raw.prefixFiles \in Seq(DOMAIN disk) /\ raw.overridesFile \in DOMAIN disk \cup {NoFile}
  BY DEF DiskInv
<1>3. Len(raw.prefixFiles) \in Nat /\ DOMAIN raw.prefixFiles = 1..Len(raw.prefixFiles)
  BY <1>2
<1>4. ASSUME NEW i \in DOMAIN raw.prefixFiles PROVE disk[raw.prefixFiles[i]] \in PrefixFile
  <2>1. raw.prefixFiles[i] \in DOMAIN disk
    BY <1>2
  <2> QED BY <2>1 DEF DiskInv, Fits
<1>5. raw.overridesFile # NoFile => disk[raw.overridesFile] \in OverridesFile
  BY <1>2 DEF DiskInv, Fits
<1> QED BY <1>1, <1>3, <1>4, <1>5

\* A step of the process is a step of the index, or leaves it alone.
LEMMA IndexSimulated ==
  ASSUME ConfigInv, DiskInv, LoadInv, [Next]_vars
  PROVE  [IndexNext]_indexVars
<1>1. CASE ReadFile
  <2>1. CASE Fail
    BY <2>1 DEF Fail, IndexNext
  <2>2. CASE ~ Fail
    <3> DEFINE file == disk[cfg.prefixFiles[next]]
    <3>1. pc = "load" /\ next <= Len(cfg.prefixFiles) /\ Read(Prefixes(file.lines))
      BY <1>1, <2>2 DEF ReadFile
    <3>2. next \in DOMAIN cfg.prefixFiles
      <4>1. Len(cfg.prefixFiles) \in Nat /\ DOMAIN cfg.prefixFiles = 1..Len(cfg.prefixFiles)
        BY <3>1, FileFacts
      <4>2. next \in 1..(Len(cfg.prefixFiles) + 1)
        BY <3>1, Zenon DEF LoadInv
      <4> QED BY <3>1, <4>1, <4>2
    <3>3. file \in PrefixFile
      BY <3>1, <3>2, FileFacts
    <3> HIDE DEF file
    <3>4. Prefixes(file.lines) \in Seq(Prefix)
      BY <3>3, PrefixesFacts DEF PrefixFile
    <3> QED BY <3>1, <3>4 DEF IndexNext
  <2> QED BY <2>1, <2>2
<1>2. CASE ReadOverrides
  BY <1>2 DEF ReadOverrides, Fail, IndexNext
<1>3. CASE BuildIndex \/ Publish
  BY <1>3 DEF BuildIndex, Publish, IndexNext
<1>4. CASE UNCHANGED indexVars
  BY <1>4
<1>5. ReadFile \/ ReadOverrides \/ BuildIndex \/ Publish \/ UNCHANGED indexVars
  BY DEF Next, Step, LoadConfig, CheckOnly, Reload, JanitorPanics, Sighup, Edit, vars
<1> QED BY <1>1, <1>2, <1>3, <1>4, <1>5

\* What is where in a concatenation.
LEMMA JoinFacts ==
  ASSUME NEW T, NEW a \in Seq(T), NEW b \in Seq(T)
  PROVE  /\ Len(a) \in Nat /\ Len(b) \in Nat /\ DOMAIN a = 1..Len(a) /\ DOMAIN b = 1..Len(b)
         /\ DOMAIN (a \o b) = 1..(Len(a) + Len(b))
         /\ \A j \in 1..Len(a) : (a \o b)[j] = a[j]
         /\ \A j \in 1..Len(b) : (a \o b)[Len(a) + j] = b[j]
<1>1. Len(a) \in Nat /\ Len(b) \in Nat /\ DOMAIN a = 1..Len(a) /\ DOMAIN b = 1..Len(b)
  OBVIOUS
<1>2. DOMAIN (a \o b) = 1..(Len(a) + Len(b))
  OBVIOUS
<1>3. ASSUME NEW j \in 1..Len(a) PROVE (a \o b)[j] = a[j]
  BY <1>1
<1>4. ASSUME NEW j \in 1..Len(b) PROVE (a \o b)[Len(a) + j] = b[j]
  BY <1>1
<1> QED BY <1>1, <1>2, <1>3, <1>4

\* A file without fault is read, and its prefixes are appended.
LEMMA ReadKeeps ==
  ASSUME NEW n \in Nat, NEW old \in Seq(Prefix), NEW files \in Seq(PrefixFile), Len(files) = n,
         ReadSoFar(files, n, old), NEW file \in PrefixFile, Loads(file)
  PROVE  /\ Append(files, file) \in Seq(PrefixFile) /\ Len(Append(files, file)) = n + 1
         /\ ReadSoFar(Append(files, file), n + 1, old \o Prefixes(file.lines))
<1> DEFINE ps == Prefixes(file.lines)
           m == Len(old)
           more == Append(files, file)
           new == old \o ps
<1>1. /\ ps \in Seq(Prefix)
      /\ \A j \in DOMAIN ps : \E k \in DOMAIN file.lines : Gives(file.lines, k, ps[j])
      /\ \A k \in DOMAIN file.lines : file.lines[k].kind = "prefix" =>
           \E j \in DOMAIN ps : ps[j] = Masked(file.lines[k])
  <2>1. file.lines \in Seq(PrefixLine)
    BY DEF PrefixFile
  <2> QED BY <2>1, PrefixesFacts
<1> HIDE DEF ps
<1>2. /\ more \in Seq(PrefixFile) /\ Len(more) = n + 1
      /\ more[n + 1] = file /\ \A i \in 1..n : more[i] = files[i]
  OBVIOUS
<1>3. /\ m \in Nat /\ Len(ps) \in Nat /\ DOMAIN old = 1..m /\ DOMAIN ps = 1..Len(ps)
      /\ DOMAIN new = 1..(m + Len(ps))
      /\ \A j \in 1..m : new[j] = old[j]
      /\ \A j \in 1..Len(ps) : new[m + j] = ps[j]
  BY <1>1, JoinFacts
<1> HIDE DEF more, new
<1>4. ASSUME NEW i \in 1..(n + 1) PROVE i \in 1..n \/ i = n + 1
  OBVIOUS
<1>5. ASSUME NEW i \in 1..(n + 1) PROVE more[i] \in PrefixFile /\ Loads(more[i])
  BY <1>2, <1>4 DEF ReadSoFar
<1>6. ASSUME NEW j \in DOMAIN new
      PROVE  \E i \in 1..(n + 1) : \E k \in DOMAIN more[i].lines : Gives(more[i].lines, k, new[j])
  <2>1. CASE j \in 1..m
    <3>1. PICK i \in 1..n : \E k \in DOMAIN files[i].lines : Gives(files[i].lines, k, old[j])
      BY <1>3, <2>1 DEF ReadSoFar
    <3>2. i \in 1..(n + 1) /\ more[i] = files[i] /\ new[j] = old[j]
      BY <1>2, <1>3, <2>1
    <3> QED BY <3>1, <3>2
  <2>2. CASE j \notin 1..m
    <3>1. j - m \in 1..Len(ps) /\ m + (j - m) = j
      BY <1>3, <2>2
    <3>2. new[j] = ps[j - m]
      BY <1>3, <3>1
    <3>3. PICK k \in DOMAIN file.lines : Gives(file.lines, k, ps[j - m])
      BY <1>1, <1>3, <3>1
    <3>4. n + 1 \in 1..(n + 1)
      OBVIOUS
    <3> QED BY <1>2, <3>2, <3>3, <3>4
  <2> QED BY <2>1, <2>2
<1>7. ASSUME NEW i \in 1..(n + 1), NEW k \in DOMAIN more[i].lines, more[i].lines[k].kind = "prefix"
      PROVE  \E j \in DOMAIN new : new[j] = Masked(more[i].lines[k])
  <2>1. CASE i \in 1..n
    <3>1. more[i] = files[i]
      BY <1>2, <2>1
    <3>2. PICK j \in DOMAIN old : old[j] = Masked(files[i].lines[k])
      BY <1>7, <2>1, <3>1 DEF ReadSoFar
    <3>3. j \in DOMAIN new /\ new[j] = old[j]
      BY <1>3
    <3> QED BY <3>1, <3>2, <3>3
  <2>2. CASE i = n + 1
    <3>1. PICK j \in DOMAIN ps : ps[j] = Masked(file.lines[k])
      BY <1>1, <1>2, <1>7, <2>2
    <3>2. m + j \in DOMAIN new /\ new[m + j] = ps[j]
      BY <1>3
    <3> QED BY <1>2, <2>2, <3>1, <3>2
  <2> QED BY <1>4, <2>1, <2>2
<1> QED BY <1>2, <1>5, <1>6, <1>7 DEF ReadSoFar, more, new, ps

\* Only the files up to n matter.
LEMMA SameSoFar ==
  ASSUME NEW files, NEW more, NEW n, NEW ps, \A i \in 1..n : more[i] = files[i], ReadSoFar(files, n, ps)
  PROVE  ReadSoFar(more, n, ps)
<1>1. \A i \in 1..n : more[i] \in PrefixFile /\ Loads(more[i])
  BY Zenon DEF ReadSoFar
<1>2. ASSUME NEW j \in DOMAIN ps
      PROVE  \E i \in 1..n : \E k \in DOMAIN more[i].lines : Gives(more[i].lines, k, ps[j])
  <2>1. PICK i \in 1..n : \E k \in DOMAIN files[i].lines : Gives(files[i].lines, k, ps[j])
    BY Zenon DEF ReadSoFar
  <2>2. more[i] = files[i]
    OBVIOUS
  <2> QED BY <2>1, <2>2, Zenon
<1>3. ASSUME NEW i \in 1..n, NEW k \in DOMAIN more[i].lines, more[i].lines[k].kind = "prefix"
      PROVE  \E j \in DOMAIN ps : ps[j] = Masked(more[i].lines[k])
  <2>1. more[i] = files[i]
    OBVIOUS
  <2>2. k \in DOMAIN files[i].lines /\ files[i].lines[k].kind = "prefix"
    BY <1>3, <2>1
  <2>3. \E j \in DOMAIN ps : ps[j] = Masked(files[i].lines[k])
    BY <2>2, Zenon DEF ReadSoFar
  <2> QED BY <2>1, <2>3
<1> QED BY <1>1, <1>2, <1>3, Zenon DEF ReadSoFar

\* A load that fails, or has been published, leaves nothing behind.
LEMMA FreshLoad ==
  ASSUME Discard, next' = 1, reading' = <<>>, pc' \in {"serve", "ended"}
  PROVE  LoadInv'
BY DEF Discard, LoadInv

\* Every step keeps the account of the load.
LEMMA LoadStep ==
  ASSUME IndexTypeOK, ConfigInv, DiskInv, LoadInv, [Next]_vars
  PROVE  LoadInv'
<1>1. CASE LoadConfig
  <2>1. /\ pc' \in {"load", "ended"} /\ stage' = "read" /\ all' = <<>> /\ next' = 1 /\ reading' = <<>>
        /\ pc' = "load" => cfg'.prefixFiles = raw.prefixFiles
    BY <1>1, BuiltFacts DEF LoadConfig, LoadInv, indexVars
  <2>2. Len(raw.prefixFiles) \in Nat
    BY DEF DiskInv
  <2>3. ReadSoFar(reading', 0, all')
    BY <2>1 DEF ReadSoFar
  <2>4. pc' = "load" => next' \in 1..(Len(cfg'.prefixFiles) + 1)
    BY <2>1, <2>2
  <2>5. reading' \in Seq(PrefixFile) /\ Len(reading') = 0 /\ next' - 1 = 0
    BY <2>1
  <2> QED BY <2>1, <2>3, <2>4, <2>5 DEF LoadInv
<1>2. CASE ReadFile
  <2>1. CASE Fail
    BY <2>1, FreshLoad DEF Fail
  <2>2. CASE ~ Fail
    <3> DEFINE file == disk[cfg.prefixFiles[next]]
    <3>1. /\ pc = "load" /\ stage = "read" /\ next <= Len(cfg.prefixFiles) /\ Loads(file)
          /\ Read(Prefixes(file.lines)) /\ next' = next + 1 /\ reading' = Append(reading, file)
          /\ pc' = pc /\ cfg' = cfg
      BY <1>2, <2>2 DEF ReadFile
    <3>2. Len(cfg.prefixFiles) \in Nat /\ next \in Nat /\ next - 1 \in Nat /\ next \in DOMAIN cfg.prefixFiles
      <4>1. Len(cfg.prefixFiles) \in Nat /\ DOMAIN cfg.prefixFiles = 1..Len(cfg.prefixFiles)
        BY <3>1, FileFacts
      <4>2. next \in 1..(Len(cfg.prefixFiles) + 1)
        BY <3>1, Zenon DEF LoadInv
      <4> QED BY <3>1, <4>1, <4>2
    <3>3. file \in PrefixFile
      BY <3>1, <3>2, FileFacts
    <3> HIDE DEF file
    <3>4. reading \in Seq(PrefixFile) /\ Len(reading) = next - 1 /\ ReadSoFar(reading, next - 1, all) /\ all \in Seq(Prefix)
      BY <3>1 DEF LoadInv, IndexTypeOK
    <3>5. all' = all \o Prefixes(file.lines) /\ stage' = "read"
      BY <3>1 DEF Read
    <3>6. /\ reading' \in Seq(PrefixFile) /\ Len(reading') = (next - 1) + 1
          /\ ReadSoFar(reading', (next - 1) + 1, all')
      <4> DEFINE more == Append(reading, file)
      <4>1. /\ more \in Seq(PrefixFile) /\ Len(more) = (next - 1) + 1
            /\ ReadSoFar(more, (next - 1) + 1, all \o Prefixes(file.lines))
        BY <3>1, <3>2, <3>3, <3>4, ReadKeeps
      <4> QED BY <3>1, <3>5, <4>1, Zenon
    <3>7. (next - 1) + 1 = next' - 1 /\ next' \in 1..(Len(cfg'.prefixFiles) + 1)
      BY <3>1, <3>2
    <3>8. ReadSoFar(reading', next' - 1, all')
      BY <3>6, <3>7
    <3> QED BY <3>1, <3>5, <3>6, <3>7, <3>8 DEF LoadInv
  <2> QED BY <2>1, <2>2
<1>3. CASE BuildIndex
  <2>1. /\ pc = "load" /\ all' = all /\ stage' # "read"
        /\ stage = "read" => next > Len(cfg.prefixFiles)
        /\ UNCHANGED <<pc, cfg, next, reading>>
    BY <1>3 DEF BuildIndex, Build, Merge, Merged, processVars
  <2>2. next = Len(cfg.prefixFiles) + 1
    <3>1. Len(cfg.prefixFiles) \in Nat
      BY <2>1, FileFacts
    <3>2. /\ next \in 1..(Len(cfg.prefixFiles) + 1)
          /\ stage # "read" => next = Len(cfg.prefixFiles) + 1
      BY <2>1, Zenon DEF LoadInv
    <3> QED BY <2>1, <3>1, <3>2
  <2>3. ReadSoFar(reading', next' - 1, all')
    BY <2>1 DEF LoadInv
  <2> QED BY <2>1, <2>2, <2>3 DEF LoadInv
<1>4. CASE ReadOverrides
  <2>1. CASE Fail
    BY <2>1, FreshLoad DEF Fail
  <2>2. CASE ~ Fail
    <3> DEFINE n == Len(cfg.prefixFiles)
    <3>1. /\ pc = "load" /\ stage = "built" /\ pc' = "publish" /\ UNCHANGED <<all, stage, cfg>>
      BY <1>4, <2>2 DEF ReadOverrides, indexVars
    <3>2. n \in Nat /\ DOMAIN cfg.prefixFiles = 1..n
      BY <3>1, FileFacts
    <3>3. reading \in Seq(PrefixFile) /\ Len(reading) = n /\ ReadSoFar(reading, n, all)
      BY <3>1, <3>2 DEF LoadInv
    <3> HIDE DEF n
    <3>4. CASE cfg.overridesFile = NoFile
      <4>1. ov' = LoadFrom(<<>>) /\ reading' = reading
        BY <1>4, <2>2, <3>4 DEF ReadOverrides
      <4>2. ReadSoFar(reading', n, all')
        BY <3>1, <3>3, <4>1
      <4>3. Len(Files') = n
        BY <3>1, <3>2, <3>4 DEF Files, n
      <4>4. cfg'.overridesFile = NoFile /\ Len(reading') = Len(Files') /\ ReadSoFar(reading', Len(cfg'.prefixFiles), all')
        BY <3>1, <3>3, <3>4, <4>1, <4>2, <4>3, Zenon DEF n
      <4>5. ov' = LoadFrom(OverridesIn(reading)')
        BY <4>1, <4>4, Zenon DEF OverridesIn
      <4> QED BY <3>1, <4>4, <4>5, Zenon DEF LoadInv
    <3>5. CASE cfg.overridesFile # NoFile
      <4> DEFINE file == disk[cfg.overridesFile]
      <4>1. ov' = LoadFrom(file.lines) /\ reading' = Append(reading, file)
        BY <1>4, <2>2, <3>5 DEF ReadOverrides
      <4>2. file \in OverridesFile
        BY <3>1, <3>5, FileFacts
      <4> HIDE DEF file
      <4>3. /\ Len(reading') = n + 1 /\ reading'[n + 1] = file
            /\ \A i \in 1..n : reading'[i] = reading[i]
        BY <3>2, <3>3, <4>1
      <4>4. ReadSoFar(reading', n, all')
        <5>1. ReadSoFar(reading', n, all)
          BY <3>3, <4>3, SameSoFar
        <5> QED BY <3>1, <5>1
      <4>5. Len(Files') = n + 1
        <5>1. Files' = cfg.prefixFiles \o <<cfg.overridesFile>>
          BY <3>1, <3>5 DEF Files
        <5>2. cfg.prefixFiles \in Seq(DOMAIN disk)
          BY <3>1, BuiltFacts DEF ConfigInv, DiskInv
        <5> QED BY <5>1, <5>2 DEF n
      <4> QED BY <3>1, <3>5, <4>1, <4>2, <4>3, <4>4, <4>5 DEF LoadInv, OverridesIn, n
    <3> QED BY <3>4, <3>5
  <2> QED BY <2>1, <2>2
<1>5. CASE Publish
  BY <1>5, FreshLoad DEF Publish
<1>6. CASE Reload
  <2>1. /\ pc' = "load" /\ stage' = "read" /\ all' = <<>> /\ next' = 1 /\ reading' = <<>> /\ cfg' = cfg
        /\ pc = "serve"
    BY <1>6 DEF Reload, LoadInv, indexVars
  <2>2. Len(cfg'.prefixFiles) \in Nat
    BY <2>1, FileFacts
  <2>3. ReadSoFar(reading', 0, all')
    BY <2>1 DEF ReadSoFar
  <2>4. reading' \in Seq(PrefixFile) /\ Len(reading') = 0 /\ next' - 1 = 0
    BY <2>1
  <2> QED BY <2>1, <2>2, <2>3, <2>4 DEF LoadInv
<1>7. CASE UNCHANGED <<indexVars, cfg, next, ov, reading>> /\ pc' \in {pc, "ended"}
  <2>1. UNCHANGED <<all, stage>>
    BY <1>7 DEF indexVars
  <2>3. Files' = Files /\ OverridesIn(reading)' = OverridesIn(reading)
    BY <1>7 DEF Files, OverridesIn
  <2> QED BY <1>7, <2>1, <2>3 DEF LoadInv
<1>8. \/ LoadConfig \/ ReadFile \/ BuildIndex \/ ReadOverrides \/ Publish \/ Reload
      \/ UNCHANGED <<indexVars, cfg, next, ov, reading>> /\ pc' \in {pc, "ended"}
  BY DEF Next, Step, CheckOnly, JanitorPanics, Sighup, Edit, vars, processVars
<1> QED BY <1>1, <1>2, <1>3, <1>4, <1>5, <1>6, <1>7, <1>8

\* Only Publish gives the engine assets, and it gives it those of a load that is
\* through.
LEMMA BundleStep ==
  ASSUME IndexInv, ConfigInv, DiskInv, LoadInv, BundleInv, [Next]_vars
  PROVE  BundleInv'
<1>1. CASE Publish
  <2>1. /\ pc = "publish" /\ bundle' = [ix |-> ix, ov |-> ov] /\ origin' = reading /\ cfg' = cfg /\ started'
    BY <1>1 DEF Publish
  <2>2. /\ stage = "built" /\ ReadSoFar(reading, Len(cfg.prefixFiles), all) /\ Len(reading) = Len(Files)
        /\ cfg.overridesFile # NoFile => reading[Len(reading)] \in OverridesFile
        /\ ov = LoadFrom(OverridesIn(reading))
    BY <2>1 DEF LoadInv
  <2>3. DOMAIN cfg.prefixFiles = 1..Len(cfg.prefixFiles)
    BY <2>1, FileFacts
  <2>4. Files' = Files /\ OverridesIn(origin)' = OverridesIn(reading)
    BY <2>1 DEF Files, OverridesIn
  <2>5. \A i \in DOMAIN cfg'.prefixFiles :
          /\ \E k \in DOMAIN origin'[i].lines : origin'[i].lines[k].kind = "prefix"
          /\ \A k \in DOMAIN origin'[i].lines : origin'[i].lines[k].kind # "bad"
    <3> SUFFICES ASSUME NEW i \in 1..Len(cfg.prefixFiles)
                 PROVE  /\ \E k \in DOMAIN reading[i].lines : reading[i].lines[k].kind = "prefix"
                        /\ \A k \in DOMAIN reading[i].lines : reading[i].lines[k].kind # "bad"
      BY <2>1, <2>3
    <3>1. reading[i] \in PrefixFile /\ Loads(reading[i])
      BY <2>2 DEF ReadSoFar
    <3> DEFINE ps == Prefixes(reading[i].lines)
    <3>2. reading[i].lines \in Seq(PrefixLine) /\ ps # <<>>
      BY <3>1 DEF PrefixFile, Loads
    <3>3. ps \in Seq(Prefix) /\ \A j \in DOMAIN ps : \E k \in DOMAIN reading[i].lines : Gives(reading[i].lines, k, ps[j])
      BY <3>2, PrefixesFacts
    <3> HIDE DEF ps
    <3>4. 1 \in DOMAIN ps
      BY <3>2, <3>3
    <3> QED BY <3>1, <3>3, <3>4 DEF Loads, Gives
  <2>6. ASSUME NEW p PROVE p \in PrefixesRead' <=> \E j \in DOMAIN all : all[j] = p
    <3>1. p \in PrefixesRead' <=>
            \E i \in DOMAIN cfg'.prefixFiles : \E k \in DOMAIN origin'[i].lines :
              origin'[i].lines[k].kind = "prefix" /\ p = Masked(origin'[i].lines[k])
      BY DEF PrefixesRead
    <3>2. p \in PrefixesRead' <=>
            \E i \in 1..Len(cfg.prefixFiles) : \E k \in DOMAIN reading[i].lines :
              reading[i].lines[k].kind = "prefix" /\ p = Masked(reading[i].lines[k])
      BY <2>1, <2>3, <3>1
    <3>3. \A j \in DOMAIN all : \E i \in 1..Len(cfg.prefixFiles) : \E k \in DOMAIN reading[i].lines :
            reading[i].lines[k].kind = "prefix" /\ all[j] = Masked(reading[i].lines[k])
      BY <2>2, Zenon DEF ReadSoFar, Gives
    <3>4. \A i \in 1..Len(cfg.prefixFiles) : \A k \in DOMAIN reading[i].lines :
            reading[i].lines[k].kind = "prefix" => \E j \in DOMAIN all : all[j] = Masked(reading[i].lines[k])
      BY <2>2, Zenon DEF ReadSoFar
    <3>5. ASSUME p \in PrefixesRead' PROVE \E j \in DOMAIN all : all[j] = p
      <4>1. PICK i \in 1..Len(cfg.prefixFiles) : \E k \in DOMAIN reading[i].lines :
              reading[i].lines[k].kind = "prefix" /\ p = Masked(reading[i].lines[k])
        BY <3>2, <3>5, Zenon
      <4> QED BY <3>4, <4>1, Zenon
    <3>6. ASSUME NEW j \in DOMAIN all, all[j] = p PROVE p \in PrefixesRead'
      BY <3>2, <3>3, <3>6, Zenon
    <3> QED BY <3>5, <3>6, Zenon
  <2>7. (\A p \in PrefixesRead' : Regular(p)) =>
          \A ip \in Address : Contains(ix, ip) <=> \E p \in PrefixesRead' : Inside(Unmap(ip), p)
    <3> SUFFICES ASSUME \A p \in PrefixesRead' : Regular(p), NEW ip \in Address
                 PROVE  Contains(ix, ip) <=> \E p \in PrefixesRead' : Inside(Unmap(ip), p)
      OBVIOUS
    <3>1. \A i \in DOMAIN all : Regular(all[i])
      BY <2>6
    <3>2. Contains(ix, ip) <=> \E i \in DOMAIN all : Inside(Unmap(ip), all[i])
      BY <2>2, <3>1, BuiltExact DEF IndexExact
    <3>3. (\E i \in DOMAIN all : Inside(Unmap(ip), all[i])) <=> \E p \in PrefixesRead' : Inside(Unmap(ip), p)
      BY <2>6, Zenon
    <3> QED BY <3>2, <3>3, Zenon
  <2>8. bundle'.ix = ix /\ bundle'.ov = ov
    BY <2>1
  <2>9. BundleComplete'
    BY <2>1, <2>2, <2>4, <2>5, <2>7, <2>8 DEF BundleComplete
  <2> QED BY <2>1, <2>2, <2>4, <2>8, <2>9 DEF BundleInv
<1>2. CASE ~ started' 
  BY <1>2 DEF BundleInv, BundleComplete
<1>3. CASE started /\ UNCHANGED <<cfg, bundle, origin, started>>
  <2>1. Files' = Files /\ PrefixesRead' = PrefixesRead /\ OverridesIn(origin)' = OverridesIn(origin)
    BY <1>3 DEF Files, PrefixesRead, OverridesIn
  <2>2. BundleComplete'
    BY <1>3, <2>1 DEF BundleInv, BundleComplete
  <2> QED BY <1>3, <2>1, <2>2 DEF BundleInv
<1>4. Publish \/ ~ started' \/ (started /\ UNCHANGED <<cfg, bundle, origin, started>>)
  BY DEF Next, Step, LoadConfig, ReadFile, BuildIndex, ReadOverrides, Fail, CheckOnly, Reload,
         JanitorPanics, Sighup, Edit, vars, processVars, ConfigInv
<1> QED BY <1>1, <1>2, <1>3, <1>4

\* The process starts with nothing loaded.
LEMMA AssetsBegin ==
  ASSUME Init PROVE AssetsInv
<1>1. PICK s \in Starts : raw = s.raw /\ disk = s.disk
  BY DEF Init
<1>2. IndexInv
  BY IndexBegin DEF Init
<1>3. raw.sweep \in RawDuration
  BY <1>1, AssetsAssumption DEF Durations
<1>4. ConfigInv
  BY <1>3 DEF Init, ConfigInv
<1>5. DiskInv
  BY <1>1, AssetsAssumption DEF DiskInv
<1>6. LoadInv
  BY DEF Init, IndexInit, LoadInv
<1>7. BundleInv
  BY DEF Init, BundleInv, BundleComplete
<1> QED BY <1>2, <1>4, <1>5, <1>6, <1>7 DEF AssetsInv

\* The process and the index in it keep the invariant.
LEMMA AssetsInvariant == Spec => []AssetsInv
<1>1. Init => AssetsInv
  BY AssetsBegin
<1>2. AssetsInv /\ [Next]_vars => AssetsInv'
  <2> SUFFICES ASSUME AssetsInv, [Next]_vars PROVE AssetsInv'
    OBVIOUS
  <2>1. IndexInv /\ ConfigInv /\ DiskInv /\ LoadInv /\ BundleInv
    BY DEF AssetsInv
  <2>2. IndexInv'
    BY <2>1, IndexSimulated, IndexStep
  <2>3. ConfigInv'
    BY <2>1, ConfigStep
  <2>4. DiskInv'
    BY <2>1, DiskStep
  <2>5. LoadInv'
    BY <2>1, LoadStep DEF IndexInv
  <2>6. BundleInv'
    BY <2>1, BundleStep
  <2> QED BY <2>2, <2>3, <2>4, <2>5, <2>6 DEF AssetsInv
<1> QED BY <1>1, <1>2, PTL DEF Spec

\* The process uses the index as its own specification says, also in reloads that
\* fail half way: what holds of the index holds in the process.
THEOREM AssetsUsesIndex == Spec => IndexSpec
<1>1. Init => IndexInit
  BY DEF Init
<1>2. AssetsInv /\ [Next]_vars => [IndexNext]_indexVars
  BY IndexSimulated DEF AssetsInv
<1> QED BY <1>1, <1>2, AssetsInvariant, PTL DEF Spec, IndexSpec

\* BundleComplete: the engine's assets are those of one complete load, for any
\* configurations, files, edits and signals and any number of reloads; its
\* index says what the prefixes of the files say if they are all regular.
THEOREM BundleCorrect == Spec => []BundleComplete
<1>1. AssetsInv => BundleComplete
  BY DEF AssetsInv, BundleInv
<1> QED BY <1>1, AssetsInvariant, PTL

\* The engine's override list says of every name what the file says that it was
\* read from.
THEOREM OverridesCorrect == Spec => []OverridesExact
<1>1. ASSUME AssetsInv, started, NEW q \in Names
      PROVE  Match(bundle.ov, q) <=> cfg.overridesFile # NoFile /\ Listed(origin[Len(origin)].lines, q)
  <2>1. q \in Seq(Label)
    BY AssetsAssumption
  <2>2. /\ cfg.overridesFile # NoFile => origin[Len(origin)] \in OverridesFile
        /\ bundle.ov = LoadFrom(OverridesIn(origin))
    BY <1>1 DEF AssetsInv, BundleInv
  <2>3. CASE cfg.overridesFile = NoFile
    <3>1. bundle.ov = LoadFrom(<<>>) /\ <<>> \in Seq(OverridesLine)
      BY <2>2, <2>3 DEF OverridesIn
    <3>2. ~ Listed(<<>>, q)
      BY DEF Listed
    <3> QED BY <2>1, <2>3, <3>1, <3>2, MatchFacts
  <2>4. CASE cfg.overridesFile # NoFile
    <3> DEFINE lines == origin[Len(origin)].lines
    <3>1. bundle.ov = LoadFrom(lines) /\ lines \in Seq(OverridesLine)
      BY <2>2, <2>4 DEF OverridesIn, OverridesFile
    <3> HIDE DEF lines
    <3>2. Match(bundle.ov, q) <=> Listed(lines, q)
      BY <2>1, <3>1, MatchFacts
    <3> QED BY <2>4, <3>2 DEF lines
  <2> QED BY <2>3, <2>4
<1>2. AssetsInv => OverridesExact
  BY <1>1 DEF OverridesExact, Listed
<1> QED BY <1>2, AssetsInvariant, PTL

\* The conversion to uint32 keeps the order of durations that fit.
LEMMA Uint32Facts ==
  ASSUME NEW c \in 0..(Width * Second - 1), NEW d \in 0..(Width * Second - 1), c <= d
  PROVE  Uint32(c) <= Uint32(d)
<1>1. Width \in Nat \ {0}
  BY ConfigAssumption
<1>2. ASSUME NEW e \in 0..(Width * Second - 1) PROVE Uint32(e) = e \div 2 /\ e \div 2 \in 0..(Width - 1)
  <2>1. e \div 2 \in 0..(Width - 1)
    BY <1>1 DEF Second
  <2>2. Uint32(e) = (e \div 2) % Width
    BY <1>1 DEF Uint32, Second
  <2> QED BY <1>1, <2>1, <2>2
<1>3. c \div 2 <= d \div 2
  BY <1>1 DEF Second
<1> QED BY <1>2, <1>3

\* ConfigSound: what LoadConfig accepts has distinct upstreams and attempts that
\* fit into the whole time, and clamps in order if they fit into a uint32, as
\* long as the process uses it.
THEOREM ConfigCorrect == Spec => []ConfigSound
<1>1. ASSUME AssetsInv, pc \in {"load", "publish", "serve"} PROVE ConfigSound
  <2>1. Accepted(raw) /\ cfg = Built(raw)
    BY <1>1 DEF AssetsInv, ConfigInv
  <2>2. \A i, j \in DOMAIN cfg.upstreams : i # j => cfg.upstreams[i].addr # cfg.upstreams[j].addr
    <3>1. cfg.upstreams = [i \in DOMAIN raw.upstreams |-> Upstream(raw.upstreams[i])]
      BY <2>1, BuiltFacts
    <3>2. \A i, j \in DOMAIN raw.upstreams : raw.upstreams[i].addr = raw.upstreams[j].addr => i = j
      <4>1. UpstreamsOK(raw)
        BY <2>1, Zenon DEF Accepted
      <4> QED BY <4>1, Zenon DEF UpstreamsOK
    <3>3. \A i \in DOMAIN raw.upstreams : cfg.upstreams[i].addr = raw.upstreams[i].addr
      BY <3>1 DEF Upstream
    <3> QED BY <3>1, <3>2, <3>3
  <2>3. cfg.attempt <= cfg.overall /\ cfg.minTTL <= cfg.maxTTL /\ cfg.negMinTTL <= cfg.negMaxTTL
    BY <2>1 DEF Accepted, Ordered
  <2>4. ASSUME \A d \in {cfg.minTTL, cfg.maxTTL, cfg.negMinTTL, cfg.negMaxTTL} : d \in 0..(Width * Second - 1)
        PROVE  Uint32(cfg.minTTL) <= Uint32(cfg.maxTTL) /\ Uint32(cfg.negMinTTL) <= Uint32(cfg.negMaxTTL)
    BY <2>3, <2>4, Uint32Facts
  <2> QED BY <2>2, <2>3, <2>4 DEF ConfigSound
<1>2. AssetsInv => ConfigSound
  BY <1>1 DEF ConfigSound
<1> QED BY <1>2, AssetsInvariant, PTL

\* StaysUp: no file and no SIGHUP ends a process that serves with a positive
\* sweep interval, and no reload changes an upstream's flag.
THEOREM ServingGoesOn == Spec => StaysUp
<1>1. AssetsInv /\ [Next]_vars => [started => inChina' = inChina /\ (cfg.sweep > 0 => pc' # "ended")]_vars
  BY ConfigStep DEF AssetsInv
<1> QED BY <1>1, AssetsInvariant, PTL DEF Spec, StaysUp

-----------------------------------------------------------------------------
\* A file that is in use makes a load fail.
Faulty ==
  \E i \in DOMAIN Files :
    IF i \in DOMAIN cfg.prefixFiles THEN ~ Loads(disk[Files[i]]) ELSE ~ disk[Files[i]].ok

\* When the process waits for a signal and the channel is empty, a signal that
\* came after the last edit has been heard: the assets are those on disk, or a
\* file on disk is faulty.
SignalHeard == asked /\ pc = "serve" /\ hup = 0 => origin = Current \/ Faulty

\* While the signal is out of the channel, the load under way has read nothing
\* that an edit has changed since.
SignalInv ==
  /\ asked => started
  /\ SignalHeard
  /\ asked /\ hup = 0 /\ pc = "load" => \A i \in DOMAIN reading : reading[i] = disk[Files[i]]
  /\ asked /\ hup = 0 /\ pc = "publish" => reading = Current

\* The prefix files come first, then the overrides file.
LEMMA FilesFacts ==
  ASSUME ConfigInv, DiskInv, started \/ pc \in {"load", "publish", "serve"}
  PROVE  LET n == Len(cfg.prefixFiles)
         IN  /\ n \in Nat /\ DOMAIN cfg.prefixFiles = 1..n
             /\ \A i \in 1..n : Files[i] = cfg.prefixFiles[i]
             /\ cfg.overridesFile = NoFile => DOMAIN Files = 1..n
             /\ cfg.overridesFile # NoFile => DOMAIN Files = 1..(n + 1) /\ Files[n + 1] = cfg.overridesFile
<1> DEFINE ps == cfg.prefixFiles
           n == Len(ps)
           o == cfg.overridesFile
<1>1. ps \in Seq(DOMAIN disk) /\ o \in DOMAIN disk \cup {NoFile}
  <2>1. ps = raw.prefixFiles /\ o = raw.overridesFile
    BY BuiltFacts DEF ConfigInv
  <2> QED BY <2>1 DEF DiskInv
<1>2. Files = ps \o (IF o = NoFile THEN <<>> ELSE <<o>>)
  BY DEF Files
<1> HIDE DEF ps, o
<1>3. n \in Nat /\ DOMAIN ps = 1..n
  BY <1>1
<1>4. CASE o = NoFile
  <2>1. Files = ps \o <<>>
    BY <1>2, <1>4
  <2>2. Files = ps
    BY <1>1, <2>1
  <2> QED BY <1>3, <1>4, <2>2 DEF ps, o
<1>5. CASE o # NoFile
  <2>1. Files = ps \o <<o>>
    BY <1>2, <1>5
  <2>2. <<o>> \in Seq(DOMAIN disk) /\ Len(<<o>>) = 1 /\ <<o>>[1] = o
    BY <1>1, <1>5
  <2>3. /\ DOMAIN Files = 1..(n + Len(<<o>>)) /\ \A i \in 1..n : Files[i] = ps[i]
        /\ \A j \in 1..Len(<<o>>) : Files[n + j] = <<o>>[j]
    BY <1>1, <2>1, <2>2, JoinFacts
  <2>4. DOMAIN Files = 1..(n + 1) /\ Files[n + 1] = o /\ \A i \in 1..n : Files[i] = ps[i]
    BY <2>2, <2>3
  <2> QED BY <1>3, <1>5, <2>4 DEF ps, o
<1> QED BY <1>4, <1>5

\* A step that leaves alone what the invariant is about.
LEMMA SignalSame ==
  ASSUME SignalInv, UNCHANGED <<cfg, disk, asked, hup, pc, reading, origin, started>>
  PROVE  SignalInv'
<1>1. Files' = Files
  BY DEF Files
<1>2. Current' = Current /\ Faulty' = Faulty
  BY <1>1 DEF Current, Faulty
<1> QED BY <1>1, <1>2 DEF SignalInv, SignalHeard

\* A load that fails has met a faulty file.
LEMMA SignalFail ==
  ASSUME SignalInv, Fail, pc = "load", Faulty
  PROVE  SignalInv'
<1>1. /\ UNCHANGED <<cfg, disk, asked, hup, origin, started>>
      /\ pc' = IF started THEN "serve" ELSE "ended"
  BY DEF Fail
<1>2. Files' = Files
  BY <1>1 DEF Files
<1>3. Faulty'
  BY <1>1, <1>2 DEF Faulty
<1> QED BY <1>1, <1>3 DEF SignalInv, SignalHeard

\* A signal in the channel is served by a whole load, and an edit takes back that
\* one was asked for.
LEMMA SignalStep ==
  ASSUME ConfigInv, DiskInv, LoadInv, SignalInv, [Next]_vars
  PROVE  SignalInv'
<1> DEFINE n == Len(cfg.prefixFiles)
<1>1. CASE ReadFile
  <2> DEFINE file == disk[cfg.prefixFiles[next]]
  <2>1. pc = "load" /\ stage = "read" /\ next <= n
    BY <1>1, Zenon DEF ReadFile
  <2>2. n \in Nat /\ DOMAIN cfg.prefixFiles = 1..n /\ (\A i \in 1..n : Files[i] = cfg.prefixFiles[i]) /\ 1..n \subseteq DOMAIN Files
    BY <2>1, FilesFacts
  <2>3. next \in 1..(n + 1) /\ reading \in Seq(PrefixFile) /\ Len(reading) = next - 1
    BY <2>1, Zenon DEF LoadInv
  <2>4. next \in 1..n /\ Files[next] = cfg.prefixFiles[next] /\ next \in DOMAIN Files
    BY <2>1, <2>2, <2>3
  <2>5. CASE ~ Loads(file) /\ Fail
    <3>1. Faulty
      BY <2>2, <2>4, <2>5 DEF Faulty
    <3> QED BY <2>1, <2>5, <3>1, SignalFail
  <2>6. CASE ~ (~ Loads(file) /\ Fail)
    <3>1. reading' = Append(reading, file) /\ UNCHANGED <<cfg, disk, pc, started, hup, asked, origin>>
      BY <1>1, <2>6, Zenon DEF ReadFile
    <3>2. Files' = Files
      BY <3>1 DEF Files
    <3>3. ASSUME \A i \in DOMAIN reading : reading[i] = disk[Files[i]], NEW i \in DOMAIN reading'
          PROVE  reading'[i] = disk[Files[i]]
      <4>1. file \in PrefixFile
        BY <2>1, <2>2, <2>4, FileFacts
      <4> DEFINE more == Append(reading, file)
      <4>2. DOMAIN more = 1..next /\ more[next] = file /\ \A k \in 1..(next - 1) : k \in DOMAIN reading /\ more[k] = reading[k]
        <5>1. next - 1 \in Nat /\ DOMAIN reading = 1..(next - 1) /\ (next - 1) + 1 = next
          BY <2>2, <2>3
        <5> HIDE DEF file
        <5> QED BY <2>3, <4>1, <5>1
      <4>3. reading' = more
        BY <3>1
      <4> HIDE DEF more
      <4>4. i = next \/ i \in 1..(next - 1)
        BY <2>2, <2>3, <3>3, <4>2, <4>3
      <4> QED BY <2>4, <3>3, <4>2, <4>3, <4>4
    <3> QED BY <2>1, <3>1, <3>2, <3>3 DEF SignalInv, SignalHeard
  <2> QED BY <2>5, <2>6
<1>2. CASE ReadOverrides
  <2> DEFINE o == cfg.overridesFile
  <2>1. pc = "load" /\ stage = "built"
    BY <1>2, Zenon DEF ReadOverrides
  <2>2. /\ n \in Nat /\ DOMAIN cfg.prefixFiles = 1..n
        /\ o = NoFile => DOMAIN Files = 1..n
        /\ o # NoFile => DOMAIN Files = 1..(n + 1) /\ Files[n + 1] = o
    BY <2>1, FilesFacts
  <2>3. next = n + 1 /\ reading \in Seq(PrefixFile) /\ Len(reading) = next - 1
    BY <2>1, Zenon DEF LoadInv
  <2>4. Len(reading) = n /\ DOMAIN reading = 1..n
    BY <2>2, <2>3
  <2>5. CASE o # NoFile /\ ~ disk[o].ok /\ Fail
    <3>1. n + 1 \in DOMAIN Files /\ n + 1 \notin DOMAIN cfg.prefixFiles /\ Files[n + 1] = o
      BY <2>2, <2>5
    <3>2. Faulty
      BY <2>5, <3>1, Zenon DEF Faulty
    <3> QED BY <2>1, <2>5, <3>2, SignalFail
  <2>6. CASE ~ (o # NoFile /\ ~ disk[o].ok /\ Fail)
    <3>1. /\ reading' = (IF o = NoFile THEN reading ELSE Append(reading, disk[o]))
          /\ pc' = "publish" /\ UNCHANGED <<cfg, disk, started, hup, asked, origin>>
      BY <1>2, <2>6, Zenon DEF ReadOverrides
    <3>2. Files' = Files
      BY <3>1 DEF Files
    <3>3. Current' = Current
      BY <3>1, <3>2 DEF Current
    <3>4. ASSUME \A i \in DOMAIN reading : reading[i] = disk[Files[i]] PROVE reading' = Current
      <4>1. Current = [i \in DOMAIN Files |-> disk[Files[i]]]
        BY DEF Current
      <4>2. CASE o = NoFile
        <5>1. reading' = [i \in 1..n |-> reading[i]]
          BY <2>3, <2>4, <3>1, <4>2
        <5> QED BY <2>2, <2>4, <3>4, <4>1, <4>2, <5>1
      <4>3. CASE o # NoFile
        <5>1. reading' = [i \in 1..(n + 1) |-> IF i = n + 1 THEN disk[o] ELSE reading[i]]
          BY <2>2, <2>3, <2>4, <3>1, <4>3
        <5>2. \A i \in 1..(n + 1) : (IF i = n + 1 THEN disk[o] ELSE reading[i]) = disk[Files[i]]
          BY <2>2, <2>4, <3>4, <4>3
        <5> QED BY <2>2, <4>1, <4>3, <5>1, <5>2
      <4> QED BY <4>2, <4>3
    <3>5. asked' /\ hup' = 0 => reading' = Current'
      BY <2>1, <3>1, <3>3, <3>4 DEF SignalInv
    <3> QED BY <3>1, <3>5 DEF SignalInv, SignalHeard
  <2> QED BY <2>5, <2>6
<1>3. CASE Publish
  <2>1. pc = "publish" /\ pc' = "serve" /\ started' /\ origin' = reading /\ UNCHANGED <<cfg, disk, hup, asked>>
    BY <1>3, Zenon DEF Publish
  <2>2. Files' = Files
    BY <2>1 DEF Files
  <2>3. Current' = Current
    BY <2>1, <2>2 DEF Current
  <2> QED BY <2>1, <2>3 DEF SignalInv, SignalHeard
<1>4. CASE Reload
  <2>1. pc' = "load" /\ UNCHANGED <<asked, started>> /\ reading' = <<>>
    BY <1>4 DEF Reload, LoadInv
  <2>2. DOMAIN reading' = {}
    BY <2>1
  <2> QED BY <2>1, <2>2 DEF SignalInv, SignalHeard
<1>5. CASE Sighup
  <2>1. asked' => started'
    BY <1>5 DEF Sighup, SignalInv
  <2>2. pc' = "ended" \/ hup' = 1
    BY <1>5 DEF Sighup
  <2> QED BY <2>1, <2>2 DEF SignalInv, SignalHeard
<1>6. CASE Edit
  BY <1>6 DEF Edit, SignalInv, SignalHeard
<1>7. CASE LoadConfig \/ CheckOnly \/ JanitorPanics
  <2>1. /\ asked' = asked /\ started' = started
        /\ ~ started \/ pc' = "ended"
    BY <1>7 DEF LoadConfig, CheckOnly, JanitorPanics, ConfigInv
  <2> QED BY <2>1 DEF SignalInv, SignalHeard
<1>8. CASE BuildIndex \/ UNCHANGED vars
  <2>1. UNCHANGED <<cfg, disk, asked, hup, pc, reading, origin, started>>
    BY <1>8 DEF BuildIndex, processVars, vars
  <2> QED BY <2>1, SignalSame
<1> QED BY <1>1, <1>2, <1>3, <1>4, <1>5, <1>6, <1>7, <1>8 DEF Next, Step

\* No signal is lost: handleReloads never waits with an empty channel and assets
\* older than the last signal, unless a file on disk is faulty.  This is the safety
\* half of ReloadCatchesUp; that the load ends is the other.
THEOREM NoSignalLost == Spec => []SignalHeard
<1>1. Init => SignalInv
  BY DEF Init, SignalInv, SignalHeard
<1>2. AssetsInv /\ SignalInv /\ [Next]_vars => SignalInv'
  BY SignalStep DEF AssetsInv
<1>3. SignalInv => SignalHeard
  BY DEF SignalInv
<1> QED BY <1>1, <1>2, <1>3, AssetsInvariant, PTL DEF Spec
=============================================================================
